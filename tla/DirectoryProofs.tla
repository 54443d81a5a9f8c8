-------------------------- MODULE DirectoryProofs --------------------------
(***************************************************************************)
(* Proofs about Directory, for any number of providers and of processes    *)
(* that announce: what the shared file keeps, that discovery finds signed  *)
(* manifests only, and that it finds the freshest of a page.               *)
(***************************************************************************)
EXTENDS Directory, FiniteSetTheorems, SequenceTheorems, WellFoundedInduction, TLAPS

-----------------------------------------------------------------------------
(* The inductive invariant.                                                *)

\* What a process is doing has its two fields; what is loaded, in the file or
\* announced last is an entry per key.
WriterOK ==
    /\ DOMAIN writer = Writers /\ DOMAIN file = Keys /\ DOMAIN acked = Keys
    /\ \A w \in Loading : DOMAIN writer[w].loaded = Keys
    /\ \A w \in Writers : DOMAIN writer[w] = {"m", "loaded"}

\* As long as announcements do not overlap, at most one process is between its
\* load and its replace, what it loaded is the file or, when it could not read
\* it, nothing, and the file holds what every provider announced last, or nothing
\* of it once a process could not read the file.
LoneWriter ==
    /\ past # "mixed" => /\ \A k \in Keys : file[k] \in {acked[k], Nothing}
                         /\ \A v, w \in Loading : v = w
                         /\ \A w \in Loading : writer[w].loaded \in LoadRaw
    /\ past = "serial" => file = acked

FileInv == WriterOK /\ LoneWriter

\* The file is empty at the start, and nobody writes it.
LEMMA InitFile == Init => FileInv
BY DEF Init, FileInv, WriterOK, LoneWriter, Loading, Idle, Empty

\* A process takes up a manifest: it has not loaded the file yet.
LEMMA TakesUp ==
    ASSUME FileInv, NEW w \in Writers, NEW m, writer[w] = Idle,
           AnnounceToDirectory(w, m), UNCHANGED <<file, acked, past>>
    PROVE  FileInv'
<1>1. /\ DOMAIN writer' = Writers
      /\ \A v \in Writers : /\ DOMAIN writer'[v] = {"m", "loaded"}
                            /\ writer'[v].loaded = writer[v].loaded
  BY DEF AnnounceToDirectory, FileInv, WriterOK
<1>2. Loading' = Loading /\ Loading \subseteq Writers
  BY <1>1 DEF Loading
<1>3. WriterOK'
  BY <1>1, <1>2 DEF FileInv, WriterOK
<1> QED
  BY <1>1, <1>2, <1>3 DEF FileInv, LoneWriter, LoadRaw

\* Nothing of the file changes.
LEMMA Elsewhere ==
    ASSUME FileInv, UNCHANGED <<file, writer, acked, past>>
    PROVE  FileInv'
BY DEF FileInv, WriterOK, LoneWriter, LoadRaw, Loading

\* _load_raw: another process between its load and its replace makes the past
\* mixed.
LEMMA LoadStep ==
    ASSUME FileInv, NEW w \in Writers, Load(w)
    PROVE  FileInv'
<1>1. PICK read \in LoadRaw : writer' = [writer EXCEPT ![w].loaded = read]
  BY DEF Load
<1>a. /\ UNCHANGED <<file, acked>> /\ DOMAIN writer' = Writers /\ writer'[w].loaded = read
      /\ \A v \in Writers : /\ DOMAIN writer'[v] = {"m", "loaded"}
                            /\ v # w => writer'[v].loaded = writer[v].loaded
  BY <1>1 DEF Load, FileInv, WriterOK
<1>b. DOMAIN read = Keys
  BY DEF LoadRaw, Empty, FileInv, WriterOK
<1>c. Loading' \subseteq Loading \cup {w} /\ Loading' \subseteq Writers
  BY <1>a DEF Loading
<1>2. /\ WriterOK' /\ UNCHANGED <<file, acked>> /\ writer'[w].loaded = read
      /\ \A v \in Writers : v # w => writer'[v].loaded = writer[v].loaded
  <2>1. ASSUME NEW v \in Loading' PROVE DOMAIN writer'[v].loaded = Keys
    <3>1. CASE v = w
      BY <1>a, <1>b, <3>1
    <3>2. CASE v # w
      BY <1>a, <1>c, <2>1, <3>2 DEF FileInv, WriterOK
    <3> QED
      BY <3>1, <3>2
  <2> QED
    BY <1>a, <2>1 DEF FileInv, WriterOK
<1>3. LoneWriter'
  <2>1. past' # "mixed" => past' = past /\ Loading = {}
    BY DEF Load
  <2>2. Loading = {} => Loading' \subseteq {w}
    BY <1>2 DEF Loading
  <2>3. read \in LoadRaw'
    BY <1>2 DEF LoadRaw
  <2>4. past' = "serial" => past = "serial"
    BY DEF Load
  <2> QED
    BY <1>2, <2>1, <2>2, <2>3, <2>4 DEF FileInv, LoneWriter
<1> QED
  BY <1>2, <1>3 DEF FileInv

\* The entry is set in what was loaded, and announced last.
LEMMA EnteredFacts ==
    ASSUME NEW w \in Writers, Replace(w),
           DOMAIN writer[w].loaded = Keys, DOMAIN acked = Keys,
           \A k \in Keys : writer[w].loaded[k] \in {acked[k], Nothing}
    PROVE  /\ \A k \in Keys : file'[k] \in {acked'[k], Nothing}
           /\ writer[w].loaded = acked => file' = acked'
<1> DEFINE m == writer[w].m
<1>1. /\ file' = [writer[w].loaded EXCEPT ![m.key] = m]
      /\ acked' = [acked EXCEPT ![m.key] = m]
  BY DEF Replace, Entered
<1> HIDE DEF m
<1>2. ASSUME NEW k \in Keys PROVE file'[k] \in {acked'[k], Nothing}
  <2>1. CASE k = m.key
    BY <1>1, <2>1
  <2>2. CASE k # m.key
    BY <1>1, <2>2
  <2> QED
    BY <2>1, <2>2
<1> QED
  BY <1>1, <1>2

\* _write_raw, or its failure: the process no longer has the file loaded.
LEMMA WriteStep ==
    ASSUME FileInv, NEW w \in Writers, Replace(w) \/ WriteFails(w)
    PROVE  FileInv'
<1>a. /\ writer' = [writer EXCEPT ![w] = Idle] /\ w \in Loading
      /\ DOMAIN writer' = Writers /\ \A v \in Writers : DOMAIN writer'[v] = {"m", "loaded"}
  BY DEF Replace, WriteFails, Loading, FileInv, WriterOK, Idle
<1>2. Loading' = Loading \ {w} /\ \A v \in Loading' : writer'[v] = writer[v]
  BY <1>a DEF Loading, FileInv, WriterOK, Idle
<1>b. DOMAIN file' = Keys /\ DOMAIN acked' = Keys
  BY <1>a DEF Replace, WriteFails, Entered, FileInv, WriterOK
<1>1. writer' = [writer EXCEPT ![w] = Idle] /\ w \in Loading /\ WriterOK'
  BY <1>a, <1>2, <1>b DEF FileInv, WriterOK
<1>3. LoneWriter'
  <2> SUFFICES ASSUME past' # "mixed" PROVE LoneWriter'
    BY DEF LoneWriter
  <2>1. /\ past # "mixed" /\ (past' = "serial" => past = "serial")
        /\ past' = "serial" /\ Replace(w) => writer[w].loaded = file
    BY DEF Replace, WriteFails
  <2>2. /\ Loading' = {} /\ writer[w].loaded \in LoadRaw
        /\ \A k \in Keys : file[k] \in {acked[k], Nothing}
        /\ past = "serial" => file = acked
    BY <1>1, <1>2, <2>1 DEF FileInv, LoneWriter
  <2>3. \A k \in Keys : writer[w].loaded[k] \in {acked[k], Nothing}
    BY <2>2 DEF LoadRaw, Empty
  <2>4. /\ \A k \in Keys : file'[k] \in {acked'[k], Nothing}
        /\ past' = "serial" => file' = acked'
    <3>1. CASE Replace(w)
      BY <1>1, <2>1, <2>2, <2>3, <3>1, EnteredFacts DEF FileInv, WriterOK
    <3>2. CASE WriteFails(w)
      BY <2>1, <2>2, <3>2 DEF WriteFails
    <3> QED
      BY <3>1, <3>2
  <2> QED
    BY <2>2, <2>4 DEF LoneWriter
<1> QED
  BY <1>1, <1>3 DEF FileInv

\* Every step keeps the invariant.
LEMMA NextFile == FileInv /\ [Next]_vars => FileInv'
<1> SUFFICES ASSUME FileInv, [Next]_vars PROVE FileInv'
  OBVIOUS
<1>1. CASE UNCHANGED vars
  BY <1>1, Elsewhere DEF vars
<1>2. CASE Tick
  BY <1>2, Elsewhere DEF Tick
<1>3. ASSUME NEW m \in Manifest, NEW w \in Writers, FileAnnounce(w, m)
      PROVE  FileInv'
  BY <1>3, TakesUp DEF FileAnnounce
<1>4. ASSUME NEW m \in Manifest, HttpAnnounce(m) \/ ArweaveAnnounce(m)
      PROVE  FileInv'
  BY <1>4, Elsewhere DEF HttpAnnounce, ArweaveAnnounce
<1>5. ASSUME NEW m \in wire, ServiceTakes(m) \/ PostLost(m)
      PROVE  FileInv'
  BY <1>5, TakesUp, Elsewhere, DirectoryAssumption DEF ServiceTakes, PostLost
<1>6. ASSUME NEW k \in Keys, ForgedPost(k) \/ Tamper(k)
      PROVE  FileInv'
  <2>1. CASE ForgedPost(k)
    BY <2>1, Elsewhere DEF ForgedPost
  <2>2. CASE Tamper(k)
    <3>1. UNCHANGED <<writer, acked>> /\ past' = "mixed" /\ DOMAIN file' = Keys
      BY <2>2 DEF Tamper, Empty, FileInv, WriterOK
    <3>2. Loading' = Loading
      BY <3>1 DEF Loading
    <3>3. LoneWriter'
      BY <3>1 DEF LoneWriter
    <3> QED
      BY <3>1, <3>2, <3>3 DEF FileInv, WriterOK
  <2> QED
    BY <1>6, <2>1, <2>2
<1>7. CASE Next
  BY <1>2, <1>3, <1>4, <1>5, <1>6, <1>7, LoadStep, WriteStep DEF Next
<1> QED
  BY <1>1, <1>7

-----------------------------------------------------------------------------
\* As long as announcements into the file do not overlap and nobody else writes
\* it, the file lists nobody with anything but its last announcement, and lists
\* all who announced unless the file could not be read: for any number of
\* processes, whichever of them fail.
THEOREM AnnouncedIsListedHolds == Spec => []AnnouncedIsListed
<1>1. FileInv => AnnouncedIsListed
  BY DEF FileInv, LoneWriter, AnnouncedIsListed
<1> QED
  BY <1>1, InitFile, NextFile, PTL DEF Spec

-----------------------------------------------------------------------------
(***************************************************************************)
(* Sequences of manifests.                                                 *)
(***************************************************************************)
\* Induction on the natural numbers, for a set of them.
LEMMA NatSet ==
    ASSUME NEW T \in SUBSET Nat, 0 \in T, \A n \in T : n + 1 \in T
    PROVE  T = Nat
<1> DEFINE R == OpToRel(<, Nat)
<1>1. \A U \in SUBSET Nat : U # {} => \E x \in U : \A y \in U : ~(<<y, x>> \in R)
  BY WFMin, NatLessThanWellFounded, Zenon
<1>2. \A x, y \in Nat : y < x => <<y, x>> \in R
  BY DEF OpToRel
<1> HIDE DEF R
<1> SUFFICES ASSUME T # Nat PROVE FALSE
  OBVIOUS
<1>3. PICK x \in Nat \ T : \A y \in Nat \ T : ~(<<y, x>> \in R)
  BY <1>1
<1>4. \A y \in Nat \ T : ~(y < x)
  BY <1>2, <1>3
<1>5. x # 0 /\ x - 1 \in T
  BY <1>4
<1> QED
  BY <1>5

\* The elements of a sequence, by their positions.
LEMMA RangeOf ==
    ASSUME NEW S, NEW s \in Seq(S)
    PROVE  /\ Len(s) \in Nat /\ DOMAIN s = 1..Len(s)
           /\ \A i \in 1..Len(s) : s[i] \in S
           /\ Range(s) = {s[i] : i \in 1..Len(s)} /\ Range(s) \subseteq S
<1>1. Len(s) \in Nat /\ DOMAIN s = 1..Len(s) /\ \A i \in 1..Len(s) : s[i] \in S
  BY LenProperties, ElementOfSeq
<1> QED
  BY <1>1 DEF Range

\* What is appended is the one new element.
LEMMA RangeAppend ==
    ASSUME NEW S, NEW s \in Seq(S), NEW e \in S
    PROVE  Append(s, e) \in Seq(S) /\ Range(Append(s, e)) = Range(s) \cup {e}
<1> DEFINE a == Append(s, e)
<1>1. /\ a \in Seq(S) /\ Len(a) = Len(s) + 1 /\ Len(s) \in Nat
      /\ \A j \in 1..Len(s) : a[j] = s[j]
      /\ a[Len(s) + 1] = e
  BY AppendProperties, LenProperties
<1> HIDE DEF a
<1>2. Range(a) = {a[j] : j \in 1..Len(a)} /\ Range(s) = {s[j] : j \in 1..Len(s)}
  BY <1>1, RangeOf
<1>3. \A j \in 1..Len(a) : j \in 1..Len(s) \/ j = Len(s) + 1
  BY <1>1
<1>4. Len(s) + 1 \in 1..Len(a) /\ \A j \in 1..Len(s) : j \in 1..Len(a)
  BY <1>1
<1> QED
  BY <1>1, <1>2, <1>3, <1>4 DEF a

\* The turns of the loop of Those.
Turns(f, ms, kept, n) ==
    f = [i \in 0..n |-> IF i = 0 THEN <<>>
                        ELSE IF ms[i] \in kept THEN Append(f[i - 1], ms[i]) ELSE f[i - 1]]

\* There are as many as there are entries.
LEMMA TurnsExist ==
    ASSUME NEW ms, NEW kept, NEW n \in Nat
    PROVE  \E f : Turns(f, ms, kept, n)
<1> DEFINE T == {m \in Nat : \E f : Turns(f, ms, kept, m)}
<1>1. 0 \in T
  <2>1. Turns([i \in 0..0 |-> <<>>], ms, kept, 0)
    BY DEF Turns
  <2> QED
    BY <2>1
<1>2. ASSUME NEW m \in T PROVE m + 1 \in T
  <2>1. PICK h : Turns(h, ms, kept, m)
    OBVIOUS
  <2>2. m \in Nat
    OBVIOUS
  <2> DEFINE f == [i \in 0..(m + 1) |->
                      IF i = 0 THEN <<>>
                      ELSE IF ms[i] \in kept THEN Append(h[i - 1], ms[i]) ELSE h[i - 1]]
  <2>3. \A i \in 0..m : f[i] = h[i]
    <3> SUFFICES ASSUME NEW i \in 0..m PROVE f[i] = h[i]
      OBVIOUS
    <3>1. i \in 0..(m + 1)
      BY <2>2
    <3> DEFINE e == IF i = 0 THEN <<>>
                    ELSE IF ms[i] \in kept THEN Append(h[i - 1], ms[i]) ELSE h[i - 1]
    <3>2. f[i] = e
      BY <3>1
    <3>3. h[i] = e
      BY <2>1 DEF Turns
    <3> QED
      BY <3>1, <3>2, <3>3
  <2>4. \A i \in 0..(m + 1) : i # 0 => i - 1 \in 0..m
    BY <2>2
  <2>5. \A i \in 0..(m + 1) : i # 0 => f[i - 1] = h[i - 1]
    BY <2>3, <2>4
  <2>6. Turns(f, ms, kept, m + 1)
    BY <2>5 DEF Turns
  <2> HIDE DEF f
  <2> QED
    BY <2>2, <2>6 DEF T
<1>3. T = Nat
  <2> HIDE DEF T
  <2> QED
    BY <1>1, <1>2, NatSet DEF T
<1> QED
  BY <1>3

\* It keeps the entries that are not skipped, and nothing else.
LEMMA ThoseFacts ==
    ASSUME NEW ms \in Seq(AnyManifest), NEW kept
    PROVE  /\ Those(ms, kept) \in Seq(AnyManifest)
           /\ Range(Those(ms, kept)) = Range(ms) \cap kept
<1> DEFINE n == Len(ms)
           First(i) == {ms[j] : j \in 1..i}
           Took(i, s) == s \in Seq(AnyManifest) /\ Range(s) = First(i) \cap kept
<1>0. n \in Nat /\ \A i \in 1..n : ms[i] \in AnyManifest
  BY RangeOf
<1>1. PICK f : Turns(f, ms, kept, n) /\ Those(ms, kept) = f[n]
  <2>1. Those(ms, kept) = (CHOOSE f : Turns(f, ms, kept, n))[n]
    BY DEF Those, Turns
  <2>2. \E f : Turns(f, ms, kept, n)
    BY <1>0, TurnsExist
  <2> QED
    BY <2>1, <2>2
<1> DEFINE T == {i \in Nat : i <= n => Took(i, f[i])}
<1>2. 0 \in T
  <2>1. f[0] = <<>>
    BY <1>0, <1>1 DEF Turns
  <2>2. <<>> \in Seq(AnyManifest) /\ Range(<<>>) = {}
    BY EmptySeq DEF Range
  <2>3. First(0) = {}
    OBVIOUS
  <2> HIDE DEF First
  <2> QED
    BY <2>1, <2>2, <2>3
<1>3. ASSUME NEW i \in T PROVE i + 1 \in T
  <2>0. i \in Nat /\ (i <= n => Took(i, f[i]))
    OBVIOUS
  <2>1. ASSUME i + 1 <= n PROVE Took(i + 1, f[i + 1])
    <3> DEFINE s == f[i]
               m == ms[i + 1]
    <3>1. Took(i, s) /\ i \in 0..n /\ i + 1 \in 1..n /\ m \in AnyManifest
      BY <1>0, <2>0, <2>1
    <3>2. f[i + 1] = IF m \in kept THEN Append(s, m) ELSE s
      <4>1. \A j \in 0..n : j # 0 =>
                f[j] = IF ms[j] \in kept THEN Append(f[j - 1], ms[j]) ELSE f[j - 1]
        BY <1>1 DEF Turns
      <4>2. i + 1 \in 0..n /\ i + 1 # 0 /\ (i + 1) - 1 = i
        BY <1>0, <2>0, <2>1
      <4> QED
        BY <4>1, <4>2
    <3>3. First(i + 1) = First(i) \cup {m}
      BY <2>0
    <3> HIDE DEF First, s, m
    <3>4. Append(s, m) \in Seq(AnyManifest) /\ Range(Append(s, m)) = Range(s) \cup {m}
      BY <3>1, RangeAppend
    <3> QED
      BY <3>1, <3>2, <3>3, <3>4
  <2> HIDE DEF Took
  <2> QED
    BY <2>0, <2>1
<1>4. T = Nat
  <2> HIDE DEF T
  <2> QED
    BY <1>2, <1>3, NatSet DEF T
<1>5. Took(n, f[n])
  <2> HIDE DEF Took
  <2>1. n \in T
    BY <1>0, <1>4
  <2> QED
    BY <1>0, <2>1
<1>6. Range(ms) = First(n)
  BY RangeOf
<1> QED
  BY <1>1, <1>5, <1>6

-----------------------------------------------------------------------------
(***************************************************************************)
(* _filter_and_dedupe.                                                     *)
(***************************************************************************)
\* The loop over a set of positions, the last one taken last.
Loop(f, ms, model, D) ==
    f = [s \in SUBSET D |-> IF s = {} THEN Empty
                            ELSE KeepFreshest(f[s \ {Max(s)}], ms[Max(s)], model)]

\* It is defined for the positions of every list.
LEMMA LoopExists ==
    ASSUME NEW ms, NEW model, NEW n \in Nat
    PROVE  \E f : Loop(f, ms, model, 1..n)
<1> DEFINE T == {m \in Nat : \E f : Loop(f, ms, model, 1..m)}
<1>1. 0 \in T
  <2> DEFINE f == [s \in SUBSET (1..0) |-> Empty]
  <2>1. Loop(f, ms, model, 1..0)
    <3>1. \A s \in SUBSET (1..0) : s = {}
      OBVIOUS
    <3> QED
      BY <3>1 DEF Loop
  <2> QED
    BY <2>1
<1>2. ASSUME NEW m \in T PROVE m + 1 \in T
  <2>1. PICK h : Loop(h, ms, model, 1..m)
    OBVIOUS
  <2>2. m \in Nat
    OBVIOUS
  <2> DEFINE D == 1..(m + 1)
             f == [s \in SUBSET D |->
                      IF m + 1 \in s THEN KeepFreshest(h[s \ {m + 1}], ms[m + 1], model) ELSE h[s]]
  <2> HIDE DEF T
  <2>3. \A s \in SUBSET (1..m) : s \in SUBSET D /\ f[s] = h[s]
    <3>1. \A s \in SUBSET (1..m) : s \in SUBSET D /\ m + 1 \notin s
      BY <2>2
    <3> QED
      BY <3>1
  <2>4. \A s \in SUBSET D : m + 1 \notin s => s \in SUBSET (1..m)
    BY <2>2
  <2>5. \A s \in SUBSET D : m + 1 \in s => Max(s) = m + 1 /\ s \ {m + 1} \in SUBSET (1..m)
    <3> SUFFICES ASSUME NEW s \in SUBSET D, m + 1 \in s
                 PROVE  Max(s) = m + 1 /\ s \ {m + 1} \in SUBSET (1..m)
      OBVIOUS
    <3>1. \A x \in s : x \in Nat /\ x <= m + 1
      BY <2>2
    <3>2. \A y \in s : m + 1 >= y
      BY <2>2, <3>1
    <3>3. \A x \in s : (\A y \in s : x >= y) => x = m + 1
      BY <2>2, <3>1
    <3>4. Max(s) = m + 1
      BY <3>2, <3>3 DEF Max
    <3>5. s \ {m + 1} \in SUBSET (1..m)
      BY <2>2
    <3> QED
      BY <3>4, <3>5
  <2>6. \A s \in SUBSET (1..m) : s # {} => s \ {Max(s)} \in SUBSET (1..m)
    OBVIOUS
  <2>7. ASSUME NEW s \in SUBSET D
        PROVE  f[s] = IF s = {} THEN Empty ELSE KeepFreshest(f[s \ {Max(s)}], ms[Max(s)], model)
    <3>1. CASE m + 1 \in s
      <4>1. f[s] = KeepFreshest(h[s \ {m + 1}], ms[m + 1], model)
        BY <3>1
      <4>2. f[s \ {m + 1}] = h[s \ {m + 1}] /\ Max(s) = m + 1
        BY <2>3, <2>5, <3>1
      <4> QED
        BY <3>1, <4>1, <4>2
    <3>2. CASE m + 1 \notin s
      <4>1. s \in SUBSET (1..m) /\ f[s] = h[s]
        BY <2>3, <2>4, <3>2
      <4>2. h[s] = IF s = {} THEN Empty ELSE KeepFreshest(h[s \ {Max(s)}], ms[Max(s)], model)
        BY <2>1, <4>1 DEF Loop
      <4>3. s # {} => f[s \ {Max(s)}] = h[s \ {Max(s)}]
        BY <2>3, <2>6, <4>1
      <4> QED
        BY <4>1, <4>2, <4>3
    <3> QED
      BY <3>1, <3>2
  <2>8. f = [s \in SUBSET D |-> f[s]]
    OBVIOUS
  <2>9. Loop(f, ms, model, D)
    <3> HIDE DEF f
    <3> QED
      BY <2>7, <2>8 DEF Loop
  <2> HIDE DEF f
  <2> QED
    BY <2>2, <2>9 DEF T
<1>3. T = Nat
  <2> HIDE DEF T
  <2> QED
    BY <1>1, <1>2, NatSet DEF T
<1> QED
  BY <1>3

\* best has, for each key, a freshest of the manifests of S that serve the
\* model, and has one if there is one.
Best(best, S, model) ==
    /\ best \in [Keys -> S \cup {Nothing}]
    /\ \A k \in Keys :
           IF best[k] = Nothing THEN \A m \in S : Serves(m, model) => m.key # k
           ELSE /\ best[k] \in S /\ Serves(best[k], model) /\ best[k].key = k
                /\ \A m \in S : Serves(m, model) /\ m.key = k => m.at <= best[k].at

\* One turn considers one more manifest.
LEMMA KeepIsBest ==
    ASSUME NEW S \in SUBSET AnyManifest, NEW best, NEW m \in AnyManifest, NEW model, Best(best, S, model)
    PROVE  Best(KeepFreshest(best, m, model), S \cup {m}, model)
<1> DEFINE new == KeepFreshest(best, m, model)
<1>1. /\ m.key \in Keys /\ m # Nothing /\ m.at \in Nat
      /\ \A n \in S : n.key \in Keys /\ n # Nothing /\ n.at \in Nat
  BY ManifestAssumption, DirectoryAssumption DEF AnyManifest
<1>2. CASE Serves(m, model) /\ (best[m.key] = Nothing \/ m.at > best[m.key].at)
  <2>1. new = [best EXCEPT ![m.key] = m]
    BY <1>2 DEF KeepFreshest
  <2>2. new \in [Keys -> (S \cup {m}) \cup {Nothing}] /\ new[m.key] = m
    BY <1>1, <2>1 DEF Best
  <2>3. \A k \in Keys : k # m.key => new[k] = best[k]
    BY <1>1, <2>1 DEF Best
  <2> HIDE DEF new
  <2>4. ASSUME NEW n \in S, Serves(n, model), n.key = m.key PROVE n.at <= m.at
    <3>1. best[m.key] # Nothing /\ best[m.key] \in S /\ n.at <= best[m.key].at
      BY <1>1, <2>4 DEF Best
    <3> QED
      BY <1>1, <1>2, <3>1
  <2>5. ASSUME NEW k \in Keys, k # m.key, new[k] = Nothing, NEW n \in S \cup {m}, Serves(n, model)
        PROVE  n.key # k
    BY <2>3, <2>5 DEF Best
  <2>6. ASSUME NEW k \in Keys, k # m.key, new[k] # Nothing
        PROVE  /\ new[k] \in S /\ Serves(new[k], model) /\ new[k].key = k
               /\ \A n \in S \cup {m} : Serves(n, model) /\ n.key = k => n.at <= new[k].at
    BY <2>3, <2>6 DEF Best
  <2>7. \A n \in S \cup {m} : Serves(n, model) /\ n.key = m.key => n.at <= m.at
    BY <1>1, <2>4
  <2> QED
    BY <1>1, <1>2, <2>2, <2>5, <2>6, <2>7 DEF Best, new
<1>3. CASE ~(Serves(m, model) /\ (best[m.key] = Nothing \/ m.at > best[m.key].at))
  <2>1. new = best
    BY <1>3 DEF KeepFreshest
  <2> HIDE DEF new
  <2>2. best \in [Keys -> (S \cup {m}) \cup {Nothing}]
    BY DEF Best
  <2>3. ASSUME NEW k \in Keys, best[k] = Nothing, NEW n \in S \cup {m}, Serves(n, model)
        PROVE  n.key # k
    BY <1>3, <2>3 DEF Best
  <2>4. ASSUME NEW k \in Keys, best[k] # Nothing, NEW n \in S \cup {m}, Serves(n, model), n.key = k
        PROVE  n.at <= best[k].at
    <3>1. best[k] \in S
      BY <2>4 DEF Best
    <3> QED
      BY <1>1, <1>3, <2>4, <3>1 DEF Best
  <2>5. \A k \in Keys : best[k] # Nothing =>
            best[k] \in S /\ Serves(best[k], model) /\ best[k].key = k
    BY DEF Best
  <2> QED
    BY <2>1, <2>2, <2>3, <2>4, <2>5 DEF Best, new
<1> QED
  BY <1>2, <1>3

\* The loop finds for each key a freshest manifest.
LEMMA DedupeIsBest ==
    ASSUME NEW ms \in Seq(AnyManifest), NEW model
    PROVE  Best(FilterAndDedupe(ms, model), Range(ms), model)
<1> DEFINE n == Len(ms)
           First(i) == {ms[j] : j \in 1..i}
<1>0. n \in Nat /\ DOMAIN ms = 1..n /\ \A i \in 1..n : ms[i] \in AnyManifest
  BY RangeOf
<1>1. PICK f : Loop(f, ms, model, 1..n) /\ FilterAndDedupe(ms, model) = f[1..n]
  <2>1. FilterAndDedupe(ms, model) = (CHOOSE f : Loop(f, ms, model, DOMAIN ms))[DOMAIN ms]
    BY DEF FilterAndDedupe, FoldLeft, MapThenFoldSet, Loop
  <2>2. \E f : Loop(f, ms, model, 1..n)
    BY <1>0, LoopExists
  <2> QED
    BY <1>0, <2>1, <2>2
<1>2. f[{}] = Empty
  BY <1>1 DEF Loop
<1>3. ASSUME NEW i \in Nat, i + 1 <= n
      PROVE  f[1..(i + 1)] = KeepFreshest(f[1..i], ms[i + 1], model)
  <2> DEFINE s == 1..(i + 1)
  <2>1. s \in SUBSET (1..n) /\ s # {}
    <3> HIDE DEF n
    <3>1. 1 \in s
      OBVIOUS
    <3>2. \A x \in s : x \in 1..n
      BY <1>0, <1>3
    <3> QED
      BY <3>1, <3>2
  <2>2. Max(s) = i + 1
    <3>1. i + 1 \in s /\ \A y \in s : i + 1 >= y
      OBVIOUS
    <3>2. \A x \in s : (\A y \in s : x >= y) => x = i + 1
      BY <3>1
    <3> HIDE DEF s
    <3> QED
      BY <3>1, <3>2 DEF Max
  <2>3. s \ {i + 1} = 1..i
    OBVIOUS
  <2>4. f[s] = KeepFreshest(f[s \ {Max(s)}], ms[Max(s)], model)
    <3> HIDE DEF s
    <3> QED
      BY <1>1, <2>1 DEF Loop
  <2> HIDE DEF s
  <2> QED
    BY <2>2, <2>3, <2>4 DEF s
<1> HIDE DEF n
<1> DEFINE T == {i \in Nat : i <= n => Best(f[1..i], First(i), model)}
<1>4. 0 \in T
  <2>1. 1..0 = {} /\ First(0) = {}
    OBVIOUS
  <2>2. Best(Empty, {}, model)
    BY DEF Best, Empty
  <2> HIDE DEF First
  <2> QED
    BY <1>2, <2>1, <2>2
<1>5. ASSUME NEW i \in T PROVE i + 1 \in T
  <2>0. i \in Nat /\ (i <= n => Best(f[1..i], First(i), model))
    OBVIOUS
  <2>1. ASSUME i + 1 <= n PROVE Best(f[1..(i + 1)], First(i + 1), model)
    <3>1. /\ Best(f[1..i], First(i), model) /\ ms[i + 1] \in AnyManifest
          /\ First(i) \subseteq AnyManifest
          /\ f[1..(i + 1)] = KeepFreshest(f[1..i], ms[i + 1], model)
      BY <1>0, <1>3, <2>0, <2>1
    <3>2. First(i + 1) = First(i) \cup {ms[i + 1]}
      BY <2>0
    <3> HIDE DEF First
    <3> QED
      BY <3>1, <3>2, KeepIsBest
  <2> QED
    BY <2>0, <2>1
<1>6. T = Nat
  <2> HIDE DEF T
  <2> QED
    BY <1>4, <1>5, NatSet DEF T
<1>7. Best(f[1..n], First(n), model)
  <2>1. n \in T
    BY <1>0, <1>6
  <2> QED
    BY <1>0, <2>1
<1>8. Range(ms) = First(n)
  BY RangeOf DEF n
<1> QED
  BY <1>1, <1>7, <1>8

\* discover finds for each key a freshest of the manifests that verify.
LEMMA DiscoverIsBest ==
    ASSUME NEW ms \in Seq(AnyManifest), NEW model
    PROVE  Best(Discover(ms, model), {m \in Range(ms) : Routable(m)}, model)
<1> DEFINE routable == {m \in Range(ms) : Routable(m)}
<1>1. Those(ms, routable) \in Seq(AnyManifest) /\ Range(Those(ms, routable)) = routable
  BY ThoseFacts
<1> HIDE DEF routable
<1>2. Best(FilterAndDedupe(Those(ms, routable), model), routable, model)
  BY <1>1, DedupeIsBest
<1> QED
  BY <1>2 DEF Discover, routable

-----------------------------------------------------------------------------
(***************************************************************************)
(* What directories hold.                                                  *)
(***************************************************************************)
\* Every manifest that exists: a node signed it, or somebody forged it.
Given == signed \cup {Forged(k) : k \in Keys}

\* Nothing else is posted, anchored, announced, loaded or in the file.
Provenance ==
    /\ signed \subseteq Manifest /\ wire \subseteq Given
    /\ chain \in Seq(AnyManifest) /\ Range(chain) \subseteq Given
    /\ file \in [Keys -> Given \cup {Nothing}]
    /\ \A w \in Writers :
           /\ writer[w].m \in Given \cup {Nothing}
           /\ writer[w].loaded # Nothing =>
                  /\ writer[w].m # Nothing
                  /\ writer[w].loaded \in [Keys -> Given \cup {Nothing}]

\* A manifest is one of those there can be.
LEMMA GivenAreManifests ==
    ASSUME signed \subseteq Manifest
    PROVE  /\ Given \subseteq AnyManifest /\ Nothing \notin Given
           /\ \A m \in Given : m.key \in Keys /\ (m.valid => m \in signed)
<1>1. Manifest \subseteq AnyManifest
  <2> SUFFICES ASSUME NEW m \in Manifest PROVE m \in AnyManifest
    OBVIOUS
  <2>1. m.models \subseteq Models
    BY DEF Manifest
  <2> QED
    BY <2>1 DEF Manifest, AnyManifest
<1>2. \A k \in Keys : Forged(k) \in AnyManifest /\ ~Forged(k).valid
  BY DirectoryAssumption DEF Forged, AnyManifest
<1>3. \A m \in AnyManifest : m.key \in Keys
  BY DEF AnyManifest
<1> QED
  BY <1>1, <1>2, <1>3, ManifestAssumption DEF Given

\* At the start there is nothing.
LEMMA InitProvenance == Init => Provenance
<1> SUFFICES ASSUME Init PROVE Provenance
  OBVIOUS
<1>1. <<>> \in Seq(AnyManifest) /\ Range(<<>>) = {}
  BY EmptySeq DEF Range
<1>2. Empty \in [Keys -> Given \cup {Nothing}]
  BY DEF Empty
<1>3. \A w \in Writers : writer[w].m = Nothing /\ writer[w].loaded = Nothing
  BY DEF Init, Idle
<1> QED
  BY <1>1, <1>2, <1>3 DEF Init, Provenance

\* What a node signs is given from then on.
LEMMA SignStep ==
    ASSUME Provenance, NEW m \in Manifest, Sign(m)
    PROVE  /\ signed' \subseteq Manifest /\ Given \subseteq Given' /\ m \in Given'
           /\ m \in AnyManifest
<1>1. signed' = signed \cup {m} /\ signed' \subseteq Manifest
  BY DEF Sign, Provenance
<1>2. Given \subseteq Given' /\ m \in Given'
  BY <1>1 DEF Given, Forged
<1>3. m.models \subseteq Models
  BY DEF Manifest
<1> QED
  BY <1>1, <1>2, <1>3 DEF Manifest, AnyManifest

\* More manifests are given, and everything stays where it was.
LEMMA StaysGiven ==
    ASSUME Provenance, signed' \subseteq Manifest, Given \subseteq Given',
           wire' \subseteq Given',
           chain' \in Seq(AnyManifest), Range(chain') \subseteq Given',
           file' \in [Keys -> Given' \cup {Nothing}],
           \A w \in Writers :
               \/ writer'[w] = writer[w]
               \/ writer'[w].loaded = Nothing /\ writer'[w].m \in Given' \cup {Nothing}
               \/ /\ writer'[w].m = writer[w].m /\ writer[w].m # Nothing
                  /\ writer'[w].loaded \in [Keys -> Given' \cup {Nothing}]
    PROVE  Provenance'
<1> DEFINE Fits(entry) == /\ entry.m \in Given' \cup {Nothing}
                          /\ entry.loaded # Nothing =>
                                 /\ entry.m # Nothing
                                 /\ entry.loaded \in [Keys -> Given' \cup {Nothing}]
<1>1. ASSUME NEW w \in Writers PROVE Fits(writer'[w])
  <2>1. /\ writer[w].m \in Given' \cup {Nothing}
        /\ writer[w].loaded # Nothing =>
               writer[w].m # Nothing /\ writer[w].loaded \in [Keys -> Given' \cup {Nothing}]
    BY DEF Provenance
  <2> QED
    BY <2>1
<1> QED
  BY <1>1 DEF Provenance

\* A process is given something to announce.
LEMMA TakesGiven ==
    ASSUME WriterOK, NEW w \in Writers, NEW m, writer[w] = Idle, AnnounceToDirectory(w, m)
    PROVE  \A v \in Writers : \/ writer'[v] = writer[v]
                              \/ writer'[v].loaded = Nothing /\ writer'[v].m = m
BY DEF AnnounceToDirectory, WriterOK, Idle

\* Every step keeps the provenance of what directories hold.
LEMMA NextProvenance == FileInv /\ Provenance /\ [Next]_vars => Provenance'
<1> SUFFICES ASSUME FileInv, Provenance, [Next]_vars PROVE Provenance'
  OBVIOUS
<1>0. /\ signed \subseteq Manifest /\ wire \subseteq Given
      /\ chain \in Seq(AnyManifest) /\ Range(chain) \subseteq Given
      /\ file \in [Keys -> Given \cup {Nothing}] /\ WriterOK
  BY DEF Provenance, FileInv
<1>a. Given \subseteq AnyManifest /\ \A k \in Keys : Forged(k) \in Given
  BY <1>0, GivenAreManifests DEF Given
<1>b. signed' = signed => Given' = Given
  BY DEF Given, Forged
<1>c. Empty \in [Keys -> Given \cup {Nothing}]
  BY DEF Empty
<1>1. CASE UNCHANGED vars
  BY <1>0, <1>1, <1>b, StaysGiven DEF vars
<1>2. CASE Tick
  BY <1>0, <1>2, <1>b, StaysGiven DEF Tick
<1>3. ASSUME NEW m \in Manifest, NEW w \in Writers, FileAnnounce(w, m)
      PROVE  Provenance'
  <2>1. /\ signed' \subseteq Manifest /\ Given \subseteq Given' /\ m \in Given'
        /\ UNCHANGED <<file, wire, chain>>
    BY <1>3, SignStep DEF FileAnnounce
  <2>2. \A v \in Writers : \/ writer'[v] = writer[v]
                           \/ writer'[v].loaded = Nothing /\ writer'[v].m = m
    BY <1>0, <1>3, TakesGiven DEF FileAnnounce
  <2>3. file' \in [Keys -> Given' \cup {Nothing}]
    BY <1>0, <2>1
  <2> QED
    BY <1>0, <2>1, <2>2, <2>3, StaysGiven
<1>4. ASSUME NEW m \in Manifest, HttpAnnounce(m) \/ ArweaveAnnounce(m)
      PROVE  Provenance'
  <2>1. /\ signed' \subseteq Manifest /\ Given \subseteq Given' /\ m \in Given' /\ m \in AnyManifest
        /\ UNCHANGED <<file, writer>>
    BY <1>4, SignStep DEF HttpAnnounce, ArweaveAnnounce
  <2>2. wire' \subseteq Given'
    BY <1>0, <1>4, <2>1 DEF HttpAnnounce, ArweaveAnnounce
  <2>3. chain' \in {Append(chain, m), chain}
    BY <1>4 DEF HttpAnnounce, ArweaveAnnounce, Put
  <2>4. chain' \in Seq(AnyManifest) /\ Range(chain') \subseteq Given'
    <3>1. /\ Append(chain, m) \in Seq(AnyManifest)
          /\ Range(Append(chain, m)) = Range(chain) \cup {m}
      BY <1>0, <2>1, RangeAppend
    <3> HIDE DEF Given
    <3> QED
      BY <1>0, <2>1, <2>3, <3>1
  <2>5. file' \in [Keys -> Given' \cup {Nothing}]
    BY <1>0, <2>1
  <2> QED
    BY <2>1, <2>2, <2>4, <2>5, StaysGiven
<1>5. ASSUME NEW m \in wire, ServiceTakes(m)
      PROVE  Provenance'
  <2>1. /\ signed' = signed /\ Given' = Given /\ m \in Given /\ wire' \subseteq Given
        /\ UNCHANGED <<file, chain>>
    BY <1>0, <1>5, <1>b DEF ServiceTakes
  <2>2. \A v \in Writers : \/ writer'[v] = writer[v]
                           \/ writer'[v].loaded = Nothing /\ writer'[v].m = m
    BY <1>0, <1>5, TakesGiven, DirectoryAssumption DEF ServiceTakes
  <2> QED
    BY <1>0, <2>1, <2>2, StaysGiven
<1>6. ASSUME NEW m \in wire, PostLost(m)
      PROVE  Provenance'
  BY <1>0, <1>6, <1>b, StaysGiven DEF PostLost
<1>7. ASSUME NEW w \in Writers, Load(w)
      PROVE  Provenance'
  <2>1. /\ signed' = signed /\ Given' = Given /\ UNCHANGED <<file, wire, chain>>
    BY <1>7, <1>b DEF Load
  <2>2. \A v \in Writers : \/ writer'[v] = writer[v]
                           \/ /\ writer'[v].m = writer[v].m /\ writer[v].m # Nothing
                              /\ writer'[v].loaded \in LoadRaw
    BY <1>0, <1>7 DEF Load, WriterOK
  <2>3. \A read \in LoadRaw : read \in [Keys -> Given \cup {Nothing}]
    BY <1>0, <1>c DEF LoadRaw
  <2> QED
    BY <1>0, <2>1, <2>2, <2>3, StaysGiven
<1>8. ASSUME NEW w \in Writers, Replace(w) \/ WriteFails(w)
      PROVE  Provenance'
  <2>1. /\ signed' = signed /\ Given' = Given /\ UNCHANGED <<wire, chain>>
        /\ writer' = [writer EXCEPT ![w] = Idle]
    BY <1>8, <1>b DEF Replace, WriteFails
  <2>2. \A v \in Writers : \/ writer'[v] = writer[v]
                           \/ writer'[v].loaded = Nothing /\ writer'[v].m = Nothing
    BY <1>0, <2>1 DEF WriterOK, Idle
  <2>3. Entered(w) \in [Keys -> Given \cup {Nothing}] \/ writer[w].loaded = Nothing
    BY DEF Provenance, Entered
  <2>4. file' \in [Keys -> Given \cup {Nothing}]
    BY <1>0, <1>8, <2>3 DEF Replace, WriteFails
  <2> QED
    BY <1>0, <2>1, <2>2, <2>4, StaysGiven
<1>9. ASSUME NEW k \in Keys, ForgedPost(k)
      PROVE  Provenance'
  <2>1. /\ signed' = signed /\ Given' = Given /\ UNCHANGED <<file, writer>>
        /\ wire' \subseteq Given
        /\ chain' \in {Append(chain, Forged(k)), chain}
    BY <1>0, <1>9, <1>a, <1>b DEF ForgedPost
  <2>2. chain' \in Seq(AnyManifest) /\ Range(chain') \subseteq Given
    <3> DEFINE m == Forged(k)
    <3>0. m \in Given /\ m \in AnyManifest /\ chain' \in {Append(chain, m), chain}
      BY <1>a, <2>1
    <3> HIDE DEF m
    <3>1. Append(chain, m) \in Seq(AnyManifest) /\ Range(Append(chain, m)) = Range(chain) \cup {m}
      BY <1>0, <3>0, RangeAppend
    <3> QED
      BY <1>0, <3>0, <3>1
  <2> QED
    BY <1>0, <2>1, <2>2, StaysGiven
<1>10. ASSUME NEW k \in Keys, Tamper(k)
       PROVE  Provenance'
  <2>1. /\ signed' = signed /\ Given' = Given /\ UNCHANGED <<wire, chain, writer>>
        /\ file' \in [Keys -> Given \cup {Nothing}]
    BY <1>0, <1>10, <1>a, <1>b, <1>c DEF Tamper
  <2> QED
    BY <1>0, <2>1, StaysGiven
<1> QED
  BY <1>1, <1>2, <1>3, <1>4, <1>5, <1>6, <1>7, <1>8, <1>9, <1>10 DEF Next

-----------------------------------------------------------------------------
(***************************************************************************)
(* What a router is given.                                                 *)
(***************************************************************************)
\* The entries of a directory, as a list.
LEMMA EntriesOf ==
    ASSUME NEW S \in SUBSET AnyManifest, NEW g \in [Keys -> S \cup {Nothing}]
    PROVE  LET entries == SetToSeq({g[k] : k \in Keys} \ {Nothing})
           IN  entries \in Seq(AnyManifest) /\ Range(entries) \subseteq S
<1> DEFINE all == {g[k] : k \in Keys}
           E == all \ {Nothing}
           n == Cardinality(E)
<1>1. g \in Surjection(Keys, all)
  BY DEF Surjection
<1>2. IsFiniteSet(all)
  BY <1>1, FS_Surjection, DirectoryAssumption
<1>3. IsFiniteSet(E) /\ E \subseteq S
  BY <1>2, FS_Subset
<1> HIDE DEF E
<1>4. n \in Nat /\ ExistsBijection(1..n, E)
  BY <1>3, FS_CardinalityType
<1>5. \E f \in [1..n -> E] : IsInjective(f)
  BY <1>4 DEF ExistsBijection, Bijection, Injection
<1> DEFINE s == SetToSeq(E)
<1>6. s \in [1..n -> E]
  BY <1>5 DEF SetToSeq
<1> HIDE DEF s, n
<1>7. s \in Seq(E)
  BY <1>4, <1>6
<1>8. s \in Seq(AnyManifest) /\ Range(s) \subseteq S
  BY <1>3, <1>7, SeqMonotonic, RangeOf
<1> QED
  BY <1>8 DEF s, E

\* A page is of transactions of the chain.
LEMMA PageOfChain ==
    ASSUME chain \in Seq(AnyManifest)
    PROVE  Page \in Seq(AnyManifest) /\ Range(Page) \subseteq Range(chain)
<1> DEFINE S == Range(chain)
           n == Len(chain)
           r == Reverse(chain)
           last == IF n < PageSize THEN n ELSE PageSize
<1>1. n \in Nat /\ (\A i \in 1..n : chain[i] \in S) /\ S \subseteq AnyManifest
  BY RangeOf
<1>2. last \in Nat /\ last <= n
  BY <1>1, DirectoryAssumption
<1>3. \A i \in 1..last : r[i] \in S
  <2> SUFFICES ASSUME NEW i \in 1..last PROVE r[i] \in S
    OBVIOUS
  <2> HIDE DEF last, S
  <2>1. i \in 1..n /\ (n - i) + 1 \in 1..n
    BY <1>1, <1>2
  <2>2. r[i] = chain[(n - i) + 1]
    BY <2>1 DEF Reverse
  <2> QED
    BY <1>1, <2>1, <2>2
<1> HIDE DEF r, S, last
<1>4. SubSeq(r, 1, last) \in Seq(S)
  BY <1>2, <1>3, SubSeqProperties
<1>5. Page = SubSeq(r, 1, last)
  BY DEF Page, r, last
<1>6. Page \in Seq(S)
  BY <1>4, <1>5
<1> QED
  BY <1>1, <1>6, SeqMonotonic, RangeOf DEF S

\* What is found of manifests that exist was signed, with its endpoint, by the
\* provider it is found for.
LEMMA FoundOfGiven ==
    ASSUME Provenance, NEW ms \in Seq(AnyManifest), Range(ms) \subseteq Given, NEW model
    PROVE  /\ Discover(ms, model) \in [Keys -> Given \cup {Nothing}]
           /\ \A k \in Keys : Discover(ms, model)[k] # Nothing =>
                  /\ Discover(ms, model)[k] \in signed
                  /\ Discover(ms, model)[k].key = k /\ Discover(ms, model)[k].hasUri
<1> DEFINE f == Discover(ms, model)
<1>1. Best(f, {m \in Range(ms) : Routable(m)}, model)
  BY DiscoverIsBest
<1>2. \A m \in Given : m.valid => m \in signed
  BY GivenAreManifests DEF Provenance
<1> HIDE DEF f
<1>3. f \in [Keys -> Given \cup {Nothing}]
  BY <1>1 DEF Best
<1>4. ASSUME NEW k \in Keys, f[k] # Nothing
      PROVE  f[k] \in signed /\ f[k].key = k /\ f[k].hasUri
  <2>1. f[k] \in Range(ms) /\ Routable(f[k]) /\ f[k].key = k
    BY <1>1, <1>4 DEF Best
  <2> QED
    BY <1>2, <2>1 DEF Routable
<1> QED
  BY <1>3, <1>4 DEF f

\* A router is only given manifests their providers signed, with the endpoint
\* they signed: from the file, the service, the chain, or a relay that answers
\* with anything.
THEOREM FoundIsSignedHolds == Spec => []FoundIsSigned
<1>1. Provenance => FoundIsSigned
  <2> SUFFICES ASSUME Provenance PROVE FoundIsSigned
    OBVIOUS
  <2>0. Given \subseteq AnyManifest
    BY GivenAreManifests DEF Provenance
  <2>1. ASSUME NEW ms \in Seq(AnyManifest), Range(ms) \subseteq Given, NEW model
        PROVE  Authentic(Discover(ms, model)) /\ Discover(ms, model) \in [Keys -> Given \cup {Nothing}]
    BY <2>1, FoundOfGiven DEF Authentic
  <2>2. \A read \in LoadRaw : Entries(read) \in Seq(AnyManifest) /\ Range(Entries(read)) \subseteq Given
    <3>1. \A read \in LoadRaw : read \in [Keys -> Given \cup {Nothing}]
      BY DEF Provenance, LoadRaw, Empty
    <3> QED
      BY <2>0, <3>1, EntriesOf DEF Entries
  <2>3. ASSUME NEW read \in LoadRaw, NEW model
        PROVE  /\ Authentic(FileDiscover(read, model))
               /\ FileDiscover(read, model) \in [Keys -> Given \cup {Nothing}]
    BY <2>1, <2>2 DEF FileDiscover
  <2>4. ASSUME NEW read \in LoadRaw, NEW model PROVE Authentic(HttpDiscover(read, model))
    <3> DEFINE f == FileDiscover(read, model)
    <3>1. f \in [Keys -> Given \cup {Nothing}]
      BY <2>3
    <3> HIDE DEF f
    <3>2. Entries(f) \in Seq(AnyManifest) /\ Range(Entries(f)) \subseteq Given
      BY <2>0, <3>1, EntriesOf DEF Entries
    <3>3. Authentic(Discover(Entries(f), model))
      BY <2>1, <3>2
    <3> QED
      BY <3>3 DEF HttpDiscover, Providers, f
  <2>5. ASSUME NEW model PROVE Authentic(ArweaveDiscover(model, {}))
    <3>1. Page \in Seq(AnyManifest) /\ Range(Page) \subseteq Given
      BY PageOfChain DEF Provenance
    <3>2. Resolved({}) \in Seq(AnyManifest) /\ Range(Resolved({})) \subseteq Given
      BY <3>1, ThoseFacts DEF Resolved
    <3> QED
      BY <2>1, <3>2 DEF ArweaveDiscover
  <2>6. ASSUME NEW model, NEW m \in Given, NEW n \in Given
        PROVE  Authentic(Discover(<<m, n>>, model))
    <3> HIDE DEF Given
    <3>1. <<m, n>> \in Seq(AnyManifest) /\ Range(<<m, n>>) \subseteq Given
      BY <2>0 DEF Range
    <3> QED
      BY <2>1, <3>1
  <2> QED
    BY <2>3, <2>4, <2>5, <2>6 DEF FoundIsSigned, Given
<1>2. Spec => [](FileInv /\ Provenance)
  BY InitFile, NextFile, InitProvenance, NextProvenance, PTL DEF Spec
<1> QED
  BY <1>1, <1>2, PTL

\* ArweaveDirectory.discover finds a freshest manifest of the page for each key,
\* and finds one if there is any: forged and unresolvable transactions, and
\* equal times, hide nobody.
THEOREM FreshestOfPageHolds == Spec => []FreshestOfPage
<1>1. Provenance => FreshestOfPage
  <2> SUFFICES ASSUME Provenance, NEW model \in Asked, NEW missing \in SUBSET Range(chain)
               PROVE  LET there == {m \in Range(Page) \ missing : Routable(m) /\ Serves(m, model)}
                          found == ArweaveDiscover(model, missing)
                      IN \A k \in Keys :
                             IF \E m \in there : m.key = k THEN found[k] \in Freshest(there)
                                                           ELSE found[k] = Nothing
    BY DEF FreshestOfPage
  <2> DEFINE there == {m \in Range(Page) \ missing : Routable(m) /\ Serves(m, model)}
             found == ArweaveDiscover(model, missing)
             routable == {m \in Range(Resolved(missing)) : Routable(m)}
  <2>1. Page \in Seq(AnyManifest)
    BY PageOfChain DEF Provenance
  <2>2. Resolved(missing) \in Seq(AnyManifest) /\ Range(Resolved(missing)) = Range(Page) \ missing
    BY <2>1, ThoseFacts DEF Resolved
  <2>3. Best(found, routable, model)
    BY <2>2, DiscoverIsBest DEF ArweaveDiscover
  <2>4. there = {m \in routable : Serves(m, model)}
    BY <2>2
  <2> HIDE DEF there, found, routable
  <2>5. ASSUME NEW k \in Keys
        PROVE  IF \E m \in there : m.key = k THEN found[k] \in Freshest(there) ELSE found[k] = Nothing
    <3>1. CASE found[k] = Nothing
      BY <2>3, <2>4, <3>1 DEF Best
    <3>2. CASE found[k] # Nothing
      BY <2>3, <2>4, <3>2 DEF Best, Freshest
    <3> QED
      BY <3>1, <3>2
  <2> QED
    BY <2>5 DEF there, found
<1>2. Spec => [](FileInv /\ Provenance)
  BY InitFile, NextFile, InitProvenance, NextProvenance, PTL DEF Spec
<1> QED
  BY <1>1, <1>2, PTL
=============================================================================

-------------------------- MODULE SelectionProofs --------------------------
(***************************************************************************)
(* Proofs about Selection, for any number of routers, providers, manifests *)
(* and policies: the counters of the reputation file, that a request goes  *)
(* to the best provider the policy allows, and the static ranking.         *)
(*                                                                         *)
(* Proofs about Node, for any machine, catalog and query: benchmarks, the  *)
(* memory that is counted on, and the list of recommended models.          *)
(*                                                                         *)
(* Both rest on the facts about lists in the middle: filtering, sorting    *)
(* and cutting them (module Ordering).                                     *)
(***************************************************************************)
EXTENDS Selection, Node, FiniteSetTheorems, SequenceTheorems, WellFoundedInduction, TLAPS

-----------------------------------------------------------------------------
(* The inductive invariant.                                                *)

\* Counters that make sense: nothing is counted more often than the outcomes.
Counters ==
    {e \in [total : Nat, success : Nat, receipts : Nat, latency : Nat, timed : Nat] :
        e.success <= e.total /\ e.receipts <= e.total /\ e.timed <= e.total}

Recording(r) == router[r].at = "record"

\* The file, what happened, and what a router loaded are counters.
CountersOK ==
    /\ file \in [Known -> Counters] /\ truth \in [Known -> Counters]
    /\ DOMAIN router = Routers
    /\ \A r \in Routers : "at" \in DOMAIN router[r]
    /\ \A r \in Routers : Recording(r) =>
           router[r].loaded \in [Known -> Counters] /\ router[r].outcome \in Outcomes

\* Neither the file nor what a router is about to write counts more than happened.
NoneInvented ==
    \A p \in Known :
        /\ file[p].total <= truth[p].total
        /\ \A r \in Routers : Recording(r) => Updated(router[r])[p].total <= truth[p].total

\* As long as records do not overlap at most one router records, and what it is
\* about to write, or without one the file, is what happened.
Exact ==
    serial => /\ \A q, r \in Routers : Recording(q) /\ Recording(r) => q = r
              /\ \A r \in Routers : Recording(r) => Updated(router[r]) = truth
              /\ (\A r \in Routers : ~Recording(r)) => file = truth

CountersInv == CountersOK /\ NoneInvented /\ Exact

\* record keeps counters counters, and counts one more outcome.
LEMMA RecordedFacts ==
    ASSUME NEW e \in Counters, NEW o \in Outcomes
    PROVE  Recorded(e, o) \in Counters /\ Recorded(e, o).total = e.total + 1
<1>1. /\ o.success \in BOOLEAN /\ o.receipt \in BOOLEAN
      /\ (IF o.latency = Nothing THEN 0 ELSE o.latency) \in Nat
  BY SelectionAssumption
<1>2. /\ (IF o.success THEN 1 ELSE 0) \in 0..1 /\ (IF o.receipt THEN 1 ELSE 0) \in 0..1
      /\ (IF o.latency = Nothing THEN 0 ELSE 1) \in 0..1
  BY <1>1
<1> DEFINE s == IF o.success THEN 1 ELSE 0
           v == IF o.receipt THEN 1 ELSE 0
           l == IF o.latency = Nothing THEN 0 ELSE o.latency
           n == IF o.latency = Nothing THEN 0 ELSE 1
<1>3. Recorded(e, o) = [total |-> e.total + 1, success |-> e.success + s,
                        receipts |-> e.receipts + v, latency |-> e.latency + l,
                        timed |-> e.timed + n]
  BY DEF Recorded
<1>4. s \in 0..1 /\ v \in 0..1 /\ l \in Nat /\ n \in 0..1
  BY <1>1, <1>2
<1> HIDE DEF s, v, l, n
<1> QED
  BY <1>3, <1>4 DEF Counters

\* Setting one provider's counters to what record makes of them, in counters f.
LEMMA UpdatedFacts ==
    ASSUME NEW f \in [Known -> Counters], NEW c, NEW o \in Outcomes
    PROVE  /\ [f EXCEPT ![c] = Recorded(@, o)] \in [Known -> Counters]
           /\ \A p \in Known : [f EXCEPT ![c] = Recorded(@, o)][p].total =
                                IF p = c THEN f[p].total + 1 ELSE f[p].total
<1> DEFINE g == [f EXCEPT ![c] = Recorded(f[c], o)]
<1>1. \A p \in Known : g[p] = IF p = c THEN Recorded(f[p], o) ELSE f[p]
  OBVIOUS
<1>2. DOMAIN g = Known /\ g = [p \in Known |-> g[p]]
  OBVIOUS
<1>3. \A p \in Known : /\ Recorded(f[p], o) \in Counters
                       /\ Recorded(f[p], o).total = f[p].total + 1
  BY RecordedFacts
<1> QED
  BY <1>1, <1>2, <1>3

\* A ratio, in units of 1/600.
LEMMA RatioRange ==
    ASSUME NEW x \in Nat, NEW t \in Nat \ {0}, x <= 600 * t
    PROVE  x \div t \in 0..600
BY SMTT(30)

\* A score is between 0 and 1.
LEMMA ScoreRange ==
    ASSUME NEW e \in Counters
    PROVE  Score(e) \in 0..600
<1>1. CASE e.total = 0
  BY <1>1 DEF Score, NeutralScore
<1>2. CASE e.total # 0
  <2> DEFINE x == 420 * e.success + 180 * e.receipts
  <2>1. x \in Nat /\ e.total \in Nat \ {0} /\ x <= 600 * e.total
    BY <1>2 DEF Counters
  <2>2. Score(e) = x \div e.total
    BY <1>2 DEF Score
  <2> HIDE DEF x
  <2>3. x \div e.total \in 0..600
    BY <2>1, RatioRange
  <2> QED
    BY <2>2, <2>3
<1> QED
  BY <1>1, <1>2

\* No counters are counters, and what _load returns is.
LEMMA NoCountersOK == NoCounters \in Counters
BY DEF NoCounters, Counters

LEMMA LoadRawFacts ==
    ASSUME file \in [Known -> Counters], NEW read \in LoadRaw
    PROVE  /\ read \in [Known -> Counters]
           /\ \A p \in Known : read[p].total <= file[p].total
<1>1. \A p \in Known : NoCounters.total <= file[p].total /\ file[p].total <= file[p].total
  BY DEF NoCounters, Counters
<1> QED
  BY <1>1, NoCountersOK DEF LoadRaw

\* Nothing has been recorded at the start.
LEMMA InitCounters == Init => CountersInv
<1> SUFFICES ASSUME Init PROVE CountersInv
  OBVIOUS
<1>1. NoCounters \in Counters
  BY NoCountersOK
<1>2. \A r \in Routers : ~Recording(r) /\ "at" \in DOMAIN router[r]
  BY DEF Init, Recording, Idle
<1> QED
  BY <1>1, <1>2 DEF Init, CountersInv, CountersOK, NoneInvented, Exact, Counters

\* A router ranks and routes: nobody starts or ends recording.
LEMMA RankStep ==
    ASSUME CountersInv, NEW r \in Routers, NEW s, router' = [router EXCEPT ![r] = s],
           "at" \in DOMAIN s, s.at # "record", ~Recording(r), UNCHANGED <<file, truth, serial>>
    PROVE  CountersInv'
<1>1. /\ DOMAIN router' = Routers
      /\ \A q \in Routers : router'[q] = IF q = r THEN s ELSE router[q]
  BY DEF CountersInv, CountersOK
<1>2. \A q \in Routers : /\ Recording(q)' <=> Recording(q)
                         /\ Recording(q) => router'[q] = router[q]
  BY <1>1 DEF Recording
<1>3. CountersOK'
  BY <1>1, <1>2 DEF CountersInv, CountersOK
<1>4. NoneInvented'
  BY <1>2 DEF CountersInv, NoneInvented, Updated
<1>5. Exact'
  BY <1>2 DEF CountersInv, Exact, Updated
<1> QED
  BY <1>3, <1>4, <1>5 DEF CountersInv

\* An outcome happens, and record loads the file.
LEMMA LoadStep ==
    ASSUME CountersInv, NEW r \in Routers, NEW o \in Outcomes, Load(r, o)
    PROVE  CountersInv'
<1> DEFINE c == router[r].choice
<1>a. PICK read \in LoadRaw :
          /\ router' = [router EXCEPT ![r] = [at |-> "record", choice |-> c, outcome |-> o,
                                              loaded |-> read]]
          /\ serial' = (serial /\ read = file /\ \A q \in Routers : ~Recording(q))
  BY DEF Load, Recording
<1> DEFINE s == [at |-> "record", choice |-> c, outcome |-> o, loaded |-> read]
           g == [read EXCEPT ![c] = Recorded(@, o)]
<1>1. /\ router' = [router EXCEPT ![r] = s] /\ truth' = [truth EXCEPT ![c] = Recorded(@, o)]
      /\ UNCHANGED file /\ ~Recording(r)
      /\ serial' = (serial /\ read = file /\ \A q \in Routers : ~Recording(q))
  BY <1>a DEF Load, Recording
<1>b. read \in [Known -> Counters] /\ \A p \in Known : read[p].total <= file[p].total
  BY LoadRawFacts DEF CountersInv, CountersOK
<1>2. /\ DOMAIN router' = Routers
      /\ \A q \in Routers : router'[q] = IF q = r THEN s ELSE router[q]
      /\ \A q \in Routers : Recording(q)' <=> q = r \/ Recording(q)
  BY <1>1 DEF CountersInv, CountersOK, Recording
<1>3. Updated(s) = g
  BY DEF Updated
<1>4. /\ truth' \in [Known -> Counters] /\ g \in [Known -> Counters]
      /\ \A p \in Known : truth'[p].total = IF p = c THEN truth[p].total + 1 ELSE truth[p].total
      /\ \A p \in Known : g[p].total = IF p = c THEN read[p].total + 1 ELSE read[p].total
  <2>1. file \in [Known -> Counters] /\ truth \in [Known -> Counters]
    BY DEF CountersInv, CountersOK
  <2>2. /\ g \in [Known -> Counters]
        /\ \A p \in Known : g[p].total = IF p = c THEN read[p].total + 1 ELSE read[p].total
    BY <1>b, UpdatedFacts
  <2>3. /\ truth' \in [Known -> Counters]
        /\ \A p \in Known : truth'[p].total = IF p = c THEN truth[p].total + 1 ELSE truth[p].total
    BY <1>1, <2>1, UpdatedFacts
  <2> QED
    BY <2>2, <2>3
<1>5. CountersOK'
  BY <1>1, <1>2, <1>4, <1>b DEF CountersInv, CountersOK, Recording
<1>6. ASSUME NEW p \in Known, NEW q \in Routers, Recording(q)
      PROVE  Updated(router[q])[p].total <= truth[p].total /\ Updated(router[q])[p].total \in Nat
  <2>1. router[q].loaded \in [Known -> Counters] /\ router[q].outcome \in Outcomes
    BY <1>6 DEF CountersInv, CountersOK
  <2>2. Updated(router[q]) \in [Known -> Counters]
    BY <2>1, UpdatedFacts DEF Updated
  <2> QED
    BY <1>6, <2>2 DEF CountersInv, NoneInvented, Counters
<1>7. NoneInvented'
  <2> SUFFICES ASSUME NEW p \in Known
               PROVE  /\ file[p].total <= truth'[p].total
                      /\ \A q \in Routers : Recording(q)' => Updated(router'[q])[p].total <= truth'[p].total
    BY <1>1 DEF NoneInvented, Updated
  <2>1. /\ file[p].total \in Nat /\ truth[p].total \in Nat /\ file[p].total <= truth[p].total
    BY DEF CountersInv, CountersOK, NoneInvented, Counters
  <2>a. read[p].total \in Nat /\ read[p].total <= file[p].total
    BY <1>b DEF Counters
  <2>2. g[p].total <= truth'[p].total /\ file[p].total <= truth'[p].total
        /\ truth[p].total <= truth'[p].total
    BY <1>4, <2>1, <2>a
  <2>3. truth'[p].total \in Nat
    BY <1>4 DEF Counters
  <2>4. ASSUME NEW q \in Routers, Recording(q)'
        PROVE  Updated(router'[q])[p].total <= truth'[p].total
    <3>1. CASE q = r
      BY <1>2, <1>3, <2>2, <3>1
    <3>2. CASE q # r
      <4>1. Recording(q) /\ router'[q] = router[q]
        BY <1>2, <2>4, <3>2
      <4>2. Updated(router[q])[p].total <= truth[p].total /\ Updated(router[q])[p].total \in Nat
        BY <1>6, <4>1
      <4> QED
        BY <2>1, <2>2, <2>3, <4>1, <4>2
    <3> QED
      BY <3>1, <3>2
  <2> QED
    BY <2>2, <2>4
<1>8. Exact'
  <2> SUFFICES ASSUME serial' PROVE Exact'
    BY DEF Exact
  <2>1. serial /\ (\A q \in Routers : ~Recording(q)) /\ read = file /\ file = truth
    BY <1>1 DEF CountersInv, Exact
  <2>2. \A q \in Routers : Recording(q)' => q = r /\ Updated(router'[q]) = truth'
    BY <1>1, <1>2, <1>3, <2>1
  <2>3. \A q \in Routers : Recording(q)' => Updated(router[q])' = truth'
    BY <2>2 DEF Updated
  <2> QED
    BY <1>2, <2>2, <2>3 DEF Exact
<1> QED
  BY <1>5, <1>7, <1>8 DEF CountersInv

\* The file is replaced, or the process dies before that.
LEMMA WriteStep ==
    ASSUME CountersInv, NEW r \in Routers, Write(r) \/ Dies(r)
    PROVE  CountersInv'
<1>1. /\ Recording(r) /\ router' = [router EXCEPT ![r] = Idle] /\ UNCHANGED truth
      /\ \/ file' = Updated(router[r]) /\ UNCHANGED serial
         \/ UNCHANGED file /\ serial' = FALSE
  BY DEF Write, Dies, Recording
<1>2. /\ DOMAIN router' = Routers
      /\ \A q \in Routers : q # r => router'[q] = router[q]
      /\ router'[r] = Idle
      /\ \A q \in Routers : Recording(q)' <=> q # r /\ Recording(q)
      /\ \A q \in Routers : "at" \in DOMAIN router'[q]
  BY <1>1 DEF CountersInv, CountersOK, Recording, Idle
<1>3. Updated(router[r]) \in [Known -> Counters]
  BY <1>1, UpdatedFacts DEF Updated, CountersInv, CountersOK
<1>4. CountersOK'
  BY <1>1, <1>2, <1>3 DEF CountersInv, CountersOK
<1>5. NoneInvented'
  <2>1. \A p \in Known : file'[p].total <= truth[p].total
    BY <1>1 DEF CountersInv, NoneInvented
  <2>2. \A q \in Routers, p \in Known : Recording(q)' => Updated(router[q])'[p].total <= truth[p].total
    BY <1>2 DEF CountersInv, NoneInvented, Updated
  <2> QED
    BY <1>1, <2>1, <2>2 DEF NoneInvented
<1>6. Exact'
  <2> SUFFICES ASSUME serial' PROVE Exact'
    BY DEF Exact
  <2>1. serial /\ file' = Updated(router[r])
    BY <1>1
  <2>2. file' = truth' /\ \A q \in Routers : ~Recording(q)'
    BY <1>1, <1>2, <2>1 DEF CountersInv, Exact
  <2> QED
    BY <2>2 DEF Exact
<1> QED
  BY <1>4, <1>5, <1>6 DEF CountersInv

\* Every step keeps the invariant.
LEMMA NextCounters == CountersInv /\ [Next]_vars => CountersInv'
<1> SUFFICES ASSUME CountersInv, [Next]_vars PROVE CountersInv'
  OBVIOUS
<1>1. CASE UNCHANGED vars
  BY <1>1 DEF vars, CountersInv, CountersOK, NoneInvented, Exact, Recording, Updated
<1>2. ASSUME NEW r \in Routers, NEW scored \in BOOLEAN, NEW probe \in BOOLEAN, Start(r, scored, probe)
      PROVE  CountersInv'
  <2>0. PICK unread \in SUBSET Known :
            LET scores == ScoresFor(scored, unread)
            IN router' = [router EXCEPT ![r] =
                   [at |-> "rank", probe |-> probe, judged |-> Judged(scores),
                    todo |-> FilterEntries(scores), seen |-> <<>>]]
    BY <1>2 DEF Start
  <2> DEFINE scores == ScoresFor(scored, unread)
             s == [at |-> "rank", probe |-> probe, judged |-> Judged(scores),
                   todo |-> FilterEntries(scores), seen |-> <<>>]
  <2>1. "at" \in DOMAIN s /\ s.at # "record"
    OBVIOUS
  <2>2. router' = [router EXCEPT ![r] = s] /\ ~Recording(r) /\ UNCHANGED <<file, truth, serial>>
    BY <1>2, <2>0 DEF Start, Recording
  <2> HIDE DEF s
  <2> QED
    BY <2>1, <2>2, RankStep
<1>3. ASSUME NEW r \in Routers, NEW health, NEW latency, Consider(r, health, latency)
      PROVE  CountersInv'
  <2>1. PICK todo, seen : router' = [router EXCEPT ![r].todo = todo, ![r].seen = seen]
    BY <1>3 DEF Consider
  <2> DEFINE s == [router[r] EXCEPT !.todo = todo, !.seen = seen]
  <2>2. router' = [router EXCEPT ![r] = s]
    BY <2>1 DEF CountersInv, CountersOK
  <2>3. "at" \in DOMAIN s /\ s.at = "rank" /\ ~Recording(r)
    BY <1>3 DEF Consider, Recording, CountersInv, CountersOK
  <2> QED
    BY <1>3, <2>2, <2>3, RankStep DEF Consider
<1>4. ASSUME NEW r \in Routers, Route(r)
      PROVE  CountersInv'
  <2> DEFINE routed == [at |-> "routed", probe |-> router[r].probe, judged |-> router[r].judged,
                        seen |-> router[r].seen,
                        choice |-> RankProviders(router[r].seen)[1].provider]
             s == IF router[r].seen = <<>> THEN Idle ELSE routed
  <2>1. router' = [router EXCEPT ![r] = s] /\ ~Recording(r) /\ UNCHANGED <<file, truth, serial>>
    BY <1>4 DEF Route, Recording
  <2>2. "at" \in DOMAIN routed /\ routed.at # "record"
    OBVIOUS
  <2> HIDE DEF routed
  <2>3. "at" \in DOMAIN s /\ s.at # "record"
    BY <2>2 DEF Idle
  <2> HIDE DEF s
  <2> QED
    BY <2>1, <2>3, RankStep
<1>5. CASE Next
  BY <1>2, <1>3, <1>4, <1>5, LoadStep, WriteStep DEF Next
<1> QED
  BY <1>1, <1>5

-----------------------------------------------------------------------------
\* The inductive invariant holds of Spec.
THEOREM CountersInvHolds == Spec => []CountersInv
BY InitCounters, NextCounters, PTL DEF Spec

\* However the records of any number of routers overlap or fail, the counters of
\* a provider make sense, its score stays between 0 and 1, no outcome is counted
\* that did not happen, and every outcome is counted as long as records do not
\* overlap or fail and can read the file.
THEOREM CountersSoundHolds == Spec => []CountersSound
<1>1. CountersInv => CountersSound
  <2> SUFFICES ASSUME CountersInv PROVE CountersSound
    OBVIOUS
  <2>1. ASSUME NEW p \in Known
        PROVE  /\ {file[p].success, file[p].receipts, file[p].timed} \subseteq 0..file[p].total
               /\ Score(file[p]) \in 0..600
               /\ file[p].total <= truth[p].total
    <3>1. file[p] \in Counters
      BY DEF CountersInv, CountersOK
    <3> QED
      BY <3>1, ScoreRange DEF CountersInv, NoneInvented, Counters
  <2>2. serial /\ (\A r \in Routers : router[r].at # "record") => file = truth
    BY DEF CountersInv, Exact, Recording
  <2> QED
    BY <2>1, <2>2 DEF CountersSound
<1> QED
  BY <1>1, CountersInvHolds, PTL

-----------------------------------------------------------------------------
(***************************************************************************)
(* Sequences.                                                              *)
(***************************************************************************)
\* Induction on the natural numbers, for a set of them.
LEMMA NatSet ==
    ASSUME NEW T \in SUBSET Nat, 0 \in T, \A n \in T : n + 1 \in T
    PROVE  T = Nat
<1> DEFINE R == OpToRel(<, Nat)
<1>1. \A U \in SUBSET Nat : U # {} => \E x \in U : \A y \in U : ~(<<y, x>> \in R)
  BY WFMin, NatLessThanWellFounded, Zenon
<1>2. \A x, y \in Nat : y < x => <<y, x>> \in R
  BY DEF OpToRel
<1> HIDE DEF R
<1> SUFFICES ASSUME T # Nat PROVE FALSE
  OBVIOUS
<1>3. PICK x \in Nat \ T : \A y \in Nat \ T : ~(<<y, x>> \in R)
  BY <1>1
<1>4. \A y \in Nat \ T : ~(y < x)
  BY <1>2, <1>3
<1>5. x # 0 /\ x - 1 \in T
  BY <1>4
<1> QED
  BY <1>5

\* The elements of a sequence, by their positions.
LEMMA RangeOf ==
    ASSUME NEW S, NEW s \in Seq(S)
    PROVE  /\ Len(s) \in Nat /\ DOMAIN s = 1..Len(s)
           /\ \A i \in 1..Len(s) : s[i] \in S
           /\ Range(s) = {s[i] : i \in 1..Len(s)} /\ Range(s) \subseteq S
<1>1. Len(s) \in Nat /\ DOMAIN s = 1..Len(s) /\ \A i \in 1..Len(s) : s[i] \in S
  BY LenProperties, ElementOfSeq
<1> QED
  BY <1>1 DEF Range

\* A set of natural numbers has a least element.
LEMMA LeastOf ==
    ASSUME NEW U \in SUBSET Nat, U # {}
    PROVE  Min(U) \in U /\ \A y \in U : Min(U) <= y
<1> DEFINE R == OpToRel(<, Nat)
<1>1. \A V \in SUBSET Nat : V # {} => \E x \in V : \A y \in V : ~(<<y, x>> \in R)
  BY WFMin, NatLessThanWellFounded, Zenon
<1>2. \A x, y \in Nat : y < x => <<y, x>> \in R
  BY DEF OpToRel
<1> HIDE DEF R
<1>3. PICK x \in U : \A y \in U : ~(<<y, x>> \in R)
  BY <1>1
<1>4. \A y \in U : x <= y
  <2>1. \A y \in U : ~(y < x) /\ y \in Nat /\ x \in Nat
    BY <1>2, <1>3
  <2> QED
    BY <2>1
<1> QED
  BY <1>3, <1>4 DEF Min

\* The turns of the loop of Those.
Turns(f, seq, S, n) ==
    f = [i \in 0..n |-> IF i = 0 THEN <<>>
                        ELSE IF seq[i] \in S THEN Append(f[i - 1], seq[i]) ELSE f[i - 1]]

\* There are as many as there are entries.
LEMMA TurnsExist ==
    ASSUME NEW seq, NEW S, NEW n \in Nat
    PROVE  \E f : Turns(f, seq, S, n)
<1> DEFINE T == {m \in Nat : \E f : Turns(f, seq, S, m)}
<1>1. 0 \in T
  <2>1. Turns([i \in 0..0 |-> <<>>], seq, S, 0)
    BY DEF Turns
  <2> QED
    BY <2>1
<1>2. ASSUME NEW m \in T PROVE m + 1 \in T
  <2>1. PICK h : Turns(h, seq, S, m)
    OBVIOUS
  <2>2. m \in Nat
    OBVIOUS
  <2> DEFINE f == [i \in 0..(m + 1) |->
                      IF i = 0 THEN <<>>
                      ELSE IF seq[i] \in S THEN Append(h[i - 1], seq[i]) ELSE h[i - 1]]
  <2>3. \A i \in 0..m : f[i] = h[i]
    <3> SUFFICES ASSUME NEW i \in 0..m PROVE f[i] = h[i]
      OBVIOUS
    <3>1. i \in 0..(m + 1)
      BY <2>2
    <3> DEFINE e == IF i = 0 THEN <<>>
                    ELSE IF seq[i] \in S THEN Append(h[i - 1], seq[i]) ELSE h[i - 1]
    <3>2. f[i] = e
      BY <3>1
    <3>3. h[i] = e
      BY <2>1 DEF Turns
    <3> QED
      BY <3>1, <3>2, <3>3
  <2>4. \A i \in 0..(m + 1) : i # 0 => i - 1 \in 0..m
    BY <2>2
  <2>5. \A i \in 0..(m + 1) : i # 0 => f[i - 1] = h[i - 1]
    BY <2>3, <2>4
  <2>6. Turns(f, seq, S, m + 1)
    BY <2>5 DEF Turns
  <2> HIDE DEF f
  <2> QED
    BY <2>2, <2>6 DEF T
<1>3. T = Nat
  <2> HIDE DEF T
  <2> QED
    BY <1>1, <1>2, NatSet DEF T
<1> QED
  BY <1>3

\* s lists those of the first n elements of seq that are in S: its position k
\* holds element at[k], in their order.
PickedAs(s, at, seq, S, n) ==
    /\ s \in Seq(S) /\ at \in [1..Len(s) -> 1..n]
    /\ \A k \in 1..Len(s) : s[k] = seq[at[k]]
    /\ \A j, k \in 1..Len(s) : j < k => at[j] < at[k]
    /\ \A i \in 1..n : seq[i] \in S => \E k \in 1..Len(s) : at[k] = i

\* The next element is kept or not.
LEMMA PickStep ==
    ASSUME NEW seq, NEW S, NEW i \in Nat, NEW s, NEW at, PickedAs(s, at, seq, S, i)
    PROVE  \E to : PickedAs(IF seq[i + 1] \in S THEN Append(s, seq[i + 1]) ELSE s, to, seq, S, i + 1)
<1> DEFINE l == Len(s)
           x == seq[i + 1]
<1>0. l \in Nat /\ s \in Seq(S) /\ \A k \in 1..l : at[k] \in 1..i
  BY RangeOf DEF PickedAs
<1>1. \A k \in 1..i : k \in 1..(i + 1) /\ k < i + 1
  OBVIOUS
<1>2. i + 1 \in 1..(i + 1) /\ \A k \in 1..(i + 1) : k \in 1..i \/ k = i + 1
  OBVIOUS
<1>3. CASE x \notin S
  <2>1. at \in [1..l -> 1..(i + 1)]
    BY <1>1 DEF PickedAs
  <2>2. PickedAs(s, at, seq, S, i + 1)
    BY <1>2, <1>3, <2>1 DEF PickedAs
  <2> QED
    BY <1>3, <2>2
<1>4. CASE x \in S
  <2> DEFINE new == Append(s, x)
             to == [k \in 1..(l + 1) |-> IF k <= l THEN at[k] ELSE i + 1]
  <2>1. /\ new \in Seq(S) /\ Len(new) = l + 1 /\ new[l + 1] = x
        /\ \A k \in 1..l : new[k] = s[k]
    <3> HIDE DEF x
    <3> QED
      BY <1>0, <1>4, AppendProperties
  <2>2. /\ \A k \in 1..l : k \in 1..(l + 1) /\ k <= l
        /\ l + 1 \in 1..(l + 1) /\ ~(l + 1 <= l)
        /\ \A k \in 1..(l + 1) : k \in 1..l \/ k = l + 1
    BY <1>0
  <2>3. to[l + 1] = i + 1 /\ \A k \in 1..l : to[k] = at[k]
    BY <2>2
  <2>4. seq[i + 1] = x
    OBVIOUS
  <2>5. to = [k \in 1..(l + 1) |-> to[k]]
    OBVIOUS
  <2> HIDE DEF new, to, l, x
  <2>6. to \in [1..(l + 1) -> 1..(i + 1)]
    <3>1. \A k \in 1..(l + 1) : to[k] \in 1..(i + 1)
      BY <1>0, <1>1, <1>2, <2>2, <2>3
    <3> QED
      BY <2>5, <3>1
  <2>7. \A k \in 1..(l + 1) : new[k] = seq[to[k]]
    <3>1. \A k \in 1..l : s[k] = seq[at[k]]
      BY DEF PickedAs, l
    <3> QED
      BY <2>1, <2>2, <2>3, <2>4, <3>1
  <2>8. ASSUME NEW j \in 1..(l + 1), NEW k \in 1..(l + 1), j < k PROVE to[j] < to[k]
    <3>0. j \in 1..l
      BY <1>0, <2>8
    <3>1. CASE k \in 1..l
      <4>1. at[j] < at[k]
        BY <2>8, <3>0, <3>1 DEF PickedAs, l
      <4> QED
        BY <2>3, <3>0, <3>1, <4>1
    <3>2. CASE k = l + 1
      BY <1>0, <1>1, <2>3, <3>0, <3>2
    <3> QED
      BY <2>2, <3>1, <3>2
  <2>9. ASSUME NEW m \in 1..(i + 1), seq[m] \in S PROVE \E k \in 1..(l + 1) : to[k] = m
    <3>1. CASE m = i + 1
      BY <2>2, <2>3, <3>1
    <3>2. CASE m \in 1..i
      <4>1. PICK k \in 1..l : at[k] = m
        BY <2>9, <3>2 DEF PickedAs, l
      <4> QED
        BY <2>2, <2>3, <4>1
    <3> QED
      BY <1>2, <3>1, <3>2
  <2>10. PickedAs(new, to, seq, S, i + 1)
    BY <2>1, <2>6, <2>7, <2>8, <2>9 DEF PickedAs
  <2> QED
    BY <1>4, <2>10 DEF new, x
<1> QED
  BY <1>3, <1>4

\* A list comprehension has the elements it keeps, in their order.
LEMMA ThoseFacts ==
    ASSUME NEW seq, Len(seq) \in Nat, NEW S
    PROVE  \E at : PickedAs(Those(seq, S), at, seq, S, Len(seq))
<1> DEFINE n == Len(seq)
<1>1. PICK f : Turns(f, seq, S, n) /\ Those(seq, S) = f[n]
  <2>1. Those(seq, S) = (CHOOSE f : Turns(f, seq, S, n))[n]
    BY DEF Those, Turns
  <2>2. \E f : Turns(f, seq, S, n)
    BY TurnsExist
  <2> QED
    BY <2>1, <2>2
<1>0. n \in Nat
  OBVIOUS
<1> HIDE DEF n
<1> DEFINE Picks(i) == \E at : PickedAs(f[i], at, seq, S, i)
           T == {i \in Nat : i <= n => Picks(i)}
<1>2. 0 \in T
  <2>1. f[0] = <<>>
    BY <1>0, <1>1 DEF Turns
  <2>2. <<>> \in Seq(S) /\ Len(<<>>) = 0 /\ 1..0 = {}
    BY EmptySeq
  <2>3. PickedAs(<<>>, [k \in 1..0 |-> 0], seq, S, 0)
    BY <2>2 DEF PickedAs
  <2>4. Picks(0)
    BY <2>1, <2>3
  <2> HIDE DEF Picks
  <2> QED
    BY <2>4
<1>3. ASSUME NEW i \in T PROVE i + 1 \in T
  <2>0. i \in Nat /\ (i <= n => Picks(i))
    OBVIOUS
  <2>1. ASSUME i + 1 <= n PROVE Picks(i + 1)
    <3>1. \A j \in 0..n : j # 0 =>
              f[j] = IF seq[j] \in S THEN Append(f[j - 1], seq[j]) ELSE f[j - 1]
      BY <1>1 DEF Turns
    <3>2. i + 1 \in 0..n /\ i + 1 # 0 /\ (i + 1) - 1 = i /\ Picks(i)
      BY <1>0, <2>0, <2>1
    <3>3. f[i + 1] = IF seq[i + 1] \in S THEN Append(f[i], seq[i + 1]) ELSE f[i]
      BY <3>1, <3>2
    <3>4. PICK at : PickedAs(f[i], at, seq, S, i)
      BY <3>2
    <3> QED
      BY <2>0, <3>3, <3>4, PickStep
  <2> HIDE DEF Picks
  <2> QED
    BY <2>0, <2>1
<1>4. T = Nat
  <2> HIDE DEF T
  <2> QED
    BY <1>2, <1>3, NatSet DEF T
<1>5. Picks(n)
  <2>1. n \in T
    BY <1>0, <1>4
  <2> HIDE DEF Picks
  <2> QED
    BY <1>0, <2>1
<1> QED
  BY <1>1, <1>5 DEF n

\* It has only elements it keeps.
LEMMA ThoseAreKept ==
    ASSUME NEW seq, Len(seq) \in Nat, NEW S
    PROVE  Those(seq, S) \in Seq(S)
BY ThoseFacts DEF PickedAs

\* No element is there twice.
Distinct(s) == \A i, j \in 1..Len(s) : i # j => s[i] # s[j]

\* The elements that are kept, each as often as it was there.
LEMMA ThoseOnce ==
    ASSUME NEW A, NEW seq \in Seq(A), NEW S,
           \A i, j \in 1..Len(seq) : i # j /\ seq[i] \in S => seq[i] # seq[j]
    PROVE  /\ Those(seq, S) \in Seq(S) /\ Distinct(Those(seq, S))
           /\ Range(Those(seq, S)) = Range(seq) \cap S
<1> DEFINE s == Those(seq, S)
           n == Len(seq)
<1>1. n \in Nat /\ Range(seq) = {seq[i] : i \in 1..n}
  BY RangeOf
<1>2. PICK at : PickedAs(s, at, seq, S, n)
  BY <1>1, ThoseFacts
<1> HIDE DEF s, n
<1>3. s \in Seq(S)
  BY <1>2 DEF PickedAs
<1>4. Len(s) \in Nat /\ (\A k \in 1..Len(s) : s[k] \in S) /\ Range(s) = {s[k] : k \in 1..Len(s)}
  BY <1>3, RangeOf
<1>5. \A k \in 1..Len(s) : at[k] \in 1..n /\ s[k] = seq[at[k]]
  BY <1>2 DEF PickedAs
<1>6. \A j, k \in 1..Len(s) : j # k => at[j] # at[k]
  <2>1. \A j, k \in 1..Len(s) : j < k => at[j] < at[k]
    BY <1>2 DEF PickedAs
  <2>2. \A j, k \in 1..Len(s) : j < k => at[j] # at[k]
    BY <1>1, <1>5, <2>1
  <2>3. \A j, k \in 1..Len(s) : j # k => j < k \/ k < j
    BY <1>4
  <2> QED
    BY <2>2, <2>3
<1>7. Distinct(s)
  <2> SUFFICES ASSUME NEW i \in 1..Len(s), NEW j \in 1..Len(s), i # j PROVE s[i] # s[j]
    BY DEF Distinct
  <2>1. at[i] # at[j] /\ seq[at[i]] \in S
    BY <1>4, <1>5, <1>6
  <2> QED
    BY <1>5, <2>1 DEF n
<1>8. Range(s) = Range(seq) \cap S
  <2>1. \A k \in 1..Len(s) : s[k] \in Range(seq) \cap S
    BY <1>1, <1>4, <1>5
  <2>2. ASSUME NEW i \in 1..n, seq[i] \in S PROVE seq[i] \in Range(s)
    <3>1. PICK k \in 1..Len(s) : at[k] = i
      BY <1>2, <2>2 DEF PickedAs
    <3> QED
      BY <1>4, <1>5, <3>1
  <2> QED
    BY <1>1, <1>4, <2>1, <2>2
<1> QED
  BY <1>3, <1>7, <1>8 DEF s

\* A list without repetitions is as long as the set of its elements is large.
LEMMA DistinctLength ==
    ASSUME NEW A, NEW s \in Seq(A), Distinct(s)
    PROVE  IsFiniteSet(Range(s)) /\ Len(s) = Cardinality(Range(s))
<1> DEFINE n == Len(s)
           f == [i \in 1..n |-> s[i]]
<1>1. n \in Nat /\ Range(s) = {s[i] : i \in 1..n}
  BY RangeOf
<1>2. f \in Bijection(1..n, Range(s))
  <2>1. \A i, j \in 1..n : s[i] = s[j] => i = j
    BY DEF Distinct
  <2>2. \A i \in 1..n : f[i] = s[i] /\ s[i] \in Range(s)
    BY <1>1
  <2>3. \A e \in Range(s) : \E i \in 1..n : f[i] = e
    BY <1>1, <2>2
  <2>4. f \in [1..n -> Range(s)]
    BY <2>2
  <2> HIDE DEF f, n
  <2>5. f \in Injection(1..n, Range(s))
    BY <2>1, <2>2, <2>4 DEF Injection, IsInjective
  <2>6. f \in Surjection(1..n, Range(s))
    BY <2>3, <2>4 DEF Surjection
  <2> QED
    BY <2>5, <2>6 DEF Bijection
<1>3. ExistsBijection(1..n, Range(s))
  BY <1>2 DEF ExistsBijection
<1>4. IsFiniteSet(1..n) /\ Cardinality(1..n) = n
  <2>1. IsFiniteSet(1..n) /\ Cardinality(1..n) = IF 1 > n THEN 0 ELSE n - 1 + 1
    BY <1>1, FS_Interval
  <2> HIDE DEF n
  <2> QED
    BY <1>1, <2>1
<1> HIDE DEF n, f
<1> QED
  BY <1>3, <1>4, FS_Bijection DEF n

-----------------------------------------------------------------------------
(***************************************************************************)
(* The policy.                                                             *)
(***************************************************************************)
\* The positions of a list of eight.
LEMMA EightOf ==
    ASSUME NEW a1, NEW a2, NEW a3, NEW a4, NEW a5, NEW a6, NEW a7, NEW a8
    PROVE  LET s == <<a1, a2, a3, a4, a5, a6, a7, a8>>
           IN  /\ DOMAIN s = 1..8
               /\ s[1] = a1 /\ s[2] = a2 /\ s[3] = a3 /\ s[4] = a4
               /\ s[5] = a5 /\ s[6] = a6 /\ s[7] = a7 /\ s[8] = a8
OBVIOUS

Passes(q, p, m, score) == \A i \in 1..8 : ~Checks(q, p, m, score)[i].fails

\* What permits lets through fails none of its checks.
LEMMA PermittedPasses ==
    ASSUME NEW q, NEW p, NEW m, NEW score
    PROVE  Permits(q, p, m, score) = "" => Passes(q, p, m, score)
<1> DEFINE checks == Checks(q, p, m, score)
           failed == {i \in DOMAIN checks : checks[i].fails}
<1> DEFINE Named(c) == c.reason # ""
<1>1. DOMAIN checks = 1..8
  BY EightOf DEF Checks
<1>2. /\ checks[1].reason = "provider_denylisted" /\ checks[2].reason = "not_allowlisted"
      /\ checks[3].reason = "attestation_required" /\ checks[4].reason = "unit_not_accepted"
      /\ checks[5].reason = "input_price_too_high" /\ checks[6].reason = "output_price_too_high"
      /\ checks[7].reason = "privacy_mode_unmet" /\ checks[8].reason = "reputation_too_low"
  BY EightOf DEF Checks
<1>3. failed # {} => Permits(q, p, m, score) = checks[Min(failed)].reason
  BY DEF Permits
<1> HIDE DEF checks
<1>4. failed \in SUBSET Nat /\ failed \subseteq 1..8
  BY <1>1
<1>a. /\ Named(checks[1]) /\ Named(checks[2]) /\ Named(checks[3]) /\ Named(checks[4])
      /\ Named(checks[5]) /\ Named(checks[6]) /\ Named(checks[7]) /\ Named(checks[8])
  BY <1>2, Zenon
<1>5. failed # {} => Named(checks[Min(failed)])
  <2> HIDE DEF failed, Named
  <2>1. failed # {} => Min(failed) \in 1..8
    BY <1>4, LeastOf
  <2> QED
    BY <1>a, <2>1
<1>6. Permits(q, p, m, score) = "" => failed = {}
  BY <1>3, <1>5, Zenon
<1>7. failed = {} => \A i \in 1..8 : ~checks[i].fails
  BY <1>1 DEF failed
<1> QED
  BY <1>6, <1>7 DEF Passes, checks

\* What permits lets through breaks no rule of the policy.
LEMMA PermittedIsAllowed ==
    ASSUME NEW q \in Policies, NEW p, NEW m \in Manifests, NEW score, score = Nothing \/ score \in Nat,
           Passes(q, p, m, score), NEW judged, q.minScore # Nothing => judged[p] = score
    PROVE  Allowed(q, p, m, judged)
<1> DEFINE checks == Checks(q, p, m, score)
<1>1. \A i \in 1..8 : ~checks[i].fails
  BY DEF Passes
<1>2. /\ checks[1].fails = (p \in q.deny)
      /\ checks[2].fails = (q.allow # {} /\ p \notin q.allow)
      /\ checks[3].fails = (q.attest /\ ~IsAttested(m, q.tees))
      /\ checks[4].fails = (q.units # {} /\ m.unit \notin q.units)
      /\ checks[5].fails = Over(m.input, q.maxInput)
      /\ checks[6].fails = Over(m.output, q.maxOutput)
      /\ checks[7].fails = ~(q.modes \subseteq m.modes)
      /\ checks[8].fails = (q.minScore # Nothing /\ (score = Nothing \/ score < q.minScore))
  BY EightOf DEF Checks
<1> HIDE DEF checks
<1>3. /\ ~checks[1].fails /\ ~checks[2].fails /\ ~checks[3].fails /\ ~checks[4].fails
      /\ ~checks[5].fails /\ ~checks[6].fails /\ ~checks[7].fails /\ ~checks[8].fails
  BY <1>1
<1>6. /\ p \notin q.deny
      /\ q.allow = {} \/ p \in q.allow
      /\ q.attest => IsAttested(m, q.tees)
      /\ q.units = {} \/ m.unit \in q.units
  BY <1>2, <1>3
<1>7. /\ ~Over(m.input, q.maxInput) /\ ~Over(m.output, q.maxOutput)
      /\ q.modes \subseteq m.modes
      /\ q.minScore = Nothing \/ (score # Nothing /\ ~(score < q.minScore))
  BY <1>2, <1>3
<1>8. /\ m.input \in Nat /\ m.output \in Nat
      /\ q.maxInput = Nothing \/ q.maxInput \in Nat
      /\ q.maxOutput = Nothing \/ q.maxOutput \in Nat
      /\ q.minScore = Nothing \/ q.minScore \in Nat
  BY SelectionAssumption
<1>9. /\ q.maxInput = Nothing \/ m.input <= q.maxInput
      /\ q.maxOutput = Nothing \/ m.output <= q.maxOutput
  BY <1>7, <1>8 DEF Over
<1>10. q.minScore = Nothing \/ (judged[p] # Nothing /\ judged[p] >= q.minScore)
  BY <1>7, <1>8
<1>11. q.attest => /\ m.attested.ok /\ m.attested.own
                   /\ m.attested.tee # "none" \/ "none" \in q.tees
                   /\ q.tees = {} \/ m.attested.tee \in q.tees
  BY <1>6 DEF IsAttested, RealTees
<1> QED
  BY <1>6, <1>7, <1>9, <1>10, <1>11 DEF Allowed

\* The providers the policy allows, with the scores a request judged by.
Legal(judged) == {p \in Known : Allowed(policy, p, card[p], judged)}

\* filter_entries keeps only those.
LEMMA FilteredAreLegal ==
    ASSUME file \in [Known -> Counters], card \in [Known -> Manifests], policy \in Policies,
           NEW scored \in BOOLEAN, NEW unread
    PROVE  FilterEntries(ScoresFor(scored, unread)) \in
               Seq(Legal(Judged(ScoresFor(scored, unread))))
<1> DEFINE scores == ScoresFor(scored, unread)
           permitted == {p \in Known : Permits(policy, p, card[p], scores[p]) = ""}
<1>1. Providers \in Seq(Range(Listed) \ {Nothing})
  <2>1. Len(Listed) \in Nat
    BY SelectionAssumption, LenProperties
  <2> QED
    BY <2>1, ThoseAreKept DEF Providers
<1>2. FilterEntries(scores) \in Seq(permitted)
  <2>1. Len(Providers) \in Nat
    BY <1>1, LenProperties
  <2> HIDE DEF permitted
  <2>2. Those(Providers, permitted) \in Seq(permitted)
    BY <2>1, ThoseAreKept
  <2> QED
    BY <2>2 DEF FilterEntries, permitted
<1>3. permitted \subseteq Legal(Judged(scores))
  <2> SUFFICES ASSUME NEW p \in Known, Passes(policy, p, card[p], scores[p])
               PROVE  Allowed(policy, p, card[p], Judged(scores))
    BY PermittedPasses DEF Legal
  <2>1. scores[p] = Nothing \/ scores[p] \in Nat
    <3>1. Score(file[p]) \in 0..600 /\ Score(NoCounters) \in 0..600
      BY ScoreRange, NoCountersOK
    <3>2. scores[p] \in {Nothing, Score(file[p]), Score(NoCounters)}
      BY DEF ScoresFor
    <3> QED
      BY <3>1, <3>2
  <2>2. policy.minScore # Nothing => Judged(scores)[p] = scores[p]
    BY DEF Judged
  <2>3. card[p] \in Manifests
    OBVIOUS
  <2> HIDE DEF scores
  <2> QED
    BY <2>1, <2>2, <2>3, PermittedIsAllowed
<1> QED
  BY <1>2, <1>3, SeqMonotonic

-----------------------------------------------------------------------------
(***************************************************************************)
(* Sorting.                                                                *)
(***************************************************************************)
\* The turns of the loop of SortBy.
Sorting(f, seq, less, n) ==
    f = [i \in 0..n |-> IF i = 0 THEN <<>> ELSE Insert(f[i - 1], seq[i], less)]

\* There are as many as there are elements.
LEMMA SortingExists ==
    ASSUME NEW seq, NEW less, NEW n \in Nat
    PROVE  \E f : Sorting(f, seq, less, n)
<1> DEFINE T == {m \in Nat : \E f : Sorting(f, seq, less, m)}
<1>1. 0 \in T
  <2>1. Sorting([i \in 0..0 |-> <<>>], seq, less, 0)
    BY DEF Sorting
  <2> QED
    BY <2>1
<1>2. ASSUME NEW m \in T PROVE m + 1 \in T
  <2>1. PICK h : Sorting(h, seq, less, m)
    OBVIOUS
  <2>2. m \in Nat
    OBVIOUS
  <2> DEFINE f == [i \in 0..(m + 1) |->
                      IF i = 0 THEN <<>> ELSE Insert(h[i - 1], seq[i], less)]
  <2>3. \A i \in 0..m : f[i] = h[i]
    <3> SUFFICES ASSUME NEW i \in 0..m PROVE f[i] = h[i]
      OBVIOUS
    <3>1. i \in 0..(m + 1)
      BY <2>2
    <3> DEFINE e == IF i = 0 THEN <<>> ELSE Insert(h[i - 1], seq[i], less)
    <3>2. f[i] = e
      BY <3>1
    <3>3. h[i] = e
      BY <2>1 DEF Sorting
    <3> QED
      BY <3>1, <3>2, <3>3
  <2>4. \A i \in 0..(m + 1) : i # 0 => i - 1 \in 0..m
    BY <2>2
  <2>5. \A i \in 0..(m + 1) : i # 0 => f[i - 1] = h[i - 1]
    BY <2>3, <2>4
  <2>6. Sorting(f, seq, less, m + 1)
    BY <2>5 DEF Sorting
  <2> HIDE DEF f
  <2> QED
    BY <2>2, <2>6 DEF T
<1>3. T = Nat
  <2> HIDE DEF T
  <2> QED
    BY <1>1, <1>2, NatSet DEF T
<1> QED
  BY <1>3

\* less orders S, where elements that compare equal to one compare equal.
Orders(less, S) ==
    \A a, b, c \in S : /\ <<a, b>> \in less => <<b, a>> \notin less
                       /\ <<a, b>> \notin less /\ <<b, c>> \notin less => <<a, c>> \notin less

\* A set of positions without gaps is an interval.
LEMMA WithoutGaps ==
    ASSUME NEW l \in Nat, NEW B \in SUBSET (1..l), \A k \in B : \A i \in 1..k : i \in B
    PROVE  Cardinality(B) \in 0..l /\ B = 1..Cardinality(B)
<1> DEFINE U == {i \in Nat : i >= 1 /\ i \notin B}
<1>1. l + 1 \in U
  <2>1. l + 1 \in Nat /\ l + 1 >= 1 /\ l + 1 \notin 1..l
    OBVIOUS
  <2> QED
    BY <2>1
<1>2. U \in SUBSET Nat /\ U # {}
  BY <1>1
<1> DEFINE m == Min(U)
<1>3. m \in U /\ \A y \in U : m <= y
  BY <1>2, LeastOf
<1>4. m \in Nat /\ m >= 1 /\ m \notin B /\ m <= l + 1
  BY <1>1, <1>3
<1>5. \A i \in Nat : i >= 1 /\ i < m => i \in B
  BY <1>3
<1> HIDE DEF m, U
<1>6. \A k \in B : k < m
  <2> SUFFICES ASSUME NEW k \in B, m <= k PROVE FALSE
    BY <1>4
  <2>1. m \in 1..k
    BY <1>4
  <2> QED
    BY <1>4, <2>1
<1>7. B = 1..(m - 1)
  <2>1. \A k \in B : k \in Nat /\ k >= 1
    OBVIOUS
  <2>2. \A k \in B : k \in 1..(m - 1)
    BY <1>4, <1>6, <2>1
  <2>3. \A k \in 1..(m - 1) : k \in B
    BY <1>4, <1>5
  <2> QED
    BY <2>2, <2>3
<1>8. Cardinality(1..(m - 1)) = m - 1
  <2>1. Cardinality(1..(m - 1)) = IF 1 > m - 1 THEN 0 ELSE (m - 1) - 1 + 1
    BY <1>4, FS_Interval
  <2> QED
    BY <1>4, <2>1
<1> QED
  BY <1>4, <1>7, <1>8

\* new is s with x after its first n elements.
Inserts(new, s, x, n) ==
    /\ Len(new) = Len(s) + 1
    /\ \A k \in 1..n : new[k] = s[k]
    /\ new[n + 1] = x
    /\ \A k \in (n + 2)..(Len(s) + 1) : new[k] = s[k - 1]

\* Inserting into a sorted list puts an element after those it is not less than.
LEMMA InsertFacts ==
    ASSUME NEW S, NEW less, Orders(less, S), NEW s \in Seq(S), NEW x \in S,
           \A i, j \in 1..Len(s) : i < j => <<s[j], s[i]>> \notin less
    PROVE  /\ Insert(s, x, less) \in Seq(S)
           /\ \E n \in 0..Len(s) : /\ Inserts(Insert(s, x, less), s, x, n)
                                   /\ \A k \in 1..Len(s) : <<x, s[k]>> \notin less <=> k <= n
<1> DEFINE l == Len(s)
           B == {k \in 1..l : <<x, s[k]>> \notin less}
           n == Cardinality(B)
           front == SubSeq(s, 1, n)
           back == SubSeq(s, n + 1, l)
<1>1. l \in Nat /\ DOMAIN s = 1..l /\ \A k \in 1..l : s[k] \in S
  BY RangeOf
<1>2. n \in 0..l /\ B = 1..n
  <2>1. ASSUME NEW k \in B, NEW i \in 1..k PROVE i \in B
    <3>1. k \in 1..l /\ i \in 1..l /\ (i = k \/ i < k)
      BY <1>1
    <3>2. CASE i < k
      <4>1. <<s[k], s[i]>> \notin less /\ <<x, s[k]>> \notin less
        BY <3>1, <3>2
      <4>2. <<x, s[i]>> \notin less
        BY <1>1, <3>1, <4>1 DEF Orders
      <4> QED
        BY <3>1, <4>2
    <3> QED
      BY <3>1, <3>2
  <2>2. B \in SUBSET (1..l)
    OBVIOUS
  <2> HIDE DEF B
  <2> QED
    BY <1>1, <2>1, <2>2, WithoutGaps
<1>3. Insert(s, x, less) = (front \o <<x>>) \o back
  BY <1>1 DEF Insert
<1>4. \A k \in 1..l : <<x, s[k]>> \notin less <=> k <= n
  <2>1. \A k \in 1..l : k \in B <=> k \in 1..n
    BY <1>2
  <2>2. \A k \in 1..l : k \in B <=> <<x, s[k]>> \notin less
    OBVIOUS
  <2> HIDE DEF B
  <2> QED
    BY <1>1, <1>2, <2>1, <2>2
<1> HIDE DEF l, n
<1>5. front \in Seq(S) /\ Len(front) = n /\ \A k \in 1..n : front[k] = s[k]
  <2>1. \A k \in 1..n : s[k] \in S
    BY <1>1, <1>2
  <2>2. front \in Seq(S) /\ Len(front) = n
    BY <1>2, <2>1, SubSeqProperties
  <2>3. \A k \in 1..n : front[k] = s[1 + k - 1]
    BY <1>2, <2>1, SubSeqProperties
  <2>4. \A k \in 1..n : 1 + k - 1 = k
    BY <1>2
  <2> QED
    BY <2>2, <2>3, <2>4
<1>6. back \in Seq(S) /\ Len(back) = l - n /\ \A k \in 1..(l - n) : back[k] = s[n + k]
  <2>1. \A k \in (n + 1)..l : s[k] \in S
    BY <1>1, <1>2
  <2>2. back \in Seq(S) /\ Len(back) = l - n
    BY <1>1, <1>2, <2>1, SubSeqProperties
  <2>3. \A k \in 1..(l - n) : back[k] = s[(n + 1) + k - 1]
    BY <1>1, <1>2, <2>1, SubSeqProperties
  <2>4. \A k \in 1..(l - n) : (n + 1) + k - 1 = n + k
    BY <1>1, <1>2
  <2> QED
    BY <2>2, <2>3, <2>4
<1> HIDE DEF front, back
<1> DEFINE upTo == front \o <<x>>
<1>7. /\ upTo \in Seq(S) /\ Len(upTo) = n + 1 /\ upTo[n + 1] = x
      /\ \A k \in 1..n : upTo[k] = s[k]
  <2>1. <<x>> \in Seq(S) /\ Len(<<x>>) = 1 /\ <<x>>[1] = x
    OBVIOUS
  <2>2. /\ upTo \in Seq(S) /\ Len(upTo) = n + 1
        /\ \A k \in 1..(n + 1) : upTo[k] = IF k <= n THEN front[k] ELSE <<x>>[k - n]
    BY <1>5, <2>1, ConcatProperties
  <2> HIDE DEF upTo
  <2>3. n + 1 \in 1..(n + 1) /\ (n + 1) - n = 1 /\ ~(n + 1 <= n)
    BY <1>2
  <2>4. \A k \in 1..n : k \in 1..(n + 1) /\ k <= n
    BY <1>2
  <2> QED
    BY <1>5, <2>1, <2>2, <2>3, <2>4
<1> HIDE DEF upTo
<1> DEFINE new == upTo \o back
<1>8. /\ new \in Seq(S) /\ Len(new) = l + 1
      /\ \A k \in 1..(l + 1) : new[k] = IF k <= n + 1 THEN upTo[k] ELSE back[k - (n + 1)]
  <2>1. /\ new \in Seq(S) /\ Len(new) = Len(upTo) + Len(back)
        /\ \A k \in 1..(Len(upTo) + Len(back)) :
               new[k] = IF k <= Len(upTo) THEN upTo[k] ELSE back[k - Len(upTo)]
    BY <1>6, <1>7, ConcatProperties
  <2> HIDE DEF new
  <2>2. Len(upTo) + Len(back) = l + 1 /\ Len(upTo) = n + 1
    BY <1>1, <1>2, <1>6, <1>7
  <2> QED
    BY <2>1, <2>2
<1>9. Insert(s, x, less) = new
  BY <1>3 DEF upTo
<1> HIDE DEF new
<1>10. Inserts(new, s, x, n)
  <2>1. \A k \in 1..n : k \in 1..(l + 1) /\ k <= n + 1
    BY <1>1, <1>2
  <2>2. n + 1 \in 1..(l + 1) /\ n + 1 <= n + 1
    BY <1>1, <1>2
  <2>3. ASSUME NEW k \in (n + 2)..(l + 1) PROVE new[k] = s[k - 1]
    <3>1. /\ k \in 1..(l + 1) /\ ~(k <= n + 1) /\ k - (n + 1) \in 1..(l - n)
          /\ n + (k - (n + 1)) = k - 1
      BY <1>1, <1>2
    <3> QED
      BY <1>6, <1>8, <3>1
  <2>4. \A k \in 1..n : new[k] = s[k]
    BY <1>7, <1>8, <2>1
  <2>5. new[n + 1] = x
    BY <1>7, <1>8, <2>2
  <2> QED
    BY <1>8, <2>3, <2>4, <2>5 DEF Inserts, l
<1> QED
  BY <1>2, <1>4, <1>8, <1>9, <1>10 DEF l

\* s is a sorted list of the first n elements of seq: position k holds element
\* at[k], each is there once, and those that compare equal keep their order.
SortedAs(s, at, seq, less, n) ==
    /\ Len(s) = n /\ at \in [1..n -> 1..n]
    /\ \A k \in 1..n : s[k] = seq[at[k]]
    /\ \A i \in 1..n : \E k \in 1..n : at[k] = i
    /\ \A j, k \in 1..n : j < k => /\ at[j] # at[k]
                                   /\ <<s[k], s[j]>> \notin less
                                   /\ <<s[j], s[k]>> \notin less => at[j] < at[k]

\* The next element is inserted into the list.
LEMMA SortStep ==
    ASSUME NEW S, NEW seq \in Seq(S), NEW less, Orders(less, S), NEW i \in Nat, i + 1 <= Len(seq),
           NEW s \in Seq(S), NEW at, SortedAs(s, at, seq, less, i)
    PROVE  /\ Insert(s, seq[i + 1], less) \in Seq(S)
           /\ \E to : SortedAs(Insert(s, seq[i + 1], less), to, seq, less, i + 1)
<1> DEFINE x == seq[i + 1]
           new == Insert(s, x, less)
<1>1. x \in S /\ Len(s) = i /\ \A k \in 1..i : s[k] \in S
  <2>1. i + 1 \in 1..Len(seq)
    BY RangeOf
  <2> QED
    BY <2>1, RangeOf DEF SortedAs
<1>2. seq[i + 1] = x
  OBVIOUS
<1> HIDE DEF x
<1>3. \A j, k \in 1..Len(s) : j < k => <<s[k], s[j]>> \notin less
  BY <1>1 DEF SortedAs
<1>4. PICK n \in 0..i : /\ new \in Seq(S) /\ Inserts(new, s, x, n)
                        /\ \A k \in 1..i : <<x, s[k]>> \notin less <=> k <= n
  BY <1>1, <1>3, InsertFacts
<1> HIDE DEF new
<1> DEFINE to == [k \in 1..(i + 1) |-> IF k <= n THEN at[k] ELSE IF k = n + 1 THEN i + 1 ELSE at[k - 1]]
<1>5. ASSUME NEW k \in 1..n
      PROVE  k \in 1..i /\ to[k] = at[k] /\ at[k] \in 1..i /\ new[k] = s[k] /\ s[k] = seq[at[k]]
  <2>1. k \in 1..i /\ k \in 1..(i + 1) /\ k <= n
    BY <1>4
  <2> QED
    BY <1>4, <2>1 DEF Inserts, SortedAs
<1>6. n + 1 \in 1..(i + 1) /\ to[n + 1] = i + 1 /\ new[n + 1] = x
  <2>1. n + 1 \in 1..(i + 1) /\ ~(n + 1 <= n)
    BY <1>4
  <2> QED
    BY <1>4, <2>1 DEF Inserts
<1>7. ASSUME NEW k \in (n + 2)..(i + 1)
      PROVE  /\ k - 1 \in 1..i /\ k - 1 > n /\ to[k] = at[k - 1] /\ at[k - 1] \in 1..i
             /\ new[k] = s[k - 1] /\ s[k - 1] = seq[at[k - 1]]
  <2>1. k - 1 \in 1..i /\ k - 1 > n /\ k \in 1..(i + 1) /\ ~(k <= n) /\ k # n + 1
    BY <1>4
  <2>2. k \in (n + 2)..(Len(s) + 1)
    BY <1>1
  <2> QED
    BY <1>4, <2>1, <2>2 DEF Inserts, SortedAs
<1>8. \A k \in 1..(i + 1) : k \in 1..n \/ k = n + 1 \/ k \in (n + 2)..(i + 1)
  BY <1>4
<1>9. Len(new) = i + 1
  BY <1>1, <1>4 DEF Inserts
<1> HIDE DEF to
<1>10. to \in [1..(i + 1) -> 1..(i + 1)]
  <2>1. \A k \in 1..i : k \in 1..(i + 1)
    OBVIOUS
  <2>2. i + 1 \in 1..(i + 1)
    OBVIOUS
  <2>3. \A k \in 1..(i + 1) : to[k] \in 1..(i + 1)
    BY <1>5, <1>6, <1>7, <1>8, <2>1, <2>2
  <2> QED
    BY <2>3 DEF to
<1>11. \A k \in 1..(i + 1) : new[k] = seq[to[k]]
  BY <1>2, <1>5, <1>6, <1>7, <1>8
<1>12. ASSUME NEW m \in 1..(i + 1) PROVE \E k \in 1..(i + 1) : to[k] = m
  <2>1. CASE m = i + 1
    BY <1>6, <2>1
  <2>2. CASE m # i + 1
    <3>1. m \in 1..i
      BY <2>2
    <3>2. PICK k \in 1..i : at[k] = m
      BY <3>1 DEF SortedAs
    <3>3. CASE k <= n
      <4>1. k \in 1..n /\ k \in 1..(i + 1)
        BY <3>3
      <4> QED
        BY <1>5, <3>2, <4>1
    <3>4. CASE ~(k <= n)
      <4>1. k + 1 \in (n + 2)..(i + 1) /\ (k + 1) - 1 = k /\ k + 1 \in 1..(i + 1)
        BY <1>4, <3>4
      <4> QED
        BY <1>7, <3>2, <4>1
    <3> QED
      BY <3>3, <3>4
  <2> QED
    BY <2>1, <2>2
<1>a. \A j, k \in 1..i : j < k => /\ at[j] # at[k] /\ <<s[k], s[j]>> \notin less
                                  /\ <<s[j], s[k]>> \notin less => at[j] < at[k]
  BY DEF SortedAs
<1>13. ASSUME NEW j \in 1..(i + 1), NEW k \in 1..(i + 1), j < k
       PROVE  /\ to[j] # to[k]
              /\ <<new[k], new[j]>> \notin less
              /\ <<new[j], new[k]>> \notin less => to[j] < to[k]
  <2>1. CASE k \in 1..n
    <3>1. j \in 1..n /\ j \in 1..i /\ k \in 1..i
      BY <1>4, <1>13, <2>1
    <3>2. to[j] = at[j] /\ new[j] = s[j] /\ to[k] = at[k] /\ new[k] = s[k]
      BY <1>5, <2>1, <3>1
    <3> QED
      BY <1>a, <1>13, <3>1, <3>2
  <2>2. CASE k = n + 1
    <3>1. j \in 1..n /\ j \in 1..i /\ j <= n
      BY <1>4, <1>13, <2>2
    <3>2. <<x, s[j]>> \notin less
      BY <1>4, <3>1
    <3>3. to[j] = at[j] /\ new[j] = s[j] /\ at[j] \in 1..i
      BY <1>5, <3>1
    <3>4. at[j] < i + 1 /\ at[j] # i + 1
      BY <3>3
    <3> QED
      BY <1>6, <2>2, <3>2, <3>3, <3>4
  <2>3. CASE k \in (n + 2)..(i + 1)
    <3>0. k - 1 \in 1..i /\ ~(k - 1 <= n) /\ to[k] = at[k - 1] /\ new[k] = s[k - 1] /\ at[k - 1] \in 1..i
      <4>1. k - 1 \in 1..i /\ k - 1 > n /\ to[k] = at[k - 1] /\ new[k] = s[k - 1] /\ at[k - 1] \in 1..i
        BY <1>7, <2>3
      <4> QED
        BY <1>4, <4>1
    <3>1. CASE j \in 1..n
      <4>1. j < k - 1 /\ j \in 1..i
        BY <1>4, <2>3, <3>1
      <4>2. to[j] = at[j] /\ new[j] = s[j]
        BY <1>5, <3>1
      <4> QED
        BY <1>a, <3>0, <4>1, <4>2
    <3>2. CASE j = n + 1
      <4>1. <<x, s[k - 1]>> \in less /\ s[k - 1] \in S
        BY <1>1, <1>4, <3>0
      <4>2. <<s[k - 1], x>> \notin less
        BY <1>1, <4>1 DEF Orders
      <4>3. at[k - 1] # i + 1
        BY <3>0
      <4> QED
        BY <1>6, <3>0, <3>2, <4>1, <4>2, <4>3
    <3>3. CASE j \in (n + 2)..(i + 1)
      <4>1. j - 1 < k - 1 /\ j - 1 \in 1..i
        BY <1>4, <1>13, <3>3
      <4>2. to[j] = at[j - 1] /\ new[j] = s[j - 1]
        BY <1>7, <3>3
      <4> QED
        BY <1>a, <3>0, <4>1, <4>2
    <3> QED
      BY <1>8, <3>1, <3>2, <3>3
  <2> QED
    BY <1>8, <2>1, <2>2, <2>3
<1>14. SortedAs(new, to, seq, less, i + 1)
  BY <1>9, <1>10, <1>11, <1>12, <1>13 DEF SortedAs
<1> QED
  BY <1>2, <1>4, <1>14 DEF new

\* SortBy sorts.
LEMMA SortFacts ==
    ASSUME NEW S, NEW seq \in Seq(S), NEW less, Orders(less, S)
    PROVE  SortBy(seq, less) \in Seq(S) /\ \E at : SortedAs(SortBy(seq, less), at, seq, less, Len(seq))
<1> DEFINE n == Len(seq)
<1>0. n \in Nat
  BY RangeOf
<1>1. PICK f : Sorting(f, seq, less, n) /\ SortBy(seq, less) = f[n]
  <2>1. SortBy(seq, less) = (CHOOSE f : Sorting(f, seq, less, n))[n]
    BY DEF SortBy, Sorting
  <2> QED
    BY <1>0, <2>1, SortingExists
<1> HIDE DEF n
<1> DEFINE Sorts(i) == f[i] \in Seq(S) /\ \E at : SortedAs(f[i], at, seq, less, i)
           T == {i \in Nat : i <= n => Sorts(i)}
<1>2. 0 \in T
  <2>1. f[0] = <<>>
    BY <1>0, <1>1 DEF Sorting
  <2>2. SortedAs(<<>>, [k \in 1..0 |-> 0], seq, less, 0)
    BY DEF SortedAs
  <2>3. <<>> \in Seq(S)
    BY EmptySeq
  <2>4. Sorts(0)
    BY <2>1, <2>2, <2>3
  <2> HIDE DEF Sorts
  <2> QED
    BY <2>4
<1>3. ASSUME NEW i \in T PROVE i + 1 \in T
  <2>0. i \in Nat /\ (i <= n => Sorts(i))
    OBVIOUS
  <2>1. ASSUME i + 1 <= n PROVE Sorts(i + 1)
    <3>1. \A j \in 0..n : j # 0 => f[j] = Insert(f[j - 1], seq[j], less)
      BY <1>1 DEF Sorting
    <3>2. i + 1 \in 0..n /\ i + 1 # 0 /\ (i + 1) - 1 = i /\ Sorts(i)
      BY <1>0, <2>0, <2>1
    <3>3. f[i + 1] = Insert(f[i], seq[i + 1], less)
      BY <3>1, <3>2
    <3>4. PICK at : SortedAs(f[i], at, seq, less, i)
      BY <3>2
    <3>5. i + 1 <= Len(seq) /\ f[i] \in Seq(S)
      BY <2>1, <3>2 DEF n
    <3> QED
      BY <2>0, <3>3, <3>4, <3>5, SortStep
  <2> HIDE DEF Sorts
  <2> QED
    BY <2>0, <2>1
<1>4. T = Nat
  <2> HIDE DEF T
  <2> QED
    BY <1>2, <1>3, NatSet DEF T
<1>5. Sorts(n)
  <2>1. n \in T
    BY <1>0, <1>4
  <2> HIDE DEF Sorts
  <2> QED
    BY <1>0, <2>1
<1> QED
  BY <1>1, <1>5 DEF n

\* A sorted list has the elements of the list, as often as they were there.
LEMMA SortOnce ==
    ASSUME NEW S, NEW seq \in Seq(S), NEW less, Orders(less, S)
    PROVE  /\ SortBy(seq, less) \in Seq(S) /\ Len(SortBy(seq, less)) = Len(seq)
           /\ Range(SortBy(seq, less)) = Range(seq)
           /\ Distinct(seq) => Distinct(SortBy(seq, less))
           /\ \A j, k \in 1..Len(seq) : j < k => <<SortBy(seq, less)[k], SortBy(seq, less)[j]>> \notin less
<1> DEFINE s == SortBy(seq, less)
           n == Len(seq)
<1>1. n \in Nat /\ Range(seq) = {seq[i] : i \in 1..n}
  BY RangeOf
<1>2. PICK at : s \in Seq(S) /\ SortedAs(s, at, seq, less, n)
  BY SortFacts
<1> HIDE DEF s, n
<1>3. Len(s) = n /\ Range(s) = {s[k] : k \in 1..n}
  BY <1>2, RangeOf DEF SortedAs
<1>4. \A k \in 1..n : at[k] \in 1..n /\ s[k] = seq[at[k]]
  BY <1>2 DEF SortedAs
<1>5. \A i \in 1..n : \E k \in 1..n : at[k] = i
  BY <1>2 DEF SortedAs
<1>6. Range(s) = Range(seq)
  <2>1. ASSUME NEW e \in Range(s) PROVE e \in Range(seq)
    <3>1. PICK k \in 1..n : e = s[k]
      BY <1>3
    <3>2. at[k] \in 1..n /\ e = seq[at[k]]
      BY <1>4, <3>1
    <3> QED
      BY <1>1, <3>2
  <2>2. ASSUME NEW e \in Range(seq) PROVE e \in Range(s)
    <3>1. PICK i \in 1..n : e = seq[i]
      BY <1>1
    <3>2. PICK k \in 1..n : at[k] = i
      BY <1>5
    <3>3. e = s[k]
      BY <1>4, <3>1, <3>2
    <3> QED
      BY <1>3, <3>3
  <2> QED
    BY <2>1, <2>2
<1>7. \A j, k \in 1..n : j # k => at[j] # at[k]
  <2>1. \A j, k \in 1..n : j < k => at[j] # at[k]
    BY <1>2 DEF SortedAs
  <2>2. \A j, k \in 1..n : j # k => j < k \/ k < j
    BY <1>1
  <2> QED
    BY <2>1, <2>2
<1>8. Distinct(seq) => Distinct(s)
  BY <1>3, <1>4, <1>7 DEF Distinct, n
<1>9. \A j, k \in 1..n : j < k => <<s[k], s[j]>> \notin less
  BY <1>2 DEF SortedAs
<1> QED
  BY <1>2, <1>3, <1>6, <1>8, <1>9 DEF s, n

-----------------------------------------------------------------------------
(***************************************************************************)
(* The ranking.                                                            *)
(***************************************************************************)
\* A provider as it is ranked.
RankedProviders ==
    [provider : Known, score : Nat, tps : Nat, health : Healths \cup {Nothing}, latency : Nat \cup {Nothing}]

\* The key of the sort orders providers, those with equal keys being equal.
LEMMA BetterOrders ==
    ASSUME NEW s \in RankedProviders, NEW t \in RankedProviders, NEW u \in RankedProviders
    PROVE  /\ Better(s, t) => ~Better(t, s)
           /\ ~Better(s, t) /\ ~Better(t, u) => ~Better(s, u)
<1>1. /\ s.score \in Nat /\ t.score \in Nat /\ u.score \in Nat
      /\ s.tps \in Nat /\ t.tps \in Nat /\ u.tps \in Nat
      /\ LatencyFor(s) \in Nat /\ LatencyFor(t) \in Nat /\ LatencyFor(u) \in Nat
  BY DEF RankedProviders, LatencyFor
<1> QED
  BY <1>1 DEF Better

\* Provider i of seen is the best of the first n, and the first such.
BestOf(seen, n, i) ==
    \A j \in 1..n : ~Better(seen[j], seen[i]) /\ (j < i => Better(seen[i], seen[j]))

\* The ranking starts with the first of the best providers.
LEMMA RankedFirst ==
    ASSUME NEW S \in SUBSET RankedProviders, NEW seen \in Seq(S), seen # <<>>
    PROVE  \E i \in 1..Len(seen) :
               RankProviders(seen)[1] = seen[i] /\ BestOf(seen, Len(seen), i)
<1> DEFINE n == Len(seen)
           U == Range(seen)
           less == {p \in U \X U : Better(p[1], p[2])}
           s == SortBy(seen, less)
<1>0. n \in Nat /\ n # 0 /\ U = {seen[i] : i \in 1..n} /\ U \subseteq RankedProviders
  BY RangeOf, EmptySeq
<1>1. RankProviders(seen) = s
  BY DEF RankProviders, StableSort
<1>2. \A a, b \in U : <<a, b>> \in less <=> Better(a, b)
  OBVIOUS
<1>3. seen \in Seq(U)
  <2>1. \A i \in 1..n : seen[i] \in U
    BY <1>0
  <2> QED
    BY <2>1, SeqDef
<1> HIDE DEF less, U, n
<1>b. \A a \in U : a \in RankedProviders
  BY <1>0
<1>4. Orders(less, U)
  <2> SUFFICES ASSUME NEW a \in U, NEW b \in U, NEW c \in U
               PROVE  /\ <<a, b>> \in less => <<b, a>> \notin less
                      /\ <<a, b>> \notin less /\ <<b, c>> \notin less => <<a, c>> \notin less
    BY DEF Orders
  <2>1. a \in RankedProviders /\ b \in RankedProviders /\ c \in RankedProviders
    BY <1>b
  <2>2. /\ Better(a, b) => ~Better(b, a)
        /\ ~Better(a, b) /\ ~Better(b, c) => ~Better(a, c)
    BY <2>1, BetterOrders
  <2> QED
    BY <1>2, <2>2
<1>5. PICK at : SortedAs(s, at, seen, less, n)
  BY <1>3, <1>4, SortFacts DEF n
<1> HIDE DEF s
<1>c. 1 \in 1..n
  BY <1>0
<1>d. \A k \in 1..n : at[k] \in 1..n /\ s[k] = seen[at[k]]
  BY <1>5 DEF SortedAs
<1>e. \A i \in 1..n : seen[i] \in U
  BY <1>0
<1>6. 1 \in 1..n /\ \A k \in 1..n : at[k] \in 1..n /\ s[k] = seen[at[k]] /\ seen[at[k]] \in U
  BY <1>c, <1>d, <1>e
<1> DEFINE i == at[1]
<1>7. ASSUME NEW j \in 1..n PROVE ~Better(seen[j], seen[i]) /\ (j < i => Better(seen[i], seen[j]))
  <2>1. PICK k \in 1..n : at[k] = j
    BY <1>5 DEF SortedAs
  <2>2. CASE k = 1
    <3>1. seen[j] \in RankedProviders /\ j = i /\ ~(j < j)
      BY <1>0, <1>b, <1>e, <2>1, <2>2
    <3>2. ~Better(seen[j], seen[j])
      BY <3>1, BetterOrders
    <3> QED
      BY <3>1, <3>2
  <2>3. CASE k # 1
    <3>1. 1 < k
      BY <2>3
    <3>2. <<s[k], s[1]>> \notin less /\ (<<s[1], s[k]>> \notin less => i < j)
      BY <1>5, <1>6, <2>1, <3>1 DEF SortedAs
    <3>3. ~Better(seen[j], seen[i]) /\ (~Better(seen[i], seen[j]) => i < j)
      BY <1>2, <1>6, <2>1, <3>2
    <3>4. i < j => ~(j < i)
      BY <1>0, <1>6
    <3> QED
      BY <3>3, <3>4
  <2> QED
    BY <2>2, <2>3
<1> QED
  BY <1>1, <1>6, <1>7 DEF BestOf, n

-----------------------------------------------------------------------------
(***************************************************************************)
(* From the filter to the route.                                           *)
(***************************************************************************)
\* The providers a request may have seen: the policy allows them, and with a
\* probe they are live.
Seeable(probe, judged) ==
    {s \in RankedProviders : s.provider \in Legal(judged) /\ (probe => s.health = "live")}

RankFields   == {"at", "probe", "judged", "todo", "seen"}
RoutedFields == {"at", "probe", "judged", "seen", "choice"}

\* The route is the first of the best providers seen.
ChoseBest(state) ==
    \E i \in 1..Len(state.seen) :
        BestOf(state.seen, Len(state.seen), i) /\ state.choice = state.seen[i].provider

\* A request ranks, and has ranked, only such providers.
RequestOK(state) ==
    /\ state.at = "rank" =>
           /\ DOMAIN state = RankFields /\ state.todo \in Seq(Legal(state.judged))
           /\ state.seen \in Seq(Seeable(state.probe, state.judged))
    /\ state.at = "routed" =>
           /\ state.seen \in Seq(Seeable(state.probe, state.judged))
           /\ ChoseBest(state)

RoutingInv ==
    /\ card \in [Known -> Manifests] /\ policy \in Policies
    /\ DOMAIN router = Routers
    /\ \A r \in Routers : RequestOK(router[r])

\* Nothing is routed at the start.
LEMMA InitRouting == Init => RoutingInv
BY DEF Init, RoutingInv, RequestOK, Idle

\* A step of one router that leaves the manifests and the policy.
LEMMA RequestStep ==
    ASSUME RoutingInv, NEW r \in Routers, NEW s, RequestOK(s),
           router' = [router EXCEPT ![r] = s], UNCHANGED <<card, policy>>
    PROVE  RoutingInv'
<1>1. \A q \in Routers : RequestOK(router'[q])
  BY DEF RoutingInv
<1>2. \A q \in Routers : RequestOK(router[q])' <=> RequestOK(router'[q])
  BY DEF RequestOK, Legal, Seeable, ChoseBest, Known, Providers
<1> QED
  BY <1>1, <1>2 DEF RoutingInv

\* What rank_providers notes of a provider.
LEMMA RankedFacts ==
    ASSUME NEW counters \in Counters, card \in [Known -> Manifests], NEW p \in Known,
           NEW health \in Healths \cup {Nothing}, NEW latency \in Latencies
    PROVE  RankedProvider(p, counters, health, latency) \in RankedProviders
<1>1. Score(counters) \in 0..600
  BY ScoreRange
<1>2. card[p].tps \in Nat
  BY SelectionAssumption
<1>3. latency \in Nat
  BY SelectionAssumption
<1>4. AverageLatency(counters) \in Nat \cup {Nothing}
  <2>1. counters.latency \in Nat /\ counters.timed \in Nat
    BY DEF Counters
  <2> QED
    BY <2>1 DEF AverageLatency
<1> DEFINE l == IF health = Nothing THEN AverageLatency(counters) ELSE latency
           score == Score(counters)
           tps == card[p].tps
<1>5. score \in Nat /\ tps \in Nat /\ l \in Nat \cup {Nothing}
  BY <1>1, <1>2, <1>3, <1>4
<1>6. RankedProvider(p, counters, health, latency) =
          [provider |-> p, score |-> score, tps |-> tps, health |-> health, latency |-> l]
  BY DEF RankedProvider
<1> HIDE DEF l, score, tps
<1> QED
  BY <1>5, <1>6 DEF RankedProviders

\* filter_entries, when a request starts.
LEMMA StartStep ==
    ASSUME CountersInv, RoutingInv, NEW r \in Routers, NEW scored \in BOOLEAN, NEW probe \in BOOLEAN,
           Start(r, scored, probe)
    PROVE  RoutingInv'
<1>0. PICK unread \in SUBSET Known :
          LET scores == ScoresFor(scored, unread)
          IN router' = [router EXCEPT ![r] =
                 [at |-> "rank", probe |-> probe, judged |-> Judged(scores),
                  todo |-> FilterEntries(scores), seen |-> <<>>]]
  BY DEF Start
<1> DEFINE judged == Judged(ScoresFor(scored, unread))
           todo == FilterEntries(ScoresFor(scored, unread))
           s == [at |-> "rank", probe |-> probe, judged |-> judged, todo |-> todo, seen |-> <<>>]
<1>1. todo \in Seq(Legal(judged))
  BY FilteredAreLegal DEF CountersInv, CountersOK, RoutingInv
<1>2. <<>> \in Seq(Seeable(probe, judged))
  BY EmptySeq
<1>3. router' = [router EXCEPT ![r] = s] /\ UNCHANGED <<card, policy>>
  BY <1>0 DEF Start
<1> HIDE DEF judged, todo
<1>4. RequestOK(s)
  BY <1>1, <1>2 DEF RequestOK, RankFields
<1> HIDE DEF s
<1> QED
  BY <1>3, <1>4, RequestStep

\* One turn of the loop of rank_providers.
LEMMA ConsiderStep ==
    ASSUME CountersInv, RoutingInv, NEW r \in Routers, NEW health \in Healths \cup {Nothing},
           NEW latency \in Latencies, Consider(r, health, latency)
    PROVE  RoutingInv'
<1> DEFINE old == router[r]
           S == Seeable(old.probe, old.judged)
           p == Head(old.todo)
<1>0. PICK read \in LoadRaw :
          router' = [router EXCEPT ![r].todo = Tail(@),
                                   ![r].seen = IF health # Nothing /\ ~Healthy(health) THEN @
                                               ELSE Append(@, RankedProvider(p, read[p], health, latency))]
  BY DEF Consider
<1> DEFINE e == RankedProvider(p, read[p], health, latency)
           seen == IF health # Nothing /\ ~Healthy(health) THEN old.seen ELSE Append(old.seen, e)
           s == [old EXCEPT !.todo = Tail(old.todo), !.seen = seen]
<1>1. /\ old.at = "rank" /\ old.todo # <<>> /\ (health = Nothing <=> ~old.probe)
      /\ DOMAIN old = RankFields /\ old.todo \in Seq(Legal(old.judged)) /\ old.seen \in Seq(S)
  BY DEF Consider, RoutingInv, RequestOK
<1>2. p \in Legal(old.judged) /\ Tail(old.todo) \in Seq(Legal(old.judged))
  BY <1>1, HeadTailProperties
<1>3. seen \in Seq(S)
  <2>0. p \in Known /\ read \in [Known -> Counters]
    BY <1>2, LoadRawFacts DEF CountersInv, CountersOK, Legal
  <2>1. p \in Known /\ e \in RankedProviders
    BY <2>0, RankedFacts DEF RoutingInv
  <2>2. e.provider = p /\ e.health = health
    BY DEF RankedProvider
  <2>3. CASE health # Nothing /\ ~Healthy(health)
    BY <1>1, <2>3
  <2>4. CASE health = Nothing \/ Healthy(health)
    <3>1. old.probe => health = "live"
      BY <1>1, <2>4 DEF Healthy
    <3>2. e \in S
      BY <1>2, <2>1, <2>2, <3>1 DEF Seeable
    <3> HIDE DEF S, e
    <3>3. Append(old.seen, e) \in Seq(S)
      BY <1>1, <3>2, AppendProperties
    <3> QED
      BY <2>4, <3>3
  <2> QED
    BY <2>3, <2>4
<1>4. router' = [router EXCEPT ![r] = s] /\ UNCHANGED <<card, policy>>
  BY <1>0, <1>1 DEF Consider, RankFields, RoutingInv
<1> HIDE DEF seen, p
<1>5. /\ DOMAIN s = RankFields /\ s.at = "rank" /\ s.probe = old.probe /\ s.judged = old.judged
      /\ s.todo = Tail(old.todo) /\ s.seen = seen
  BY <1>1 DEF RankFields
<1>6. RequestOK(s)
  <2> HIDE DEF s, old
  <2> QED
    BY <1>2, <1>3, <1>5 DEF RequestOK
<1> HIDE DEF s
<1> QED
  BY <1>4, <1>6, RequestStep

\* The request goes to the first of the ranking.
LEMMA RouteStep ==
    ASSUME RoutingInv, NEW r \in Routers, Route(r)
    PROVE  RoutingInv'
<1> DEFINE old == router[r]
           S == Seeable(old.probe, old.judged)
           choice == RankProviders(old.seen)[1].provider
           s == [at |-> "routed", probe |-> old.probe, judged |-> old.judged, seen |-> old.seen,
                 choice |-> choice]
<1>1. old.seen \in Seq(S) /\ UNCHANGED <<card, policy>>
  BY DEF Route, RoutingInv, RequestOK
<1>2. CASE old.seen = <<>>
  <2>1. RequestOK(Idle)
    BY DEF RequestOK, Idle
  <2> QED
    BY <1>1, <1>2, <2>1, RequestStep DEF Route
<1>3. CASE old.seen # <<>>
  <2>1. S \in SUBSET RankedProviders
    BY DEF Seeable
  <2>2. \E i \in 1..Len(old.seen) :
            RankProviders(old.seen)[1] = old.seen[i] /\ BestOf(old.seen, Len(old.seen), i)
    <3> HIDE DEF S, old
    <3> QED
      BY <1>1, <1>3, <2>1, RankedFirst
  <2>3. \E i \in 1..Len(old.seen) :
            BestOf(old.seen, Len(old.seen), i) /\ choice = old.seen[i].provider
    BY <2>2
  <2>4. router' = [router EXCEPT ![r] = s]
    BY <1>3 DEF Route
  <2> HIDE DEF choice, old
  <2>5. /\ s.at = "routed" /\ s.seen = old.seen /\ s.choice = choice
        /\ s.probe = old.probe /\ s.judged = old.judged
    OBVIOUS
  <2> HIDE DEF s
  <2>6. RequestOK(s)
    BY <1>1, <2>3, <2>5 DEF RequestOK, ChoseBest
  <2> QED
    BY <1>1, <2>4, <2>6, RequestStep
<1> QED
  BY <1>2, <1>3

\* Every step keeps the invariant.
LEMMA NextRouting == CountersInv /\ RoutingInv /\ [Next]_vars => RoutingInv'
<1> SUFFICES ASSUME CountersInv, RoutingInv, [Next]_vars PROVE RoutingInv'
  OBVIOUS
<1>1. CASE UNCHANGED vars
  BY <1>1 DEF vars, RoutingInv, RequestOK, Legal, Seeable, ChoseBest, Known, Providers
<1>2. ASSUME NEW r \in Routers, Write(r) \/ Dies(r)
      PROVE  RoutingInv'
  <2>1. RequestOK(Idle)
    BY DEF RequestOK, Idle
  <2> QED
    BY <1>2, <2>1, RequestStep DEF Write, Dies
<1>3. ASSUME NEW r \in Routers, NEW o \in Outcomes, Load(r, o)
      PROVE  RoutingInv'
  <2>0. PICK read \in LoadRaw :
            router' = [router EXCEPT ![r] = [at |-> "record", choice |-> router[r].choice,
                                             outcome |-> o, loaded |-> read]]
    BY <1>3 DEF Load
  <2> DEFINE s == [at |-> "record", choice |-> router[r].choice, outcome |-> o, loaded |-> read]
  <2>1. RequestOK(s)
    BY DEF RequestOK
  <2>2. router' = [router EXCEPT ![r] = s] /\ UNCHANGED <<card, policy>>
    BY <1>3, <2>0 DEF Load
  <2> HIDE DEF s
  <2> QED
    BY <2>1, <2>2, RequestStep
<1>4. CASE Next
  BY <1>2, <1>3, <1>4, StartStep, ConsiderStep, RouteStep DEF Next
<1> QED
  BY <1>1, <1>4

\* A request goes to the best provider of those the policy allows and that are
\* alive: filter_entries lets no other through for any policy, and the first of
\* the ranking is the first of the best for any scores, latencies and throughputs.
THEOREM RoutedIsBestAllowedHolds == Spec => []RoutedIsBestAllowed
<1>1. RoutingInv => RoutedIsBestAllowed
  <2> SUFFICES ASSUME RoutingInv, NEW r \in Routers, router[r].at = "routed"
               PROVE  /\ Allowed(policy, router[r].choice, card[router[r].choice], router[r].judged)
                      /\ router[r].probe => \E s \in Range(router[r].seen) :
                             s.provider = router[r].choice /\ s.health = "live"
                      /\ LET seen  == router[r].seen
                             all   == Range(seen)
                             high  == {s \in all : \A t \in all : t.score <= s.score}
                             quick == {s \in high : \A t \in high : LatencyFor(s) <= LatencyFor(t)}
                             fast  == {s \in quick : \A t \in quick : t.tps <= s.tps}
                         IN \E i \in DOMAIN seen :
                                /\ seen[i] \in fast /\ \A j \in 1..(i - 1) : seen[j] \notin fast
                                /\ router[r].choice = seen[i].provider
    BY DEF RoutedIsBestAllowed, RoutedIsAllowed, RoutedIsBest
  <2> DEFINE seen  == router[r].seen
             n     == Len(seen)
             S     == Seeable(router[r].probe, router[r].judged)
             all   == Range(seen)
             high  == {s \in all : \A t \in all : t.score <= s.score}
             quick == {s \in high : \A t \in high : LatencyFor(s) <= LatencyFor(t)}
             fast  == {s \in quick : \A t \in quick : t.tps <= s.tps}
  <2>1. seen \in Seq(S) /\ ChoseBest(router[r])
    BY DEF RoutingInv, RequestOK
  <2>2. PICK i \in 1..n : BestOf(seen, n, i) /\ router[r].choice = seen[i].provider
    BY <2>1 DEF ChoseBest
  <2> HIDE DEF seen
  <2>3. /\ n \in Nat /\ DOMAIN seen = 1..n /\ all = {seen[j] : j \in 1..n}
        /\ \A j \in 1..n : seen[j] \in S
    <3> HIDE DEF S
    <3> QED
      BY <2>1, RangeOf
  <2>4. seen[i] \in S
    BY <2>3
  <2>5. Allowed(policy, router[r].choice, card[router[r].choice], router[r].judged)
    BY <2>2, <2>4 DEF Seeable, Legal
  <2>6. router[r].probe => \E s \in all : s.provider = router[r].choice /\ s.health = "live"
    <3>1. seen[i] \in all
      BY <2>3
    <3> QED
      BY <2>2, <2>4, <3>1 DEF Seeable
  <2>7. \A s \in all : s.score \in Nat /\ s.tps \in Nat /\ LatencyFor(s) \in Nat
    <3>1. \A s \in RankedProviders : s.score \in Nat /\ s.tps \in Nat /\ LatencyFor(s) \in Nat
      BY DEF RankedProviders, LatencyFor
    <3>2. \A s \in S : s \in RankedProviders
      BY DEF Seeable
    <3> HIDE DEF S
    <3> QED
      BY <2>3, <3>1, <3>2
  <2> HIDE DEF S, n
  <2>8. seen[i] \in all /\ \A t \in all : ~Better(t, seen[i])
    BY <2>2, <2>3 DEF BestOf
  <2>9. \A j \in 1..(i - 1) : seen[j] \in all /\ Better(seen[i], seen[j])
    <3>1. \A j \in 1..(i - 1) : j \in 1..n /\ j < i
      BY <2>2, <2>3
    <3> QED
      BY <2>2, <2>3, <3>1 DEF BestOf
  <2> DEFINE best == seen[i]
  <2> HIDE DEF best, all
  <2>10. best \in high
    BY <2>7, <2>8 DEF best, Better
  <2>11. \A t \in high : t \in all /\ t.score = best.score
    BY <2>7, <2>8, <2>10 DEF best
  <2>12. best \in quick
    <3>1. \A t \in high : ~(LatencyFor(t) < LatencyFor(best))
      BY <2>8, <2>11 DEF best, Better
    <3> QED
      BY <2>7, <2>8, <2>10, <2>11, <3>1 DEF best
  <2> HIDE DEF high
  <2>13. \A t \in quick : t \in high /\ LatencyFor(t) = LatencyFor(best)
    BY <2>7, <2>10, <2>11, <2>12
  <2>14. best \in fast
    <3>1. \A t \in quick : ~(t.tps > best.tps)
      BY <2>8, <2>11, <2>13 DEF best, Better
    <3> HIDE DEF quick
    <3>2. \A t \in quick : t.tps \in Nat /\ best.tps \in Nat
      BY <2>7, <2>10, <2>11, <2>13
    <3>3. \A t \in quick : t.tps <= best.tps
      BY <3>1, <3>2
    <3> QED
      BY <2>12, <3>3
  <2>15. \A t \in fast : t \in quick /\ t.tps = best.tps
    <3>1. \A t \in fast : t \in quick /\ t.tps <= best.tps /\ best.tps <= t.tps
      <4> HIDE DEF quick
      <4> QED
        BY <2>12, <2>14
    <3> HIDE DEF fast, quick
    <3>2. \A t \in quick : t.tps \in Nat /\ best.tps \in Nat
      BY <2>7, <2>10, <2>11, <2>13
    <3> QED
      BY <3>1, <3>2
  <2> HIDE DEF quick, fast
  <2>16. \A j \in 1..(i - 1) : seen[j] \notin fast
    <3> SUFFICES ASSUME NEW j \in 1..(i - 1), seen[j] \in fast PROVE FALSE
      OBVIOUS
    <3> DEFINE t == seen[j]
    <3>1. /\ t.score = best.score /\ LatencyFor(t) = LatencyFor(best) /\ t.tps = best.tps
          /\ t \in all /\ best \in all
      BY <2>10, <2>11, <2>13, <2>15
    <3>2. Better(best, t)
      BY <2>9 DEF best
    <3> HIDE DEF t
    <3> QED
      BY <2>7, <3>1, <3>2 DEF Better
  <2>17. \E k \in DOMAIN seen : /\ seen[k] \in fast /\ \A j \in 1..(k - 1) : seen[j] \notin fast
                                /\ router[r].choice = seen[k].provider
    BY <2>2, <2>3, <2>14, <2>16 DEF best
  <2> QED
    BY <2>5, <2>6, <2>17 DEF seen, all, high, quick, fast
<1>2. Spec => [](CountersInv /\ RoutingInv)
  BY InitCounters, NextCounters, InitRouting, NextRouting, PTL DEF Spec
<1> QED
  BY <1>1, <1>2, PTL

-----------------------------------------------------------------------------
(***************************************************************************)
(* The ranked registry.                                                    *)
(***************************************************************************)
\* Of two ways to write a product the one with the larger factor has the smaller
\* other one.
LEMMA FactorFalls ==
    ASSUME NEW K \in Nat, NEW a \in Nat, NEW b \in Nat, NEW q \in Nat, NEW r \in Nat,
           K > 0, a > 0, a <= b, K = a * q, K = b * r
    PROVE  r <= q /\ (a < b => r < q)
<1> DEFINE e == b - a
<1>1. e \in Nat /\ b = a + e /\ (a < b => e > 0)
  OBVIOUS
<1> HIDE DEF e
<1>2. b * r = a * r + e * r
  BY <1>1
<1>3. r > 0
  <2> SUFFICES ASSUME r = 0 PROVE FALSE
    OBVIOUS
  <2>1. b * r = 0
    OBVIOUS
  <2> QED
    BY <2>1
<1>4. a * r \in Nat /\ e * r \in Nat
  BY <1>1
<1>5. r <= q
  <2> SUFFICES ASSUME q < r PROVE FALSE
    OBVIOUS
  <2> DEFINE d == r - q
  <2>1. d \in Nat /\ d > 0 /\ r = q + d
    OBVIOUS
  <2> HIDE DEF d
  <2>2. a * r = a * q + a * d
    BY <2>1
  <2>3. a * d \in Nat /\ a * d > 0
    BY <2>1
  <2> QED
    BY <1>2, <1>4, <2>2, <2>3
<1>6. ASSUME a < b PROVE r < q
  <2> SUFFICES ASSUME r = q PROVE FALSE
    BY <1>5
  <2>1. e * r > 0
    BY <1>1, <1>3, <1>6
  <2> QED
    BY <1>2, <1>4, <2>1
<1> QED
  BY <1>5, <1>6

\* A division without a rest.
LEMMA QuotientFactor ==
    ASSUME NEW K \in Nat, NEW a \in Nat, a > 0, K % a = 0
    PROVE  K \div a \in Nat /\ K = a * (K \div a)
<1> DEFINE q == K \div a
<1>1. q \in Nat
  OBVIOUS
<1>2. q \in Int /\ q = K \div a
  BY <1>1
<1> HIDE DEF q
<1>3. K = a * q
  BY <1>2
<1> QED
  BY <1>1, <1>2, <1>3

\* Dividing by more gives less, where there is no rest.
LEMMA QuotientFalls ==
    ASSUME NEW K \in Nat, NEW a \in Nat, NEW b \in Nat, K > 0, a > 0, a <= b, K % a = 0, K % b = 0
    PROVE  /\ K \div a \in Nat /\ K \div b \in Nat /\ K \div b <= K \div a
           /\ a < b => K \div b < K \div a
<1> DEFINE q == K \div a
           r == K \div b
<1>1. q \in Nat /\ r \in Nat /\ K = a * q /\ K = b * r
  BY QuotientFactor
<1> HIDE DEF q, r
<1>2. r <= q /\ (a < b => r < q)
  BY <1>1, FactorFalls
<1> QED
  BY <1>1, <1>2 DEF q, r

\* The sub-score of an effective latency of w over d, for an anchor c and a scale
\* s, falls with it.
LEMMA LatencyFalls ==
    ASSUME NEW s \in Nat, NEW c \in Nat, s > 0, c > 0,
           NEW d \in Nat, NEW w \in Nat, NEW e \in Nat, NEW v \in Nat, d > 0, e > 0,
           (s * c * d) % (c * d + w) = 0, (s * c * e) % (c * e + v) = 0, w * e <= v * d
    PROVE  LET x == (s * c * d) \div (c * d + w)
               y == (s * c * e) \div (c * e + v)
           IN  x \in Nat /\ y \in Nat /\ y <= x /\ (w * e < v * d => y < x)
<1> DEFINE x == (s * c * d) \div (c * d + w)
           y == (s * c * e) \div (c * e + v)
           a == c * d + w
           b == c * e + v
           K == s * c
<1>1. c * d \in Nat /\ c * d > 0 /\ c * e \in Nat /\ c * e > 0 /\ K \in Nat /\ K > 0
  OBVIOUS
<1>2. K * d \in Nat /\ K * d > 0 /\ K * e \in Nat /\ K * e > 0
  <2> HIDE DEF K
  <2> QED
    BY <1>1
<1>3. x \in Nat /\ K * d = a * x /\ y \in Nat /\ K * e = b * y
  <2>1. a \in Nat /\ a > 0 /\ b \in Nat /\ b > 0 /\ (K * d) % a = 0 /\ (K * e) % b = 0
    BY <1>1
  <2>2. x = (K * d) \div a /\ y = (K * e) \div b
    OBVIOUS
  <2> HIDE DEF K, a, b, x, y
  <2> QED
    BY <1>2, <2>1, <2>2, QuotientFactor
<1>4. a \in Nat /\ a > 0 /\ b \in Nat /\ b > 0
  BY <1>1
<1>5. a * e = c * d * e + w * e /\ b * d = c * d * e + v * d
  BY <1>1
<1>6. c * d * e \in Nat /\ w * e \in Nat /\ v * d \in Nat
  BY <1>1
<1> HIDE DEF x, y, a, b, K
<1>7. K * d * e = (a * e) * x /\ K * d * e = (b * d) * y
  <2>1. (K * d) * e = (a * x) * e /\ (K * e) * d = (b * y) * d
    BY <1>3
  <2>2. (K * d) * e = (K * e) * d /\ (a * x) * e = (a * e) * x /\ (b * y) * d = (b * d) * y
    BY <1>1, <1>3, <1>4
  <2> QED
    BY <2>1, <2>2
<1>8. K * d * e \in Nat /\ K * d * e > 0 /\ a * e \in Nat /\ a * e > 0 /\ b * d \in Nat
  BY <1>2, <1>4
<1>9. a * e <= b * d /\ (w * e < v * d => a * e < b * d)
  BY <1>5, <1>6
<1>10. y <= x /\ (a * e < b * d => y < x)
  <2> DEFINE M == K * d * e
             f == a * e
             g == b * d
  <2>1. M \in Nat /\ M > 0 /\ f \in Nat /\ f > 0 /\ g \in Nat /\ f <= g /\ M = f * x /\ M = g * y
    BY <1>7, <1>8, <1>9
  <2> HIDE DEF M, f, g
  <2>2. y <= x /\ (f < g => y < x)
    BY <1>3, <2>1, FactorFalls
  <2> QED
    BY <2>2 DEF f, g
<1> QED
  BY <1>3, <1>9, <1>10 DEF x, y

\* What a manifest says of latency and price are numbers.
LEMMA CostFacts ==
    ASSUME NEW m \in Manifests
    PROVE  Wait(m) \in Nat /\ Per(m) \in Nat /\ Per(m) > 0 /\ m.input + m.output \in Nat
<1>1. m.ttft \in Nat /\ m.tps \in Nat /\ m.input \in Nat /\ m.output \in Nat
  BY SelectionAssumption
<1>2. Per(m) \in Nat /\ Per(m) > 0
  BY <1>1 DEF Per
<1>3. m.ttft * Per(m) \in Nat
  BY <1>1, <1>2
<1> QED
  BY <1>1, <1>2, <1>3 DEF Wait, LatencyAnchor

\* A provider that is nowhere worse has no lower score, and a higher one if it
\* is somewhere better.
LEMMA DominanceScores ==
    ASSUME NEW m \in Manifests, NEW n \in Manifests, NEW asked,
           asked.model \in m.models, asked.model \in n.models
    PROVE  /\ ScoreProvider(m, asked) \in Int
           /\ Dominates(m, n, asked) => ScoreProvider(n, asked) < ScoreProvider(m, asked)
<1> DEFINE latency(x) == (Scale * LatencyAnchor * Per(x)) \div (LatencyAnchor * Per(x) + Wait(x))
           price(x) == (2 * Scale * PriceAnchor) \div (2 * PriceAnchor + x.input + x.output)
           privacy(x) == IF Matches(x, asked) THEN Scale ELSE 0
           trust == Scale \div 2
<1>0. Scale \in Nat /\ Scale > 0 /\ trust \in Nat
  BY ScaleAssumption
<1>1. ASSUME NEW x \in Manifests, NEW y \in Manifests, NotLater(x, y)
      PROVE  /\ latency(x) \in Nat /\ latency(y) \in Nat /\ latency(y) <= latency(x)
             /\ Sooner(x, y) => latency(y) < latency(x)
  <2>1. /\ (Scale * LatencyAnchor * Per(x)) % (LatencyAnchor * Per(x) + Wait(x)) = 0
        /\ (Scale * LatencyAnchor * Per(y)) % (LatencyAnchor * Per(y) + Wait(y)) = 0
    BY ScaleAssumption
  <2>2. LatencyAnchor \in Nat /\ LatencyAnchor > 0
    BY DEF LatencyAnchor
  <2>3. /\ Wait(x) \in Nat /\ Per(x) \in Nat /\ Per(x) > 0
        /\ Wait(y) \in Nat /\ Per(y) \in Nat /\ Per(y) > 0
    BY CostFacts
  <2>4. Wait(x) * Per(y) <= Wait(y) * Per(x)
    BY <1>1 DEF NotLater
  <2>5. /\ latency(x) \in Nat /\ latency(y) \in Nat /\ latency(y) <= latency(x)
        /\ Wait(x) * Per(y) < Wait(y) * Per(x) => latency(y) < latency(x)
    BY <1>0, <2>1, <2>2, <2>3, <2>4, LatencyFalls
  <2> HIDE DEF latency
  <2> QED
    BY <2>5 DEF Sooner
<1>2. ASSUME NEW x \in Manifests, NEW y \in Manifests, x.input + x.output <= y.input + y.output
      PROVE  /\ price(x) \in Nat /\ price(y) \in Nat /\ price(y) <= price(x)
             /\ x.input + x.output < y.input + y.output => price(y) < price(x)
  <2> DEFINE K == 2 * Scale * PriceAnchor
             a == 2 * PriceAnchor + x.input + x.output
             b == 2 * PriceAnchor + y.input + y.output
  <2>0. x.input \in Nat /\ x.output \in Nat /\ y.input \in Nat /\ y.output \in Nat
    BY SelectionAssumption
  <2>1. /\ K \in Nat /\ K > 0 /\ a \in Nat /\ b \in Nat /\ a > 0 /\ a <= b
        /\ x.input + x.output < y.input + y.output => a < b
    BY <1>0, <1>2, <2>0 DEF PriceAnchor
  <2>2. K % a = 0 /\ K % b = 0
    BY ScaleAssumption
  <2>3. price(x) = K \div a /\ price(y) = K \div b
    OBVIOUS
  <2> HIDE DEF K, a, b, price
  <2> QED
    BY <2>1, <2>2, <2>3, QuotientFalls
<1>3. \A x \in {m, n} : ScoreProvider(x, asked) =
          25 * Scale + 20 * latency(x) + 15 * price(x) + (15 + 10) * trust + 10 * privacy(x)
  BY DEF ScoreProvider, Matches
<1> DEFINE lm == latency(m)
           ln == latency(n)
           pm == price(m)
           pn == price(n)
           vm == privacy(m)
           vn == privacy(n)
<1>4. lm \in Nat /\ pm \in Nat /\ vm \in {0, Scale} /\ vn \in {0, Scale}
  <2>1. NotLater(m, m) /\ m.input + m.output <= m.input + m.output
    BY CostFacts DEF NotLater
  <2> HIDE DEF latency, price
  <2> QED
    BY <1>1, <1>2, <2>1
<1>5. /\ ScoreProvider(m, asked) = 25 * Scale + 20 * lm + 15 * pm + (15 + 10) * trust + 10 * vm
      /\ ScoreProvider(n, asked) = 25 * Scale + 20 * ln + 15 * pn + (15 + 10) * trust + 10 * vn
  BY <1>3
<1>6. ASSUME Dominates(m, n, asked)
      PROVE  /\ ln \in Nat /\ pn \in Nat /\ ln <= lm /\ pn <= pm /\ vn <= vm
             /\ ln < lm \/ pn < pm \/ vn < vm
  <2>1. /\ NotLater(m, n) /\ m.input + m.output <= n.input + n.output
        /\ Matches(n, asked) => Matches(m, asked)
        /\ \/ Sooner(m, n) \/ m.input + m.output < n.input + n.output
           \/ Matches(m, asked) /\ ~Matches(n, asked)
    BY <1>6 DEF Dominates
  <2>2. vn <= vm /\ (Matches(m, asked) /\ ~Matches(n, asked) => vn < vm)
    BY <1>0, <2>1
  <2>3. ln \in Nat /\ ln <= lm /\ (Sooner(m, n) => ln < lm)
    <3> HIDE DEF latency
    <3> QED
      BY <1>1, <2>1
  <2>4. pn \in Nat /\ pn <= pm /\ (m.input + m.output < n.input + n.output => pn < pm)
    <3> HIDE DEF price
    <3> QED
      BY <1>2, <2>1
  <2> HIDE DEF lm, ln, pm, pn, vm, vn
  <2> QED
    BY <2>1, <2>2, <2>3, <2>4
<1> HIDE DEF lm, ln, pm, pn, vm, vn, trust
<1> QED
  BY <1>0, <1>4, <1>5, <1>6

\* The entries of the registry, each once.
LEMMA RegistryOnce ==
    \E A : Providers \in Seq(A) /\ Distinct(Providers) /\ Range(Providers) = Known
<1> DEFINE S == Range(Listed) \ {Nothing}
<1>1. Listed \in Seq(Range(Listed)) /\ DOMAIN Listed = 1..Len(Listed)
  BY SelectionAssumption, RangeOf
<1>2. \A i, j \in 1..Len(Listed) : i # j /\ Listed[i] \in S => Listed[i] # Listed[j]
  BY <1>1, SelectionAssumption
<1>3. Providers = Those(Listed, S)
  BY DEF Providers
<1> HIDE DEF S
<1>4. Providers \in Seq(S) /\ Distinct(Providers)
  BY <1>1, <1>2, <1>3, ThoseOnce
<1> QED
  BY <1>4 DEF Known

\* resolve ranks those that serve the model and verify, each once, in the order
\* of their scores.
LEMMA ResolveFacts ==
    ASSUME NEW asked, NEW strict \in BOOLEAN, card \in [Known -> Manifests]
    PROVE  LET ranked == Resolve(asked, strict)
               found  == {p \in Known : asked.model \in card[p].models /\ (strict => card[p].valid)}
           IN  /\ ranked \in Seq(found) /\ Range(ranked) = found /\ Len(ranked) = Cardinality(found)
               /\ Distinct(ranked)
               /\ \A j, k \in 1..Len(ranked) : j < k =>
                      ~(ScoreProvider(card[ranked[k]], asked) > ScoreProvider(card[ranked[j]], asked))
<1> DEFINE serves == {p \in Known : asked.model \in card[p].models}
           checked == {p \in Known : strict => card[p].valid}
           found == {p \in Known : asked.model \in card[p].models /\ (strict => card[p].valid)}
           offers == ForModel(asked.model)
           entries == Those(offers, checked)
           ranked == Resolve(asked, strict)
           score == [p \in Known |-> ScoreProvider(card[p], asked)]
           less == {x \in Range(entries) \X Range(entries) : score[x[1]] > score[x[2]]}
<1>1. PICK A : Providers \in Seq(A) /\ Distinct(Providers) /\ Range(Providers) = Known
  BY RegistryOnce
<1>2. offers = Those(Providers, serves) /\ serves \subseteq Known
  BY DEF ForModel
<1>3. ranked = SortBy(entries, less)
  BY DEF Resolve, RankCandidates, StableSort
<1>4. found = serves \cap checked
  OBVIOUS
<1>a. \A p \in found : p \in Known /\ asked.model \in card[p].models /\ card[p] \in Manifests
  OBVIOUS
<1> HIDE DEF serves, checked, found, offers
<1>5. offers \in Seq(serves) /\ Distinct(offers) /\ Range(offers) = serves
  <2>1. \A i, j \in 1..Len(Providers) : i # j /\ Providers[i] \in serves => Providers[i] # Providers[j]
    BY <1>1 DEF Distinct
  <2> QED
    BY <1>1, <1>2, <2>1, ThoseOnce
<1>6. entries \in Seq(checked) /\ Distinct(entries) /\ Range(entries) = found
  <2>1. \A i, j \in 1..Len(offers) : i # j /\ offers[i] \in checked => offers[i] # offers[j]
    BY <1>5 DEF Distinct
  <2> QED
    BY <1>4, <1>5, <2>1, ThoseOnce
<1>7. \A p, q \in found : <<p, q>> \in less <=> score[p] > score[q]
  BY <1>6
<1>8. \A p \in found : score[p] = ScoreProvider(card[p], asked) /\ score[p] \in Int
  BY <1>a, DominanceScores
<1> HIDE DEF entries, score, less
<1>9. entries \in Seq(found)
  <2>1. \A i \in 1..Len(entries) : entries[i] \in found
    BY <1>6, RangeOf
  <2>2. Len(entries) \in Nat /\ entries \in [1..Len(entries) -> checked]
    BY <1>6, LenProperties
  <2>3. entries \in [1..Len(entries) -> found]
    BY <2>1, <2>2
  <2> QED
    BY <2>2, <2>3, SeqDef
<1>10. Orders(less, found)
  <2> SUFFICES ASSUME NEW a \in found, NEW b \in found, NEW c \in found
               PROVE  /\ <<a, b>> \in less => <<b, a>> \notin less
                      /\ <<a, b>> \notin less /\ <<b, c>> \notin less => <<a, c>> \notin less
    BY DEF Orders
  <2>1. score[a] \in Int /\ score[b] \in Int /\ score[c] \in Int
    BY <1>8
  <2> QED
    BY <1>7, <2>1
<1>11. /\ ranked \in Seq(found) /\ Len(ranked) = Len(entries) /\ Range(ranked) = found /\ Distinct(ranked)
       /\ \A j, k \in 1..Len(ranked) : j < k => <<ranked[k], ranked[j]>> \notin less
  BY <1>3, <1>6, <1>9, <1>10, SortOnce
<1>12. Len(ranked) = Cardinality(found)
  BY <1>11, DistinctLength
<1>13. ASSUME NEW j \in 1..Len(ranked), NEW k \in 1..Len(ranked), j < k
       PROVE  ~(ScoreProvider(card[ranked[k]], asked) > ScoreProvider(card[ranked[j]], asked))
  <2>1. ranked[j] \in found /\ ranked[k] \in found
    BY <1>11, RangeOf
  <2>2. ~(score[ranked[k]] > score[ranked[j]])
    BY <1>7, <1>11, <1>13, <2>1
  <2> QED
    BY <1>8, <2>1, <2>2
<1> QED
  BY <1>11, <1>12, <1>13 DEF found

\* resolve returns every provider that serves the model (and verifies, when
\* that is asked), once, and never puts one before another that is nowhere worse
\* and somewhere better, whatever the manifests of the providers are.
THEOREM RankRespectsDominanceHolds == Spec => []RankRespectsDominance
<1>1. RoutingInv => RankRespectsDominance
  <2> SUFFICES ASSUME RoutingInv, NEW asked \in Requests, NEW strict \in BOOLEAN
               PROVE  LET ranked == Resolve(asked, strict)
                          found  == {p \in Known : asked.model \in card[p].models /\ (strict => card[p].valid)}
                      IN  /\ Range(ranked) = found /\ Len(ranked) = Cardinality(found)
                          /\ \A i, j \in DOMAIN ranked :
                                Dominates(card[ranked[i]], card[ranked[j]], asked) => i < j
    BY DEF RankRespectsDominance
  <2> DEFINE ranked == Resolve(asked, strict)
             found == {p \in Known : asked.model \in card[p].models /\ (strict => card[p].valid)}
  <2>1. card \in [Known -> Manifests]
    BY DEF RoutingInv
  <2>2. /\ ranked \in Seq(found) /\ Range(ranked) = found /\ Len(ranked) = Cardinality(found)
        /\ \A j, k \in 1..Len(ranked) : j < k =>
               ~(ScoreProvider(card[ranked[k]], asked) > ScoreProvider(card[ranked[j]], asked))
    BY <2>1, ResolveFacts
  <2>3. \A p \in found : card[p] \in Manifests /\ asked.model \in card[p].models
    BY <2>1
  <2> HIDE DEF found, ranked
  <2>4. DOMAIN ranked = 1..Len(ranked) /\ Len(ranked) \in Nat /\ \A i \in 1..Len(ranked) : ranked[i] \in found
    BY <2>2, RangeOf
  <2>5. ASSUME NEW i \in 1..Len(ranked), NEW j \in 1..Len(ranked),
               Dominates(card[ranked[i]], card[ranked[j]], asked)
        PROVE  i < j
    <3> DEFINE m == card[ranked[i]]
               n == card[ranked[j]]
    <3>1. m \in Manifests /\ n \in Manifests /\ asked.model \in m.models /\ asked.model \in n.models
      BY <2>3, <2>4
    <3>2. /\ ScoreProvider(m, asked) \in Int /\ ScoreProvider(n, asked) \in Int
          /\ ScoreProvider(n, asked) < ScoreProvider(m, asked)
      <4> HIDE DEF m, n
      <4>1. Dominates(m, n, asked)
        BY <2>5 DEF m, n
      <4> QED
        BY <3>1, <4>1, DominanceScores
    <3>3. i # j
      BY <3>2
    <3>4. ~(j < i)
      BY <2>2, <3>2
    <3> QED
      BY <2>4, <3>3, <3>4
  <2> QED
    BY <2>2, <2>4, <2>5 DEF ranked, found
<1>2. Spec => [](CountersInv /\ RoutingInv)
  BY InitCounters, NextCounters, InitRouting, NextRouting, PTL DEF Spec
<1> QED
  BY <1>1, <1>2, PTL

-----------------------------------------------------------------------------
(***************************************************************************)
(* The node: a benchmark.                                                  *)
(***************************************************************************)
\* What has been read of a stream, when the clock shows now: no content came
\* before the request or after now, and the first piece is timed.
StreamSound(s, now) ==
    /\ s.start \in Nat /\ s.start <= now
    /\ s.chunks \in Nat /\ s.usage \in {Unknown} \cup Nat
    /\ s.chunks > 0 <=> s.ttft # Unknown
    /\ s.ttft # Unknown => s.ttft \in Nat /\ s.start + s.ttft <= now

\* The running benchmark reads a sound stream, and the end of one is not in
\* the future.
BenchmarkInv ==
    /\ machine \in Machines /\ clock \in Nat /\ "op" \in DOMAIN command
    /\ command.op = "stream" =>
           /\ command = [op |-> "stream", start |-> command.start, ttft |-> command.ttft,
                         chunks |-> command.chunks, usage |-> command.usage, lines |-> command.lines]
           /\ StreamSound(command, clock)
    /\ command.op = "ended" =>
           /\ command.end \in Nat /\ command.end <= clock
           /\ StreamSound(command.stream, command.end)
    /\ BenchmarkHonest

\* The stats of a sound stream: the time after the first piece and the tokens in it.
LEMMA StatsFacts ==
    ASSUME NEW s, NEW end \in Nat, StreamSound(s, end), clock \in Nat, end <= clock
    PROVE  LET t == StreamStats(s, end)
           IN  /\ t.ttft \in Nat /\ t.total \in Nat /\ t.generation \in Nat /\ t.tps \in Nat
               /\ t.tps > 0 => t.ttft < t.total /\ t.generation > 0
               /\ s.chunks > 0 => t.ttft <= t.total /\ t.generation + t.ttft = t.total
               /\ s.chunks = 0 => t.ttft >= t.total
<1> DEFINE t == StreamStats(s, end)
           ttft == IF s.ttft = Unknown THEN clock - s.start ELSE s.ttft
           out == IF s.usage = Unknown THEN s.chunks ELSE s.usage
           total == end - s.start
           generation == IF total > ttft THEN total - ttft ELSE 0
<1>1. /\ t.ttft = ttft /\ t.total = total /\ t.generation = generation
      /\ t.tps = IF generation > 0 THEN out ELSE 0
  BY DEF StreamStats
<1>2. /\ total \in Nat /\ out \in Nat /\ ttft \in Nat
      /\ s.chunks > 0 => ttft <= total
      /\ s.chunks = 0 => ttft >= total
  BY DEF StreamSound
<1> HIDE DEF t, ttft, out, total
<1> QED
  BY <1>1, <1>2 DEF t, StreamSound

\* Nothing runs at the start.
LEMMA InitBenchmark == NInit => BenchmarkInv
BY DEF NInit, NoCommand, BenchmarkInv, BenchmarkHonest

\* One more line of the answer.
LEMMA LineStep ==
    ASSUME BenchmarkInv, NEW piece \in BOOLEAN, NEW tokens \in {Unknown, 0, 3}, Line(piece, tokens)
    PROVE  BenchmarkInv'
<1> DEFINE ttft == IF piece /\ command.ttft = Unknown THEN clock - command.start ELSE command.ttft
           chunks == IF piece THEN command.chunks + 1 ELSE command.chunks
           usage == IF tokens = Unknown THEN command.usage ELSE tokens
<1>1. /\ command = [op |-> "stream", start |-> command.start, ttft |-> command.ttft,
                    chunks |-> command.chunks, usage |-> command.usage, lines |-> command.lines]
      /\ StreamSound(command, clock) /\ clock \in Nat /\ machine \in Machines
      /\ machine' = machine /\ clock' = clock
  BY DEF Line, BenchmarkInv
<1>2. command' = [op |-> "stream", start |-> command.start, ttft |-> ttft, chunks |-> chunks,
                  usage |-> usage, lines |-> command.lines + 1]
  BY <1>1 DEF Line
<1>3. chunks \in Nat /\ usage \in {Unknown} \cup Nat
  BY <1>1 DEF StreamSound
<1>4. /\ chunks > 0 <=> ttft # Unknown
      /\ ttft # Unknown => ttft \in Nat /\ command.start + ttft <= clock
  BY <1>1, NodeAssumption DEF StreamSound
<1>5. command.start \in Nat /\ command.start <= clock
  BY <1>1 DEF StreamSound
<1> HIDE DEF ttft, chunks, usage
<1>6. StreamSound(command', clock')
  BY <1>1, <1>2, <1>3, <1>4, <1>5 DEF StreamSound
<1>7. /\ command'.op = "stream" /\ "op" \in DOMAIN command'
      /\ command' = [op |-> "stream", start |-> command'.start, ttft |-> command'.ttft,
                     chunks |-> command'.chunks, usage |-> command'.usage, lines |-> command'.lines]
  BY <1>2
<1> QED
  BY <1>1, <1>6, <1>7 DEF BenchmarkInv, BenchmarkHonest

\* The benchmark ends: its result is honest, and what is published of it.
LEMMA FinishStep ==
    ASSUME BenchmarkInv, NEW announce, NEW key, NEW url, FinishBenchmark(announce, key, url)
    PROVE  BenchmarkInv'
<1> DEFINE s == command.stream
           t == StreamStats(s, command.end)
           m == ToProviderManifest(Scan(machine), t)
<1>1. /\ command' = [op |-> "benchmarked", stats |-> t, content |-> s.chunks,
                     report |-> Report(announce, key, url), manifest |-> m]
      /\ machine' = machine /\ clock' = clock
  BY DEF FinishBenchmark
<1>2. command.end \in Nat /\ command.end <= clock /\ StreamSound(s, command.end) /\ clock \in Nat
      /\ machine \in Machines
  BY DEF FinishBenchmark, BenchmarkInv
<1>3. /\ t.ttft \in Nat /\ t.total \in Nat /\ t.generation \in Nat /\ t.tps \in Nat
      /\ t.tps > 0 => t.ttft < t.total /\ t.generation > 0
      /\ s.chunks > 0 => t.ttft <= t.total /\ t.generation + t.ttft = t.total
      /\ s.chunks = 0 => t.ttft >= t.total
  <2> HIDE DEF s
  <2> QED
    BY <1>2, StatsFacts
<1>4. m.tps = IF t.tps > 0 THEN RoundDiv(10 * t.tps, t.generation) ELSE 0
  BY DEF ToProviderManifest
<1>5. s.chunks \in Nat
  BY <1>2 DEF StreamSound
<1> HIDE DEF s, t, m
<1>6. m.tps > 0 => t.tps > 0
  BY <1>3, <1>4
<1>7. BenchmarkHonest'
  <2>1. /\ command'.op = "benchmarked" /\ command'.stats = t /\ command'.content = s.chunks
        /\ command'.manifest = m
    BY <1>1
  <2>2. /\ t.tps > 0 \/ m.tps > 0 => s.chunks > 0 /\ t.ttft < t.total
        /\ s.chunks > 0 => t.ttft <= t.total
        /\ t.generation + t.ttft = t.total \/ s.chunks = 0
    BY <1>3, <1>5, <1>6
  <2> QED
    BY <2>1, <2>2 DEF BenchmarkHonest
<1> QED
  BY <1>1, <1>2, <1>7 DEF BenchmarkInv

\* Every step keeps the invariant.
LEMMA NextBenchmark == BenchmarkInv /\ [NNext]_nvars => BenchmarkInv'
<1> SUFFICES ASSUME BenchmarkInv, [NNext]_nvars PROVE BenchmarkInv'
  OBVIOUS
<1>0. machine \in Machines /\ clock \in Nat
  BY DEF BenchmarkInv
<1>1. CASE UNCHANGED nvars
  BY <1>1 DEF nvars, BenchmarkInv, BenchmarkHonest, StreamSound
<1>2. ASSUME NEW r \in Queries, Recommend(r) PROVE BenchmarkInv'
  BY <1>0, <1>2 DEF Recommend, BenchmarkInv, BenchmarkHonest
<1>3. CASE StartBenchmark
  BY <1>0, <1>3, NodeAssumption DEF StartBenchmark, NewStream, BenchmarkInv, BenchmarkHonest, StreamSound
<1>4. CASE Exit
  BY <1>0, <1>4 DEF Exit, NoCommand, BenchmarkInv, BenchmarkHonest
<1>5. CASE Tick
  <2>1. /\ clock' = clock + 1 /\ UNCHANGED <<machine, command>> /\ command.op \in {"stream", "ended"}
    BY <1>5 DEF Tick
  <2>2. command.op = "stream" => StreamSound(command, clock')
    BY <1>0, <2>1 DEF BenchmarkInv, StreamSound
  <2>3. command.op = "ended" => command.end \in Nat /\ command.end <= clock'
    BY <1>0, <2>1 DEF BenchmarkInv
  <2> QED
    BY <1>0, <2>1, <2>2, <2>3 DEF BenchmarkInv, BenchmarkHonest, StreamSound
<1>6. CASE EndOfStream
  BY <1>0, <1>6 DEF EndOfStream, BenchmarkInv, BenchmarkHonest, StreamSound
<1>7. CASE StreamFails
  BY <1>0, <1>7 DEF StreamFails, BenchmarkInv, BenchmarkHonest
<1> QED
  BY <1>1, <1>2, <1>3, <1>4, <1>5, <1>6, <1>7, LineStep, FinishStep DEF NNext

\* The invariant holds of NSpec.
THEOREM BenchmarkInvHolds == NSpec => []BenchmarkInv
BY InitBenchmark, NextBenchmark, PTL DEF NSpec

\* Whatever the lines of the answer and when they come, a throughput is only
\* reported, and advertised, when content came and time passed after its first
\* piece.
THEOREM BenchmarkHonestHolds == NSpec => []BenchmarkHonest
<1>1. BenchmarkInv => BenchmarkHonest
  BY DEF BenchmarkInv
<1> QED
  BY <1>1, BenchmarkInvHolds, PTL
-----------------------------------------------------------------------------
(***************************************************************************)
(* The node: rounding, and lists in ascending order.                       *)
(***************************************************************************)
\* A rounded quotient of natural numbers is one.
LEMMA RoundNat ==
    ASSUME NEW a \in Nat, NEW b \in Nat \ {0}
    PROVE  RoundDiv(a, b) \in Nat /\ a \div b <= RoundDiv(a, b)
<1> DEFINE q == a \div b
<1>1. q \in Nat
  OBVIOUS
<1>2. RoundDiv(a, b) = q \/ RoundDiv(a, b) = q + 1
  BY DEF RoundDiv
<1> HIDE DEF q
<1>3. RoundDiv(a, b) \in Nat /\ q <= RoundDiv(a, b)
  BY <1>1, <1>2
<1> QED
  BY <1>3 DEF q

\* More MiB are no fewer hundredths of a GB.
LEMMA RoundRises ==
    ASSUME NEW a \in Nat, NEW c \in Nat, a <= c
    PROVE  RoundDiv(a, 1024) <= RoundDiv(c, 1024)
<1> DEFINE q == a \div 1024
           r == a % 1024
           u == c \div 1024
           v == c % 1024
           up(x, y) == 2 * y > 1024 \/ (2 * y = 1024 /\ x % 2 = 1)
<1>1. /\ q \in Nat /\ r \in 0..1023 /\ a = 1024 * q + r
      /\ u \in Nat /\ v \in 0..1023 /\ c = 1024 * u + v
  OBVIOUS
<1>2. /\ RoundDiv(a, 1024) = (IF up(q, r) THEN q + 1 ELSE q)
      /\ RoundDiv(c, 1024) = (IF up(u, v) THEN u + 1 ELSE u)
  BY DEF RoundDiv
<1> HIDE DEF q, r, u, v
<1>3. q < u \/ (q = u /\ r <= v)
  BY <1>1
<1>4. q = u /\ r <= v /\ up(q, r) => up(u, v)
  BY <1>1
<1> HIDE DEF up
<1> QED
  BY <1>1, <1>2, <1>3, <1>4

\* No element is less than one before it.
Rising(s) == \A j, k \in 1..Len(s) : j < k => s[j] <= s[k]

\* The elements that are kept are those that were there and are in S.
LEMMA ThoseRange ==
    ASSUME NEW A, NEW seq \in Seq(A), NEW S
    PROVE  Those(seq, S) \in Seq(S) /\ Range(Those(seq, S)) = Range(seq) \cap S
<1> DEFINE s == Those(seq, S)
           n == Len(seq)
<1>1. n \in Nat /\ Range(seq) = {seq[i] : i \in 1..n}
  BY RangeOf
<1>2. PICK at : PickedAs(s, at, seq, S, n)
  BY <1>1, ThoseFacts
<1> HIDE DEF s, n
<1>3. s \in Seq(S)
  BY <1>2 DEF PickedAs
<1>4. (\A k \in 1..Len(s) : s[k] \in S) /\ Range(s) = {s[k] : k \in 1..Len(s)}
  BY <1>3, RangeOf
<1>5. \A k \in 1..Len(s) : at[k] \in 1..n /\ s[k] = seq[at[k]]
  BY <1>2 DEF PickedAs
<1>6. \A k \in 1..Len(s) : s[k] \in Range(seq) \cap S
  BY <1>1, <1>4, <1>5
<1>7. ASSUME NEW i \in 1..n, seq[i] \in S PROVE seq[i] \in Range(s)
  <2>1. PICK k \in 1..Len(s) : at[k] = i
    BY <1>2, <1>7 DEF PickedAs
  <2> QED
    BY <1>4, <1>5, <2>1
<1>8. Range(s) = Range(seq) \cap S
  BY <1>1, <1>4, <1>6, <1>7
<1> QED
  BY <1>3, <1>8 DEF s

\* A selection of an ascending list is ascending.
LEMMA ThoseRising ==
    ASSUME NEW seq \in Seq(Nat), Rising(seq), NEW S
    PROVE  Those(seq, S) \in Seq(Nat) /\ Rising(Those(seq, S))
<1> DEFINE s == Those(seq, S)
           n == Len(seq)
<1>1. n \in Nat /\ \A i \in 1..n : seq[i] \in Nat
  BY RangeOf
<1>2. PICK at : PickedAs(s, at, seq, S, n)
  BY <1>1, ThoseFacts
<1> HIDE DEF s, n
<1>3. Len(s) \in Nat /\ s \in [1..Len(s) -> S]
  BY <1>2, LenProperties DEF PickedAs
<1>4. \A k \in 1..Len(s) : at[k] \in 1..n /\ s[k] = seq[at[k]]
  BY <1>2 DEF PickedAs
<1>5. s \in Seq(Nat)
  <2>1. \A k \in 1..Len(s) : s[k] \in Nat
    BY <1>1, <1>4
  <2>2. s \in [1..Len(s) -> Nat]
    BY <1>3, <2>1
  <2> QED
    BY <1>3, <2>2, SeqDef
<1>6. Rising(s)
  <2> SUFFICES ASSUME NEW j \in 1..Len(s), NEW k \in 1..Len(s), j < k PROVE s[j] <= s[k]
    BY DEF Rising
  <2>1. at[j] < at[k]
    BY <1>2 DEF PickedAs
  <2>2. seq[at[j]] <= seq[at[k]]
    BY <1>4, <2>1 DEF Rising, n
  <2> QED
    BY <1>4, <2>2
<1> QED
  BY <1>5, <1>6 DEF s

\* The ends of an ascending list.
LEMMA RisingEnds ==
    ASSUME NEW s \in Seq(Nat), Rising(s), s # <<>>
    PROVE  /\ s[1] \in Range(s) /\ Last(s) \in Range(s)
           /\ \A b \in Range(s) : s[1] <= b /\ b <= Last(s)
<1>1. Len(s) \in Nat \ {0}
  BY EmptySeq
<1>2. Range(s) = {s[i] : i \in 1..Len(s)} /\ \A i \in 1..Len(s) : s[i] \in Nat
  BY RangeOf
<1>3. 1 \in 1..Len(s) /\ Len(s) \in 1..Len(s) /\ Last(s) = s[Len(s)]
  BY <1>1 DEF Last
<1>4. ASSUME NEW i \in 1..Len(s) PROVE s[1] <= s[i] /\ s[i] <= s[Len(s)]
  <2>1. i = 1 \/ 1 < i
    BY <1>1
  <2>2. i = Len(s) \/ i < Len(s)
    BY <1>1
  <2> QED
    BY <1>2, <1>3, <2>1, <2>2 DEF Rising
<1> QED
  BY <1>2, <1>3, <1>4

\* sorted puts numbers in ascending order.
LEMMA AscendingFacts ==
    ASSUME NEW q \in Seq(Nat)
    PROVE  LET s == StableSort(q, LAMBDA a, b : a < b)
           IN  s \in Seq(Nat) /\ Range(s) = Range(q) /\ Len(s) = Len(q) /\ Rising(s)
<1> DEFINE U == Range(q)
           less == {p \in U \X U : p[1] < p[2]}
           s == SortBy(q, less)
<1>1. StableSort(q, LAMBDA a, b : a < b) = s
  BY DEF StableSort
<1>2. Len(q) \in Nat /\ U = {q[i] : i \in 1..Len(q)} /\ \A i \in 1..Len(q) : q[i] \in Nat
  BY RangeOf
<1>3. q \in [1..Len(q) -> Nat]
  BY LenProperties
<1>4. U \subseteq Nat /\ \A a, b \in U : <<a, b>> \in less <=> a < b
  BY <1>2
<1>5. q \in Seq(U)
  <2>1. q \in [1..Len(q) -> U]
    BY <1>2, <1>3
  <2> QED
    BY <1>2, <2>1, SeqDef
<1> HIDE DEF less, U
<1>6. Orders(less, U)
  <2> SUFFICES ASSUME NEW a \in U, NEW b \in U, NEW c \in U
               PROVE  /\ <<a, b>> \in less => <<b, a>> \notin less
                      /\ <<a, b>> \notin less /\ <<b, c>> \notin less => <<a, c>> \notin less
    BY DEF Orders
  <2>1. a \in Nat /\ b \in Nat /\ c \in Nat
    BY <1>4
  <2> QED
    BY <1>4, <2>1
<1>7. /\ s \in Seq(U) /\ Len(s) = Len(q) /\ Range(s) = Range(q)
      /\ \A j, k \in 1..Len(q) : j < k => <<s[k], s[j]>> \notin less
  BY <1>5, <1>6, SortOnce
<1> HIDE DEF s
<1>8. s \in Seq(Nat) /\ \A i \in 1..Len(s) : s[i] \in U /\ s[i] \in Nat
  BY <1>4, <1>7, RangeOf, SeqMonotonic
<1>9. Rising(s)
  <2> SUFFICES ASSUME NEW j \in 1..Len(s), NEW k \in 1..Len(s), j < k PROVE s[j] <= s[k]
    BY DEF Rising
  <2>1. ~(s[k] < s[j])
    BY <1>4, <1>7, <1>8
  <2> QED
    BY <1>8, <2>1
<1> QED
  BY <1>1, <1>7, <1>8, <1>9
-----------------------------------------------------------------------------
(***************************************************************************)
(* The node: the memory that is usable.                                    *)
(***************************************************************************)
\* What a tool says of a card's memory, and what a card is taken to have.
Amounts == {Unknown} \cup Nat
GpuCards == [vendor : {"nvidia", "amd", "apple"}, vram : Amounts]

\* A memory that is known is a number of hundredths of a GB.
LEMMA ToGbFacts ==
    ASSUME NEW mib \in Amounts
    PROVE  /\ ToGb(mib) \in Amounts /\ OrZero(ToGb(mib)) \in Nat
           /\ mib # Unknown => mib \in Nat /\ ToGb(mib) = RoundDiv(100 * mib, 1024) /\ ToGb(mib) \in Nat
           /\ mib = Unknown => ToGb(mib) = Unknown /\ OrZero(ToGb(mib)) = 0
<1>1. CASE mib = Unknown
  BY <1>1 DEF ToGb, OrZero, Amounts
<1>2. CASE mib # Unknown
  <2>1. mib \in Nat /\ 100 * mib \in Nat
    BY <1>2 DEF Amounts
  <2>2. RoundDiv(100 * mib, 1024) \in Nat
    BY <2>1, RoundNat
  <2>3. ToGb(mib) = RoundDiv(100 * mib, 1024)
    BY <1>2 DEF ToGb
  <2> QED
    BY <1>2, <2>1, <2>2, <2>3, NodeAssumption DEF OrZero, Amounts
<1> QED
  BY <1>1, <1>2

\* More memory is no less, rounded.
LEMMA ToGbRises ==
    ASSUME NEW x \in Nat, NEW y \in Nat, x <= y
    PROVE  ToGb(x) <= ToGb(y)
<1>1. ToGb(x) = RoundDiv(100 * x, 1024) /\ ToGb(y) = RoundDiv(100 * y, 1024)
  BY NodeAssumption DEF ToGb
<1>2. 100 * x \in Nat /\ 100 * y \in Nat /\ 100 * x <= 100 * y
  OBVIOUS
<1> QED
  BY <1>1, <1>2, RoundRises

\* Among the first n of a list of numbers, one is the largest.
LEMMA LargestOf ==
    ASSUME NEW n \in Nat \ {0}, NEW v \in [1..n -> Nat]
    PROVE  \E i \in 1..n : \A j \in 1..n : v[j] <= v[i]
<1> DEFINE Top(l) == \E i \in 1..l : \A j \in 1..l : v[j] <= v[i]
           T == {l \in Nat : l > 0 /\ l <= n => Top(l)}
<1>1. 0 \in T
  OBVIOUS
<1>2. ASSUME NEW l \in T PROVE l + 1 \in T
  <2>0. l \in Nat /\ (l > 0 /\ l <= n => Top(l))
    OBVIOUS
  <2>1. ASSUME l + 1 <= n PROVE Top(l + 1)
    <3>0. \A j \in 1..(l + 1) : v[j] \in Nat /\ (j \in 1..l \/ j = l + 1)
      BY <2>0, <2>1
    <3>1. CASE l = 0
      <4>1. 1 \in 1..(l + 1) /\ \A j \in 1..(l + 1) : j = 1
        BY <3>1
      <4>2. v[1] <= v[1]
        BY <3>0, <4>1
      <4>3. \A j \in 1..(l + 1) : v[j] <= v[1]
        BY <4>1, <4>2
      <4> QED
        BY <4>1, <4>3
    <3>2. CASE l > 0
      <4>1. PICK i \in 1..l : \A j \in 1..l : v[j] <= v[i]
        BY <2>0, <2>1, <3>2
      <4>2. i \in 1..(l + 1) /\ l + 1 \in 1..(l + 1)
        BY <2>0
      <4>3. CASE v[l + 1] <= v[i]
        BY <3>0, <4>1, <4>2, <4>3
      <4>4. CASE v[i] <= v[l + 1]
        <5>1. \A j \in 1..(l + 1) : v[j] <= v[l + 1]
          BY <3>0, <4>1, <4>2, <4>4
        <5> QED
          BY <4>2, <5>1
      <4> QED
        BY <3>0, <4>2, <4>3, <4>4
    <3> QED
      BY <2>0, <3>1, <3>2
  <2> HIDE DEF Top
  <2> QED
    BY <2>0, <2>1
<1>3. T = Nat
  <2> HIDE DEF T
  <2> QED
    BY <1>1, <1>2, NatSet DEF T
<1>4. n \in T
  BY <1>3
<1> QED
  BY <1>4

\* primary_gpu is one of the cards, and none has more memory.
LEMMA PrimaryFacts ==
    ASSUME NEW gpus \in Seq(GpuCards), gpus # <<>>
    PROVE  \E k \in 1..Len(gpus) :
               /\ PrimaryGpu(gpus) = gpus[k]
               /\ \A j \in 1..Len(gpus) : OrZero(gpus[j].vram) <= OrZero(gpus[k].vram)
<1> DEFINE n == Len(gpus)
           M == {i \in DOMAIN gpus : \A j \in DOMAIN gpus : OrZero(gpus[j].vram) <= OrZero(gpus[i].vram)}
           v == [i \in 1..n |-> OrZero(gpus[i].vram)]
<1>1. n \in Nat \ {0} /\ DOMAIN gpus = 1..n /\ \A i \in 1..n : gpus[i] \in GpuCards
  BY RangeOf, EmptySeq
<1>2. v \in [1..n -> Nat] /\ \A i \in 1..n : v[i] = OrZero(gpus[i].vram)
  <2>1. \A i \in 1..n : OrZero(gpus[i].vram) \in Nat
    BY <1>1, NodeAssumption DEF OrZero, GpuCards, Amounts
  <2> QED
    BY <2>1
<1>3. PrimaryGpu(gpus) = gpus[First(M)]
  BY DEF PrimaryGpu
<1> HIDE DEF v, n
<1>4. PICK i \in 1..n : \A j \in 1..n : v[j] <= v[i]
  BY <1>1, <1>2, LargestOf
<1>5. i \in M
  BY <1>1, <1>2, <1>4
<1>6. M \in SUBSET Nat /\ M # {} /\ M \subseteq 1..n
  BY <1>1, <1>5
<1> HIDE DEF M
<1>7. First(M) = Min(M)
  BY <1>6 DEF First, Min
<1>8. First(M) \in M
  BY <1>6, <1>7, LeastOf
<1>9. First(M) \in 1..n /\ \A j \in 1..n : OrZero(gpus[j].vram) <= OrZero(gpus[First(M)].vram)
  BY <1>1, <1>6, <1>8 DEF M
<1> QED
  BY <1>3, <1>9 DEF n

\* The cards of one vendor whose memory its tool states: cards[i] is the MiB of
\* card i, or Unknown.
CardsOf(gpus, cards, vendor) ==
    /\ Len(gpus) \in Nat /\ cards \in [1..Len(gpus) -> Amounts]
    /\ gpus = [i \in 1..Len(gpus) |-> [vendor |-> vendor, vram |-> ToGb(cards[i])]]

\* What the tool states of the n cards.
Stated(cards, n) == {cards[i] : i \in 1..n}

\* The largest of these memories, or RAM if none is known.
LargestOrRam(real, available) ==
    LET known == {mib \in real \ {Unknown} : ToGb(mib) > 0}
    IN  IF known = {} THEN 800 * RoundDiv(available, 10)
        ELSE 80 * ToGb(CHOOSE x \in known : \A y \in known : y <= x)

\* The memory of the largest of them is usable, or else RAM.
LEMMA LargestIsUsable ==
    ASSUME NEW vendor \in {"nvidia", "amd"}, NEW gpus, NEW cards, CardsOf(gpus, cards, vendor),
           NEW profile, profile.gpus = gpus, ~profile.unified,
           profile.accelerator = ResolveAccelerator(gpus, FALSE)
    PROVE  UsableMemory(profile) = LargestOrRam(Stated(cards, Len(gpus)), profile.available)
<1> DEFINE n == Len(gpus)
           real == Stated(cards, n)
           known == {mib \in real \ {Unknown} : ToGb(mib) > 0}
           choice == CHOOSE x \in known : \A y \in known : y <= x
<1>0. LargestOrRam(real, profile.available) =
          IF known = {} THEN 800 * RoundDiv(profile.available, 10) ELSE 80 * ToGb(choice)
  BY DEF LargestOrRam
<1> HIDE DEF choice
<1>1. /\ n \in Nat /\ DOMAIN gpus = 1..n
      /\ \A i \in 1..n : /\ cards[i] \in Amounts
                         /\ gpus[i] = [vendor |-> vendor, vram |-> ToGb(cards[i])]
      /\ real = {cards[i] : i \in 1..n}
  BY DEF CardsOf, Stated
<1>2. \A i \in 1..n : gpus[i] \in GpuCards
  BY <1>1, ToGbFacts DEF GpuCards
<1>3. gpus \in Seq(GpuCards)
  <2>1. gpus \in [1..n -> GpuCards]
    BY <1>1, <1>2 DEF CardsOf
  <2> QED
    BY <1>1, <2>1, SeqDef
<1>4. UsableMemory(profile) =
          IF profile.accelerator \in {"cuda", "rocm"} /\ gpus # <<>> /\ OrZero(PrimaryGpu(gpus).vram) > 0
          THEN 80 * PrimaryGpu(gpus).vram ELSE 800 * RoundDiv(profile.available, 10)
  BY DEF UsableMemory
<1>5. CASE gpus = <<>>
  <2>1. n = 0
    BY <1>5, EmptySeq
  <2>2. known = {}
    BY <1>1, <2>1
  <2> QED
    BY <1>0, <1>4, <1>5, <2>2
<1>6. CASE gpus # <<>>
  <2>1. profile.accelerator \in {"cuda", "rocm"}
    <3>1. n > 0 /\ 1 \in 1..n
      BY <1>1, <1>3, <1>6, EmptySeq
    <3>2. {g.vendor : g \in Range(gpus)} = {vendor}
      <4>1. Range(gpus) = {gpus[i] : i \in 1..n}
        BY <1>3, RangeOf
      <4> QED
        BY <1>1, <3>1, <4>1
    <3> QED
      BY <3>2 DEF ResolveAccelerator
  <2>2. PICK k \in 1..n :
            /\ PrimaryGpu(gpus) = gpus[k]
            /\ \A j \in 1..n : OrZero(gpus[j].vram) <= OrZero(gpus[k].vram)
    BY <1>3, <1>6, PrimaryFacts
  <2>3. \A i \in 1..n : gpus[i].vram = ToGb(cards[i])
    BY <1>1
  <2>4. \A i \in 1..n : cards[i] \in Amounts /\ OrZero(ToGb(cards[i])) <= OrZero(ToGb(cards[k]))
    BY <1>1, <2>2, <2>3
  <2> DEFINE best == ToGb(cards[k])
  <2>5. UsableMemory(profile) =
            IF OrZero(best) > 0 THEN 80 * best ELSE 800 * RoundDiv(profile.available, 10)
    BY <1>4, <1>6, <2>1, <2>2, <2>3
  <2>6. CASE OrZero(best) > 0
    <3>1. cards[k] # Unknown /\ cards[k] \in Nat /\ best \in Nat /\ best > 0 /\ OrZero(best) = best
      BY <2>4, <2>6, ToGbFacts, NodeAssumption DEF OrZero
    <3>2. cards[k] \in known
      BY <1>1, <3>1
    <3>3. ASSUME NEW mib \in known
          PROVE  mib \in Nat /\ ToGb(mib) \in Nat /\ ToGb(mib) <= best
      <4>1. PICK i \in 1..n : mib = cards[i] /\ mib # Unknown
        BY <1>1
      <4>2. mib \in Nat /\ ToGb(mib) \in Nat
        BY <2>4, <4>1, ToGbFacts
      <4>3. OrZero(ToGb(mib)) = ToGb(mib)
        BY <4>2, NodeAssumption DEF OrZero
      <4> QED
        BY <2>4, <3>1, <4>1, <4>2, <4>3
    <3> HIDE DEF known
    <3>4. PICK top \in known : \A y \in known : y <= top
      <4> DEFINE v == [i \in 1..n |-> IF cards[i] \in known THEN cards[i] ELSE 0]
      <4>1. v \in [1..n -> Nat] /\ n \in Nat \ {0}
        BY <1>1, <3>3
      <4>2. \A i \in 1..n : v[i] = IF cards[i] \in known THEN cards[i] ELSE 0
        OBVIOUS
      <4> HIDE DEF v
      <4>3. PICK m \in 1..n : \A j \in 1..n : v[j] <= v[m]
        BY <4>1, LargestOf
      <4>4. cards[m] \in known
        <5>1. v[k] = cards[k] /\ v[k] <= v[m] /\ v[m] \in Nat
          BY <3>2, <4>1, <4>2, <4>3
        <5>2. cards[k] > 0
          <6>1. ToGb(0) = 0
            BY NodeAssumption DEF ToGb, RoundDiv
          <6> QED
            BY <3>1, <6>1
        <5> QED
          BY <3>1, <4>2, <5>1, <5>2
      <4>5. ASSUME NEW y \in known PROVE y <= cards[m]
        <5>1. PICK j \in 1..n : y = cards[j]
          BY <1>1 DEF known
        <5>2. v[j] = y /\ v[m] = cards[m]
          BY <4>2, <4>4, <5>1
        <5> QED
          BY <4>3, <5>2
      <4> QED
        BY <4>4, <4>5
    <3>5. choice \in known /\ \A y \in known : y <= choice
      BY <3>4 DEF choice
    <3>6. ToGb(choice) <= best /\ ToGb(choice) \in Nat
      BY <3>3, <3>5
    <3>7. best <= ToGb(choice)
      BY <3>1, <3>2, <3>3, <3>5, ToGbRises
    <3>8. ToGb(choice) = best
      BY <3>1, <3>6, <3>7
    <3> HIDE DEF best
    <3> QED
      BY <1>0, <2>5, <2>6, <3>2, <3>8
  <2>7. CASE ~(OrZero(best) > 0)
    <3>1. known = {}
      <4> SUFFICES ASSUME NEW i \in 1..n, cards[i] # Unknown, ToGb(cards[i]) > 0 PROVE FALSE
        BY <1>1
      <4>1. ToGb(cards[i]) \in Nat /\ OrZero(best) \in Nat
        BY <2>4, ToGbFacts
      <4>2. OrZero(ToGb(cards[i])) = ToGb(cards[i])
        BY <4>1, NodeAssumption DEF OrZero
      <4> QED
        BY <2>4, <2>7, <4>1, <4>2
    <3> QED
      BY <1>0, <2>5, <2>7, <3>1
  <2> QED
    BY <2>6, <2>7
<1> QED
  BY <1>5, <1>6
\* A list given by its elements.
LEMMA ListOf ==
    ASSUME NEW S, NEW n \in Nat, NEW f \in [1..n -> S]
    PROVE  f \in Seq(S) /\ Len(f) = n
<1>1. f \in Seq(S)
  BY SeqDef
<1>2. Len(f) \in Nat /\ DOMAIN f = 1..Len(f)
  BY <1>1, LenProperties
<1>3. 1..Len(f) = 1..n
  BY <1>2
<1>4. ~(Len(f) < n)
  <2> SUFFICES ASSUME Len(f) < n PROVE FALSE
    OBVIOUS
  <2>1. n \in 1..n /\ n \notin 1..Len(f)
    BY <1>2
  <2> QED
    BY <1>3, <2>1
<1>5. ~(n < Len(f))
  <2> SUFFICES ASSUME n < Len(f) PROVE FALSE
    OBVIOUS
  <2>1. Len(f) \in 1..Len(f) /\ Len(f) \notin 1..n
    BY <1>2
  <2> QED
    BY <1>3, <2>1
<1> QED
  BY <1>1, <1>2, <1>4, <1>5

\* nvidia-smi: the cards are the whole rows.
LEMMA NvidiaCards ==
    ASSUME NEW rows \in Seq([whole : BOOLEAN, mib : Amounts])
    PROVE  LET gpus == ParseNvidiaSmi(rows)
           IN  \E cards : /\ CardsOf(gpus, cards, "nvidia")
                          /\ Stated(cards, Len(gpus)) =
                                 {row.mib : row \in {r \in Range(rows) : r.whole}}
<1> DEFINE S == {row \in Range(rows) : row.whole}
           whole == Those(rows, S)
           n == Len(whole)
           gpus == ParseNvidiaSmi(rows)
           cards == [i \in 1..n |-> whole[i].mib]
<1>1. gpus = [i \in DOMAIN whole |-> [vendor |-> "nvidia", vram |-> ToGb(whole[i].mib)]]
  BY DEF ParseNvidiaSmi
<1>2. Range(rows) \subseteq [whole : BOOLEAN, mib : Amounts] /\ S \subseteq Range(rows)
  BY RangeOf
<1> HIDE DEF gpus, S
<1>3. whole \in Seq(S) /\ Range(whole) = S
  <2>1. whole \in Seq(S) /\ Range(whole) = Range(rows) \cap S
    BY ThoseRange
  <2> HIDE DEF whole
  <2> QED
    BY <1>2, <2>1
<1> HIDE DEF whole
<1>4. n \in Nat /\ DOMAIN whole = 1..n /\ (\A i \in 1..n : whole[i] \in S) /\ S = {whole[i] : i \in 1..n}
  BY <1>3, RangeOf
<1>5. \A i \in 1..n : whole[i].mib \in Amounts
  BY <1>2, <1>4
<1> HIDE DEF n
<1>6. cards \in [1..n -> Amounts] /\ \A i \in 1..n : cards[i] = whole[i].mib
  BY <1>5
<1> HIDE DEF cards
<1>7. gpus = [i \in 1..n |-> [vendor |-> "nvidia", vram |-> ToGb(cards[i])]]
  BY <1>1, <1>4, <1>6
<1>8. Len(gpus) = n
  <2>1. gpus \in [1..n -> {[vendor |-> "nvidia", vram |-> ToGb(cards[i])] : i \in 1..n}]
    BY <1>7
  <2> QED
    BY <1>4, <2>1, ListOf
<1>9. CardsOf(gpus, cards, "nvidia")
  BY <1>4, <1>6, <1>7, <1>8 DEF CardsOf
<1>10. Stated(cards, n) = {row.mib : row \in S}
  BY <1>4, <1>6 DEF Stated
<1> QED
  BY <1>8, <1>9, <1>10 DEF gpus, S

\* The column of the total is found by its header, wherever it is.
LEMMA TotalIsFound ==
    ASSUME NEW header \in Seq({"series", "total", "used"}), NEW cells \in Seq(Amounts)
    PROVE  /\ Cell(cells, FindTotal(header)) = Cell(cells, SelectInSeq(header, LAMBDA c : c = "total"))
           /\ Cell(cells, FindTotal(header)) \in Amounts
<1> DEFINE I == {i \in 1..Len(header) : header[i] = "total"}
           J == {i \in DOMAIN header : /\ "used" \notin Words(header[i])
                                       /\ {"vram", "total", "memory"} \subseteq Words(header[i])}
<1>1. /\ Len(header) \in Nat /\ DOMAIN header = 1..Len(header)
      /\ \A i \in 1..Len(header) : header[i] \in {"series", "total", "used"}
  BY RangeOf
<1>2. Len(cells) \in Nat /\ DOMAIN cells = 1..Len(cells) /\ \A i \in 1..Len(cells) : cells[i] \in Amounts
  BY RangeOf
<1>3. /\ "used" \notin Words("total") /\ {"vram", "total", "memory"} \subseteq Words("total")
      /\ "vram" \notin Words("series") /\ "used" \in Words("used")
  BY DEF Words
<1>4. I = J
  BY <1>1, <1>3
<1>5. FindTotal(header) = First(J)
  BY DEF FindTotal
<1>6. SelectInSeq(header, LAMBDA c : c = "total") = IF I # {} THEN Min(I) ELSE 0
  BY DEF SelectInSeq
<1>7. I \in SUBSET Nat
  OBVIOUS
<1> HIDE DEF I, J
<1>8. CASE I = {}
  <2>1. FindTotal(header) = Unknown /\ SelectInSeq(header, LAMBDA c : c = "total") = 0
    BY <1>4, <1>5, <1>6, <1>8 DEF First
  <2>2. Cell(cells, Unknown) = Unknown /\ Cell(cells, 0) = Unknown
    BY <1>2 DEF Cell
  <2> QED
    BY <2>1, <2>2 DEF Amounts
<1>9. CASE I # {}
  <2>1. FindTotal(header) = Min(I) /\ SelectInSeq(header, LAMBDA c : c = "total") = Min(I)
    BY <1>4, <1>5, <1>6, <1>9 DEF First, Min
  <2>2. Cell(cells, Min(I)) \in Amounts
    BY <1>2 DEF Cell, Amounts
  <2> QED
    BY <2>1, <2>2
<1> QED
  BY <1>8, <1>9

\* rocm-smi: every row is a card.
LEMMA RocmCards ==
    ASSUME NEW out, out.header \in Seq({"series", "total", "used"}), out.rows \in Seq(Seq(Amounts))
    PROVE  LET gpus == ParseRocmSmi(out)
           IN  \E cards : /\ CardsOf(gpus, cards, "amd")
                          /\ Stated(cards, Len(gpus)) =
                                 {Cell(row, SelectInSeq(out.header, LAMBDA c : c = "total"))
                                     : row \in Range(out.rows)}
<1> DEFINE n == Len(out.rows)
           gpus == ParseRocmSmi(out)
           total == FindTotal(out.header)
           at == SelectInSeq(out.header, LAMBDA c : c = "total")
           cards == [i \in 1..n |-> Cell(out.rows[i], total)]
<1>1. /\ n \in Nat /\ DOMAIN out.rows = 1..n /\ \A i \in 1..n : out.rows[i] \in Seq(Amounts)
      /\ Range(out.rows) = {out.rows[i] : i \in 1..n}
  BY RangeOf
<1>2. gpus = [k \in 1..n |-> [vendor |-> "amd", vram |-> ToGb(Cell(out.rows[k], total))]]
  BY <1>1 DEF ParseRocmSmi
<1>3. \A i \in 1..n : Cell(out.rows[i], total) = Cell(out.rows[i], at) /\ Cell(out.rows[i], total) \in Amounts
  BY <1>1, TotalIsFound
<1> HIDE DEF gpus, n, total, at
<1>4. cards \in [1..n -> Amounts] /\ \A i \in 1..n : cards[i] = Cell(out.rows[i], total)
  BY <1>3
<1> HIDE DEF cards
<1>5. gpus = [i \in 1..n |-> [vendor |-> "amd", vram |-> ToGb(cards[i])]]
  BY <1>2, <1>4
<1>6. Len(gpus) = n
  <2>1. gpus \in [1..n -> {[vendor |-> "amd", vram |-> ToGb(cards[i])] : i \in 1..n}]
    BY <1>5
  <2> QED
    BY <1>1, <2>1, ListOf
<1>7. CardsOf(gpus, cards, "amd")
  BY <1>1, <1>4, <1>5, <1>6 DEF CardsOf
<1>8. Stated(cards, n) = {Cell(row, at) : row \in Range(out.rows)}
  BY <1>1, <1>3, <1>4 DEF Stated
<1> QED
  BY <1>6, <1>7, <1>8 DEF gpus, at

\* Cards of one vendor are a list of cards.
LEMMA CardsAreListed ==
    ASSUME NEW vendor, NEW gpus, NEW cards, CardsOf(gpus, cards, vendor)
    PROVE  gpus \in Seq([vendor : {vendor}, vram : Amounts])
<1>1. \A i \in 1..Len(gpus) : ToGb(cards[i]) \in Amounts
  BY ToGbFacts DEF CardsOf
<1> DEFINE n == Len(gpus)
<1>2. n \in Nat /\ gpus \in [1..n -> [vendor : {vendor}, vram : Amounts]]
  BY <1>1 DEF CardsOf
<1> HIDE DEF n
<1> QED
  BY <1>2, ListOf

\* What a machine has.
LEMMA MachineFacts ==
    ASSUME NEW m \in Machines
    PROVE  /\ m.apple \in BOOLEAN /\ m.total \in Nat /\ m.available \in Nat
           /\ m.nvidia \in Seq([whole : BOOLEAN, mib : Amounts])
           /\ m.rocm.header \in Seq({"series", "total", "used"}) /\ m.rocm.rows \in Seq(Seq(Amounts))
<1>1. Amounts = Nat \cup {Unknown}
  BY DEF Amounts
<1> QED
  BY <1>1, NodeAssumption

\* The largest card of the one vendor is what is usable.
LEMMA UsableFacts ==
    ASSUME machine \in Machines
    PROVE  UsableIsTotalVram
<1> DEFINE m == machine
           profile == Scan(m)
           nvidia == ParseNvidiaSmi(m.nvidia)
           amd == ParseRocmSmi(m.rocm)
           A == {row.mib : row \in {r \in Range(m.nvidia) : r.whole}}
           B == {Cell(row, SelectInSeq(m.rocm.header, LAMBDA c : c = "total")) : row \in Range(m.rocm.rows)}
<1> SUFFICES ASSUME ~m.apple, m.nvidia = <<>> \/ m.rocm.rows = <<>>
             PROVE  UsableMemory(profile) = LargestOrRam(A \cup B, profile.available)
  BY DEF UsableIsTotalVram, LargestOrRam, Scan
<1>1. /\ profile.gpus = nvidia \o amd /\ profile.unified = FALSE
      /\ profile.accelerator = ResolveAccelerator(nvidia \o amd, FALSE)
  <2>1. m.apple = FALSE
    BY MachineFacts
  <2> QED
    BY <2>1 DEF Scan, DetectGpus
<1>2. PICK a : CardsOf(nvidia, a, "nvidia") /\ Stated(a, Len(nvidia)) = A
  BY MachineFacts, NvidiaCards
<1>3. PICK b : CardsOf(amd, b, "amd") /\ Stated(b, Len(amd)) = B
  BY MachineFacts, RocmCards
<1>4. /\ nvidia \in Seq([vendor : {"nvidia"}, vram : Amounts])
      /\ amd \in Seq([vendor : {"amd"}, vram : Amounts])
  BY <1>2, <1>3, CardsAreListed
<1>5. CASE m.nvidia = <<>>
  <2>1. A = {}
    <3>1. Len(m.nvidia) = 0 /\ Range(m.nvidia) = {m.nvidia[i] : i \in 1..Len(m.nvidia)}
      BY <1>5, MachineFacts, RangeOf, EmptySeq
    <3> QED
      BY <3>1
  <2>2. nvidia = <<>>
    <3>1. Len(nvidia) \in Nat /\ ~(Len(nvidia) > 0)
      <4> HIDE DEF nvidia
      <4>1. Len(nvidia) \in Nat /\ \A i \in 1..Len(nvidia) : a[i] \in A
        BY <1>2 DEF CardsOf, Stated
      <4> HIDE DEF A
      <4>2. Len(nvidia) > 0 => 1 \in 1..Len(nvidia)
        BY <4>1
      <4> QED
        BY <2>1, <4>1, <4>2
    <3> HIDE DEF nvidia
    <3> QED
      BY <1>4, <3>1, EmptySeq
  <2> HIDE DEF A, B, nvidia, amd, profile, m
  <2>3. nvidia \o amd = amd /\ A \cup B = B
    BY <1>4, <2>1, <2>2, ConcatEmptySeq
  <2>4. profile.gpus = amd /\ ~profile.unified /\ profile.accelerator = ResolveAccelerator(amd, FALSE)
    BY <1>1, <2>3
  <2>5. UsableMemory(profile) = LargestOrRam(B, profile.available)
    BY <1>3, <2>4, LargestIsUsable
  <2> QED
    BY <2>3, <2>5
<1>6. CASE m.rocm.rows = <<>>
  <2>1. B = {}
    <3>1. Len(m.rocm.rows) = 0 /\ Range(m.rocm.rows) = {m.rocm.rows[i] : i \in 1..Len(m.rocm.rows)}
      BY <1>6, MachineFacts, RangeOf, EmptySeq
    <3> QED
      BY <3>1
  <2>2. amd = <<>>
    <3>1. Len(amd) \in Nat /\ ~(Len(amd) > 0)
      <4> HIDE DEF amd
      <4>1. Len(amd) \in Nat /\ \A i \in 1..Len(amd) : b[i] \in B
        BY <1>3 DEF CardsOf, Stated
      <4> HIDE DEF B
      <4>2. Len(amd) > 0 => 1 \in 1..Len(amd)
        BY <4>1
      <4> QED
        BY <2>1, <4>1, <4>2
    <3> HIDE DEF amd
    <3> QED
      BY <1>4, <3>1, EmptySeq
  <2> HIDE DEF A, B, nvidia, amd, profile, m
  <2>3. nvidia \o amd = nvidia /\ A \cup B = A
    BY <1>4, <2>1, <2>2, ConcatEmptySeq
  <2>4. profile.gpus = nvidia /\ ~profile.unified /\ profile.accelerator = ResolveAccelerator(nvidia, FALSE)
    BY <1>1, <2>3
  <2>5. UsableMemory(profile) = LargestOrRam(A, profile.available)
    BY <1>2, <2>4, LargestIsUsable
  <2> QED
    BY <2>3, <2>5
<1> QED
  BY <1>5, <1>6
\* The memory of any machine is a number, and so is what kind of machine it is known.
LEMMA ScanFacts ==
    ASSUME NEW m \in Machines
    PROVE  /\ UsableMemory(Scan(m)) \in Nat
           /\ Scan(m).accelerator \in {"cuda", "rocm", "metal", "cpu"}
<1> DEFINE profile == Scan(m)
           gpus == DetectGpus(m)
<1>1. /\ profile.gpus = gpus /\ profile.unified = m.apple /\ profile.total = m.total
      /\ profile.available = m.available /\ profile.accelerator = ResolveAccelerator(gpus, m.apple)
  BY DEF Scan
<1>2. ResolveAccelerator(gpus, m.apple) \in {"cuda", "rocm", "metal", "cpu"}
  BY DEF ResolveAccelerator
<1>3. m.apple \in BOOLEAN /\ m.total \in Nat /\ m.available \in Nat
  BY MachineFacts
<1>4. RoundDiv(7 * m.total, 100) \in Nat /\ RoundDiv(m.available, 10) \in Nat
  <2> DEFINE t == 7 * m.total
  <2>1. t \in Nat
    BY <1>3
  <2> HIDE DEF t
  <2>2. RoundDiv(t, 100) \in Nat
    BY <2>1, RoundNat
  <2>3. RoundDiv(m.available, 10) \in Nat
    BY <1>3, RoundNat
  <2> QED
    BY <2>2, <2>3 DEF t
<1>5. CASE m.apple
  <2>1. UsableMemory(profile) = 800 * RoundDiv(7 * m.total, 100)
    BY <1>1, <1>5 DEF UsableMemory
  <2> QED
    BY <1>1, <1>2, <1>4, <2>1
<1>6. CASE ~m.apple
  <2> DEFINE nvidia == ParseNvidiaSmi(m.nvidia)
             amd == ParseRocmSmi(m.rocm)
  <2>1. gpus = nvidia \o amd
    BY <1>6 DEF DetectGpus
  <2>2. nvidia \in Seq(GpuCards)
    <3>1. PICK a : CardsOf(nvidia, a, "nvidia")
      BY MachineFacts, NvidiaCards
    <3> HIDE DEF nvidia
    <3>2. nvidia \in Seq([vendor : {"nvidia"}, vram : Amounts])
      BY <3>1, CardsAreListed
    <3>3. [vendor : {"nvidia"}, vram : Amounts] \subseteq GpuCards
      BY DEF GpuCards
    <3> QED
      BY <3>2, <3>3, SeqMonotonic
  <2>3. amd \in Seq(GpuCards)
    <3>1. PICK b : CardsOf(amd, b, "amd")
      BY MachineFacts, RocmCards
    <3> HIDE DEF amd
    <3>2. amd \in Seq([vendor : {"amd"}, vram : Amounts])
      BY <3>1, CardsAreListed
    <3>3. [vendor : {"amd"}, vram : Amounts] \subseteq GpuCards
      BY DEF GpuCards
    <3> QED
      BY <3>2, <3>3, SeqMonotonic
  <2> HIDE DEF nvidia, amd
  <2>4. gpus \in Seq(GpuCards)
    BY <2>1, <2>2, <2>3, ConcatProperties
  <2> HIDE DEF gpus
  <2>5. UsableMemory(profile) =
            IF profile.accelerator \in {"cuda", "rocm"} /\ gpus # <<>> /\ OrZero(PrimaryGpu(gpus).vram) > 0
            THEN 80 * PrimaryGpu(gpus).vram ELSE 800 * RoundDiv(m.available, 10)
    BY <1>1, <1>6 DEF UsableMemory
  <2>6. CASE gpus # <<>> /\ OrZero(PrimaryGpu(gpus).vram) > 0
    <3>1. PICK k \in 1..Len(gpus) : PrimaryGpu(gpus) = gpus[k]
      BY <2>4, <2>6, PrimaryFacts
    <3>2. PrimaryGpu(gpus).vram \in Amounts
      <4>1. gpus[k] \in GpuCards
        BY <2>4, RangeOf
      <4> QED
        BY <3>1, <4>1 DEF GpuCards
    <3>3. PrimaryGpu(gpus).vram \in Nat
      BY <2>6, <3>2 DEF Amounts, OrZero
    <3> QED
      BY <1>1, <1>2, <1>4, <2>5, <3>3
  <2>7. CASE ~(gpus # <<>> /\ OrZero(PrimaryGpu(gpus).vram) > 0)
    BY <1>1, <1>2, <1>4, <2>5, <2>7
  <2> QED
    BY <2>6, <2>7
<1> QED
  BY <1>3, <1>5, <1>6

-----------------------------------------------------------------------------
(***************************************************************************)
(* The node: the quant that is picked, and what is said of its fit.        *)
(***************************************************************************)
\* What a model of the catalog has.
LEMMA ModelFacts ==
    ASSUME NEW m \in Range(Catalog)
    PROVE  /\ m.quants \in Seq(Nat) /\ m.quants # <<>>
           /\ m.params \in Nat /\ m.context \in Nat /\ m.quality \in Nat /\ m.heads \in Nat \ {0}
           /\ m.kv \in Amounts /\ m.kvHeads \in Amounts
BY NodeAssumption DEF Amounts

\* A model takes some memory, and no less of it with more bits.
LEMMA MemoryFacts ==
    ASSUME NEW m \in Range(Catalog), NEW b \in Nat, NEW c \in Nat, b <= c
    PROVE  /\ EstimateMemory(m, b) \in Nat \ {0}
           /\ EstimateMemory(m, c) \in Nat
           /\ EstimateMemory(m, b) <= EstimateMemory(m, c)
<1>1. /\ m.params \in Nat /\ m.context \in Nat /\ m.heads \in Nat \ {0}
      /\ m.kv \in Amounts /\ m.kvHeads \in Amounts
  BY ModelFacts
<1>2. KvCache(m) \in Nat
  <2>1. CASE m.kv = Unknown
    BY <1>1, <2>1 DEF KvCache
  <2>2. CASE m.kv # Unknown /\ m.kvHeads = Unknown
    BY <1>1, <2>2 DEF KvCache, Amounts
  <2>3. CASE m.kv # Unknown /\ m.kvHeads # Unknown
    <3> DEFINE x == m.kv * m.context * m.kvHeads
    <3>1. x \in Nat
      BY <1>1, <2>3 DEF Amounts
    <3>2. KvCache(m) = x \div m.heads
      BY <2>3 DEF KvCache
    <3> HIDE DEF x
    <3> QED
      BY <1>1, <3>1, <3>2
  <2> QED
    BY <2>1, <2>2, <2>3
<1>3. m.params * b \in Nat /\ m.params * c \in Nat /\ m.params * b <= m.params * c
  <2> DEFINE d == c - b
             p == m.params
  <2>1. d \in Nat /\ c = b + d /\ p \in Nat
    BY <1>1
  <2> HIDE DEF d, p
  <2>2. p * c = p * b + p * d /\ p * b \in Nat /\ p * d \in Nat
    BY <2>1
  <2>3. p * c \in Nat /\ p * b <= p * c
    BY <2>2
  <2> QED
    BY <2>2, <2>3 DEF p
<1> QED
  BY <1>2, <1>3 DEF EstimateMemory

\* The quants that are considered: those under the saturation point, or all.
LEMMA ConsideredFacts ==
    ASSUME NEW m \in Range(Catalog)
    PROVE  LET all == Range(m.quants)
               low == {b \in all : b <= SaturationBits}
               s   == Considered(m)
           IN  /\ s \in Seq(Nat) /\ s # <<>> /\ Rising(s)
               /\ Range(s) = IF low = {} THEN all ELSE low
<1> DEFINE all == Range(m.quants)
           low == {b \in all : b <= SaturationBits}
           byBits == StableSort(m.quants, LAMBDA a, b : a < b)
           capped == Those(byBits, {b \in Range(byBits) : b <= SaturationBits})
<1>1. m.quants \in Seq(Nat) /\ m.quants # <<>>
  BY ModelFacts
<1>2. byBits \in Seq(Nat) /\ Range(byBits) = all /\ Len(byBits) = Len(m.quants) /\ Rising(byBits)
  BY <1>1, AscendingFacts
<1>3. Considered(m) = IF capped = <<>> THEN byBits ELSE capped
  BY DEF Considered
<1>4. Len(byBits) \in Nat \ {0}
  BY <1>1, <1>2, EmptySeq
<1> HIDE DEF byBits
<1>5. capped \in Seq(Nat) /\ Rising(capped) /\ Range(capped) = low
  <2>1. capped \in Seq(Nat) /\ Rising(capped)
    BY <1>2, ThoseRising
  <2>2. Range(capped) = Range(byBits) \cap {b \in Range(byBits) : b <= SaturationBits}
    BY <1>2, ThoseRange
  <2> HIDE DEF capped
  <2> QED
    BY <1>2, <2>1, <2>2
<1> HIDE DEF capped
<1>6. byBits # <<>>
  BY <1>4, EmptySeq
<1>7. capped = <<>> <=> low = {}
  <2>1. Range(capped) = {capped[i] : i \in 1..Len(capped)}
    BY <1>5, RangeOf
  <2>2. capped = <<>> => Range(capped) = {}
    BY <2>1, EmptySeq
  <2>3. capped # <<>> => 1 \in 1..Len(capped)
    BY <1>5, EmptySeq
  <2> QED
    BY <1>5, <2>1, <2>2, <2>3
<1> HIDE DEF low, all
<1> QED
  BY <1>2, <1>3, <1>5, <1>6, <1>7 DEF low, all

\* The largest considered quant that fits is picked, or the smallest of all if
\* none does; then none of those over the saturation point fits either.
LEMMA QuantFacts ==
    ASSUME NEW m \in Range(Catalog), NEW usable \in Nat
    PROVE  LET q       == SelectQuant(m, usable)
               all     == Range(m.quants)
               low     == {b \in all : b <= SaturationBits}
               Fits(b) == EstimateMemory(m, b) <= usable
           IN  /\ q.bits \in all /\ q.bits \in Nat /\ q.fits \in BOOLEAN /\ (q.fits <=> Fits(q.bits))
               /\ q.fits => /\ low # {} => q.bits \in low
                            /\ \A b \in (IF low = {} THEN all ELSE low) : Fits(b) => b <= q.bits
               /\ ~q.fits => \A b \in all : ~Fits(b) /\ q.bits <= b
<1> DEFINE q == SelectQuant(m, usable)
           all == Range(m.quants)
           low == {b \in all : b <= SaturationBits}
           Fits(b) == EstimateMemory(m, b) <= usable
           seen == Considered(m)
           kept == {b \in Range(seen) : Fits(b)}
           fitting == Fitting(m, usable)
           byBits == StableSort(m.quants, LAMBDA a, b : a < b)
<1>1. seen \in Seq(Nat) /\ seen # <<>> /\ Rising(seen) /\ Range(seen) = IF low = {} THEN all ELSE low
  BY ConsideredFacts
<1>2. byBits \in Seq(Nat) /\ Range(byBits) = all /\ Len(byBits) = Len(m.quants) /\ Rising(byBits)
  BY ModelFacts, AscendingFacts
<1>3. byBits # <<>>
  BY <1>2, ModelFacts, EmptySeq
<1>4. fitting = Those(seen, kept)
  BY DEF Fitting
<1>5. q = IF fitting # <<>> THEN [bits |-> Last(fitting), fits |-> TRUE]
          ELSE [bits |-> byBits[1], fits |-> FALSE]
  BY DEF SelectQuant
<1>6. all \subseteq Nat /\ low \subseteq all /\ (\A b \in low : b <= SaturationBits)
      /\ \A b \in all \ low : ~(b <= SaturationBits)
  BY ModelFacts, RangeOf
<1>7. \A b, c \in all : b <= c /\ Fits(c) => Fits(b)
  <2> SUFFICES ASSUME NEW b \in all, NEW c \in all, b <= c, Fits(c) PROVE Fits(b)
    OBVIOUS
  <2>1. b \in Nat /\ c \in Nat
    BY <1>6
  <2>2. /\ EstimateMemory(m, b) \in Nat /\ EstimateMemory(m, c) \in Nat
        /\ EstimateMemory(m, b) <= EstimateMemory(m, c)
    BY <2>1, MemoryFacts
  <2> QED
    BY <2>2
<1>8. Range(fitting) = kept /\ fitting \in Seq(Nat) /\ Rising(fitting)
  <2> HIDE DEF seen, kept, fitting
  <2>1. Range(fitting) = Range(seen) \cap kept /\ fitting \in Seq(Nat) /\ Rising(fitting)
    BY <1>1, <1>4, ThoseRange, ThoseRising
  <2>2. kept \subseteq Range(seen)
    BY DEF kept
  <2> QED
    BY <2>1, <2>2
<1>9. \A b : b \in kept <=> b \in (IF low = {} THEN all ELSE low) /\ Fits(b)
  BY <1>1
<1> HIDE DEF q, seen, kept, fitting, byBits, low, all, Fits
<1>10. CASE fitting # <<>>
  <2>1. Last(fitting) \in kept /\ \A b \in kept : b <= Last(fitting)
    BY <1>8, <1>10, RisingEnds
  <2>2. q.bits = Last(fitting) /\ q.fits = TRUE
    BY <1>5, <1>10
  <2>3. q.bits \in (IF low = {} THEN all ELSE low) /\ Fits(q.bits)
    BY <1>9, <2>1, <2>2
  <2>4. \A b \in (IF low = {} THEN all ELSE low) : Fits(b) => b <= q.bits
    BY <1>9, <2>1, <2>2
  <2>5. q.bits \in all /\ q.bits \in Nat
    BY <1>6, <2>3
  <2> QED
    BY <2>2, <2>3, <2>4, <2>5 DEF q, all, low, Fits
<1>11. CASE fitting = <<>>
  <2>1. q.bits = byBits[1] /\ q.fits = FALSE
    BY <1>5, <1>11
  <2>2. q.bits \in all /\ \A b \in all : q.bits <= b
    BY <1>2, <1>3, <2>1, RisingEnds
  <2>3. kept = {}
    <3>1. Range(fitting) = {fitting[i] : i \in 1..Len(fitting)}
      BY <1>8, RangeOf
    <3>2. Len(fitting) = 0
      BY <1>11, EmptySeq
    <3>3. 1..Len(fitting) = {}
      BY <3>2
    <3> QED
      BY <1>8, <3>1, <3>3
  <2>4. \A b \in all : ~Fits(b)
    <3> SUFFICES ASSUME NEW b \in all, Fits(b) PROVE FALSE
      OBVIOUS
    <3>1. b \notin low /\ low # {}
      BY <1>9, <2>3
    <3>2. PICK c \in low : TRUE
      BY <3>1
    <3>3. c <= b /\ c \in all
      BY <1>6, <3>1, <3>2 DEF SaturationBits
    <3>4. Fits(c)
      BY <1>7, <3>3
    <3> QED
      BY <1>9, <2>3, <3>1, <3>2, <3>4
  <2>5. q.bits \in Nat /\ ~Fits(q.bits)
    BY <1>6, <2>2, <2>4
  <2> QED
    BY <2>1, <2>2, <2>4, <2>5 DEF q, all, low, Fits
<1> QED
  BY <1>10, <1>11

\* The headroom that is shown is at least 1 exactly if the model fits.
LEMMA HeadroomFacts ==
    ASSUME NEW usable \in Nat, NEW total \in Nat \ {0}, NEW fits \in BOOLEAN, fits <=> total <= usable
    PROVE  LET ratio == HeadroomRatio(usable, total, fits)
           IN  ratio \in Nat /\ (fits <=> ratio >= 1000)
<1> DEFINE x == 1000 * usable
           q == x \div total
           ratio == RoundDiv(x, total)
<1>1. x \in Nat
  OBVIOUS
<1>2. HeadroomRatio(usable, total, fits) = IF ~fits /\ ratio >= 1000 THEN 999 ELSE ratio
  BY DEF HeadroomRatio
<1>3. ratio \in Nat /\ q <= ratio
  <2> HIDE DEF x
  <2> QED
    BY <1>1, RoundNat
<1>4. fits => q >= 1000
  <2> SUFFICES ASSUME total <= usable, q <= 999 PROVE FALSE
    <3>1. q \in Int
      <4> HIDE DEF x
      <4> QED
        BY <1>1
    <3> HIDE DEF q
    <3> QED
      BY <3>1
  <2> DEFINE r == x % total
             d == 999 - q
  <2>1. q \in Int /\ r \in Nat /\ r < total /\ x = total * q + r
    <3> HIDE DEF x
    <3> QED
      BY <1>1
  <2> HIDE DEF q, r
  <2>2. d \in Nat /\ q = 999 - d
    BY <2>1
  <2> HIDE DEF d
  <2>3. total * q = 999 * total - total * d
    BY <2>2
  <2>4. total * d \in Nat
    BY <2>2
  <2> QED
    BY <2>1, <2>3, <2>4
<1> HIDE DEF x, ratio, q
<1>5. q \in Int
  BY <1>1 DEF q
<1> QED
  BY <1>2, <1>3, <1>4, <1>5
\* What is predicted of a model is a number.
LEMMA PredictFacts ==
    ASSUME NEW m \in Range(Catalog), NEW a \in {"cuda", "rocm", "metal", "cpu"}, NEW bits \in Nat
    PROVE  PredictTps(m, a, bits) \in Nat
<1> DEFINE x == 45000 * AccelBaseTps[a]
           y == m.params * (IF bits < 10 THEN 10 ELSE bits)
<1>1. m.params \in Nat
  BY ModelFacts
<1>2. AccelBaseTps[a] \in Nat
  BY DEF AccelBaseTps
<1>3. x \in Nat
  BY <1>2
<1>4. (IF bits < 10 THEN 10 ELSE bits) \in Nat \ {0}
  OBVIOUS
<1>5. m.params > 0 => y \in Nat \ {0}
  <2> DEFINE c == IF bits < 10 THEN 10 ELSE bits
             p == m.params
  <2>1. c \in Nat \ {0} /\ p \in Nat
    BY <1>1, <1>4
  <2> HIDE DEF c, p
  <2>2. p > 0 => p * c \in Nat \ {0}
    BY <2>1
  <2> QED
    BY <2>2 DEF c, p
<1>6. PredictTps(m, a, bits) = IF m.params <= 0 THEN 0 ELSE RoundDiv(x, y)
  BY DEF PredictTps
<1> HIDE DEF x, y
<1>7. CASE m.params > 0
  BY <1>1, <1>3, <1>5, <1>6, <1>7, RoundNat
<1>8. CASE ~(m.params > 0)
  BY <1>1, <1>6, <1>8
<1> QED
  BY <1>7, <1>8

\* A score is a number.
LEMMA ModelScoreFacts ==
    ASSUME NEW fits \in BOOLEAN, NEW headroom \in Nat, NEW quality \in Nat, NEW tps \in Nat, NEW latency
    PROVE  ModelScore(fits, headroom, quality, tps, SpeedWeight(latency)) \in Nat
<1> DEFINE speed == SpeedWeight(latency)
           h == AtMost(headroom, 2000)
           t == AtMost(tps, 2000)
           w == IF speed > 75 THEN 0 ELSE 75 - speed
           f == 100 - speed - w
           x == f * h + 20 * w * quality + speed * t
<1>1. speed \in {45, 10, 25}
  BY DEF SpeedWeight
<1>2. h \in Nat /\ t \in Nat
  BY DEF AtMost
<1> HIDE DEF speed, h, t
<1>3. w \in Nat /\ f \in Nat /\ speed \in Nat
  BY <1>1
<1> HIDE DEF w, f
<1>4. x \in Nat
  <2>1. f * h \in Nat /\ w * quality \in Nat /\ speed * t \in Nat
    BY <1>2, <1>3
  <2>2. 20 * w * quality = 20 * (w * quality)
    BY <1>3
  <2> QED
    BY <2>1, <2>2
<1>5. ModelScore(fits, headroom, quality, tps, speed) = (IF fits THEN 10000 ELSE 0) + RoundDiv(x, 20)
  BY DEF ModelScore, w, f, h, t
<1> HIDE DEF x
<1>6. RoundDiv(x, 20) \in Nat
  BY <1>4, RoundNat
<1>7. ModelScore(fits, headroom, quality, tps, speed) \in Nat
  BY <1>5, <1>6
<1> QED
  BY <1>7 DEF speed

\* One recommendation for a machine: what it says of the fit is so.
LEMMA RecommendationFacts ==
    ASSUME NEW hw \in Machines, NEW m \in Range(Catalog), NEW latency
    PROVE  LET rec     == Recommendation(m, Scan(hw), latency)
               usable  == UsableMemory(Scan(hw))
               all     == Range(m.quants)
               low     == {b \in all : b <= SaturationBits}
               Fits(b) == EstimateMemory(m, b) <= usable
           IN  /\ rec.model = m /\ rec.fits \in BOOLEAN /\ rec.score \in Nat
               /\ rec.bits \in all /\ (rec.fits <=> Fits(rec.bits))
               /\ rec.fits => /\ low # {} => rec.bits \in low
                              /\ \A b \in (IF low = {} THEN all ELSE low) : Fits(b) => b <= rec.bits
               /\ ~rec.fits => \A b \in all : ~Fits(b) /\ rec.bits <= b
               /\ rec.fits <=> rec.headroom >= 1000
<1> DEFINE profile == Scan(hw)
           usable == UsableMemory(profile)
           q == SelectQuant(m, usable)
           total == EstimateMemory(m, q.bits)
           ratio == HeadroomRatio(usable, total, q.fits)
           tps == PredictTps(m, profile.accelerator, q.bits)
           score == ModelScore(q.fits, ratio, m.quality, tps, SpeedWeight(latency))
           rec == Recommendation(m, profile, latency)
           all == Range(m.quants)
           low == {b \in all : b <= SaturationBits}
           Fits(b) == EstimateMemory(m, b) <= usable
<1>1. usable \in Nat /\ profile.accelerator \in {"cuda", "rocm", "metal", "cpu"}
  BY ScanFacts
<1>2. rec = [model |-> m, bits |-> q.bits, fits |-> q.fits, total |-> total, headroom |-> ratio,
             tps |-> tps, score |-> score]
  BY DEF Recommendation
<1> HIDE DEF profile, usable
<1>3. /\ q.bits \in all /\ q.bits \in Nat /\ q.fits \in BOOLEAN /\ (q.fits <=> Fits(q.bits))
      /\ q.fits => /\ low # {} => q.bits \in low
                   /\ \A b \in (IF low = {} THEN all ELSE low) : Fits(b) => b <= q.bits
      /\ ~q.fits => \A b \in all : ~Fits(b) /\ q.bits <= b
  BY <1>1, QuantFacts
<1> HIDE DEF q, low, all
<1>4. total \in Nat \ {0} /\ (q.fits <=> total <= usable)
  BY <1>3, MemoryFacts
<1> HIDE DEF total
<1>5. ratio \in Nat /\ (q.fits <=> ratio >= 1000)
  BY <1>1, <1>3, <1>4, HeadroomFacts
<1>6. tps \in Nat
  BY <1>1, <1>3, PredictFacts
<1>7. m.quality \in Nat
  BY ModelFacts
<1> HIDE DEF ratio, tps, rec, Fits
<1>8. score \in Nat
  BY <1>3, <1>5, <1>6, <1>7, ModelScoreFacts
<1> HIDE DEF score
<1>9. /\ rec.model = m /\ rec.bits = q.bits /\ rec.fits = q.fits /\ rec.headroom = ratio
      /\ rec.score = score
  BY <1>2
<1> QED
  BY <1>3, <1>5, <1>8, <1>9 DEF rec, Fits, all, low, usable, profile

-----------------------------------------------------------------------------
(***************************************************************************)
(* The node: the list of recommendations.                                  *)
(***************************************************************************)
\* The models a query asks for.
Able(r) == {m \in Range(Catalog) : /\ r.task \in m.tasks
                                   /\ r.commercial => m.commercialUse /\ ~m.licenseMarked}

\* The candidates are these, each once.
LEMMA CandidatesFacts ==
    ASSUME NEW r
    PROVE  /\ Candidates(r) \in Seq(Able(r)) /\ Distinct(Candidates(r))
           /\ Range(Candidates(r)) = Able(r)
<1> DEFINE S == {m \in Range(Catalog) : r.task \in m.tasks /\ (r.commercial => ~IsNonCommercial(m))}
<1>1. S = Able(r)
  BY DEF Able, IsNonCommercial
<1>2. Candidates(r) = Those(Catalog, S)
  BY DEF Candidates
<1>3. Catalog \in Seq(Range(Catalog)) /\ DOMAIN Catalog = 1..Len(Catalog)
  BY NodeAssumption, RangeOf
<1>4. \A i, j \in 1..Len(Catalog) : i # j => Catalog[i] # Catalog[j]
  BY <1>3, NodeAssumption
<1>5. S \subseteq Range(Catalog)
  OBVIOUS
<1> HIDE DEF S
<1>6. Those(Catalog, S) \in Seq(S) /\ Distinct(Those(Catalog, S)) /\ Range(Those(Catalog, S)) = Range(Catalog) \cap S
  BY <1>3, <1>4, ThoseOnce
<1> QED
  BY <1>1, <1>2, <1>5, <1>6

\* The first k of a list, or all.
LEMMA TopFacts ==
    ASSUME NEW S, NEW s \in Seq(S), NEW k \in Nat
    PROVE  /\ TopK(s, k) \in Seq(S) /\ Len(TopK(s, k)) = AtMost(Len(s), k)
           /\ \A i \in 1..Len(TopK(s, k)) : i \in 1..Len(s) /\ TopK(s, k)[i] = s[i]
<1> DEFINE n == IF k < Len(s) THEN k ELSE Len(s)
<1>1. Len(s) \in Nat /\ \A i \in 1..Len(s) : s[i] \in S
  BY RangeOf
<1>2. n \in Nat /\ n <= Len(s) /\ n = AtMost(Len(s), k)
  BY <1>1 DEF AtMost
<1>3. TopK(s, k) = SubSeq(s, 1, n)
  BY DEF TopK
<1> HIDE DEF n
<1>4. \A i \in 1..n : i \in 1..Len(s) /\ s[i] \in S
  BY <1>1, <1>2
<1>5. /\ SubSeq(s, 1, n) \in Seq(S)
      /\ Len(SubSeq(s, 1, n)) = IF 1 <= n THEN n - 1 + 1 ELSE 0
      /\ \A i \in 1..n - 1 + 1 : SubSeq(s, 1, n)[i] = s[1 + i - 1]
  BY <1>2, <1>4, SubSeqProperties
<1>6. Len(SubSeq(s, 1, n)) = n
  BY <1>2, <1>5
<1>7. \A i \in 1..n : SubSeq(s, 1, n)[i] = s[i]
  <2> SUFFICES ASSUME NEW i \in 1..n PROVE SubSeq(s, 1, n)[i] = s[i]
    OBVIOUS
  <2>1. i \in 1..n - 1 + 1 /\ 1 + i - 1 = i
    BY <1>2
  <2> QED
    BY <1>5, <2>1
<1> QED
  BY <1>2, <1>3, <1>4, <1>5, <1>6, <1>7

\* What a query may be recommended on a machine.
Recs(hw, r) == {Recommendation(m, Scan(hw), r.latency) : m \in Able(r)}

\* recommend sorts the recommendations of the candidates, and keeps the first.
LEMMA SortedRecs ==
    ASSUME NEW hw \in Machines, NEW r \in Queries
    PROVE  \E s \in Seq(Recs(hw, r)) :
               /\ RecommendAll(r, Scan(hw)) = TopK(s, r.top)
               /\ Range(s) = Recs(hw, r) /\ Distinct(s) /\ Len(s) = Cardinality(Able(r))
               /\ \A j, k \in 1..Len(s) : j < k => ~Ahead(s[k], s[j])
<1> DEFINE found == Candidates(r)
           n == Len(found)
           Rec(m) == Recommendation(m, Scan(hw), r.latency)
           recs == [i \in DOMAIN found |-> Rec(found[i])]
           U == Range(recs)
           less == {p \in U \X U : Ahead(p[1], p[2])}
           s == SortBy(recs, less)
<1>1. found \in Seq(Able(r)) /\ Distinct(found) /\ Range(found) = Able(r)
  BY CandidatesFacts
<1>2. RecommendAll(r, Scan(hw)) = TopK(s, r.top)
  BY DEF RecommendAll, Ranked, StableSort
<1>3. n \in Nat /\ DOMAIN found = 1..n /\ Able(r) = {found[i] : i \in 1..n} /\ \A i \in 1..n : found[i] \in Able(r)
  BY <1>1, RangeOf
<1>4. n = Cardinality(Able(r))
  BY <1>1, DistinctLength
<1>5. \A m \in Able(r) : /\ Rec(m).model = m /\ Rec(m).fits \in BOOLEAN /\ Rec(m).score \in Nat
                         /\ Rec(m) \in Recs(hw, r)
  <2> SUFFICES ASSUME NEW m \in Able(r)
               PROVE  /\ Rec(m).model = m /\ Rec(m).fits \in BOOLEAN /\ Rec(m).score \in Nat
                      /\ Rec(m) \in Recs(hw, r)
    OBVIOUS
  <2>1. m \in Range(Catalog)
    BY DEF Able
  <2>2. Rec(m).model = m /\ Rec(m).fits \in BOOLEAN /\ Rec(m).score \in Nat
    BY <2>1, RecommendationFacts
  <2> QED
    BY <2>2 DEF Recs
<1>6. Recs(hw, r) = {Rec(m) : m \in Able(r)}
  BY DEF Recs
<1> HIDE DEF found, n, less, Rec
<1>7. recs = [i \in 1..n |-> Rec(found[i])] /\ \A i \in 1..n : recs[i] = Rec(found[i])
  BY <1>3
<1> HIDE DEF recs
<1>8. recs \in Seq(Recs(hw, r)) /\ Len(recs) = n
  <2>1. recs \in [1..n -> Recs(hw, r)]
    BY <1>3, <1>5, <1>7
  <2> QED
    BY <1>3, <2>1, ListOf
<1>9. U = Recs(hw, r)
  <2>1. U = {recs[i] : i \in 1..n}
    BY <1>8, RangeOf
  <2>2. \A i \in 1..n : recs[i] \in Recs(hw, r)
    BY <1>3, <1>5, <1>7
  <2>3. ASSUME NEW x \in Recs(hw, r) PROVE \E i \in 1..n : x = recs[i]
    <3>1. PICK m \in Able(r) : x = Rec(m)
      BY <1>6
    <3>2. PICK i \in 1..n : m = found[i]
      BY <1>3
    <3> QED
      BY <1>7, <3>1, <3>2
  <2> HIDE DEF U
  <2> QED
    BY <2>1, <2>2, <2>3
<1>10. Distinct(recs)
  <2> SUFFICES ASSUME NEW i \in 1..n, NEW j \in 1..n, recs[i] = recs[j], i # j PROVE FALSE
    BY <1>8 DEF Distinct
  <2>1. Rec(found[i]).model = Rec(found[j]).model
    BY <1>7
  <2>2. found[i] = found[j]
    BY <1>3, <1>5, <2>1
  <2> QED
    BY <1>1, <2>2 DEF Distinct, n
<1>11. \A x, y \in Recs(hw, r) : <<x, y>> \in less <=> Ahead(x, y)
  BY <1>9 DEF less
<1>12. \A x \in Recs(hw, r) : x.fits \in BOOLEAN /\ x.score \in Nat
  BY <1>5, <1>6
<1> HIDE DEF U
<1>13. Orders(less, Recs(hw, r))
  <2> SUFFICES ASSUME NEW a \in Recs(hw, r), NEW b \in Recs(hw, r), NEW c \in Recs(hw, r)
               PROVE  /\ <<a, b>> \in less => <<b, a>> \notin less
                      /\ <<a, b>> \notin less /\ <<b, c>> \notin less => <<a, c>> \notin less
    BY DEF Orders
  <2>1. /\ a.fits \in BOOLEAN /\ b.fits \in BOOLEAN /\ c.fits \in BOOLEAN
        /\ a.score \in Nat /\ b.score \in Nat /\ c.score \in Nat
    BY <1>12
  <2>2. /\ Ahead(a, b) => ~Ahead(b, a)
        /\ ~Ahead(a, b) /\ ~Ahead(b, c) => ~Ahead(a, c)
    BY <2>1 DEF Ahead
  <2> QED
    BY <1>11, <2>2
<1>14. /\ s \in Seq(Recs(hw, r)) /\ Len(s) = n /\ Range(s) = U /\ Distinct(s)
       /\ \A j, k \in 1..n : j < k => <<s[k], s[j]>> \notin less
  BY <1>8, <1>10, <1>13, SortOnce DEF U
<1> HIDE DEF s
<1>15. \A j, k \in 1..n : j < k => ~Ahead(s[k], s[j])
  <2>1. \A i \in 1..n : s[i] \in Recs(hw, r)
    BY <1>14, RangeOf
  <2> QED
    BY <1>11, <1>14, <2>1
<1> QED
  BY <1>2, <1>4, <1>9, <1>14, <1>15
\* The models in a list that starts with the first of a sorted list: each once,
\* and those that were left out come later.
LEMMA ListFacts ==
    ASSUME NEW hw \in Machines, NEW r \in Queries
    PROVE  LET list   == RecommendAll(r, Scan(hw))
               listed == {rec.model : rec \in Range(list)}
           IN  /\ list \in Seq(Recs(hw, r))
               /\ listed \subseteq Able(r) /\ Len(list) = Cardinality(listed)
               /\ Len(list) = AtMost(Cardinality(Able(r)), r.top)
               /\ \A i, j \in DOMAIN list : i < j => ~Ahead(list[j], list[i])
               /\ \A m \in Able(r) \ listed : \A rec \in Range(list) :
                     ~Ahead(Recommendation(m, Scan(hw), r.latency), rec)
<1> DEFINE list == RecommendAll(r, Scan(hw))
           listed == {rec.model : rec \in Range(list)}
           Rec(m) == Recommendation(m, Scan(hw), r.latency)
<1>1. PICK s \in Seq(Recs(hw, r)) :
          /\ list = TopK(s, r.top)
          /\ Range(s) = Recs(hw, r) /\ Distinct(s) /\ Len(s) = Cardinality(Able(r))
          /\ \A j, k \in 1..Len(s) : j < k => ~Ahead(s[k], s[j])
  BY SortedRecs
<1>2. r.top \in Nat
  BY NodeAssumption
<1>3. \A m \in Able(r) : Rec(m).model = m
  <2> SUFFICES ASSUME NEW m \in Able(r) PROVE Rec(m).model = m
    OBVIOUS
  <2>1. m \in Range(Catalog)
    BY DEF Able
  <2> QED
    BY <2>1, RecommendationFacts
<1>4. Recs(hw, r) = {Rec(m) : m \in Able(r)}
  BY DEF Recs
<1> HIDE DEF list, Rec
<1> DEFINE n == Len(list)
<1>5. /\ list \in Seq(Recs(hw, r)) /\ n = AtMost(Len(s), r.top)
      /\ \A i \in 1..n : i \in 1..Len(s) /\ list[i] = s[i]
  BY <1>1, <1>2, TopFacts
<1>6. /\ n \in Nat /\ DOMAIN list = 1..n /\ (\A i \in 1..n : list[i] \in Recs(hw, r))
      /\ Range(list) = {list[i] : i \in 1..n}
  BY <1>5, RangeOf
<1>7. /\ Len(s) \in Nat /\ \A i \in 1..Len(s) : s[i] \in Recs(hw, r)
      /\ Range(s) = {s[i] : i \in 1..Len(s)}
  BY RangeOf
<1> HIDE DEF n
<1>8. \A rec \in Recs(hw, r) : rec.model \in Able(r) /\ rec = Rec(rec.model)
  BY <1>3, <1>4
<1> DEFINE models == [i \in 1..n |-> list[i].model]
<1>9. models \in [1..n -> Able(r)] /\ \A i \in 1..n : models[i] = list[i].model
  BY <1>6, <1>8
<1> HIDE DEF models
<1>10. models \in Seq(Able(r)) /\ Len(models) = n
  BY <1>6, <1>9, ListOf
<1>11. Distinct(models)
  <2> SUFFICES ASSUME NEW i \in 1..n, NEW j \in 1..n, models[i] = models[j], i # j PROVE FALSE
    BY <1>10 DEF Distinct
  <2>1. list[i] = list[j]
    BY <1>6, <1>8, <1>9
  <2>2. s[i] = s[j] /\ i \in 1..Len(s) /\ j \in 1..Len(s)
    BY <1>5, <2>1
  <2> QED
    BY <1>1, <2>2 DEF Distinct
<1>12. listed = Range(models)
  <2>1. Range(models) = {models[i] : i \in 1..n}
    BY <1>10, RangeOf
  <2>2. \A i \in 1..n : models[i] \in listed
    BY <1>6, <1>9
  <2>3. \A x \in listed : \E i \in 1..n : x = models[i]
    BY <1>6, <1>9
  <2> HIDE DEF listed
  <2> QED
    BY <2>1, <2>2, <2>3
<1>13. listed \subseteq Able(r) /\ n = Cardinality(listed)
  <2> HIDE DEF listed
  <2>1. Range(models) \subseteq Able(r)
    BY <1>10, RangeOf
  <2>2. Len(models) = Cardinality(Range(models))
    BY <1>10, <1>11, DistinctLength
  <2> QED
    BY <1>10, <1>12, <2>1, <2>2
<1>14. \A i, j \in 1..n : i < j => ~Ahead(list[j], list[i])
  BY <1>1, <1>5
<1>15. ASSUME NEW m \in Able(r), m \notin listed, NEW rec \in Range(list)
       PROVE  ~Ahead(Rec(m), rec)
  <2>1. PICK i \in 1..n : rec = list[i]
    BY <1>6
  <2>2. Rec(m) \in Range(s)
    BY <1>1, <1>4
  <2>3. PICK k \in 1..Len(s) : Rec(m) = s[k]
    BY <1>7, <2>2
  <2>4. k \notin 1..n
    <3> SUFFICES ASSUME k \in 1..n PROVE FALSE
      OBVIOUS
    <3>1. list[k] = Rec(m) /\ list[k] \in Range(list)
      BY <1>5, <1>6, <2>3
    <3>2. list[k].model = m
      BY <1>3, <3>1
    <3> QED
      BY <1>15, <3>1, <3>2
  <2>5. i \in 1..Len(s) /\ rec = s[i] /\ i < k
    BY <1>5, <1>6, <1>7, <2>1, <2>4
  <2> QED
    BY <1>1, <2>3, <2>5
<1> HIDE DEF listed
<1>16. n = AtMost(Cardinality(Able(r)), r.top)
  BY <1>1, <1>5
<1> QED
  BY <1>5, <1>6, <1>13, <1>14, <1>15, <1>16 DEF listed, list, n, Rec

\* A list on the screen is the one recommend made, of the machine it is still on.
RecommendInv ==
    /\ machine \in Machines /\ "op" \in DOMAIN command
    /\ command.op = "recommended" =>
           /\ command.asked \in Queries /\ command.profile = Scan(machine)
           /\ command.list = RecommendAll(command.asked, command.profile)

LEMMA InitRecommend == NInit => RecommendInv
BY DEF NInit, NoCommand, RecommendInv

\* Only recommend makes a list.
LEMMA NextRecommend == BenchmarkInv /\ RecommendInv /\ [NNext]_nvars => RecommendInv'
<1> SUFFICES ASSUME BenchmarkInv, RecommendInv, [NNext]_nvars PROVE RecommendInv'
  OBVIOUS
<1>1. CASE UNCHANGED nvars
  BY <1>1 DEF nvars, RecommendInv
<1>2. ASSUME NEW r \in Queries, Recommend(r) PROVE RecommendInv'
  <2>1. /\ command' = [op |-> "recommended", asked |-> r, profile |-> Scan(machine),
                       list |-> RecommendAll(r, Scan(machine))]
        /\ machine' = machine
    BY <1>2 DEF Recommend
  <2> QED
    BY <2>1 DEF RecommendInv
<1>3. CASE StartBenchmark
  BY <1>3 DEF StartBenchmark, NewStream, RecommendInv
<1>4. CASE Exit
  BY <1>4 DEF Exit, NoCommand, RecommendInv
<1>5. CASE Tick
  BY <1>5 DEF Tick, RecommendInv
<1>6. CASE EndOfStream \/ StreamFails
  BY <1>6 DEF EndOfStream, StreamFails, RecommendInv
<1>7. ASSUME NEW piece \in BOOLEAN, NEW tokens \in {Unknown, 0, 3}, Line(piece, tokens) PROVE RecommendInv'
  <2>1. PICK t, c, u, l : command' = [command EXCEPT !.lines = l, !.ttft = t, !.chunks = c, !.usage = u]
    BY <1>7 DEF Line
  <2>2. "op" \in DOMAIN command' /\ command'.op = "stream" /\ machine' = machine
    BY <1>7, <2>1 DEF Line, RecommendInv
  <2> QED
    BY <2>2 DEF RecommendInv
<1>8. ASSUME NEW announce, NEW key, NEW url, FinishBenchmark(announce, key, url) PROVE RecommendInv'
  BY <1>8 DEF FinishBenchmark, RecommendInv
<1> QED
  BY <1>1, <1>2, <1>3, <1>4, <1>5, <1>6, <1>7, <1>8 DEF NNext

\* The invariant holds of NSpec.
THEOREM RecommendInvHolds == NSpec => []RecommendInv
BY InitBenchmark, NextBenchmark, InitRecommend, NextRecommend, PTL DEF NSpec

\* recommend lists the best of the models that were asked for, each once, for
\* every catalog, machine and query; a model that fits is never left out for one
\* that does not.
THEOREM BestAreListedHolds == NSpec => []BestAreListed
<1>1. RecommendInv => BestAreListed
  <2> SUFFICES ASSUME RecommendInv, command.op = "recommended" PROVE BestAreListed
    BY DEF BestAreListed
  <2> DEFINE r == command.asked
             list == command.list
             listed == {rec.model : rec \in Range(list)}
  <2>1. /\ machine \in Machines /\ r \in Queries /\ command.profile = Scan(machine)
        /\ list = RecommendAll(r, Scan(machine))
    BY DEF RecommendInv
  <2>2. /\ listed \subseteq Able(r) /\ Len(list) = Cardinality(listed)
        /\ Len(list) = AtMost(Cardinality(Able(r)), r.top)
        /\ \A i, j \in DOMAIN list : i < j => ~Ahead(list[j], list[i])
        /\ \A m \in Able(r) \ listed : \A rec \in Range(list) :
              ~Ahead(Recommendation(m, command.profile, r.latency), rec)
    <3> HIDE DEF r, list
    <3> QED
      BY <2>1, ListFacts
  <2> QED
    BY <2>2 DEF BestAreListed, Able
<1> QED
  BY <1>1, RecommendInvHolds, PTL

\* What recommend says of a model's fit is so, for every catalog and every
\* machine: the memory it counts on is that of the largest card of the one vendor,
\* the quant is the largest that fits, and the headroom is at least 1 exactly for
\* models that fit.
THEOREM FitIsHonestHolds == NSpec => []FitIsHonest
<1>1. RecommendInv => FitIsHonest
  <2> SUFFICES ASSUME RecommendInv PROVE FitIsHonest
    OBVIOUS
  <2>1. UsableIsTotalVram
    BY UsableFacts DEF RecommendInv
  <2>2. ASSUME NEW rec \in Recommended
        PROVE  /\ command.profile = Scan(machine) /\ machine \in Machines
               /\ \E m \in Range(Catalog) : \E latency : rec = Recommendation(m, Scan(machine), latency)
    <3> DEFINE r == command.asked
               list == command.list
    <3>1. command.op = "recommended" /\ rec \in Range(list)
      BY DEF Recommended
    <3>2. /\ machine \in Machines /\ r \in Queries /\ command.profile = Scan(machine)
          /\ list = RecommendAll(r, Scan(machine))
      BY <3>1 DEF RecommendInv
    <3> HIDE DEF r, list
    <3>3. list \in Seq(Recs(machine, r))
      BY <3>2, ListFacts
    <3>4. rec \in Recs(machine, r)
      BY <3>1, <3>3, RangeOf
    <3> QED
      BY <3>2, <3>4 DEF Recs, Able
  <2>3. LargestFittingQuant
    <3> SUFFICES ASSUME NEW rec \in Recommended
                 PROVE  LET all    == Range(rec.model.quants)
                            low    == {b \in all : b <= SaturationBits}
                            usable == UsableMemory(command.profile)
                            Fits(b) == EstimateMemory(rec.model, b) <= usable
                        IN /\ rec.bits \in all /\ rec.fits = Fits(rec.bits)
                           /\ IF rec.fits THEN /\ low # {} => rec.bits \in low
                                               /\ \A b \in (IF low = {} THEN all ELSE low) : Fits(b) => b <= rec.bits
                              ELSE \A b \in all : ~Fits(b) /\ rec.bits <= b
      BY DEF LargestFittingQuant
    <3>0. PICK m \in Range(Catalog) : \E latency : rec = Recommendation(m, Scan(machine), latency)
      BY <2>2
    <3>1. PICK latency : rec = Recommendation(m, Scan(machine), latency)
      BY <3>0
    <3> DEFINE all    == Range(m.quants)
               low    == {b \in all : b <= SaturationBits}
               usable == UsableMemory(Scan(machine))
               Fits(b) == EstimateMemory(m, b) <= usable
    <3>2. /\ rec.model = m /\ rec.fits \in BOOLEAN
          /\ rec.bits \in all /\ (rec.fits <=> Fits(rec.bits))
          /\ rec.fits => /\ low # {} => rec.bits \in low
                         /\ \A b \in (IF low = {} THEN all ELSE low) : Fits(b) => b <= rec.bits
          /\ ~rec.fits => \A b \in all : ~Fits(b) /\ rec.bits <= b
      BY <2>2, <3>1, RecommendationFacts
    <3>3. rec.fits = Fits(rec.bits)
      BY <3>2
    <3>4. command.profile = Scan(machine)
      BY <2>2
    <3> QED
      BY <3>2, <3>3, <3>4
  <2>4. HeadroomHonest
    <3> SUFFICES ASSUME NEW rec \in Recommended PROVE rec.fits <=> rec.headroom >= 1000
      BY DEF HeadroomHonest
    <3>0. PICK m \in Range(Catalog) : \E latency : rec = Recommendation(m, Scan(machine), latency)
      BY <2>2
    <3>1. PICK latency : rec = Recommendation(m, Scan(machine), latency)
      BY <3>0
    <3> QED
      BY <2>2, <3>1, RecommendationFacts
  <2> QED
    BY <2>1, <2>3, <2>4 DEF FitIsHonest
<1> QED
  BY <1>1, RecommendInvHolds, PTL
=============================================================================

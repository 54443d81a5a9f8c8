------------------------------ MODULE Selection ------------------------------
(***************************************************************************)
(* Which provider a request goes to: the operator's policy                 *)
(* (packages/policy), the static score of a manifest and the ranked        *)
(* registry (packages/router), liveness probes and the shared file of      *)
(* recorded outcomes (packages/reputation).                                *)
(*                                                                         *)
(* Routers are processes over one reputation file.  A router filters what  *)
(* it discovered by the policy, probes and scores one provider after the   *)
(* other, routes to the best, and records the outcome by loading the file  *)
(* and, later, replacing it.                                               *)
(*                                                                         *)
(* Scores are integers: a reputation is in 1/600ths, exact for up to six   *)
(* samples, a sub-score of a static score in 1/Scale, exact for a Scale    *)
(* that the manifests' latencies and prices divide (there is one for every *)
(* finite set of manifests).                                               *)
(***************************************************************************)
EXTENDS Integers, Sequences, FiniteSets, SequencesExt, Ordering

CONSTANTS Routers,      \* router processes
          Listed,       \* the registry file: a sequence of providers and, for items
                        \* that are malformed, Nothing
          Manifests,    \* manifests a provider may have
          Policies,     \* policies an operator may have
          Requests,     \* models and privacy modes asked for, as records
          Outcomes,     \* outcomes of a request, as record is told them
          Latencies,    \* how long a probe or an answer may take
          Nothing,      \* not set, not measured, not there
          Scale,        \* what a sub-score of 1 is counted as
          MaxOutcomes   \* bound: outcomes recorded

ASSUME SelectionAssumption ==
    /\ MaxOutcomes \in 0..6
    /\ Latencies \subseteq Nat /\ Nothing \notin Latencies
    /\ Listed \in Seq(Range(Listed))
    /\ \A i, j \in DOMAIN Listed : Listed[i] = Listed[j] => i = j \/ Listed[i] = Nothing
    /\ \A m \in Manifests : {m.input, m.output, m.ttft, m.tps} \subseteq Nat
    /\ \A q \in Policies : {q.maxInput, q.maxOutput, q.minScore} \subseteq Nat \cup {Nothing}
    /\ Outcomes \subseteq [success : BOOLEAN, receipt : BOOLEAN, latency : Latencies \cup {Nothing}]

VARIABLES
    card,    \* the manifest of each provider
    policy,  \* the policy of the routers
    file,    \* the reputation file: counters of each provider
    router,  \* what each router is doing
    truth,   \* the outcomes that happened (an observer)
    serial   \* no two records overlapped, none failed and none found the file
             \* unreadable (an observer)

vars == <<card, policy, file, router, truth, serial>>

\* ProviderRegistry.load skips malformed items, and keeps the order.
Providers == Those(Listed, Range(Listed) \ {Nothing})
Known == Range(Providers)
NoCounters == [total |-> 0, success |-> 0, receipts |-> 0, latency |-> 0, timed |-> 0]
Idle == [at |-> "idle"]

-----------------------------------------------------------------------------
(* Policy.                                                                 *)

\* TEE_TYPES without "none".
RealTees == {"intel-tdx", "amd-sev-snp", "nvidia-cc", "aws-nitro"}

\* A plausible bug: without a list every type is accepted.
AttestedByAnything(m, tees) ==
    m.attested.ok /\ m.attested.own /\ (tees = {} \/ m.attested.tee \in tees)

\* is_attested: the statement verifies, is about the manifest's own key, and
\* its type is accepted; without a list every type but "none" is.
IsAttested(m, tees) ==
    m.attested.ok /\ m.attested.own /\ m.attested.tee \in (IF tees = {} THEN RealTees ELSE tees)

Over(price, cap) == cap # Nothing /\ price > cap

\* Policy.permits: its checks in their order, each with what it finds wrong.
Checks(q, p, m, score) ==
    << [reason |-> "provider_denylisted",   fails |-> p \in q.deny],
       [reason |-> "not_allowlisted",       fails |-> q.allow # {} /\ p \notin q.allow],
       [reason |-> "attestation_required",  fails |-> q.attest /\ ~IsAttested(m, q.tees)],
       [reason |-> "unit_not_accepted",     fails |-> q.units # {} /\ m.unit \notin q.units],
       [reason |-> "input_price_too_high",  fails |-> Over(m.input, q.maxInput)],
       [reason |-> "output_price_too_high", fails |-> Over(m.output, q.maxOutput)],
       [reason |-> "privacy_mode_unmet",    fails |-> ~(q.modes \subseteq m.modes)],
       [reason |-> "reputation_too_low",
        fails |-> q.minScore # Nothing /\ (score = Nothing \/ score < q.minScore)] >>
Permits(q, p, m, score) ==
    LET checks == Checks(q, p, m, score)
        failed == {i \in DOMAIN checks : checks[i].fails}
    IN IF failed = {} THEN "" ELSE checks[Min(failed)].reason

-----------------------------------------------------------------------------
(* Reputation.                                                             *)

NeutralScore == 300

\* ReputationStore.score of an entry: 0.7 of the success rate, 0.3 of the
\* rate of valid receipts; a provider without samples is neutral.
Score(e) == IF e.total = 0 THEN NeutralScore
            ELSE (420 * e.success + 180 * e.receipts) \div e.total
AverageLatency(e) == IF e.timed = 0 THEN Nothing ELSE e.latency \div e.timed

\* ReputationStore.record of outcome o, on the counters of one provider.
Recorded(e, o) ==
    [total    |-> e.total + 1,
     success  |-> e.success + (IF o.success THEN 1 ELSE 0),
     receipts |-> e.receipts + (IF o.receipt THEN 1 ELSE 0),
     latency  |-> e.latency + (IF o.latency = Nothing THEN 0 ELSE o.latency),
     timed    |-> e.timed + (IF o.latency = Nothing THEN 0 ELSE 1)]

\* HealthProbe.check: a node answers with its manifest's key and one of its
\* models, with another key, without a model of it, or not at all.
Healths == {"live", "other key", "other models", "down"}
Healthy(health) == health = "live"

\* _latency_for, and the key of the sort in rank_providers: higher scores, then
\* lower latencies, then higher advertised throughput; the sort is stable.
LatencyFor(s) == IF s.latency = Nothing THEN 1000000 ELSE s.latency

\* A plausible bug: the latency decides before the score.
QuickerFirst(s, t) ==
    \/ LatencyFor(s) < LatencyFor(t)
    \/ LatencyFor(s) = LatencyFor(t) /\ s.score > t.score

Better(s, t) ==
    \/ s.score > t.score
    \/ s.score = t.score /\ LatencyFor(s) < LatencyFor(t)
    \/ s.score = t.score /\ LatencyFor(s) = LatencyFor(t) /\ s.tps > t.tps
RankProviders(seen) == StableSort(seen, Better)

-----------------------------------------------------------------------------
(* The static score and the ranked registry.                               *)

LatencyAnchor == 2000
PriceAnchor   == 100

\* _latency_score's effective latency, the first token and one more, as the
\* fraction of wait over per.
Per(m)  == IF m.tps > 0 THEN m.tps ELSE 1
Wait(m) == m.ttft * Per(m) + (IF m.tps > 0 THEN 1000 ELSE LatencyAnchor)

ASSUME ScaleAssumption ==
    /\ Scale \in Nat \ {0}
    /\ \A m \in Manifests : /\ (Scale * LatencyAnchor * Per(m)) % (LatencyAnchor * Per(m) + Wait(m)) = 0
                            /\ (2 * Scale * PriceAnchor) % (2 * PriceAnchor + m.input + m.output) = 0

\* A plausible bug: the price counts for the dearer one.
DearerScoresMore(m, asked) ==
    (IF asked.model \in m.models THEN 100 ELSE 0) + (m.input + m.output) \div 2

\* score_provider, with DEFAULT_WEIGHTS: the reputation terms are constants and
\* the common divisor is left out.
ScoreProvider(m, asked) ==
    LET fit     == IF asked.model \in m.models THEN Scale ELSE 0
        latency == (Scale * LatencyAnchor * Per(m)) \div (LatencyAnchor * Per(m) + Wait(m))
        price   == (2 * Scale * PriceAnchor) \div (2 * PriceAnchor + m.input + m.output)
        privacy == IF asked.mode = Nothing \/ asked.mode \in m.modes THEN Scale ELSE 0
    IN 25 * fit + 20 * latency + 15 * price + (15 + 10) * (Scale \div 2) + 10 * privacy

\* ProviderRegistry.for_model keeps the order in which providers were added.
ForModel(model) == Those(Providers, {p \in Known : model \in card[p].models})

RankCandidates(entries, asked) ==
    LET score == [p \in Known |-> ScoreProvider(card[p], asked)]
    IN StableSort(entries, LAMBDA p, q : score[p] > score[q])

\* resolve, with the verification of manifests that is optional there.
Resolve(asked, strict) ==
    RankCandidates(Those(ForModel(asked.model), {p \in Known : strict => card[p].valid}), asked)

-----------------------------------------------------------------------------
Init ==
    /\ card \in [Known -> Manifests] /\ policy \in Policies
    /\ file = [p \in Known |-> NoCounters] /\ truth = file /\ serial = TRUE
    /\ router = [r \in Routers |-> Idle]

\* _load: a file that cannot be read has no counters.
LoadRaw == {file, [p \in Known |-> NoCounters]}

\* filter_entries: each provider is judged with its score, for which the file is
\* read once more, or with none when the caller has no get_score.
ScoresFor(scored, unread) ==
    [p \in Known |-> IF ~scored THEN Nothing
                     ELSE Score(IF p \in unread THEN NoCounters ELSE file[p])]
Judged(scores) == IF policy.minScore = Nothing THEN Nothing ELSE scores    \* an observer
FilterEntries(scores) ==
    Those(Providers, {p \in Known : Permits(policy, p, card[p], scores[p]) = ""})

\* A request: discovered providers are filtered, and rank_providers starts, with
\* or without a probe.
Start(r, scored, probe) ==
    /\ router[r].at = "idle"
    /\ \E unread \in SUBSET Known :
          LET scores == ScoresFor(scored, unread)
          IN router' = [router EXCEPT ![r] =
                 [at |-> "rank", probe |-> probe, judged |-> Judged(scores),
                  todo |-> FilterEntries(scores), seen |-> <<>>]]
    /\ UNCHANGED <<card, policy, file, truth, serial>>

\* One turn of the loop of rank_providers: the score is read from the file, the
\* provider is probed (what the node answers now, and how long that takes, is
\* up to the node) or, without a probe, taken as it is.  A provider that is not
\* healthy is left out.
RankedProvider(p, counters, health, latency) ==
    [provider |-> p, score |-> Score(counters), tps |-> card[p].tps, health |-> health,
     latency |-> IF health = Nothing THEN AverageLatency(counters) ELSE latency]
Consider(r, health, latency) ==
    /\ router[r].at = "rank" /\ router[r].todo # <<>>
    /\ health = Nothing <=> ~router[r].probe
    /\ LET p == Head(router[r].todo) IN
       \E read \in LoadRaw :
          router' = [router EXCEPT ![r].todo = Tail(@),
                                   ![r].seen = IF health # Nothing /\ ~Healthy(health) THEN @
                                               ELSE Append(@, RankedProvider(p, read[p], health, latency))]
    /\ UNCHANGED <<card, policy, file, truth, serial>>

\* The request goes to the first of the ranking; with none there is no route.
Route(r) ==
    /\ router[r].at = "rank" /\ router[r].todo = <<>>
    /\ router' = [router EXCEPT ![r] =
           IF router[r].seen = <<>> THEN Idle
           ELSE [at |-> "routed", probe |-> router[r].probe, judged |-> router[r].judged,
                 seen |-> router[r].seen,
                 choice |-> RankProviders(router[r].seen)[1].provider]]
    /\ UNCHANGED <<card, policy, file, truth, serial>>

Happened == FoldSeq(LAMBDA p, n : truth[p].total + n, 0, Providers)

\* The answer came, or did not, and record loads the file, or no counters: its
\* write then leaves none of the others.
Load(r, o) ==
    /\ router[r].at = "routed" /\ Happened < MaxOutcomes
    /\ truth' = [truth EXCEPT ![router[r].choice] = Recorded(@, o)]
    /\ \E read \in LoadRaw :
          /\ router' = [router EXCEPT ![r] = [at |-> "record", choice |-> router[r].choice,
                                              outcome |-> o, loaded |-> read]]
          /\ serial' = (serial /\ read = file /\ \A q \in Routers : router[q].at # "record")
    /\ UNCHANGED <<card, policy, file>>

\* A plausible bug: what was loaded is not kept.
UpdatedAlone(s) ==
    [p \in Known |-> IF p = s.choice THEN Recorded(NoCounters, s.outcome) ELSE NoCounters]

\* The counters are changed in what was loaded, and the file is replaced.
Updated(s) == [s.loaded EXCEPT ![s.choice] = Recorded(@, s.outcome)]
Write(r) ==
    /\ router[r].at = "record"
    /\ file' = Updated(router[r])
    /\ router' = [router EXCEPT ![r] = Idle]
    /\ UNCHANGED <<card, policy, truth, serial>>

\* The process dies, or the write raises: the outcome is not recorded.
Dies(r) ==
    /\ router[r].at = "record"
    /\ router' = [router EXCEPT ![r] = Idle]
    /\ serial' = FALSE
    /\ UNCHANGED <<card, policy, file, truth>>

Next ==
    \E r \in Routers :
          \/ Route(r) \/ Write(r) \/ Dies(r)
          \/ \E scored, probe \in BOOLEAN : Start(r, scored, probe)
          \/ \E health \in Healths \cup {Nothing}, latency \in Latencies : Consider(r, health, latency)
          \/ \E o \in Outcomes : Load(r, o)

Spec == Init /\ [][Next]_vars

-----------------------------------------------------------------------------
(* Properties.                                                             *)

\* The rules of the policy, as its docstring lists them.
Allowed(q, p, m, judged) ==
    /\ p \notin q.deny
    /\ q.allow = {} \/ p \in q.allow
    /\ q.attest => /\ m.attested.ok /\ m.attested.own
                   /\ m.attested.tee # "none" \/ "none" \in q.tees
                   /\ q.tees = {} \/ m.attested.tee \in q.tees
    /\ q.units = {} \/ m.unit \in q.units
    /\ q.maxInput = Nothing \/ m.input <= q.maxInput
    /\ q.maxOutput = Nothing \/ m.output <= q.maxOutput
    /\ \A mode \in q.modes : mode \in m.modes
    /\ q.minScore = Nothing \/ (judged[p] # Nothing /\ judged[p] >= q.minScore)

\* A request is only ever routed to a provider the policy allows (with the
\* reputation that was read when the request started), that answered its probe,
\* when there was one, with its own key and one of its models.
RoutedIsAllowed ==
    \A r \in Routers : router[r].at = "routed" =>
        LET p == router[r].choice
        IN /\ Allowed(policy, p, card[p], router[r].judged)
           /\ router[r].probe => \E s \in Range(router[r].seen) :
                                    s.provider = p /\ s.health = "live"

\* Of the providers a request considered it goes to one of the highest score,
\* of those to one of the lowest latency, of those to one of the highest
\* throughput, and of those to the first discovered, although each score was
\* read at its own time.
RoutedIsBest ==
    \A r \in Routers : router[r].at = "routed" =>
        LET seen  == router[r].seen
            all   == Range(seen)
            high  == {s \in all : \A t \in all : t.score <= s.score}
            quick == {s \in high : \A t \in high : LatencyFor(s) <= LatencyFor(t)}
            fast  == {s \in quick : \A t \in quick : t.tps <= s.tps}
        IN \E i \in DOMAIN seen :
               /\ seen[i] \in fast /\ \A j \in 1..(i - 1) : seen[j] \notin fast
               /\ router[r].choice = seen[i].provider

\* A request goes to the best provider of those the policy allows and that are
\* alive: rank_providers after filter_entries.
RoutedIsBestAllowed == RoutedIsAllowed /\ RoutedIsBest

\* However records overlap or fail, and whether or not they can read the file,
\* the counters of a provider make sense (no more successes, valid receipts or
\* timed answers than outcomes, so that the score stays between 0 and 1) and
\* never count an outcome that did not happen; as long as records neither overlap
\* nor fail and each can read the file, every outcome is counted.
CountersSound ==
    /\ \A p \in Known :
          /\ {file[p].success, file[p].receipts, file[p].timed} \subseteq 0..file[p].total
          /\ Score(file[p]) \in 0..600
          /\ file[p].total <= truth[p].total
    /\ serial /\ (\A r \in Routers : router[r].at # "record") => file = truth

Matches(m, asked) == asked.mode = Nothing \/ asked.mode \in m.modes
\* The effective latency of m is at most, or below, that of n.
NotLater(m, n) == Wait(m) * Per(n) <= Wait(n) * Per(m)
Sooner(m, n)   == Wait(m) * Per(n) < Wait(n) * Per(m)
\* m is nowhere worse than n for the request, and somewhere better.
Dominates(m, n, asked) ==
    /\ NotLater(m, n) /\ m.input + m.output <= n.input + n.output
    /\ Matches(n, asked) => Matches(m, asked)
    /\ \/ Sooner(m, n) \/ m.input + m.output < n.input + n.output
       \/ Matches(m, asked) /\ ~Matches(n, asked)

\* resolve returns every provider that serves the model, once, and no other
\* (none whose manifest does not verify, when asked to check), and never puts
\* one before another that is nowhere worse and somewhere better.
RankRespectsDominance ==
    \A asked \in Requests, strict \in BOOLEAN :
        LET ranked == Resolve(asked, strict)
            found  == {p \in Known : asked.model \in card[p].models /\ (strict => card[p].valid)}
        IN /\ Range(ranked) = found /\ Len(ranked) = Cardinality(found)
           /\ \A i, j \in DOMAIN ranked :
                 Dominates(card[ranked[i]], card[ranked[j]], asked) => i < j
=============================================================================

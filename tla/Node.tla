-------------------------------- MODULE Node --------------------------------
(***************************************************************************)
(* The node's commands (packages/sin-node, packages/sin-cli): scan the     *)
(* machine, recommend models for it, and benchmark a served endpoint.      *)
(* The command line runs one command at a time.                            *)
(*                                                                         *)
(* Memory is counted in 1/8000 GB: parameters in 1/100 billions times bits *)
(* in tenths is a weight in that unit.  Contexts are multiples of 4096.    *)
(* Scores are in 1/10000, headroom in 1/1000, rates in tenths.             *)
(***************************************************************************)
EXTENDS Integers, Sequences, FiniteSets, SequencesExt, Ordering

CONSTANTS Machines,  \* machines the node may run on
          Catalog,   \* the catalog: a sequence of models
          Queries,   \* what recommend may be asked
          Unknown,   \* not there, not readable
          MaxClock,  \* bound: what the clock shows
          MaxLines   \* bound: lines of a streamed answer

\* The tools print whole numbers or something else; a model has quants.
ASSUME NodeAssumption ==
    /\ MaxClock \in Nat /\ MaxLines \in Nat /\ Unknown \notin Int
    /\ \A m \in Machines :
          /\ m.apple \in BOOLEAN /\ m.total \in Nat /\ m.available \in Nat
          /\ m.nvidia \in Seq([whole : BOOLEAN, mib : Nat \cup {Unknown}])
          /\ m.rocm.header \in Seq({"series", "total", "used"})
          /\ m.rocm.rows \in Seq(Seq(Nat \cup {Unknown}))
    /\ Catalog \in Seq(Range(Catalog))
    /\ \A i, j \in DOMAIN Catalog : Catalog[i] = Catalog[j] => i = j
    /\ \A m \in Range(Catalog) :
          /\ m.quants \in Seq(Nat) /\ m.quants # <<>>
          /\ {m.params, m.context, m.quality} \subseteq Nat /\ m.heads \in Nat \ {0}
          /\ {m.kv, m.kvHeads} \subseteq Nat \cup {Unknown}
    /\ \A r \in Queries : r.top \in Nat

VARIABLES
    machine,  \* the hardware and what the vendors' tools print about it
    clock,    \* the clock the benchmark reads
    command   \* the command that is running, or the last one's result

nvars == <<machine, clock, command>>

-----------------------------------------------------------------------------
(* Scanning the machine (hardware.py, models.py).                          *)

\* parse_nvidia_smi: rows with too few fields or no name are skipped; a memory
\* that is not a number is unknown.  MiB become hundredths of GB.
ToGb(mib) == IF mib = Unknown THEN Unknown ELSE RoundDiv(100 * mib, 1024)
ParseNvidiaSmi(rows) ==
    LET whole == Those(rows, {row \in Range(rows) : row.whole})
    IN [i \in DOMAIN whole |-> [vendor |-> "nvidia", vram |-> ToGb(whole[i].mib)]]

\* parse_rocm_smi finds its columns by the words of their headers.  It reads
\* bytes, which are whole MiB here.
Words(column) == CASE column = "series" -> {"card", "series"}
                   [] column = "total"  -> {"vram", "total", "memory"}
                   [] column = "used"   -> {"vram", "total", "used", "memory"}
First(S) == IF S = {} THEN Unknown ELSE CHOOSE i \in S : \A j \in S : i <= j

\* A plausible bug: the column of used memory is taken for the total.
FindAnyTotal(header) ==
    First({i \in DOMAIN header : {"vram", "total", "memory"} \subseteq Words(header[i])})

FindTotal(header) ==
    First({i \in DOMAIN header : /\ "used" \notin Words(header[i])
                                 /\ {"vram", "total", "memory"} \subseteq Words(header[i])})
Cell(cells, i) == IF i # Unknown /\ i \in DOMAIN cells THEN cells[i] ELSE Unknown
ParseRocmSmi(out) ==
    [k \in DOMAIN out.rows |->
        [vendor |-> "amd", vram |-> ToGb(Cell(out.rows[k], FindTotal(out.header)))]]

\* _detect_gpus: a tool that is missing or fails adds nothing.
DetectGpus(m) == IF m.apple THEN << [vendor |-> "apple", vram |-> Unknown] >>
                 ELSE ParseNvidiaSmi(m.nvidia) \o ParseRocmSmi(m.rocm)

ResolveAccelerator(gpus, apple) ==
    LET vendors == {g.vendor : g \in Range(gpus)}
    IN CASE "nvidia" \in vendors -> "cuda"
         [] "nvidia" \notin vendors /\ "amd" \in vendors -> "rocm"
         [] vendors \cap {"nvidia", "amd"} = {} /\ (apple \/ "apple" \in vendors) -> "metal"
         [] OTHER -> "cpu"

\* detect_runtimes: the runtimes whose tools are on the PATH, or whose API answers.
DetectRuntimes(tools) ==
    {name \in {"ollama", "llama.cpp", "lmstudio"} :
        CASE name = "ollama"    -> tools \cap {"ollama", "ollama api"} # {}
          [] name = "llama.cpp" -> tools \cap {"llama-server", "llama-cli"} # {}
          [] name = "lmstudio"  -> "lms" \in tools}

\* scan: the HardwareProfile.
Scan(m) ==
    LET gpus == DetectGpus(m)
    IN [gpus |-> gpus, accelerator |-> ResolveAccelerator(gpus, m.apple), unified |-> m.apple,
        total |-> m.total, available |-> m.available, runtimes |-> DetectRuntimes(m.tools)]

\* primary_gpu: the most VRAM, the first of equals.
OrZero(vram) == IF vram = Unknown THEN 0 ELSE vram
PrimaryGpu(gpus) ==
    gpus[First({i \in DOMAIN gpus : \A j \in DOMAIN gpus : OrZero(gpus[j].vram) <= OrZero(gpus[i].vram)})]

\* usable_memory_gb, from hundredths of GB: RAM is rounded to tenths.
UsableMemory(profile) ==
    LET gpus == profile.gpus
    IN IF profile.unified THEN 800 * RoundDiv(7 * profile.total, 100)
       ELSE IF /\ profile.accelerator \in {"cuda", "rocm"} /\ gpus # <<>>
               /\ OrZero(PrimaryGpu(gpus).vram) > 0
            THEN 80 * PrimaryGpu(gpus).vram
       ELSE 800 * RoundDiv(profile.available, 10)

-----------------------------------------------------------------------------
(* Recommending models (memory.py, recommend.py).                          *)

\* estimate_memory: weights, KV cache and the overhead of 0.7 GB.  kv is the
\* cache of 4096 tokens without grouped heads, or Unknown if the layers are
\* not known.
KvCache(m) ==
    IF m.kv = Unknown THEN 20 * m.params * m.context
    ELSE IF m.kvHeads = Unknown THEN m.kv * m.context
    ELSE (m.kv * m.context * m.kvHeads) \div m.heads
EstimateMemory(m, bits) == m.params * bits + KvCache(m) + 5600

\* predict_tps, in tenths of a token per second.
AccelBaseTps == [cuda |-> 220, rocm |-> 170, metal |-> 130, vulkan |-> 90, cpu |-> 28]
PredictTps(m, accelerator, bits) ==
    IF m.params <= 0 THEN 0
    ELSE RoundDiv(45000 * AccelBaseTps[accelerator], m.params * (IF bits < 10 THEN 10 ELSE bits))

IsNonCommercial(m) == ~m.commercialUse \/ m.licenseMarked

\* _select_quant.  The quants of a model are sorted by bits, those over the
\* saturation point are left out if there are others, and the last that fits
\* is kept; if none fits, the smallest is returned, unfit.
SaturationBits == 85
Considered(m) ==
    LET byBits == StableSort(m.quants, LAMBDA a, b : a < b)
        capped == Those(byBits, {b \in Range(byBits) : b <= SaturationBits})
    IN IF capped = <<>> THEN byBits ELSE capped

Fitting(m, usable) ==
    Those(Considered(m), {b \in Range(Considered(m)) : EstimateMemory(m, b) <= usable})

\* A plausible bug: the climb stops at the first quant that fits.
FirstFit(m, usable) ==
    LET fitting == Fitting(m, usable)
    IN IF fitting = <<>> THEN [bits |-> Considered(m)[1], fits |-> FALSE]
       ELSE [bits |-> Head(fitting), fits |-> TRUE]

SelectQuant(m, usable) ==
    LET fitting == Fitting(m, usable)
    IN IF fitting # <<>> THEN [bits |-> Last(fitting), fits |-> TRUE]
       ELSE [bits |-> StableSort(m.quants, LAMBDA a, b : a < b)[1], fits |-> FALSE]

\* A plausible bug: no rounding guard.
HeadroomRounded(usable, total, fits) == IF total > 0 THEN RoundDiv(1000 * usable, total) ELSE 0

\* headroom_ratio, with its rounding guard.
HeadroomRatio(usable, total, fits) ==
    LET ratio == RoundDiv(1000 * usable, total)
    IN IF total <= 0 THEN 0 ELSE IF ~fits /\ ratio >= 1000 THEN 999 ELSE ratio

\* _score: a whole point for what fits, and a blend of at most one; the
\* weights are in 1/100.
SpeedWeight(latency) == CASE latency = "low" -> 45 [] latency = "quality" -> 10 [] OTHER -> 25
AtMost(x, cap) == IF x > cap THEN cap ELSE x
ModelScore(fits, headroom, quality, tps, speed) ==
    LET qualityWeight == IF speed > 75 THEN 0 ELSE 75 - speed
        fitWeight     == 100 - speed - qualityWeight
    IN (IF fits THEN 10000 ELSE 0)
       + RoundDiv(fitWeight * AtMost(headroom, 2000) + 20 * qualityWeight * quality
                  + speed * AtMost(tps, 2000), 20)

\* One recommendation: what the loop of recommend builds for a model.
Recommendation(m, profile, latency) ==
    LET usable == UsableMemory(profile)
        chosen == SelectQuant(m, usable)
        total  == EstimateMemory(m, chosen.bits)
        ratio  == HeadroomRatio(usable, total, chosen.fits)
        tps    == PredictTps(m, profile.accelerator, chosen.bits)
    IN [model |-> m, bits |-> chosen.bits, fits |-> chosen.fits, total |-> total,
        headroom |-> ratio, tps |-> tps,
        score |-> ModelScore(chosen.fits, ratio, m.quality, tps, SpeedWeight(latency))]

Candidates(r) ==
    Those(Catalog, {m \in Range(Catalog) : /\ r.task \in m.tasks
                                           /\ r.commercial => ~IsNonCommercial(m)})
Ahead(a, b) == (a.fits /\ ~b.fits) \/ (a.fits = b.fits /\ a.score > b.score)
TopK(recs, k) == SubSeq(recs, 1, IF k < Len(recs) THEN k ELSE Len(recs))

\* A plausible bug: the list is cut before it is sorted.
CutThenSorted(recs, k) == StableSort(TopK(recs, k), Ahead)

Ranked(recs, k) == TopK(StableSort(recs, Ahead), k)
RecommendAll(r, profile) ==
    LET found == Candidates(r)
    IN Ranked([i \in DOMAIN found |-> Recommendation(found[i], profile, r.latency)], r.top)

-----------------------------------------------------------------------------
(* The commands.                                                           *)

NoCommand == [op |-> "none"]

NInit == machine \in Machines /\ clock = 0 /\ command = NoCommand

\* The process of a command that has printed its result ends.  The clock has no
\* meaning across processes.
Exit ==
    /\ command.op \in {"recommended", "benchmarked", "failed"}
    /\ command' = NoCommand /\ clock' = 0
    /\ UNCHANGED machine

\* _positive_int, and ge=1 of the endpoints.
PositiveInt(top) == top >= 1

\* cmd_recommend and the two recommend endpoints: a fresh scan, then recommend.
Recommend(r) ==
    /\ command = NoCommand /\ PositiveInt(r.top)
    /\ command' = [op |-> "recommended", asked |-> r, profile |-> Scan(machine),
                   list |-> RecommendAll(r, Scan(machine))]
    /\ UNCHANGED <<machine, clock>>

\* stream_chat reads the clock and sends the request; nothing has come yet.
NewStream == [op |-> "stream", start |-> clock, ttft |-> Unknown, chunks |-> 0,
              usage |-> Unknown, lines |-> 0]

\* cmd_benchmark: benchmark_endpoint calls stream_chat.
StartBenchmark ==
    /\ command = NoCommand
    /\ command' = NewStream
    /\ UNCHANGED <<machine, clock>>

Tick == /\ clock < MaxClock /\ command.op \in {"stream", "ended"}
        /\ clock' = clock + 1 /\ UNCHANGED <<machine, command>>

\* One line of the answer: a piece of content, or none (an empty line, [DONE],
\* something that does not parse), and a count of tokens, or none.
Line(piece, tokens) ==
    /\ command.op = "stream" /\ command.lines < MaxLines
    /\ command' = [command EXCEPT
           !.lines  = @ + 1,
           !.ttft   = IF piece /\ @ = Unknown THEN clock - command.start ELSE @,
           !.chunks = IF piece THEN @ + 1 ELSE @,
           !.usage  = IF tokens = Unknown THEN @ ELSE tokens]
    /\ UNCHANGED <<machine, clock>>

\* The answer ends and the clock is read.
EndOfStream ==
    /\ command.op = "stream"
    /\ command' = [op |-> "ended", end |-> clock, stream |-> command]
    /\ UNCHANGED <<machine, clock>>

\* The request, or reading its answer, raises: the command exits with 1.
StreamFails ==
    /\ command.op = "stream"
    /\ command' = [op |-> "failed"]
    /\ UNCHANGED <<machine, clock>>

\* A plausible bug: the throughput is that of the whole window.
WholeWindowStats(s, end) ==
    LET ttft == IF s.ttft = Unknown THEN clock - s.start ELSE s.ttft
        out  == IF s.usage = Unknown THEN s.chunks ELSE s.usage
    IN [ttft |-> ttft, total |-> end - s.start, tokens |-> out,
        generation |-> end - s.start, tps |-> IF end > s.start THEN out ELSE 0]

\* StreamStats.  Without content the first token is taken to come now, after
\* the end.  tps is the tokens of the time generation, or 0.
StreamStats(s, end) ==
    LET ttft  == IF s.ttft = Unknown THEN clock - s.start ELSE s.ttft
        out   == IF s.usage = Unknown THEN s.chunks ELSE s.usage
        total == end - s.start
        generation == IF total > ttft THEN total - ttft ELSE 0
    IN [ttft |-> ttft, total |-> total, tokens |-> out, generation |-> generation,
        tps |-> IF generation > 0 THEN out ELSE 0]

\* _runtime_adapters: what was detected, or what was benchmarked.
RuntimeAdapters(profile, runtime) ==
    IF profile.runtimes = {} THEN {runtime} ELSE profile.runtimes

\* to_provider_manifest: the rate in tenths of a token per unit of the clock.  No
\* benchmark measures max_stable_context, so that 4096 is published.
ToProviderManifest(profile, stats) ==
    [adapters |-> RuntimeAdapters(profile, "unknown"), max_context |-> 1,
     tps |-> IF stats.tps > 0 THEN RoundDiv(10 * stats.tps, stats.generation) ELSE 0]

\* How the key file was given: not at all, one that _load_keypair cannot load, or
\* one that holds a key.
KeyFiles == {"none", "bad", "ok"}

\* The rest of cmd_benchmark: the result is printed, or announced with the
\* identity and the address that asks for, or published as a signed manifest.
BenchmarkAnnounce(key, url) == IF key = "ok" /\ url THEN "announced" ELSE "error"
Publish(key) == [none |-> "result", bad |-> "error", ok |-> "manifest"][key]
Report(announce, key, url) == IF announce THEN BenchmarkAnnounce(key, url) ELSE Publish(key)
FinishBenchmark(announce, key, url) ==
    /\ command.op = "ended"
    /\ LET stats == StreamStats(command.stream, command.end)
       IN command' = [op |-> "benchmarked", stats |-> stats, content |-> command.stream.chunks,
                      report |-> Report(announce, key, url),
                      manifest |-> ToProviderManifest(Scan(machine), stats)]
    /\ UNCHANGED <<machine, clock>>

NNext ==
    \/ \E r \in Queries : Recommend(r)
    \/ StartBenchmark \/ Exit \/ Tick \/ EndOfStream \/ StreamFails
    \/ \E piece \in BOOLEAN, tokens \in {Unknown, 0, 3} : Line(piece, tokens)
    \/ \E announce, url \in BOOLEAN, key \in KeyFiles : FinishBenchmark(announce, key, url)

NSpec == NInit /\ [][NNext]_nvars

-----------------------------------------------------------------------------
(* Properties.                                                             *)

Recommended == IF command.op = "recommended" THEN Range(command.list) ELSE {}

\* recommend returns as many models as were asked for, if there are, each once,
\* all of them for the task and, when that is asked, for commercial use, the
\* best first; and no model that was left out would have come before one that
\* is listed: a model that fits is never left out for one that does not.
BestAreListed ==
    command.op = "recommended" =>
        LET asked  == command.asked
            list   == command.list
            able   == {m \in Range(Catalog) : /\ asked.task \in m.tasks
                                              /\ asked.commercial => m.commercialUse /\ ~m.licenseMarked}
            listed == {rec.model : rec \in Range(list)}
        IN /\ listed \subseteq able
           /\ Len(list) = Cardinality(listed)
           /\ Len(list) = AtMost(Cardinality(able), asked.top)
           /\ \A i, j \in DOMAIN list : i < j => ~Ahead(list[j], list[i])
           /\ \A m \in able \ listed : \A rec \in Range(list) :
                 ~Ahead(Recommendation(m, command.profile, asked.latency), rec)

\* The quant that is recommended fits exactly when fits says so, and is the
\* largest that fits under the saturation point; one over it is only taken of
\* a model without others, and one that does not fit only when none does.
LargestFittingQuant ==
    \A rec \in Recommended :
        LET all    == Range(rec.model.quants)
            low    == {b \in all : b <= SaturationBits}
            usable == UsableMemory(command.profile)
            Fits(b) == EstimateMemory(rec.model, b) <= usable
        IN /\ rec.bits \in all /\ rec.fits = Fits(rec.bits)
           /\ IF rec.fits THEN /\ low # {} => rec.bits \in low
                               /\ \A b \in (IF low = {} THEN all ELSE low) : Fits(b) => b <= rec.bits
              ELSE \A b \in all : ~Fits(b) /\ rec.bits <= b

\* The headroom that is shown is at least 1 for the models that fit and for no
\* others, although it is rounded.
HeadroomHonest == \A rec \in Recommended : rec.fits <=> rec.headroom >= 1000

\* On a machine with the cards of one vendor, and not Apple's, the memory taken
\* to be usable is the total VRAM of the largest card, in whatever order the
\* vendor's tool prints its columns, and RAM when no VRAM is known (or what is
\* known rounds to nothing).
UsableIsTotalVram ==
    LET real == {row.mib : row \in {r \in Range(machine.nvidia) : r.whole}}
                \cup {Cell(row, SelectInSeq(machine.rocm.header, LAMBDA c : c = "total"))
                        : row \in Range(machine.rocm.rows)}
        known == {mib \in real \ {Unknown} : ToGb(mib) > 0}
    IN ~machine.apple /\ (machine.nvidia = <<>> \/ machine.rocm.rows = <<>>) =>
           UsableMemory(Scan(machine)) =
               (IF known = {} THEN 800 * RoundDiv(machine.available, 10)
                ELSE 80 * ToGb(CHOOSE x \in known : \A y \in known : y <= x))

\* What recommend says of a model's fit is so: the memory it counts on, the
\* quant it picks and the headroom it shows agree.
FitIsHonest == UsableIsTotalVram /\ LargestFittingQuant /\ HeadroomHonest

\* A benchmark only reports a throughput, and a manifest only advertises one,
\* when content came and time passed after its first piece, whatever count of
\* tokens the endpoint claims; the first token does not come after the end when
\* there was content.
BenchmarkHonest ==
    command.op = "benchmarked" =>
        LET s == command.stats
        IN /\ s.tps > 0 \/ command.manifest.tps > 0 => command.content > 0 /\ s.ttft < s.total
           /\ command.content > 0 => s.ttft <= s.total
           /\ s.generation + s.ttft = s.total \/ command.content = 0
=============================================================================

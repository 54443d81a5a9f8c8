---------------------------- MODULE MCSelection ----------------------------
(* Two providers, each with any of three manifests, and policies that use    *)
(* every rule.  Two routers record up to two outcomes.  The latencies and  *)
(* prices make every sub-score a multiple of a quarter.                    *)
EXTENDS Selection

CONSTANTS p1, p2

MCListed == <<p1, Nothing, p2>>

Plain    == [valid |-> FALSE, models |-> {"m", "n"}, unit |-> "credits", input |-> 100, output |-> 100,
             modes |-> {"standard"}, attested |-> [ok |-> TRUE, own |-> FALSE, tee |-> "intel-tdx"],
             ttft |-> 1000, tps |-> 1]
Cheap    == [Plain EXCEPT !.valid = TRUE, !.models = {"m"}, !.unit = "usdc",
                          !.input = 0, !.output = 0, !.ttft = 4000, !.tps = 0,
                          !.attested = [ok |-> TRUE, own |-> TRUE, tee |-> "none"]]
Private  == [Cheap EXCEPT !.input = 200, !.output = 400, !.modes = {"standard", "tee"},
                          !.ttft = 1000, !.tps = 1,
                          !.attested = [ok |-> TRUE, own |-> TRUE, tee |-> "intel-tdx"]]
MCManifests == {Plain, Cheap, Private}

Open    == [deny |-> {}, allow |-> {}, attest |-> FALSE, tees |-> {}, units |-> {},
            maxInput |-> Nothing, maxOutput |-> Nothing, modes |-> {}, minScore |-> Nothing]
MCPolicies == {Open,
               [Open EXCEPT !.attest = TRUE],
               [Open EXCEPT !.attest = TRUE, !.tees = {"none"}, !.deny = {p1}],
               [Open EXCEPT !.units = {"usdc"}, !.maxInput = 100, !.allow = {p2}],
               [Open EXCEPT !.maxOutput = 100, !.minScore = 300],
               [Open EXCEPT !.modes = {"tee"}]}

MCRequests == {[model |-> "m", mode |-> Nothing], [model |-> "m", mode |-> "tee"],
               [model |-> "n", mode |-> Nothing]}

RouterSymmetry == Permutations(Routers)

MCOutcomes == {[success |-> TRUE, receipt |-> TRUE, latency |-> 60],
               [success |-> FALSE, receipt |-> FALSE, latency |-> Nothing]}
=============================================================================

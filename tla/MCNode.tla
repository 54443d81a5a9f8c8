------------------------------- MODULE MCNode -------------------------------
(* Machines with every kind of card and of tool output, a catalog with a    *)
(* model that misses the memory of one of them by less than the headroom's *)
(* rounding, one without architecture, one over the saturation point only, *)
(* and models that may not be used commercially.                           *)
EXTENDS Node

NoRocm == [header |-> <<>>, rows |-> <<>>]
Plain == [apple |-> FALSE, nvidia |-> <<>>, rocm |-> NoRocm, total |-> 1600, available |-> 825,
          tools |-> {}]
Card(mib) == [whole |-> TRUE, mib |-> mib]
MCMachines ==
    {Plain,
     [Plain EXCEPT !.apple = TRUE, !.tools = {"ollama api"}],
     [Plain EXCEPT !.nvidia = << Card(8192) >>, !.tools = {"llama-cli", "lms"}],
     [Plain EXCEPT !.nvidia = << Card(4096), [whole |-> FALSE, mib |-> 24564], Card(8192) >>],
     [Plain EXCEPT !.nvidia = << Card(Unknown) >>],
     [Plain EXCEPT !.rocm = [header |-> <<"used", "series", "total">>,
                             rows |-> << <<1024, Unknown, 16384>>, <<512, Unknown>> >>]],
     [Plain EXCEPT !.rocm = [header |-> <<"series", "total", "used">>,
                             rows |-> << <<Unknown, 8192, 100>> >>]],
     [Plain EXCEPT !.rocm = [header |-> <<"series", "used">>,
                             rows |-> << <<Unknown, 100>> >>]],
     [Plain EXCEPT !.nvidia = << Card(4096) >>,
                   !.rocm = [header |-> <<"series", "total", "used">>,
                             rows |-> << <<Unknown, 16384, 100>> >>]]}

Base == [id |-> "llama-3b", params |-> 321, quants |-> <<45, 85, 55, 160>>, tasks |-> {"chat", "coding"},
         context |-> 2, kv |-> 11274, kvHeads |-> 8, heads |-> 24,
         commercialUse |-> TRUE, licenseMarked |-> FALSE, quality |-> 72]
MCCatalog ==
    << Base,
       [Base EXCEPT !.id = "close-7b", !.params = 762, !.kv = 12060, !.kvHeads = Unknown,
                    !.quality = 82],
       [Base EXCEPT !.id = "small", !.params = 49, !.kv = Unknown, !.context = 1, !.tasks = {"chat"},
                    !.quality = 38],
       [Base EXCEPT !.id = "wide", !.params = 382, !.quants = <<160>>, !.licenseMarked = TRUE],
       [Base EXCEPT !.id = "own", !.commercialUse = FALSE, !.quality = 99] >>

MCQueries == [task : {"chat", "coding", "vision"}, commercial : BOOLEAN,
               latency : {"low", "balanced", "quality"}, top : 1..3]
=============================================================================

----------------------------- MODULE AppServer ------------------------------
(***************************************************************************)
(* The administration API of the desktop app server: the handlers that     *)
(* change the configuration, persist it and rebuild the routing backend.   *)
(* They are plain functions, so FastAPI runs them in a thread pool, and    *)
(* their statements on the shared _ServerState interleave.                 *)
(*                                                                         *)
(* A provider entry stands for a manifest with its signed endpoint.        *)
(* os.replace makes a save one step; a crash before it leaves the old      *)
(* file.                                                                   *)
(***************************************************************************)
EXTENDS Integers, Sequences, SequencesExt, FiniteSets, Ordering

CONSTANTS Requests,     \* calls of the administration API, in order of arrival
          MaxThreads,   \* bound on handlers under way at once
          Entries,      \* provider entries
          KeyOf, UriOf, \* their keys and signed endpoints, a URL or None
          Verified,     \* entries whose signature verifies
          Directories,  \* directories, each a URL; a file has another scheme
          Listing,      \* Listing[d]: the entries directory d returns
          Models,
          None,         \* no model, no URL
          Boot,         \* not a request: the constructor
          Faulty,       \* requests whose save_config may raise
          MaxCrashes    \* bound on restarts

Ops == [kind : {"complete_onboarding", "stop_local_use"}]
       \cup [kind : {"add_provider"}, entry : Entries, base_url : Range(UriOf) \cup {None}]
       \cup [kind : {"remove_provider"}, key : Range(KeyOf)]
       \cup [kind : {"add_directory", "remove_directory"}, spec : Directories]
       \cup [kind : {"start_local_use"}, model : Models]

CONSTANTS Calls,        \* the operations that may be called
          Files         \* what earlier sessions may have left in config.json

(***************************************************************************)
(* The trust boundary (sources.py).  A URL is its scheme, the kind of its  *)
(* host, and a number that tells it from others.                           *)
(***************************************************************************)
Hosts == {"none", "blocked name", "name", "public address", "internal address"}
IsHttp(url) == url.scheme \in {"http", "https"}

\* A name is not resolved; localhost and the metadata services are blocked.
IsSafeRemoteUrl(url) == IsHttp(url) /\ url.host \in {"name", "public address"}

\* Mutant: the endpoint may be one of this machine.
TrustedAnywhere(e, base_url) ==
    /\ e \in Verified /\ UriOf[e] # None
    /\ base_url \in {None, UriOf[e]}

\* trusted_provider_entry accepts e: base_url, if given, is the signed endpoint.
TrustedProviderEntry(e, base_url) ==
    /\ e \in Verified /\ UriOf[e] # None
    /\ base_url \in {None, UriOf[e]}
    /\ IsSafeRemoteUrl(UriOf[e])

\* _default_directory_for: an http URL is a hosted directory, which add_directory
\* only takes when it is safe, and anything else is a file.
SafeDirectory(spec) == IsHttp(spec) => IsSafeRemoteUrl(spec)

ASSUME ServerAssumption ==
    /\ \A url \in Directories \cup (Range(UriOf) \ {None}) : url.host \in Hosts
    /\ {MaxThreads, MaxCrashes} \cup Requests \subseteq Nat
    /\ DOMAIN KeyOf = Entries /\ DOMAIN UriOf = Entries
    /\ Verified \subseteq Entries
    /\ Listing \in [Directories -> Seq(Entries)]
    /\ None \notin Models
    /\ Boot \notin Requests
    /\ Calls \subseteq Ops
    /\ \A cfg \in Files :
           /\ cfg \in [providers : Seq(Entries), directories : Seq(Directories), onboarded : BOOLEAN,
                       local_use : Models \cup {None}]
           /\ \A e \in Range(cfg.providers) : TrustedProviderEntry(e, UriOf[e])
           /\ \A spec \in Range(cfg.directories) : SafeDirectory(spec)
           /\ IsInjective(cfg.directories)
           /\ \A i, j \in DOMAIN cfg.providers : i # j =>
                  /\ UriOf[cfg.providers[i]] # UriOf[cfg.providers[j]]
                  /\ KeyOf[cfg.providers[i]] # KeyOf[cfg.providers[j]]

VARIABLES config,   \* _ServerState.config
          disk,     \* config.json
          local,    \* _ServerState.local
          backend,  \* _ServerState.backend: remote entries and the local one
          warning,  \* the model named by _restore_warning, or None
          op,       \* op[r]: what r asks for
          pc,       \* where its handler is
          merged,   \* merged[r]: the provider list r has computed
          draft,    \* draft[r]: the configuration r is about to assign or save
          built,    \* built[r]: the registry r is building
          crashes,
          overlap   \* history: two handlers have been under way at once

vars == <<config, disk, local, backend, warning, op, pc, merged, draft, built,
          crashes, overlap>>

\* AppConfig()
DefaultConfig == [providers |-> <<>>, directories |-> <<>>,
                  onboarded |-> FALSE, local_use |-> None]

NoLocal == [model |-> None, start |-> Boot]

Locals == [model : Models, start : Requests \cup {Boot}] \cup {NoLocal}

Configs == [providers : Seq(Entries), directories : Seq(Directories),
            onboarded : BOOLEAN, local_use : Models \cup {None}]

Backends == [remote : Seq(Entries), local : Locals]

NoBackend == [remote |-> <<>>, local |-> NoLocal]

Ended == {"done", "refused", "failed", "dead"}

PC == {"new", "local", "draft", "assign", "save", "replace", "build",
       "front", "entry", "swap"}
          \cup Ended

NoOp == [kind |-> "none"]

TypeOK ==
    /\ config \in Configs
    /\ disk \in Configs
    /\ local \in Locals
    /\ backend \in Backends
    /\ warning \in Models \cup {None}
    /\ op \in [Requests -> Ops \cup {NoOp}]
    /\ pc \in [Requests -> PC]
    /\ merged \in [Requests -> Seq(Entries)]
    /\ draft \in [Requests -> Configs]
    /\ built \in [Requests -> Backends]
    /\ crashes \in 0..MaxCrashes
    /\ overlap \in BOOLEAN

-----------------------------------------------------------------------------
(***************************************************************************)
(* sources.py                                                              *)
(***************************************************************************)
\* Mutant: any key may claim an endpoint.
NeverClashes(existing, e) == FALSE

\* merge_provider refuses e: its endpoint is pinned to another key.
Clashes(existing, e) ==
    \E f \in Range(existing) : UriOf[f] = UriOf[e] /\ KeyOf[f] # KeyOf[e]

WithoutKey(existing, key) == Those(existing, {f \in Entries : KeyOf[f] # key})

\* What merge_provider returns: e replaces the entry of the same key.
MergeProvider(existing, e) == Append(WithoutKey(existing, KeyOf[e]), e)

\* _try_add: a source that is not trusted is dropped with a warning.
TryAdd(pinned, e) ==
    IF TrustedProviderEntry(e, UriOf[e]) /\ ~Clashes(pinned, e) THEN MergeProvider(pinned, e) ELSE pinned

\* The entries of the directories that can be reached, in configured order.
Discovered(cfg, reachable) ==
    FlattenSeq([i \in DOMAIN cfg.directories |->
        IF cfg.directories[i] \in reachable THEN Listing[cfg.directories[i]] ELSE <<>>])

\* Mutant: what directories list is pinned before what the user added.
DirectoriesFirst(cfg, reachable) == Discovered(cfg, reachable) \o cfg.providers

\* The order in which build_registry adds its sources.
SourcesOf(cfg, reachable) == cfg.providers \o Discovered(cfg, reachable)

BuildRegistry(cfg, reachable) == FoldLeft(TryAdd, <<>>, SourcesOf(cfg, reachable))

-----------------------------------------------------------------------------
(***************************************************************************)
(* The constructor.                                                        *)
(***************************************************************************)
\* front_local_model: the model behind a gateway of its own, under a new key.
FrontLocalModel(model, start) == [model |-> model, start |-> start]

\* _restore_local: the live model and the warning it leaves.
Restored(cfg) ==
    IF cfg.local_use = None
    THEN {[live |-> NoLocal, warning |-> None]}
    ELSE {[live |-> FrontLocalModel(cfg.local_use, Boot), warning |-> None],
          [live |-> NoLocal, warning |-> cfg.local_use]}

\* The outcomes of _restore_local and rebuild on the configuration loaded.
Booted(cfg) ==
    {[live |-> s.live, warning |-> s.warning,
      backend |-> [remote |-> BuildRegistry(cfg, reachable), local |-> s.live]] :
        s \in Restored(cfg), reachable \in SUBSET Range(cfg.directories)}

Init ==
    /\ disk \in Files
    /\ config = disk
    /\ \E s \in Booted(disk) :
        /\ local = s.live
        /\ warning = s.warning
        /\ backend = s.backend
    /\ op = [r \in Requests |-> NoOp]
    /\ pc = [r \in Requests |-> "new"]
    /\ merged = [r \in Requests |-> <<>>]
    /\ draft = [r \in Requests |-> DefaultConfig]
    /\ built = [r \in Requests |-> NoBackend]
    /\ crashes = 0
    /\ overlap = FALSE

-----------------------------------------------------------------------------
(***************************************************************************)
(* The handlers up to their assignment of state.config.                    *)
(***************************************************************************)
Active(r) == pc[r] \notin {"new"} \cup Ended

\* The handler of r, which asked for o, is now at label; it forgets o when it ends.
GotoFor(r, o, label) ==
    /\ pc' = [pc EXCEPT ![r] = label]
    /\ op' = [op EXCEPT ![r] = IF label \in Ended THEN NoOp ELSE o]

Goto(r, label) == GotoFor(r, op[r], label)

\* A thread takes request r up.
Begin(r) ==
    /\ pc[r] = "new"
    /\ \A q \in Requests : q < r => pc[q] # "new"
    /\ Cardinality({q \in Requests : Active(q)}) < MaxThreads
    /\ overlap' = (overlap \/ \E q \in Requests : Active(q))
    /\ UNCHANGED <<config, disk, local, backend, warning, draft, crashes>>

CompleteOnboarding(r, o) ==
    /\ o.kind = "complete_onboarding"
    /\ Begin(r)
    /\ GotoFor(r, o, "draft")
    /\ UNCHANGED <<merged, built>>

AddProvider(r, o) ==
    /\ o.kind = "add_provider"
    /\ Begin(r)
    /\ IF TrustedProviderEntry(o.entry, o.base_url) /\ ~Clashes(config.providers, o.entry)
       THEN /\ merged' = [merged EXCEPT ![r] = MergeProvider(config.providers, o.entry)]
            /\ GotoFor(r, o, "draft")
       ELSE /\ GotoFor(r, o, "refused")
            /\ UNCHANGED merged
    /\ UNCHANGED built

RemoveProvider(r, o) ==
    /\ o.kind = "remove_provider"
    /\ Begin(r)
    /\ merged' = [merged EXCEPT ![r] = WithoutKey(config.providers, o.key)]
    /\ GotoFor(r, o, "draft")
    /\ UNCHANGED built

\* Adding a known directory is a no-op.
AddDirectory(r, o) ==
    /\ o.kind = "add_directory"
    /\ Begin(r)
    /\ GotoFor(r, o, IF ~SafeDirectory(o.spec) THEN "refused"
                     ELSE IF Contains(config.directories, o.spec) THEN "done" ELSE "draft")
    /\ UNCHANGED <<merged, built>>

\* Removing an unknown directory is a no-op.
RemoveDirectory(r, o) ==
    /\ o.kind = "remove_directory"
    /\ Begin(r)
    /\ GotoFor(r, o, IF Contains(config.directories, o.spec) THEN "draft" ELSE "done")
    /\ UNCHANGED <<merged, built>>

\* start_local fronts the model, or raises: there is no such runtime, it is not
\* running, or the gateway cannot be built.
StartLocalUse(r, o) ==
    /\ o.kind = "start_local_use"
    /\ Begin(r)
    /\ \/ /\ built' = [built EXCEPT ![r].local = FrontLocalModel(o.model, r)]
          /\ GotoFor(r, o, "local")
       \/ /\ GotoFor(r, o, "refused")
          /\ UNCHANGED built
    /\ UNCHANGED merged

StopLocalUse(r, o) ==
    /\ o.kind = "stop_local_use"
    /\ Begin(r)
    /\ GotoFor(r, o, "local")
    /\ UNCHANGED <<merged, built>>

\* _client_factory, called for a chat: the local entry of the routing table is
\* reached in process if a local provider is there at that time, and over a
\* socket, at its loopback address, if there is none.
InProcess == local # NoLocal

\* state.local = ...
SetLocal(r) ==
    /\ pc[r] = "local"
    /\ local' = built[r].local
    /\ built' = [built EXCEPT ![r] = NoBackend]
    /\ Goto(r, "draft")
    /\ UNCHANGED <<config, disk, backend, warning, merged, draft, crashes, overlap>>

\* replace(base, ...): the configuration base with the one field that o changes.
Replaced(o, providers, base) ==
    CASE o.kind = "complete_onboarding" -> [base EXCEPT !.onboarded = TRUE]
      [] o.kind \in {"add_provider", "remove_provider"} -> [base EXCEPT !.providers = providers]
      [] o.kind = "add_directory" -> [base EXCEPT !.directories = Append(@, o.spec)]
      [] o.kind = "remove_directory" ->
             [base EXCEPT !.directories = Those(@, Directories \ {o.spec})]
      [] o.kind = "start_local_use" -> [base EXCEPT !.local_use = o.model]
      [] o.kind = "stop_local_use" -> [base EXCEPT !.local_use = None]

\* Mutant: the other fields are those of a new AppConfig.
DraftOfDefault(r) == Replaced(op[r], merged[r], DefaultConfig)

\* The right-hand side of state.config = replace(state.config, ...); its reads of
\* state.config are taken as one.
DraftOf(r) == Replaced(op[r], merged[r], config)

Draft(r) ==
    /\ pc[r] = "draft"
    /\ draft' = [draft EXCEPT ![r] = DraftOf(r)]
    /\ merged' = [merged EXCEPT ![r] = <<>>]
    /\ Goto(r, "assign")
    /\ UNCHANGED <<config, disk, local, backend, warning, built, crashes, overlap>>

Assign(r) ==
    /\ pc[r] = "assign"
    /\ config' = draft[r]
    /\ Goto(r, "save")
    /\ UNCHANGED <<disk, local, backend, warning, merged, draft, built, crashes, overlap>>

-----------------------------------------------------------------------------
(***************************************************************************)
(* persist and rebuild.                                                    *)
(***************************************************************************)
\* persist reads state.config again; save_config writes it to a temporary file.
Save(r) ==
    /\ pc[r] = "save"
    /\ draft' = [draft EXCEPT ![r] = config]
    /\ Goto(r, "replace")
    /\ UNCHANGED <<config, disk, local, backend, warning, merged, built, crashes, overlap>>

Replace(r) ==
    /\ pc[r] = "replace"
    /\ disk' = draft[r]
    /\ draft' = [draft EXCEPT ![r] = DefaultConfig]
    /\ Goto(r, "build")
    /\ UNCHANGED <<config, local, backend, warning, merged, built, crashes, overlap>>

\* save_config raises: the handler ends there, with the memory changed.
SaveRaises(r) ==
    /\ r \in Faulty
    /\ pc[r] = "replace"
    /\ draft' = [draft EXCEPT ![r] = DefaultConfig]
    /\ Goto(r, "failed")
    /\ UNCHANGED <<config, disk, local, backend, warning, merged, built, crashes, overlap>>

\* build_registry asks the directories, some of which may be down.
Build(r) ==
    /\ pc[r] = "build"
    /\ \E reachable \in SUBSET Range(config.directories) :
           built' = [built EXCEPT ![r].remote = BuildRegistry(config, reachable)]
    /\ Goto(r, "front")
    /\ UNCHANGED <<config, disk, local, backend, warning, merged, draft, crashes, overlap>>

\* if self.local is not None
FrontsLocal(r) ==
    /\ pc[r] = "front"
    /\ Goto(r, IF local = NoLocal THEN "swap" ELSE "entry")
    /\ UNCHANGED <<config, disk, local, backend, warning, merged, draft, built, crashes,
                   overlap>>

\* registry.add(self.local.entry)
AddLocal(r) ==
    /\ pc[r] = "entry"
    /\ local # NoLocal
    /\ built' = [built EXCEPT ![r].local = local]
    /\ Goto(r, "swap")
    /\ UNCHANGED <<config, disk, local, backend, warning, merged, draft, crashes, overlap>>

\* self.local.entry is read a second time: it has become None, and rebuild raises.
RebuildRaises(r) ==
    /\ pc[r] = "entry"
    /\ local = NoLocal
    /\ built' = [built EXCEPT ![r] = NoBackend]
    /\ Goto(r, "failed")
    /\ UNCHANGED <<config, disk, local, backend, warning, merged, draft, crashes, overlap>>

\* self.backend = ..., and the handler answers.
Swap(r) ==
    /\ pc[r] = "swap"
    /\ backend' = built[r]
    /\ built' = [built EXCEPT ![r] = NoBackend]
    /\ Goto(r, "done")
    /\ UNCHANGED <<config, disk, local, warning, merged, draft, crashes, overlap>>

\* The server dies and is started again: load_config, _restore_local, rebuild.
Crash ==
    /\ crashes < MaxCrashes
    /\ crashes' = crashes + 1
    /\ config' = disk
    /\ \E s \in Booted(disk) :
        /\ local' = s.live
        /\ warning' = s.warning
        /\ backend' = s.backend
    /\ pc' = [r \in Requests |-> IF Active(r) THEN "dead" ELSE pc[r]]
    /\ op' = [r \in Requests |-> NoOp]
    /\ merged' = [r \in Requests |-> <<>>]
    /\ draft' = [r \in Requests |-> DefaultConfig]
    /\ built' = [r \in Requests |-> NoBackend]
    /\ UNCHANGED <<disk, overlap>>

Receive(r, o) ==
    \/ CompleteOnboarding(r, o) \/ AddProvider(r, o) \/ RemoveProvider(r, o)
    \/ AddDirectory(r, o) \/ RemoveDirectory(r, o)
    \/ StartLocalUse(r, o) \/ StopLocalUse(r, o)

Step(r) ==
    \/ SetLocal(r) \/ Draft(r) \/ Assign(r) \/ Save(r) \/ Replace(r) \/ SaveRaises(r)
    \/ Build(r) \/ FrontsLocal(r) \/ AddLocal(r) \/ RebuildRaises(r) \/ Swap(r)

Next ==
    \/ \E r \in Requests, o \in Calls : Receive(r, o)
    \/ \E r \in Requests : Step(r)
    \/ Crash

Spec == Init /\ [][Next]_vars

-----------------------------------------------------------------------------
(***************************************************************************)
(* Properties.  Those about Orderly states are for handlers that do not    *)
(* overlap: two that do can each replace state.config by a copy that lacks *)
(* the other's change, and save it.                                        *)
(***************************************************************************)
AtRest == \A r \in Requests : ~Active(r)

\* A save has failed, so that the memory is ahead of the file.
Unsaved == \E r \in Requests : pc[r] = "failed"

Orderly == ~overlap /\ ~Unsaved

OneToOne(entries) ==
    \A i, j \in DOMAIN entries : i # j =>
        /\ UriOf[entries[i]] # UriOf[entries[j]]
        /\ KeyOf[entries[i]] # KeyOf[entries[j]]

\* Within each of the three lists, in memory, on disk and in the routing table, an
\* endpoint has one key and a key one endpoint, however handlers and crashes
\* interleave.  What the routing table makes of the configuration is Covers.
PinnedEndpoints ==
    /\ OneToOne(config.providers)
    /\ OneToOne(disk.providers)
    /\ OneToOne(backend.remote)

\* What is saved and what is routed to is signed, for an endpoint that is not one
\* of this machine or its network, whatever directories list and whoever calls.
RoutedIsTrusted ==
    \A e \in Range(config.providers) \cup Range(disk.providers) \cup Range(backend.remote) :
        e \in Verified /\ UriOf[e] # None /\ UriOf[e].host \notin {"blocked name", "internal address"}

\* Every provider the user added is routed: as added, or, if a configured directory
\* lists another manifest of its key, as listed there.  With one key per endpoint,
\* no other key is routed to at its endpoint unless its own key has moved away.
Listed(cfg) == UNION {Range(Listing[spec]) : spec \in Range(cfg.directories)}

Covers(entries, cfg) ==
    \A e \in Range(cfg.providers) :
        \E b \in Range(entries) : KeyOf[b] = KeyOf[e] /\ (b = e \/ b \in Listed(cfg))

\* Between handlers memory, file, routing table and live model agree, whatever
\* saves, crashes and restarts lie behind: the model fronted is the one the file
\* names unless its restart failed, and every provider the user added is routed,
\* under its own key, whatever the directories list.
SettledAgrees ==
    Orderly /\ AtRest =>
        /\ config = disk
        /\ backend.local = local
        /\ local.model = config.local_use \/ (local = NoLocal /\ warning # None)
        /\ Covers(backend.remote, config)

\* The administration API keeps its state together: well typed, trusted providers
\* only and, in each list, one key for an endpoint at every step of every handler,
\* and memory, file, routing table and live model in agreement between handlers.
ConfigSound == TypeOK /\ PinnedEndpoints /\ RoutedIsTrusted /\ SettledAgrees

\* The configuration that o, run on its own, makes of cfg.
Effect(o, cfg) ==
    CASE o.kind = "add_provider" -> Replaced(o, MergeProvider(cfg.providers, o.entry), cfg)
      [] o.kind = "remove_provider" -> Replaced(o, WithoutKey(cfg.providers, o.key), cfg)
      [] o.kind = "add_directory" ->
             IF Contains(cfg.directories, o.spec) THEN cfg ELSE Replaced(o, <<>>, cfg)
      [] OTHER -> Replaced(o, <<>>, cfg)

\* The file changes by one request at a time: a write is the effect of the
\* request that makes it on what was in the file.
EachWriteIsOneChange ==
    [][Orderly /\ disk' # disk =>
           \E r \in Requests : pc[r] = "replace" /\ disk' = Effect(op[r], disk)]_vars

\* "A different key claiming an endpoint already pinned to another key is refused
\* [...], so a stolen/rotated key cannot silently take over a known provider URL."
\* A directory that lists another endpoint signed by the pinned key frees the first.
NoTakeover ==
    Orderly /\ AtRest =>
        \A e \in Range(config.providers), b \in Range(backend.remote) :
            UriOf[b] = UriOf[e] => KeyOf[b] = KeyOf[e]

\* "this URI is the routing identity bound into the signed manifest, never
\* actually dialed over a socket."
LocalNeverDialed == backend.local # NoLocal => InProcess

\* "a boot-time local-restore failure (sticky until the local model changes)":
\* the warning is about the model that is configured.
WarningIsCurrent == Orderly /\ AtRest /\ warning # None => config.local_use = warning
=============================================================================

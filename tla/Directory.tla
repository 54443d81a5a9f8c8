------------------------------ MODULE Directory ------------------------------
(***************************************************************************)
(* Provider directories: nodes announce signed manifests, routers discover *)
(* them (packages/discovery, apps/directory-service, packages/sin-cli      *)
(* share.py, packages/arweave-anchor).                                     *)
(*                                                                         *)
(* A node signs a manifest and announces it in one of three ways: into the *)
(* shared JSON file with its own process (FileDirectory), by a POST to the *)
(* hosted service, whose process writes the same file (HttpDirectory), or  *)
(* as a transaction of an append-only chain (ArweaveDirectory).  A write   *)
(* of the file is a load and, later, a replace: processes interleave.      *)
(*                                                                         *)
(* A manifest is the provider's key, its published_at in whole seconds,    *)
(* the models it serves, whether it has a manifest_uri, and whether its    *)
(* signature and schema verify.                                            *)
(***************************************************************************)
EXTENDS Naturals, Sequences, FiniteSets, SequencesExt, Ordering

CONSTANTS Keys,      \* provider public keys
          Models,    \* model names
          Writers,   \* processes that announce into the file
          Service,   \* the one of them that is the hosted service
          Nothing,   \* no entry, no model asked for, nothing being announced
          PageSize,  \* transactions a discovery query returns at most
          MaxTime,   \* bound: seconds the clock shows
          MaxSigned  \* bound: manifests signed

ASSUME DirectoryAssumption ==
    /\ Service \in Writers
    /\ Nothing \notin Keys \cup Models \cup Writers
    /\ IsFiniteSet(Keys)
    /\ PageSize \in Nat \ {0} /\ MaxTime \in Nat /\ MaxSigned \in Nat

VARIABLES
    clock,    \* the nodes' clock, in the seconds published_at is written in
    signed,   \* every manifest signed so far
    file,     \* the shared file: an entry per key
    writer,   \* what each process is announcing, and the entries it loaded
    wire,     \* manifests posted to the service and not yet handled
    chain,    \* anchored transactions, oldest first
    acked,    \* per key, the manifest announced last into the file
    past      \* an observer, not in the code: "mixed" once a load fell between
              \* another process's load and replace or somebody else touched the
              \* file, before that "unread" once a process that could not read
              \* the file replaced it, and "serial" as long as neither happened

vars == <<clock, signed, file, writer, wire, chain, acked, past>>

\* A node serves one model (ShareConfig.model); its manifest lists it.
Manifest == [key : Keys, at : 0..MaxTime, models : {{x} : x \in Models},
             hasUri : BOOLEAN, valid : {TRUE}]
\* What somebody without the key can produce in its name.
Forged(k) == [key |-> k, at |-> MaxTime, models |-> Models, hasUri |-> TRUE, valid |-> FALSE]
\* Every manifest there can be; none is mistaken for no entry.
AnyManifest == [key : Keys, at : 0..MaxTime, models : SUBSET Models, hasUri : BOOLEAN, valid : BOOLEAN]
ASSUME ManifestAssumption == Nothing \notin AnyManifest

Idle     == [m |-> Nothing, loaded |-> Nothing]
Empty    == [k \in Keys |-> Nothing]

-----------------------------------------------------------------------------
(* What every directory shares.                                            *)

\* _require_verified and _signed_endpoint: announce refuses anything else.
Announceable(m) == m.valid /\ m.hasUri

\* A plausible bug: what discovery was given is not verified again.
RoutableUnverified(m) == m.hasUri

\* The test every discover repeats for each manifest it was given.
Routable(m) == m.valid /\ m.hasUri

Serves(m, model) == model = Nothing \/ model \in m.models

\* A plausible bug: the last manifest of a key wins.
KeepLatest(best, m, model) ==
    IF Serves(m, model) THEN [best EXCEPT ![m.key] = m] ELSE best

\* One turn of the loop of _filter_and_dedupe; best is the dict freshest.
KeepFreshest(best, m, model) ==
    IF Serves(m, model) /\ (best[m.key] = Nothing \/ m.at > best[m.key].at)
    THEN [best EXCEPT ![m.key] = m] ELSE best

FilterAndDedupe(ms, model) ==
    FoldLeft(LAMBDA best, m : KeepFreshest(best, m, model), Empty, ms)

\* discover of all three directories: skip what does not verify, then dedupe.
Discover(ms, model) == FilterAndDedupe(Those(ms, {m \in Range(ms) : Routable(m)}), model)

\* _load_raw: a file that is there and cannot be read is no entries, like one
\* that does not parse.  mkstemp leaves the file it replaces readable by the
\* process's own user only.
LoadRaw == {file, Empty}

\* FileDirectory.discover: the entries read, each a manifest or no dict.
Entries(read) == SetToSeq({read[k] : k \in Keys} \ {Nothing})
FileDiscover(read, model) == Discover(Entries(read), model)

\* HttpDirectory.discover: the service answers with what its own discover found,
\* and the router verifies that again.
Providers(read, model) == Entries(FileDiscover(read, model))
HttpDiscover(read, model) == Discover(Providers(read, model), model)

\* arweave_discovery_query: the newest transactions first, one page of them.
Page == SubSeq(Reverse(chain), 1, IF Len(chain) < PageSize THEN Len(chain) ELSE PageSize)

\* ArweaveAnchor.get, as _resolve uses it: what the gateway does not return
\* (missing) is left out.
Resolved(missing) == Those(Page, Range(Page) \ missing)
ArweaveDiscover(model, missing) == Discover(Resolved(missing), model)

-----------------------------------------------------------------------------
Init ==
    /\ clock = 0 /\ signed = {} /\ wire = {} /\ chain = <<>>
    /\ file = Empty /\ acked = Empty /\ past = "serial"
    /\ writer = [w \in Writers |-> Idle]

Tick == clock < MaxTime /\ clock' = clock + 1
        /\ UNCHANGED <<signed, file, writer, wire, chain, acked, past>>

\* build_share_manifest, for build_share or for a reannounce with new metrics: a
\* node signs what it serves now, with the time of now.
\* A manifest built without an endpoint (to_provider_manifest) has no uri.
Sign(m) ==
    /\ Cardinality(signed) < MaxSigned
    /\ m.at = clock /\ m \notin signed
    /\ signed' = signed \cup {m}

\* announce_to_directory and reannounce call announce, which raises before it
\* loads when the manifest is refused.
AnnounceToDirectory(w, m) ==
    writer' = IF Announceable(m) THEN [writer EXCEPT ![w].m = m] ELSE writer

\* cmd_share, _benchmark_announce: sign, then FileDirectory.announce.
FileAnnounce(w, m) ==
    /\ w # Service /\ writer[w] = Idle /\ Sign(m)
    /\ AnnounceToDirectory(w, m)
    /\ UNCHANGED <<clock, file, wire, chain, acked, past>>

\* HttpDirectory.announce checks, then posts.  The node may stop waiting for
\* the answer: the post stays on its way.
HttpAnnounce(m) ==
    /\ Sign(m)
    /\ wire' = IF Announceable(m) THEN wire \cup {m} ELSE wire
    /\ UNCHANGED <<clock, file, writer, chain, acked, past>>

\* ArweaveAnchor.put: the transaction is signed and posted, or that raises.
Put(m) == chain' \in {Append(chain, m), chain}

\* ArweaveDirectory.announce anchors the manifest with its tags.
ArweaveAnnounce(m) ==
    /\ Sign(m)
    /\ IF Announceable(m) THEN Put(m) ELSE UNCHANGED chain
    /\ UNCHANGED <<clock, file, writer, wire, acked, past>>

\* Neither the service nor the chain knows who posts: a forged manifest can be
\* sent to the one and anchored on the other.
ForgedPost(k) ==
    /\ \A m \in wire \cup Range(chain) : m.valid     \* bound: one at a time
    /\ \/ wire' = wire \cup {Forged(k)} /\ UNCHANGED chain
       \/ chain' = Append(chain, Forged(k)) /\ UNCHANGED wire
    /\ UNCHANGED <<clock, signed, file, writer, acked, past>>

\* The service takes a post off the wire; its handler runs on the event loop,
\* one at a time, and answers 400 to what the store refuses.
ServiceTakes(m) ==
    /\ writer[Service] = Idle
    /\ wire' = wire \ {m}
    /\ AnnounceToDirectory(Service, m)
    /\ UNCHANGED <<clock, signed, file, chain, acked, past>>

\* A post is lost: HttpDirectory.announce raises and nothing else happens.
PostLost(m) == wire' = wire \ {m}
               /\ UNCHANGED <<clock, signed, file, writer, chain, acked, past>>

Loading == {w \in Writers : writer[w].loaded # Nothing}

\* _load_raw, in announce.
Load(w) ==
    /\ writer[w].m # Nothing /\ writer[w].loaded = Nothing
    /\ \E read \in LoadRaw : writer' = [writer EXCEPT ![w].loaded = read]
    /\ past' = IF Loading = {} THEN past ELSE "mixed"
    /\ UNCHANGED <<clock, signed, file, wire, chain, acked>>

\* A plausible bug: the other entries are not kept.
EnteredAlone(w) == [Empty EXCEPT ![writer[w].m.key] = writer[w].m]

\* The entry is set in what was loaded, and _write_raw replaces the file.
Entered(w) == [writer[w].loaded EXCEPT ![writer[w].m.key] = writer[w].m]
Replace(w) ==
    /\ writer[w].loaded # Nothing
    /\ file' = Entered(w)
    /\ acked' = [acked EXCEPT ![writer[w].m.key] = writer[w].m]
    /\ writer' = [writer EXCEPT ![w] = Idle]
    /\ past' = IF past = "serial" /\ writer[w].loaded # file THEN "unread" ELSE past
    /\ UNCHANGED <<clock, signed, wire, chain>>

\* mkstemp, dump or replace fails, or the process dies, before the replace:
\* the file is untouched and the announcement is not made.
WriteFails(w) ==
    /\ writer[w].loaded # Nothing
    /\ writer' = [writer EXCEPT ![w] = Idle]
    /\ UNCHANGED <<clock, signed, file, wire, chain, acked, past>>

\* Somebody else who can write the shared folder leaves an entry that does not
\* verify, or a file that does not parse, which _load_raw reads as no entries.
Tamper(k) ==
    /\ file' \in {[file EXCEPT ![k] = Forged(k)], Empty}
    /\ past # "mixed" /\ file' # file                         \* bound: once
    /\ past' = "mixed"
    /\ UNCHANGED <<clock, signed, writer, wire, chain, acked>>

Next ==
    \/ Tick
    \/ \E m \in Manifest : \/ \E w \in Writers : FileAnnounce(w, m)
                           \/ HttpAnnounce(m)
                           \/ ArweaveAnnounce(m)
    \/ \E m \in wire : ServiceTakes(m) \/ PostLost(m)
    \/ \E w \in Writers : Load(w) \/ Replace(w) \/ WriteFails(w)
    \/ \E k \in Keys : ForgedPost(k) \/ Tamper(k)

Spec == Init /\ [][Next]_vars

-----------------------------------------------------------------------------
(* Properties.                                                             *)

Asked == Models \cup {Nothing}
Freshest(ms) == {m \in ms : \A n \in ms : n.key = m.key => n.at <= m.at}

\* Whatever is in the file or on the chain, and whatever a relay answers
\* (any signed or forged manifests, in any order), a router is only given
\* manifests their providers signed, with the endpoint they signed.
Authentic(found) ==
    \A k \in Keys :
        found[k] # Nothing => found[k] \in signed /\ found[k].key = k /\ found[k].hasUri
FoundIsSigned ==
    LET Given == signed \cup {Forged(k) : k \in Keys} IN
    \A model \in Asked :
        /\ \A read \in LoadRaw : /\ Authentic(FileDiscover(read, model))
                                 /\ Authentic(HttpDiscover(read, model))
        /\ Authentic(ArweaveDiscover(model, {}))
        /\ \A m, n \in Given : Authentic(Discover(<<m, n>>, model))

\* ArweaveDirectory.discover finds, for each key, a freshest one of the
\* manifests serving the model that the page held and the gateway returned,
\* and finds one if there is any: forged and unresolvable transactions, and
\* equal times, do not hide a provider.
FreshestOfPage ==
    \A model \in Asked : \A missing \in SUBSET Range(chain) :
        LET there == {m \in Range(Page) \ missing : Routable(m) /\ Serves(m, model)}
            found == ArweaveDiscover(model, missing)
        IN \A k \in Keys :
               IF \E m \in there : m.key = k THEN found[k] \in Freshest(there)
                                           ELSE found[k] = Nothing

\* As long as announcements into the file do not overlap and nobody else
\* writes it, it lists no provider with anything but what that provider
\* announced last; and it lists every provider that ever announced, unless an
\* announcement found the file unreadable: its replace removes the others.
AnnouncedIsListed ==
    /\ past # "mixed" => \A k \in Keys : file[k] \in {acked[k], Nothing}
    /\ past = "serial" => file = acked

\* What share.py says of reannounce: "Directories keep the freshest entry per
\* provider key".  Announcements that do not overlap replace no manifest in the
\* file by an older one of the same provider.
FreshestIsKept ==
    [][past' = "serial" =>
           \A k \in Keys : file[k] # Nothing => file'[k].at >= file[k].at]_vars

\* What directory.py says of discovery: it keeps the freshest published_at of
\* a provider key, "so a stale or forged entry can't be routed to".
StaleIsNotRouted ==
    \A model \in Asked, k \in Keys :
        LET found == ArweaveDiscover(model, {})[k]
        IN found # Nothing => found \in Freshest({m \in Range(chain) : Routable(m)})
=============================================================================

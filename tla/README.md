# Sovereign Inference: a verification development

TLA+ models of the parts of Sovereign Inference that move value, choose a
provider or keep state between processes: payment redemption and the spent set,
the provider gateway with its ledger, the router client with its wallet, blind
credits, the configuration of the desktop app server, provider directories,
selection by policy, score and reputation, rented compute, the llama.cpp runtime
and the node's commands. TLC checks the models on small instances; TLAPS proves
the theorems of the eight `...Proofs` modules for every instance.

Run from this directory: `tlc -workers 2 -config <run>.cfg <module>` and
`tlapm <module>.tla`. The configurations that no run of section 3 uses show a
disagreement listed at its end. `PROJECT.json` lists the runs, the correspondence of
definitions to source lines, the mutants, the hazards and the findings.

## 1. The system

A *client* (`sip_router`) picks a *provider gateway* (`sip_gateway`) that serves
an open model through a *runtime adapter*, and pays it. A gateway that wants
payment answers 402; the client takes credits from its *wallet* and repeats the
request. The gateway verifies the credits, runs the model, then consumes them in
a *spent set* (SQLite, shared by processes), credits its *ledger* (a JSON file)
and returns a signed *receipt*. Around this sit discovery (directories of signed
manifests), reputation, a local OpenAI-compatible proxy with an administration
API and a desktop shell, deployment adapters for rented compute, and the node
tools that choose and run a model.

### Inventory

| Component | State | Operations | Interacts with |
| --- | --- | --- | --- |
| payment redemption (`sip_pic.payment`, `x402`) | none of its own | `redeem_payment(commit=False/True)` | spent set: one SQL statement at a time |
| spent-set file (`sip_pic.spentset`) | a SQLite file, a connection per process | open with recovery, `is_spent`, `spend`, `unspend` | every gateway process on the path |
| credit ledger (`sip_pic.ledger`) | a list in memory and a JSON file | `record`, load, save | gateway |
| provider gateway (`sip_gateway.app`) | sliding-window limiter, spent set, ledger | `chat_completions`, `quote`, `manifest`, `health` | redemption, ledger, runtime adapter |
| wallet (`sip_pic.wallet`) | a list of vouchers | `add`, `balance`, `select` | router client; several threads of the proxy |
| router client (`sip_router.client`) | none between chats | `chat`: health, quote, request, pay, fail over | wallet, gateways over HTTP |
| blind credits (`sip_pic.blind`) | serials in a spent set | request, sign, finalize, redeem | issuer, spent set |
| voucher issuer | key pair | issue | wallet |
| registry, scoring, policy | a registry file that is read | load, resolve, score; permit and filter | router client, proxy backend |
| discovery, directory service | a JSON file of signed manifests | announce, discover | providers, router client |
| reputation | a JSON file of counters | record, score, health gate | router client |
| app server (`sip_openai_proxy.server`) | configuration in memory and on disk, live registry, local model | onboarding, add/remove provider and directory, start/stop local use | thread pool, proxy backend |
| openai proxy surface | none | `chat/completions`, models | router client in a thread pool |
| compute, Akash, Nosana | deployment handles | deploy, status, await_ready, teardown | external command lines |
| runtime adapters | llama.cpp child process | serve, stop, handles; pull, chat of Ollama over HTTP | gateway, node, command line |
| node (`sin_node`) | none | scan, recommend, benchmark, context probe | command line, vendor tools, served endpoint |
| relay, Arweave anchor, plugins, receipt verifier, demos, desktop, dashboard | little or none | forwarding, storage, loading, display | the above |

### What is hard

* **Interleaving.** `redeem_payment` checks all vouchers of a batch and inserts
  them one by one afterwards, each INSERT a transaction of its own, while other
  processes do the same. Two processes may open the spent-set path together.
  Chats in the proxy's thread pool share one wallet without a lock. Gateway
  processes may share a ledger file that each rewrites from its own list. The
  app server's handlers replace its configuration, save it and rebuild the
  routing table in separate steps, in a thread pool. Nodes and the hosted service
  rewrite one directory file, routers one reputation file, each as a load and a
  later replace.
* **Failure half-way.** A lock timeout or a crash between two INSERTs, between
  the redemption and the ledger, between the ledger and the answer. Any of the
  four commands of an Akash deployment, with or without effect. A llama-server
  that dies while it is polled or ignores SIGTERM, an interrupt of that poll. A
  ledger, directory or reputation file that cannot be read: each store then goes
  on from an empty one, and its next save replaces the file.
* **Stale verdicts.** The first, non-committing redemption is as old as the
  model's answer when the second one is made. Providers are scored and probed one
  after the other while other routers record outcomes. A routing table outlives
  the local model it names.
* **Unreliable delivery.** A paid request the client gave up on may be processed
  later, after its vouchers went back into the wallet. Announcements arrive late,
  in another order or not at all, and anyone can post, anchor or write a forgery.
* **Boundaries.** Sliding window, rounding of prices, indivisible vouchers,
  expiry at an instant, pages of a chain, times in whole seconds, bids without a
  price or with the price NaN, ratios that are rounded before they are shown.

### What makes each part correct

| Part | Properties |
| --- | --- |
| redemption | no key pays twice; what was paid stays spent; a batch is consumed whole or not at all by a call that returns; replays do not starve each other; every call returns |
| spent-set file | a key is won once across processes and restarts, if they start in turn; a database in use is not replaced; every constructor ends |
| gateway | an error costs nothing; an answer is paid and recorded once at the receipt's price; the rate limit holds in every window; a quote bounds a receipt that is paid or honest |
| ledger | each paid answer is in it once, at the receipt's price; is covered by consumed credits |
| wallet and client | no voucher lost, duplicated or redeemed twice; a chat is charged at most once and only if served; every chat ends |
| blind credits | signatures verify for one denomination; issuer cannot link; a text of a serial is redeemed once in turn, at face value |
| app server | only verified manifests at safe addresses are routed to; a list gives an endpoint one key; every provider the user added is routed, as added or as a directory lists its key; calls in turn keep memory, file, routing table and live model together; a write of the file is one change |
| discovery | a router is given signed manifests only; no forgery on a page hides a provider of that page; the freshest of a page wins; announcements in turn are all kept while the file can be read |
| selection | a request goes to the best provider the policy allows and that is alive; counters never contradict each other; the ranking respects dominance |
| deployments | nothing stays on the network without a handle or an exception; the first of the cheapest bids is leased; ready means served; every call ends |
| llama.cpp runtime | no server out of reach but by an exception that leaves `serve`; stop stops; what is listed is what answers; every call ends |
| node | the best models that fit are listed; what is said of their fit is so; no throughput without content |

## 2. Modules

| Module | Models | State and code |
| --- | --- | --- |
| `RedemptionPromise` | what `payment.py` promises of a batch, and what a call that is cut short makes of it | `outcome`, `held`, `consumed`, `expired`; `Consume` one key, `Refuse` with a reason, `GiveBack`, `CutShort` |
| `Redemption` | `redeem_payment` over `SpentSet`, statement by statement | `spent` is the table; `pos`, `total`, `ins` (`len(spent_ids)`), `del` are the locals of each call; `Begin` is the entry, `Check`/`Tally` the validation loop and the price check, `Spend`/`Unspend` the spend and rollback loops, `Raise` an exception or a crash |
| `Gateway` | `chat_completions`, `_RateLimiter`, `Ledger` | extends `Redemption`; `stage` is the place in the handler, `hits` the limiter's deque, `mem`/`disk` the ledger's list and file; one action per step of the handler, plus `Crash` |
| `SpentStore` | `SpentSet.__init__`/`_open` on a path shared by processes | `path` (the file the name refers to), `holds`, `rows`, `conn`; SQLite is external |
| `Router` | `SovereignClient.chat`, `_prepare_payment`, `Wallet` | `wallet` is `_vouchers`, `reserved`/`left` the locals of `select`, `request` the paid requests in the network, `consumed` the spent set of each gateway; the statements of `select` are separate steps. `Means` and `TakesVouchers` say with what a chat pays a provider: vouchers when it has a wallet and the provider takes them, otherwise an x402 payment signed with a fresh nonce; only vouchers are given back. A payment is refused for a spent, unaccepted or expired voucher or a short total; `PreparePayment` raises at a price that is no decimal. `Handle` is a gateway, reduced to one step |
| `BlindCredit` | `sip_pic.blind` | a credit from the blinding factor to its redemption: `phase`, `factor`, `blinded`, `sig` of an issuance, `call` of a redemption, `spent` the spent set, which holds serials as they are written: several texts decode to one (`Decode`), and the signature is on what they decode to. RSA is modular arithmetic over `N`, `E`, `D` (key generation is external); the full-domain hash is a table. The instance has `N = 33`, the proofs any key |
| `AppServer` | the administration API in `server.py`, with `config.py`, `sources.py` and `local_use.py` | `config`, `local`, `backend`, `warning` are the fields of `_ServerState`, `disk` is `config.json`; a handler is an action for what it does up to its first assignment, then `SetLocal`, `Draft`/`Assign` (the two halves of `state.config = replace(...)`), `Save`/`Replace`, `Build`/`FrontsLocal`/`AddLocal`/`Swap` (`rebuild`); `Crash` restarts the process. The trust boundary is `IsSafeRemoteUrl` and `TrustedProviderEntry` over URLs given by their scheme and the kind of their host |
| `Directory` | `sip_discovery.directory`, the directory service, `share`, the Arweave anchor as they use it | `file` is the shared JSON file, `writer` what a process has loaded and is about to write, `wire` the posts under way, `chain` the transactions; `FileAnnounce`/`Load`/`Replace` (`LoadRaw`: the file, or nothing when it cannot be read), `HttpAnnounce`/`ServiceTakes`, `ArweaveAnnounce`; `Discover` and its three fronts are functions of the state |
| `Selection` | `sip_policy`, `sip_router.scoring` and `registry`, `sip_reputation` | `file` is the reputation file, `router` the place of each router between `Start` (policy), `Consider` (score and probe of the next provider), `Route` (`rank_providers`), `Load` (the file, or nothing) and `Write` (`record`); `Resolve` is the static ranking |
| `Deployment` | the Akash and Nosana adapters and `provider_manifest_for` | `handle` is the `Deployment` the caller holds, `job` what the network knows (external), `call` the running call; one action per command of the network's tool, each with its ways to fail |
| `Runtime` | `LlamaCppAdapter` and its handles | `adapter` its fields, `proc` the child processes (external), `call` the running `serve`, `stop` or handle stop; one action per poll, signal and wait, and `Interrupted` for an exception in a sleep, a check or a wait |
| `Node` | `hardware.py`, `models.py`, `recommend.py`, the streamed benchmark and the commands over them | `machine` is the hardware and what the vendors' tools print, `command` the running command or its result; a streamed line is an action, the parsers and the recommendation are functions |
| `Ordering` | Python's `sorted`, `round` and list comprehension | shared by `Selection`, `Node` and `Directory` |
| `GatewayProofs` | theorems about `Redemption` and `Gateway` (section 4) | |
| `SpentSetProofs` | theorems about `SpentStore` and `BlindCredit` | |
| `SelectionProofs` | theorems about `Selection` and `Node` | |
| `RouterProofs`, `AppServerProofs`, `DirectoryProofs`, `DeploymentProofs`, `RuntimeProofs` | theorems about the module of that name | |
| `MC...` | instances for TLC | |

Composition. `Gateway` extends `Redemption`: every access to the spent table is a
step of `Redemption`, which `ImplementsRedemption` states and
`GatewayImplementsRedemption` proves. `Redemption` keeps `RedemptionPromise`
(`KeepsPromise`), whose `consumed` is the table of spent rows itself and whose
`held` are the rows of each call: an INSERT is a `Consume`, the last of a batch
accepts it, a refusal needs a reason and gives back what it holds, and a call that
raises or dies is `CutShort` and keeps what it inserted. The single step `Handle`
of `Router` is an abstraction of that and no refinement of it: it leaves out that
a gateway can fail with half a batch consumed, which the client sees as one of the
failures after the redemption. Neither does `Router` have an exception that is not
of httpx after `select` returned (a response that is no JSON, say), which would
drop the reserved vouchers. `Directory` composes the
shared file with the processes that write it (nodes and the hosted service) and
the chain. `Selection` composes three packages: `filter_entries` of the policy (as
the proxy's `build_backend` calls it), then `rank_providers` over the reputation
store and the probes (as the supply demo calls it); the policy that allows
everything gives the path without a policy. `Router` takes the ranked candidates
as given.

Abstractions. A voucher is its spend key: signature, unit, issuer and, for x402,
provider and request binding are the relation `Accepts`; expiry is compared with
a clock. In `Router` `Accepts` and `Expiring` say the same per provider. An x402
payment is a batch of one key. Amounts are integers (10^-6
units). In `Gateway` a request is the record of the fields the handler branches
on, and `Price` is tied to the words and `max_tokens` of the request by
`PriceAssumption`. `SentTo` says which workers a request may be sent to. In
`AppServer` a provider entry stands for a manifest, `Verified` for those whose
signature verifies; a directory returns its `Listing` or is down. In `Directory` a
manifest is its key, its time, its models, whether it names an endpoint and
whether it verifies. Scores, memory and rates are integers in the units named in
`Selection` and `Node`; the static scores are exact in the unit `Scale`, a common
multiple of their denominators. The reputation score is exact for up to six
outcomes.
`overlap`, `givenUp`, `unread`, `raced`, `past`, `acked`, `truth`, `served`,
`closed`, `cut` and `alone` are history variables: they record what happened and no action of the code reads
them (the bounds of `Teardown`, `Tamper` and of the outcomes of `Selection` look at one).

## 3. Runs

| Run | Shows |
| --- | --- |
| `redemption` | `a` and `b` replay one two-voucher payment, `c` pays with one of its vouchers, `d` pays too little with a key that expires; `a` and `c` may raise or die. `NoDoubleSpend`, `RedeemedStaysSpent`, `NothingElseLeaks`, `NoMutualRefusal`, that every statement keeps the promise of `RedemptionPromise` (`KeepsPromise`), and that calls return |
| `gateway` | two paid workers and a free one, two requests that pay with the same vouchers in opposite orders, a third with its own; one crash, a restart that may not be able to read its ledger, one faulty request, one voucher that expires, a runtime that may report more tokens than it should, a limit of one per instant. A refused request costs nothing; `LedgerSound`: a paid answer is recorded at most once, at the receipt's price, and is found in the file unless a load failed, and the ledger is covered by what was consumed; the limiter; a receipt that is paid, or reports honest counts, is within the quote |
| `spentstore` | three processes, two restarts, a path that is fresh, foreign or a database. If the processes that start while there is no database do so in turn, a key is won once and all share one file; once there is one, any number start and restart together. Every constructor ends, in any case |
| `spentstore_fresh` | *violated*: "recorded exactly once". On a fresh path, "database is locked" while another process switches to WAL is taken for corruption and the healthy database is unlinked: recovery is not confined to foreign files |
| `router` | two chats on one wallet, one of them with an x402 key; the first tries two providers that take vouchers, one of which does not accept each of them and one of which has no valid receipts; the second passes one whose price is malformed, one that takes x402 only and a free one before it comes to a third that takes vouchers and shares the spent set of the first (the other gateways have their own, which is the default); a voucher that expires; timeouts, late processing, failures before and after the redemption. `WalletSound`: for chats in turn no voucher is lost, duplicated or kept when spent. `PaidOnce`: no voucher is redeemed by two providers unless a request miscarried, a chat pays for one answer unless a request miscarried, and in turn a payment that nothing is wrong with is accepted |
| `blind` | every blinding factor modulo 33, two credits, one of which has two texts, four redemptions that may overlap |
| `app_server` | two calls, in turn or overlapping, on four starting files; two manifests of one key, a rival key for the endpoint of one of them, a forged one, one for an internal address, one without an endpoint, a caller who names another address than the signed one, three directories; a save that raises, a model that does not start, one crash. `ConfigSound` and `EachWriteIsOneChange` |
| `directory` | two providers, two models, a node and the hosted service on one file, a page of two transactions, two seconds of clock, three manifests; posts lost or late, forged posts and transactions, failed reads and writes, one tampering. A router gets signed manifests only; a page yields the freshest; the file lists what each provider announced last, and in turn every provider, until an announcement cannot read it |
| `deployment` | two deployments, each on either network, up to two bids of two sellers with a price, an unreadable one or NaN, one more poll after the first; every command may raise, be unreadable or be rejected, with or without effect |
| `selection` | two providers with any of three manifests, six policies that between them use every rule, two routers, two outcomes, loads that fail, a registry file with a malformed item |
| `node` | nine machines, five models, every task, latency and list length; streams of up to three lines over three ticks of the clock |
| `runtime` | three processes, two models, two ports, two polls, an exception at any of them or in a wait |

**Merged properties.** `LedgerSound`, `WalletSound`, `PaidOnce`,
`RedeemedSoundly`, `ConfigSound`, `RoutedIsBestAllowed`, `FitIsHonest` and
`ReadyIsReal` are conjunctions of the named properties defined before them. Where
the conjuncts guard different code, each has a mutant of its own.

**Bounds.** Three or four calls suffice for every pairwise and three-way
collision of two-key batches (an owner, a loser rolling back, and a third party
that meets a freed key); for safety the proofs of section 4 remove the bounds of
every module but one, the six outcomes for which the unit of the reputation
scores of `Selection` is exact. One clock
tick separates "verified before, committed after" an expiry and two windows of
the limiter. One crash and one faulty request let every action be cut short
once. `SpentStore` has more files than its processes can unlink. In `Router` two
chats are what a race on the wallet takes, and four candidates what failing over
from a malformed, an unpayable and a free provider to one that is paid takes. In `AppServer` two calls are what a
race takes, and the starting files stand for the calls before them. In
`Directory` three manifests of one key make a newer, an older and an equal one and
push one off a page of two. In `Selection` two outcomes are one lost update; a
third provider would not add a comparison that two do not have. In `Deployment`
calls do not interact across deployments except through the one caller, so that
two are one more than needed. In `Runtime` three processes are a server that was
forgotten, one that is served and one being started. `CHECK_DEADLOCK` is off
except in `runtime`: each call, request, chat or signature happens a bounded
number of times, and the instance then rests.

**Fairness.** Weak fairness of the steps of a call, a handler, a constructor or
a chat that has begun: each is straight-line code run by a live thread, and
waits for nothing but the file lock, which `busy_timeout` bounds (`Raise`), and
for HTTP, which httpx times out (`TransportError`). In `Deployment` it is the
steps of the running call: the runner gives every command a time-out
(`subprocess.run(..., timeout=...)`), so that each ends, in whatever way. In
`Runtime` it is `AdapterStep`: polls are counted and both waits have a time-out.
Nothing obliges a client to call, a worker to crash, the clock to tick, a
workload to come up or a server to load or die, and a gateway need not answer a
paid request. The one exception is `EveryChatEnds`, which includes the start of
the chat.

**What holds only under conditions.** A served request goes unpaid in two ways
only, which `LedgerSound` names: a credit expired meanwhile, or a rival on
another worker. `SerialStartsAreExact` needs constructors that do not overlap, the
conservation of the wallet chats that do not, and the exact counters of
`CountersSound` records that do not and that can read the file.
`AnnouncedIsListed` says of announcements that do not overlap what the file lists,
and that nobody is missing as long as each could read the file; `LedgerSound`
says that an answer is found in the ledger as long as each restart could. In
`RedeemedSoundly` a text is redeemed a second time only by a call that looked it
up before the first one spent it, in `PaidOnce` a voucher only after a request
that miscarried. Agreement of memory,
file and table in `ConfigSound`, and `EachWriteIsOneChange`, are for handlers that
do not overlap and saves that did not fail: overlapping handlers can each replace
the configuration by a copy that lacks the other's change (and `RebuildRaises`
can end one of them in an exception), and after a failed save the memory is ahead
of the file. That each list gives an endpoint one key, and trust, need neither.
`ListedIsServed` needs serves that begin with no other server alive and are not
cut short; `NoProcessOutOfReach` exempts the server of a `serve` that an exception
left. `StopStops` is about `wait` as `subprocess.Popen` has it: the `OSError` that
`_terminate` also expects of it is not modelled. `UsableIsTotalVram` is for cards of one vendor:
with both, the memory of the largest card is counted, whichever of them the
accelerator is.

### Known disagreements

Met while modelling; what the code does differs from what one of its own lines
says. Each property states that line and is defined in the module of its part; TLC
refutes it under the configuration of the first column. `spentstore_fresh` is one of
the runs above; the others are beside them to show a disagreement, and are no runs
of `PROJECT.json`: none of what is checked or proved rests on them.

| Configuration, property | The line, and what happens |
| --- | --- |
| `spentstore_fresh`, `ExactlyOnce` | `spentset.py:4-8` "recorded exactly once". See above |
| `redemption_atomic`, `AllOrNothing` | `payment.py:6-7` "Either the whole batch is consumed or none of it is". Every INSERT commits on its own; a call that raises or dies between two of them leaves the first key consumed |
| `gateway_quote`, `QuoteBoundsReceipt` | `app.py:238` "max_price must be a TRUE upper bound on the eventual receipt price". A receipt that is not paid for is priced by the counts the runtime reports, which nothing bounds |
| `gateway_ledger`, `LedgerAppendOnly` | `ledger.py:20` "Append-only record". Of two processes on one path the later writer erases what the other recorded; a process that could not read the file erases all of it |
| `router_wallet`, `NothingLost` | `client.py:199-200` "so they are not lost". An `add` of another thread between the filter and the assignment of `select` disappears |
| `router_pick`, `PickCoversPrice` | `wallet.py:40` "summing to >= amount". The balance is checked before another thread takes vouchers, the pick is made after |
| `router_challenge`, `CannotBePaidFailsOver` | `client.py:86-88` "fails over to the next candidate". A price that is no decimal raises `InvalidOperation`, which nothing on the way catches |
| `blind_overlap`, `EachTextOnce` | `blind.py:276` lists the double-spend check. Look-up and insert are two statements and the result of the insert is ignored |
| `blind_text`, `EachSerialOnce` | the same line. The spent set is asked for the text of the serial, the signature is checked on the bytes it decodes to, and the decoder is lenient |
| `app_server_takeover`, `NoTakeover` | `sources.py:103-105` "cannot silently take over a known provider URL". A directory that lists another endpoint signed by the key of a provider the user added frees the first one for the next key it lists |
| `app_server_local`, `LocalNeverDialed` | `local_use.py:27-28` "never actually dialed over a socket". The client factory looks at the live model when a chat opens, the table is older: between the two steps of `stop_local_use`, and for good when its save raises, the local entry is dialed |
| `app_server_warning`, `WarningIsCurrent` | `server.py:111-112` "sticky until the local model changes". Only the constructor assigns the warning; it outlives the model |
| `directory_fresh`, `FreshestIsKept` | `share.py:167` "Directories keep the freshest entry per provider key". The file keeps the last one written, and a late post replaces a newer manifest |
| `directory_stale`, `StaleIsNotRouted` | `directory.py:6-7` says a stale entry cannot be routed to. The filter by model comes before the choice of the freshest, so that a provider that moved to another model is found with its old manifest; and one page hides what fell off it |
| `deployment_bids`, `LeasedIsCheapestOpen` | `provider.py:117` "the cheapest open bid". The state of a bid is not read, and nothing is less than a first price of NaN |
| `deployment_teardown`, `TornDownIsClosed` | `provider.py:327` "ending billing and releasing the lease". It does not read the code of its transaction, which `_require_tx_ok` calls a way to fail silently |

Three stores answer a file they cannot read with an empty one, without an error,
and replace it at their next save: the ledger (`ledger.py:29-34`), the directory
(`directory.py:156-157`; the file has the mode 0600 of `mkstemp`, so that a writer
of another user cannot read it) and the reputation store (`store.py:84-88`). No
line promises otherwise, but for the "append-only" of the ledger. The models have
these paths, and `AnsweredIsRecorded`, `AnnouncedIsListed` and `CountersSound` say
what is left: nothing false is in the file, and what is missing was there before.

Without a definition of their own: `cmd_install`
(`cli.py:216-224`) prints "Installed" although `pull` of the Ollama adapter
swallows errors. After the `stop` of a handle `list_models` still reports the
model, and the health check of a second `serve` on the same port can be answered
by the first server. An exception that leaves `serve` while it polls leaves the
server running with no handle of it. A page of the chain filled with forgeries
hides the transactions behind it. A voucher worth more than the price is consumed whole while
receipt and ledger state the price, against "receipt == ledger == redeemed"
(`app.py:348`). A gateway that is given no spent set makes its own, so that a
voucher returned to the wallet after a timeout can be redeemed by two such
gateways. A price below half of 10^-6 rounds to "0": `select` then returns no
voucher and the empty payment is refused.

## 4. Proofs

Nothing bounds calls, keys, workers, providers, files, bids, polls, faults or
crashes in the proofs. Each theorem named `XHolds` states the property `X` of a
run. What they assume of the constants:

| Module | Assumptions |
| --- | --- |
| `Redemption` | batches are sequences over a finite set of keys (`BatchAssumption`); amounts, prices and expiry instants are natural numbers (`ValueAssumption`) |
| `Gateway` | finitely many workers, request fields of their types (`GatewayAssumption`); a request that passes validation pays the price the gateway computes for it (`PriceAssumption`) |
| `SpentStore` | finitely many files, the path names one of them at first (`StoreAssumption`) |
| `Router` | the first wallet holds no voucher twice; whose vouchers a provider accepts, which spent set it asks and what it charges are any (`RouterAssumption`); a nonce is no voucher (`NoncesAssumption`) |
| `Directory` | finitely many keys (`DirectoryAssumption`); `Nothing` is no manifest (`ManifestAssumption`) |
| `BlindCredit` | an RSA key (`BlindAssumption`) for which signing and verifying undo each other, as key generation makes them (`RsaAssumption`); an ideal full-domain hash: units of the modulus, different ones for different denominations of a serial (`HashAssumption`) |
| `AppServer` | URLs have a scheme and a host, listings are lists of entries; the file a session starts from has the types of `config.py` and holds what the handlers would have let in (`ServerAssumption`) |
| `Selection` | the fields of manifests and policies are natural numbers or absent, a provider is listed once in the registry, at most six outcomes (`SelectionAssumption`); the divisions of the static scores are exact in the unit `Scale` (`ScaleAssumption`; any finite set of manifests has such a unit) |
| `Node` | the vendors' tools print whole numbers or something that is not one; catalog entries are distinct and have a quant, numbers are natural, heads are not 0 (`NodeAssumption`) |
| `Deployment`, `Runtime` | prices and bounds are natural numbers; `Nothing` is no identifier and no bid, NaN is no number |

The theorems about the ledger carry a hypothesis on the configuration in their
statement, `OwnLedger`: no two workers write one ledger file. Without it an entry
can be erased by another worker (`LedgerAppendOnly`, section 3). The run `gateway` has such
a configuration.

*Redemption.* `NoDoubleSpend` is not inductive: it says nothing of calls in the
middle of their loops. `Ownership` is. Each call owns the rows it inserted and
has not deleted (`Owned`, between `del` and `ins` in its batch); owned rows are
in the table, every row has an owner, no row has two, and the counters agree
with the phase (`Progress`). An INSERT succeeds only on a row nobody owns; a
DELETE removes a row the call itself owns, and, as a batch has no duplicates,
only that one. A redeemed call owns its whole batch, which gives
`NoDoubleSpendHolds` and `RedeemedStaysSpentHolds`; in a quiet state only
redeemed calls and calls cut short own anything, which gives
`NothingElseLeaksHolds`. `KeepsPromiseHolds` maps the rows a call owns to what it
holds and the table to what is consumed: an INSERT is a `Consume`, a DELETE a
`GiveBack`, and a refusal has a reason, which takes that the running total is that
of the keys passed (`Tallied`) and that the clock does not run back (`ClockRead`).
`NoMutualRefusalHolds` needs more (`ContentionInv`): the total of a call is the
value of the keys it has passed (`Tallied`), a call that inserts can pay
(`SpendersPay`), and as long as there are calls that gave way to another, one
that goes on or has gone through holds a key at least as high in the common
order (`BeatenByHolder`). Once all have returned, that one was accepted.

*Gateway.* `GatewayImplementsRedemption` carries these results over to any
number of workers. `HandlerInv` bounds the phase of the redemption by the stage
of the handler: the verifying call never reaches the spend loop, and an error
other than 500 is answered only where nothing is owned, hence
`RefusedIsUnchargedHolds`. `ServiceInv` adds what the screening of a request
guarantees afterwards; with the monotonicity of the price, rounding included
(`PriceMonotone`), it gives `PaidOrHonestIsWithinQuoteHolds`: what is paid is the
price the quote was made from, and honest counts are below those of the quote. `LimiterInv` gives every
request that a worker admitted within the last window an entry of its own in the
deque, whose length bounds them (a restart empties the deque):
`RateLimitHoldsAlways`. `LedgerInv` follows an entry from the list in memory to the file: what a file holds its worker
wrote (`Written`, `Faithful`), once (`EnteredOnce`), and an answer has its entry
(`Filed`, `Stated`). `CommitInv` follows a commit that fails to a credit that
expired or to a rival that passed its own check (`BeatenAtCommit`):
`ServedIsPaidHolds`. `LedgerIsBackedHolds` is about sums: the entries of a log
belong to distinct redeemed requests (`Charged`), whose keys are disjoint by
`NoDoubleSpend`, and each of which is worth its price; lemmas about sums over
finite sets (`SumCompare`, `SumSplit`, `SumCovered`) add that up over logs and
files. `LedgerSoundHolds` puts the parts together.

*Spent-set file.* `StoreInv`: a key has at most one winner per file
(`OncePerFile`), the write lock belongs to the process that sets a file up
(`LockOfSetup`), a ready process is on a database (`ReadyOnDb`), and, as long as
constructors have not overlapped, everybody ready is on the file the path names
(`SerialStore`). `SerialStartsAreExactHolds`.

*Blind credits.* The arithmetic of residues comes first: products and powers
modulo `N` (`ModProduct`, `PowerOfProduct`), and that what is coprime to the
modulus has an inverse (`CoprimeUnit`), by descent as in Euclid's algorithm, so
that dividing by the factor gives the signature of the message itself
(`UnblindsToSignature`). Blinding by a unit is a bijection of the units:
whatever the issuer was shown, every other credit explains it with some factor
(`Explained`), which gives `UnlinkableHolds`. `Issued` relates the phase of an
issuance to the message its blind and final signatures stand for; with the
distinct hashes of denominations it gives `FaceValueHolds`. `Redeemed` says
that what is redeemed verifies and its text is spent, and that two calls past the
look-up of one text are in a race (`TextsSpent`): `RedeemedSoundlyHolds`.

*App server.* `SoundInv`: what is pinned, drafted, merged from a directory, built
into a table or saved holds trusted manifests only, under distinct keys and for
distinct endpoints (`PinnedAreGood`), however handlers overlap, fail or are cut
short. It rests on what the merge loop of a directory and the filters of removal
do to such a list (`MergeFacts`, `FoldFacts`, `GoodThose`). `SettleInv`: as long
as handlers came in turn and no save failed, the stage of the one handler says
which of memory, file, table and live model already agree with its change, and
between handlers all do. `ConfigSoundHolds`, `EachWriteIsOneChangeHolds`.

*Router and wallet.* Four invariants, each on top of the ones before.
`RequestInv`: what a chat neither waits for nor has an answer to has miscarried
(`LeftBehind`), and a provider answers 200 or 500 to what it credits
(`CreditIsAnswered`); it gives `ChargedOnceHolds` with chats side by side.
`SpentInv`: a spent set holds only what was credited.
`WalletInv`, for chats in turn: but for the statements of `select` between the
pick and the assignment, a voucher is either in the wallet or in the hand of the
one chat that runs, and what is in neither was spent or miscarried; what the
greedy pick takes and the filter leaves is proved by induction along the wallet.
`OfferInv`: what `select` returned is enough (`Enough`), so that a refusal which
is not the provider's own has its cause in a request that miscarried
(`Explained`). `WalletSoundHolds`, `PaidOnceHolds`; nothing is assumed of who
shares a spent set.

*Directory.* `LoneWriter`: as long as announcements have not overlapped, what the
one writer loaded is still the file, or nothing when it could not read it; hence
`AnnouncedIsListedHolds`. `Provenance`:
every manifest in the file, on the wire or in a transaction was signed by its
provider or does not verify. What discovery does with them is a loop
(`ThoseFacts`, `DedupeIsBest`): it keeps one manifest per key and none is fresher.
`FoundIsSignedHolds`, `FreshestOfPageHolds`.

*Selection.* `CountersInv`: counters are consistent whatever a router writes,
nobody writes more than happened (`NoneInvented`), and without overlap, failure or
a load that could not read, what a router loaded is exact (`Exact`): `CountersSoundHolds`. `RoutingInv`: the
candidates of a request are allowed by its policy, which `permits` decides by
counting failed checks (`PermittedIsAllowed`), and the choice is the first of the
fastest it saw, by induction along the insertion sort (`RankedFirst`):
`RoutedIsBestAllowedHolds`. The static ranking needs that a sorted list is
ordered, holds the same items and holds none twice (`SortFacts`, `SortOnce`), and
that the score of a provider that is no worse in any term is no lower
(`QuotientFalls`, `DominanceScores`): `RankRespectsDominanceHolds`.

*Node.* `BenchmarkInv`: while a stream is read, there is a time of the first piece
exactly when a piece was counted, and neither it nor the end is ahead of the clock
(`StreamSound`), so that a rate is shown only for content and over a time that
passed: `BenchmarkHonestHolds`. `RecommendInv`
says that a result is the value of the recommendation for the machine and the
query; the rest is about that function. What is counted as memory is what the
vendors' tools reported for the largest card, or else RAM (`LargestIsUsable`,
`MemoryFacts`);
the quant that is picked is the largest considered one that fits, or the
smallest when none does (`QuantFacts`), and the headroom that is shown is at
least 1 exactly when it fits, rounding included (`HeadroomFacts`); and of the
sorted list the first `top` are kept (`SortedRecs`, `ListFacts`), so that what is
left out is no better than what is listed. `FitIsHonestHolds`, `BestAreListedHolds`.

*Deployment.* `DeploymentInv`: a temporary file belongs to the running deploy
(`FileOfDeploy`), what exists on the network is owed to the running call, a
handle or an exception (`Accounted`), an identifier is deployed once
(`MadeOnce`), a handle that says ready has served (`ClaimsTrue`), and a manifest
is signed at the price of its handle (`SignedWithHandle`).
`NothingBehindHolds`, `ReadyIsRealHolds`. `LeasedAtLowestHolds` is an induction
along the loop of `_pick_cheapest_bid`. The comparison with NaN is no order, but
along the loop it agrees with one of weights (`LessByWeight`): a NaN weighs less
than any price if nobody before it names a seller, and more otherwise. The pick is
the first of the lightest among the bids read so far.

*Runtime.* `RuntimeInv` adds to `NoProcessOutOfReach` that a second wait follows a
SIGKILL (`KilledBeforeSecondWait`), that the adapter and its calls refer to
processes that were spawned (`RefersToSpawned`), what a stop of the adapter has
already cleared (`StopOfAdapter`), that somebody has a handle of what is stopped
or served (`Handed`), and that a serve which began with no other server alive is
the only one (`NoOtherAlive`). `NoProcessOutOfReachHolds`,
`StopStopsHolds`, `ListedIsServedHolds`.

*Induction.* Facts about loops over sequences and about sums are proved from
`NatSet`: a set of natural numbers that holds 0 and the successor of each of its
members is all of them. It follows from the well-foundedness of the natural
numbers. The set is that of the lengths, or the sizes, for which the claim holds.
The modules proved about therefore write their loops as recursive functions or
with `FoldLeft`.

**Only model-checked.** Liveness under fairness, which is out of the prover's
reach: `EveryCallReturns`, `EveryRequestAnswered`, `EveryoneSettles`,
`EveryChatEnds`, and `EveryCallEnds` of `Deployment` and of `Runtime`. Every
invariant and every action property of the passing runs, the refinement included,
is stated by a theorem. That the code disagrees with a line of its own is shown
by the counterexamples of "Known disagreements".

## 5. Plan

The modules of the plan are written, and their safety is proved. What would come
next is in the code that is modelled in part: the requests the proxy parses
itself, the pull and chat of the Ollama adapter, the probing of the CPU and the
battery (section 6 says why they were left out). A change of the code that one of
the definitions in `PROJECT.json` maps to a line is a reason to rerun its run and
its proofs.

## 6. Not modelled

* Canonical JSON, hashing, Ed25519 and the protocol documents: no state, and
  cryptography is out of reach of these tools; whether a document verifies is an
  attribute of it in every module.
* Voucher issuer: draws an id and signs; the vouchers of the models are its
  result.
* Relay, plugins, receipt verifier: forwarding, loading and a front of one
  function, without state.
* The Ollama adapter: an HTTP client without state. The local anchor: a folder
  addressed by content, which no other component reads. The context probe and
  peak memory: no command uses them.
* Server-sent events and the parsing of requests in the proxy; SDL and job files
  beyond their existence; the probing of CPU, OS and battery: formatting and
  input.
* Dashboard, desktop shell and demos: display and scripts. What the supply demo
  does to route and to record is in `Selection`.

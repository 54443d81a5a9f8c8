----------------------------- MODULE Deployment -----------------------------
(***************************************************************************)
(* External compute: a node rented on Akash or Nosana through the CLI of   *)
(* the network (adapters/provider-akash, adapters/provider-nosana,         *)
(* packages/compute).                                                      *)
(*                                                                         *)
(* A caller runs deploy, await_ready, status, teardown and                 *)
(* provider_manifest_for.  Each CLI command is one step; between two of    *)
(* them the network goes its own way.  A command can raise (non-zero exit, *)
(* time-out) or print something that does not parse, whether or not it     *)
(* took effect; an Akash transaction can also exit 0 and be rejected.      *)
(***************************************************************************)
EXTENDS Integers, Sequences, SequencesExt

CONSTANTS Jobs,      \* deployments the caller asks for
          Sellers,   \* Akash providers that bid
          Nothing,   \* no handle, no endpoint, no provider, no readable price
          NaN,       \* the price "nan", which float reads
          Open,      \* what the query may say of a bid: open or not
          Price,     \* the price in the InferenceSpec
          MaxPolls,  \* max_polls
          MaxBids    \* bound: bids on a deployment

Networks == {"akash", "nosana"}

\* What the caller holds of a deployment.
Deployments == [net : Networks, status : {"pending", "deploying", "running", "closed", "failed"},
                endpoint : {Nothing, "url"}, price : {Price}]

ASSUME DeploymentAssumption ==
    /\ Nothing \notin Jobs \cup Sellers \cup Deployments
    /\ NaN \notin Nat \cup {Nothing}
    /\ Open \subseteq BOOLEAN
    /\ Price \in Nat \ {0} /\ MaxPolls \in Nat /\ MaxBids \in Nat

VARIABLES
    job,       \* what the network knows of a deployment (external)
    handle,    \* the Deployment the caller holds, if any
    call,      \* the call that is running
    temp,      \* deployments whose SDL or job file is on disk
    deployed,  \* how deploy ended, if it has
    closed,    \* deployments teardown returned for
    served,    \* deployments whose workload has served (an observer)
    signed     \* provider manifests signed, as <<deployment, price>>

vars == <<job, handle, call, temp, deployed, closed, served, signed>>

NoCall == [op |-> "none"]
\* A call begins: its arguments, and the local variables it will set.
Begun(op, d, net, step, current) ==
    [op |-> op, id |-> d, net |-> net, step |-> step, polls |-> 0, current |-> current,
     bids |-> <<>>, pick |-> Nothing]
NoJob  == [net |-> Nothing, leased |-> FALSE, work |-> "absent"]

-----------------------------------------------------------------------------
(* Reading what the CLI prints.                                            *)

\* A bid names a seller and a price, either of which may be missing or
\* unreadable, and says whether it is still open.
Bid == [seller : Sellers \cup {Nothing}, price : (1..2) \cup {Nothing, NaN}, open : Open]

\* What says that there is no best bid yet is no bid.
ASSUME BidAssumption == Nothing \notin Bid

\* The float of a price, if it is a number: what cannot be read is infinite.
Infinity == 1000000
Amount(bid) == IF bid.price = Nothing THEN Infinity ELSE bid.price

\* The comparison of floats: nothing is less than NaN, nor NaN than anything.
Less(bid, best) == bid.price # NaN /\ best.price # NaN /\ Amount(bid) < Amount(best)

\* A plausible bug: a bid whose price cannot be read is taken for free.
UnpricedIsFree(best, bid) ==
    IF bid.seller # Nothing /\ (best = Nothing \/ bid.price = Nothing \/ Less(bid, best))
    THEN bid ELSE best

\* _pick_cheapest_bid: one turn of its loop, and the loop.  It does not look at
\* the state of a bid.
Cheaper(best, bid) ==
    IF bid.seller # Nothing /\ (best = Nothing \/ Less(bid, best)) THEN bid ELSE best
PickCheapestBid(bids) == FoldLeft(Cheaper, Nothing, bids)

\* _STATE_MAP, from what the network is doing, and _map_state: a state that is
\* not listed, or no string, keeps the status the handle had.
StateMap == [queued |-> "pending", starting |-> "deploying", ingress |-> "deploying",
             serving |-> "running", ended |-> "closed", failed |-> "failed"]
MapState(raw, old) == IF raw \in DOMAIN StateMap THEN StateMap[raw] ELSE old

IsTerminal(status) == status \in {"failed", "closed"}
IsReady(h) == h.status = "running" /\ h.endpoint # Nothing

\* What job get or lease-status may print of a job: its state and its URL are
\* there or are unreadable; Akash has no state, but a count of replicas.  The
\* URL may be printed as soon as there is an ingress, and stays printed.
Answers(j) ==
    [state : {j.work, "unknown"} \cup (IF j.work = "starting" THEN {"queued"} ELSE {})
                                 \cup (IF j.work = "ended" THEN {"failed"} ELSE {}),
     url   : {Nothing} \cup (IF j.work \in {"absent", "starting"} THEN {} ELSE {"url"})]

\* Plausible bugs: a URL is taken for a sign of life; the handle is built anew
\* and loses the price; the loop does not count.
RefreshedOnUrl(h, a) ==
    [h EXCEPT !.status = IF a.url # Nothing THEN "running" ELSE "deploying",
              !.endpoint = IF a.url # Nothing THEN a.url ELSE @]
RefreshedUnpriced(h, a) ==
    [net |-> h.net, status |-> MapState(a.state, h.status), endpoint |-> a.url, price |-> 0]

\* _extract_uri and _service_available: an ingress, and a replica behind it.
Available(a) == a.url # Nothing /\ a.state = "serving"

\* status: the handle after a poll that printed answer a.
AkashStatus(h, a) ==
    [h EXCEPT !.status = IF Available(a) THEN "running" ELSE "deploying",
              !.endpoint = IF Available(a) THEN a.url ELSE @]
NosanaStatus(h, a) ==
    [h EXCEPT !.status = MapState(a.state, @),
              !.endpoint = IF a.url # Nothing THEN a.url ELSE @]
Refreshed(h, a) == IF h.net = "akash" THEN AkashStatus(h, a) ELSE NosanaStatus(h, a)

\* deploy stamps the prices of the spec on the handle.
NewHandle(net, status, url) == [net |-> net, status |-> status, endpoint |-> url, price |-> Price]

-----------------------------------------------------------------------------
Init ==
    /\ job = [d \in Jobs |-> NoJob] /\ handle = [d \in Jobs |-> Nothing]
    /\ call = NoCall /\ temp = {} /\ closed = {} /\ served = {} /\ signed = {}
    /\ deployed = [d \in Jobs |-> "no"]

\* Plausible bug: the file is removed only when deploy returns.
EndsUnlinkingOnReturn(d, how) ==
    /\ call' = NoCall /\ temp' = IF how = "returned" THEN temp \ {d} ELSE temp
    /\ deployed' = IF call.op = "deploy" THEN [deployed EXCEPT ![d] = how] ELSE deployed

\* A call ends, by returning or by raising; deploy unlinks its file either way.
Ends(d, how) ==
    /\ call' = NoCall /\ temp' = temp \ {d}
    /\ deployed' = IF call.op = "deploy" THEN [deployed EXCEPT ![d] = how] ELSE deployed
Continues(step) == call' = [call EXCEPT !.step = step] /\ UNCHANGED <<temp, deployed>>
At(step) == call.op = "deploy" /\ call.step = step

\* What is left of a command that raised or printed garbage: it may have been
\* carried out (job becomes j) or not.
RaisesAround(d, j) == job' \in {job, [job EXCEPT ![d] = j]} /\ Ends(d, "raised")

\* build_provider and deploy up to the first command: build_sdl or
\* build_job_definition, written to a temporary file.
Deploy(d, net) ==
    /\ call = NoCall /\ deployed[d] = "no"
    /\ call' = Begun("deploy", d, net, "create", Nothing)
    /\ temp' = temp \cup {d}
    /\ UNCHANGED <<job, handle, deployed, closed, served, signed>>

\* _require_tx_ok: the transaction exits 0 with a code, and was rejected.
Rejected(d) == UNCHANGED job /\ Ends(d, "raised")

\* _extract_dseq: the deployment exists, but its dseq is in no event.
NoDseq(d, j) == job' = [job EXCEPT ![d] = j] /\ Ends(d, "raised")

\* tx deployment create.
AkashCreate(d) ==
    /\ At("create") /\ call.net = "akash"
    /\ LET created == [NoJob EXCEPT !.net = "akash"]
       IN \/ RaisesAround(d, created) \/ Rejected(d) \/ NoDseq(d, created)
          \/ job' = [job EXCEPT ![d] = created] /\ Continues("bids")
    /\ UNCHANGED <<handle, closed, served, signed>>

\* query market bid list, and the choice among the bids; a query that raises
\* ends deploy as one without bids does.
AkashBids(d, bids) ==
    /\ At("bids")
    /\ LET best == PickCheapestBid(bids)
       IN IF best = Nothing THEN Ends(d, "raised")
          ELSE call' = [call EXCEPT !.step = "lease", !.bids = bids, !.pick = best]
               /\ UNCHANGED <<temp, deployed>>
    /\ UNCHANGED <<job, handle, closed, served, signed>>

\* tx market lease create.
AkashLease(d) ==
    /\ At("lease")
    /\ LET leased == [job[d] EXCEPT !.leased = TRUE]
       IN \/ RaisesAround(d, leased) \/ Rejected(d)
          \/ job' = [job EXCEPT ![d] = leased] /\ Continues("manifest")
    /\ UNCHANGED <<handle, closed, served, signed>>

\* send-manifest: its output is not read.  The handle exists only now.
AkashManifest(d) ==
    /\ At("manifest")
    /\ LET sent == [job[d] EXCEPT !.work = "starting"]
       IN \/ RaisesAround(d, sent) /\ UNCHANGED handle
          \/ /\ job' = [job EXCEPT ![d] = sent] /\ Ends(d, "returned")
             /\ handle' = [handle EXCEPT ![d] = NewHandle("akash", "deploying", Nothing)]
    /\ UNCHANGED <<closed, served, signed>>

\* job post: it raises, prints no JSON or no job id, or gives a handle with the
\* state and the URL it printed.
NosanaPost(d) ==
    /\ At("create") /\ call.net = "nosana"
    /\ LET posted == [NoJob EXCEPT !.net = "nosana", !.work = "starting"]
       IN \/ RaisesAround(d, posted) /\ UNCHANGED handle
          \/ \E a \in Answers(posted) :
                /\ job' = [job EXCEPT ![d] = posted] /\ Ends(d, "returned")
                /\ handle' = [handle EXCEPT ![d] = NewHandle("nosana", MapState(a.state, "pending"), a.url)]
    /\ UNCHANGED <<closed, served, signed>>

\* await_ready and status, with a handle of either adapter: status is
\* await_ready without the loop.
Poll(d, op, net) ==
    /\ call = NoCall /\ handle[d] # Nothing
    /\ call' = Begun(op, d, net, "poll", handle[d])
    /\ UNCHANGED <<job, handle, temp, deployed, closed, served, signed>>

\* One status query.  The handle the caller holds changes when the call
\* returns; in the loop it is the local variable current, kept in call.
Waits(h) == /\ call.op = "await" /\ ~IsReady(h) /\ ~IsTerminal(h.status)
            /\ call.polls < MaxPolls
AnswerUncounted(d, a) ==
    /\ call.op \in {"await", "status"} /\ call.id = d /\ call.net = handle[d].net
    /\ LET h == Refreshed(call.current, a)
       IN IF Waits(h) THEN call' = [call EXCEPT !.current = h] /\ UNCHANGED <<handle, temp, deployed>>
          ELSE Ends(d, "returned") /\ handle' = [handle EXCEPT ![d] = h]
    /\ UNCHANGED <<job, closed, served, signed>>
Answer(d, a) ==
    /\ call.op \in {"await", "status"} /\ call.id = d /\ call.net = handle[d].net
    /\ LET h == Refreshed(call.current, a)
       IN IF Waits(h)
          THEN /\ call' = [call EXCEPT !.current = h, !.polls = @ + 1]
               /\ UNCHANGED <<handle, temp, deployed>>
          ELSE Ends(d, "returned") /\ handle' = [handle EXCEPT ![d] = h]
    /\ UNCHANGED <<job, closed, served, signed>>

\* The query raises or prints no JSON, or the handle is the other adapter's
\* (_lease_coordinates): the call raises and the caller's handle is as it was.
PollRaises(d) ==
    /\ call.op \in {"await", "status"} /\ call.id = d
    /\ Ends(d, "raised")
    /\ UNCHANGED <<job, handle, closed, served, signed>>

\* teardown: the command raises, or it exits 0 and teardown returns.  An Akash
\* transaction that exits 0 may have been rejected; its code is not read.
Ended(d) == [job EXCEPT ![d].work = "ended"]
TeardownRaises(d) == job' \in {job, Ended(d)} /\ UNCHANGED closed
AkashTeardown(d) == /\ handle[d].net = "akash"
                    /\ job' \in {job, Ended(d)} /\ closed' = closed \cup {d}
NosanaTeardown(d) == /\ handle[d].net = "nosana"
                     /\ job' = Ended(d) /\ closed' = closed \cup {d}
Teardown(d) ==
    /\ call = NoCall /\ handle[d] # Nothing /\ d \notin closed
    /\ TeardownRaises(d) \/ AkashTeardown(d) \/ NosanaTeardown(d)
    /\ UNCHANGED <<handle, call, temp, deployed, served, signed>>

\* provider_manifest_for refuses a handle without an endpoint.
Manifest(d) ==
    /\ call = NoCall /\ handle[d] # Nothing /\ handle[d].endpoint # Nothing
    /\ signed' = signed \cup {<<d, handle[d].price>>}
    /\ UNCHANGED <<job, handle, call, temp, deployed, closed, served>>

\* The network: a workload comes up, its ingress before it serves; it may be
\* restarted, and it may end.
NetworkStep(d, work) ==
    /\ <<job[d].work, work>> \in {<<"starting", "ingress">>, <<"ingress", "serving">>,
                                  <<"serving", "ingress">>, <<"starting", "ended">>,
                                  <<"ingress", "ended">>, <<"serving", "ended">>}
    /\ job' = [job EXCEPT ![d].work = work]
    /\ served' = IF work = "serving" THEN served \cup {d} ELSE served
    /\ UNCHANGED <<handle, call, temp, deployed, closed, signed>>

CallStep(d) ==
    \/ AkashCreate(d) \/ AkashLease(d) \/ AkashManifest(d) \/ NosanaPost(d)
    \/ \E bids \in BoundedSeq(Bid, MaxBids) : AkashBids(d, bids)
    \/ \E a \in Answers(job[d]) : Answer(d, a)
    \/ PollRaises(d)
Running(d) == call # NoCall /\ call.id = d /\ CallStep(d)

Next ==
    \E d \in Jobs :
        \/ Running(d)
        \/ \E net \in Networks : Deploy(d, net) \/ Poll(d, "await", net) \/ Poll(d, "status", net)
        \/ Teardown(d) \/ Manifest(d)
        \/ \E work \in {"ingress", "serving", "ended"} : NetworkStep(d, work)

\* Every CLI command ends: the runner gives it a time-out.
Fairness == \A d \in Jobs : WF_vars(Running(d))
Spec == Init /\ [][Next]_vars /\ Fairness

-----------------------------------------------------------------------------
(* Properties.                                                             *)

\* Between calls, deploy has left no SDL or job file behind, whichever command
\* raised, and whatever exists on the network is in a handle the caller can
\* tear down or belongs to a deploy that raised.
NothingBehind ==
    call = NoCall =>
        /\ temp = {}
        /\ \A d \in Jobs : job[d] # NoJob => handle[d] # Nothing \/ deployed[d] = "raised"

\* The lease goes to the first of the cheapest bids that name a seller and whose
\* price is a number or cannot be read, which counts as dearest; but if the
\* first bid that names a seller has the price NaN, it goes to that one.
LeasedAtLowest ==
    call # NoCall /\ call.pick # Nothing =>
        LET bids   == call.bids
            named  == {i \in DOMAIN bids : bids[i].seller # Nothing}
            priced == {i \in named : bids[i].price # NaN}
            Earliest(i) == \A j \in named : i <= j
        IN \E i \in named :
               /\ call.pick = bids[i]
               /\ IF \E f \in named \ priced : Earliest(f) THEN Earliest(i)
                  ELSE i \in priced /\ \A j \in priced :
                           \/ Amount(bids[i]) < Amount(bids[j])
                           \/ Amount(bids[i]) = Amount(bids[j]) /\ i <= j

\* What _pick_cheapest_bid says of itself: it returns "the provider address of
\* the cheapest open bid".
LeasedIsCheapestOpen ==
    call # NoCall /\ call.pick # Nothing =>
        call.pick.open /\ \A bid \in Range(call.bids) :
                              bid.open /\ bid.seller # Nothing => ~Less(bid, call.pick)

\* A handle is ready only if its workload has served, however the polls fell
\* between the steps of the network and whatever they could not read.
ReadyHasServed == \A d \in Jobs : handle[d] # Nothing /\ IsReady(handle[d]) => d \in served

\* A manifest advertises the price the node was deployed to charge, however
\* often the handle was refreshed, and on Akash only a node that has served.
AdvertisedAsDeployed ==
    \A s \in signed : s[2] = Price /\ (handle[s[1]].net = "akash" => s[1] \in served)

\* What the polls of status and await_ready make of a deployment is true of it:
\* ready means served, and a manifest is signed for that, at the deployed price.
ReadyIsReal == ReadyHasServed /\ AdvertisedAsDeployed

\* Every call ends, await_ready too when the workload never comes up.
EveryCallEnds == (call # NoCall) ~> (call = NoCall)

\* What teardown says of itself: it closes the deployment, "ending billing and
\* releasing the lease".
TornDownIsClosed == \A d \in closed : job[d].work = "ended"
=============================================================================

-------------------------- MODULE DeploymentProofs --------------------------
(***************************************************************************)
(* Proofs about Deployment, for any number of deployments, bids and polls: *)
(* what a deploy leaves behind, that a handle which is ready, or was       *)
(* advertised, belongs to a workload that has served, and which of the     *)
(* bids is leased.                                                         *)
(***************************************************************************)
EXTENDS Deployment, WellFoundedInduction, TLAPS

-----------------------------------------------------------------------------
(* The inductive invariant.                                                *)

Works == {"absent", "starting", "ingress", "serving", "ended"}
JobRecord == [net : Networks \cup {Nothing}, leased : BOOLEAN, work : Works]
CallFields == {"op", "id", "net", "step", "polls", "current", "bids", "pick"}

\* The running call has its fields, and concerns a deployment that exists.
CallOK ==
    call # NoCall =>
        /\ DOMAIN call = CallFields
        /\ call.op \in {"deploy", "await", "status"} /\ call.id \in Jobs
        /\ call.op # "deploy" => call.current \in Deployments

\* Every variable has its type.
TypeOK ==
    /\ job \in [Jobs -> JobRecord]
    /\ handle \in [Jobs -> Deployments \cup {Nothing}]
    /\ deployed \in [Jobs -> {"no", "returned", "raised"}]
    /\ served \subseteq Jobs
    /\ CallOK

\* deploy runs for d.
Deploying(d) == call # NoCall /\ call.op = "deploy" /\ call.id = d

\* The temporary file is there while its deploy runs, and only then.
FileOfDeploy == temp = {d \in Jobs : Deploying(d)}

\* Whatever exists has a handle, a deploy that runs, or one that raised.
Accounted ==
    \A d \in Jobs : job[d] # NoJob =>
        handle[d] # Nothing \/ deployed[d] = "raised" \/ Deploying(d)

\* A deployment is made once: while deploy runs it has not ended, and there is
\* no handle before it has; the other calls have one.
MadeOnce ==
    /\ \A d \in Jobs : deployed[d] = "no" => handle[d] = Nothing
    /\ \A d \in Jobs : Deploying(d) => deployed[d] = "no"
    /\ call # NoCall /\ call.op # "deploy" => handle[call.id] # Nothing

\* What a handle h of d claims has happened.
Claims(h, d) ==
    /\ h.status = "running" => d \in served
    /\ h.net = "akash" /\ h.endpoint # Nothing => d \in served

\* The claims of handles, and of the local variable of await_ready, are true.
ClaimsTrue ==
    /\ \A d \in Jobs : job[d].work = "serving" => d \in served
    /\ \A d \in Jobs : handle[d] # Nothing => Claims(handle[d], d)
    /\ call # NoCall /\ call.op # "deploy" =>
           Claims(call.current, call.id) /\ call.current.net = handle[call.id].net

\* Manifests are signed with a handle that claims to have an endpoint.
SignedWithHandle ==
    \A s \in signed : /\ s[1] \in Jobs /\ s[2] = Price /\ handle[s[1]] # Nothing
                      /\ handle[s[1]].net = "akash" => s[1] \in served

DeploymentInv ==
    TypeOK /\ FileOfDeploy /\ Accounted /\ MadeOnce /\ ClaimsTrue /\ SignedWithHandle

\* NoCall is no call.
LEMMA CallIsNone == NoCall.op = "none"
BY DEF NoCall

\* Nothing has been deployed at the start.
LEMMA InitDeployment == Init => DeploymentInv
<1> SUFFICES ASSUME Init PROVE DeploymentInv
  OBVIOUS
<1>1. NoJob \in JobRecord /\ NoJob.work = "absent"
  BY DEF NoJob, JobRecord, Works
<1>2. TypeOK
  BY <1>1 DEF Init, TypeOK, CallOK
<1>3. FileOfDeploy /\ Accounted /\ MadeOnce /\ SignedWithHandle
  BY DEF Init, FileOfDeploy, Accounted, MadeOnce, SignedWithHandle, Deploying
<1>4. ClaimsTrue
  BY <1>1 DEF Init, ClaimsTrue
<1> QED
  BY <1>2, <1>3, <1>4 DEF DeploymentInv

\* The answer to a status query of a job says it serves only if it does.
LEMMA AnswerTrue ==
    ASSUME NEW j \in JobRecord, NEW a \in Answers(j)
    PROVE  /\ a.state = "serving" => j.work = "serving"
           /\ a.url \in {Nothing, "url"}
           /\ a.url # Nothing => j.work \notin {"absent", "starting"}
BY DEF Answers, JobRecord, Works

\* _map_state gives a status, and "running" only for a job that serves or a
\* handle that was running.
LEMMA MapStateFacts ==
    ASSUME NEW raw, NEW old \in {"pending", "deploying", "running", "closed", "failed"}
    PROVE  /\ MapState(raw, old) \in {"pending", "deploying", "running", "closed", "failed"}
           /\ MapState(raw, old) = "running" => raw = "serving" \/ old = "running"
<1>1. CASE raw \in DOMAIN StateMap
  <2>1. raw \in {"queued", "starting", "ingress", "serving", "ended", "failed"}
    BY <1>1 DEF StateMap
  <2> QED
    BY <1>1, <2>1 DEF MapState, StateMap
<1>2. CASE raw \notin DOMAIN StateMap
  BY <1>2 DEF MapState
<1> QED
  BY <1>1, <1>2

\* A poll refreshes a handle to one of the same network and price whose claims
\* are true.
LEMMA RefreshedFacts ==
    ASSUME NEW d \in Jobs, NEW h \in Deployments, NEW j \in JobRecord, NEW a \in Answers(j),
           Claims(h, d), j.work = "serving" => d \in served
    PROVE  /\ Refreshed(h, a) \in Deployments
           /\ Refreshed(h, a).net = h.net
           /\ Claims(Refreshed(h, a), d)
<1>1. CASE h.net = "akash"
  BY <1>1, AnswerTrue DEF Refreshed, AkashStatus, Available, Deployments, Claims
<1>2. CASE h.net # "akash"
  <2>1. /\ MapState(a.state, h.status) \in {"pending", "deploying", "running", "closed", "failed"}
        /\ MapState(a.state, h.status) = "running" => a.state = "serving" \/ h.status = "running"
    BY MapStateFacts DEF Deployments
  <2>2. Refreshed(h, a) = [h EXCEPT !.status = MapState(a.state, h.status),
                                    !.endpoint = IF a.url # Nothing THEN a.url ELSE h.endpoint]
    BY <1>2 DEF Refreshed, NosanaStatus, Deployments
  <2> QED
    BY <1>2, <2>1, <2>2, AnswerTrue DEF Deployments, Claims
<1> QED
  BY <1>1, <1>2

\* The network changes one job, to one that serves only if that is observed.
JobBecomes(d, j) == job' = [job EXCEPT ![d] = j] /\ j \in JobRecord /\ (j.work = "serving" => d \in served)

\* deploy of d raises, whatever it has done to the job.
LEMMA DeployRaises ==
    ASSUME DeploymentInv, NEW d \in Jobs, Deploying(d), Ends(d, "raised"),
           NEW j, JobBecomes(d, j), UNCHANGED <<handle, served, signed>>
    PROVE  DeploymentInv'
<1>0. /\ call' = NoCall /\ temp' = temp \ {d} /\ deployed' = [deployed EXCEPT ![d] = "raised"]
      /\ \A e \in Jobs : Deploying(e) <=> e = d
      /\ \A e \in Jobs : ~Deploying(e)'
      /\ \A e \in Jobs : deployed'[e] = IF e = d THEN "raised" ELSE deployed[e]
      /\ \A e \in Jobs : job'[e] = IF e = d THEN j ELSE job[e]
  BY DEF Ends, Deploying, DeploymentInv, TypeOK, JobBecomes
<1>1. TypeOK'
  BY <1>0 DEF DeploymentInv, TypeOK, CallOK, JobBecomes
<1>2. FileOfDeploy' /\ Accounted' /\ MadeOnce'
  BY <1>0 DEF DeploymentInv, FileOfDeploy, Accounted, MadeOnce
<1>3. ClaimsTrue'
  BY <1>0 DEF DeploymentInv, ClaimsTrue, Claims, JobBecomes
<1>4. SignedWithHandle'
  BY DEF DeploymentInv, SignedWithHandle
<1> QED
  BY <1>1, <1>2, <1>3, <1>4 DEF DeploymentInv

\* deploy of d returns a handle whose claims are true.
LEMMA DeployReturns ==
    ASSUME DeploymentInv, NEW d \in Jobs, Deploying(d), Ends(d, "returned"),
           NEW j, JobBecomes(d, j), NEW h \in Deployments, Claims(h, d),
           handle' = [handle EXCEPT ![d] = h], UNCHANGED <<served, signed>>
    PROVE  DeploymentInv'
<1>0. /\ call' = NoCall /\ temp' = temp \ {d} /\ deployed' = [deployed EXCEPT ![d] = "returned"]
      /\ \A e \in Jobs : Deploying(e) <=> e = d
      /\ \A e \in Jobs : ~Deploying(e)'
      /\ \A e \in Jobs : deployed'[e] = IF e = d THEN "returned" ELSE deployed[e]
      /\ \A e \in Jobs : job'[e] = IF e = d THEN j ELSE job[e]
      /\ \A e \in Jobs : handle'[e] = IF e = d THEN h ELSE handle[e]
      /\ h # Nothing /\ handle[d] = Nothing
  BY DeploymentAssumption DEF Ends, Deploying, DeploymentInv, TypeOK, JobBecomes, MadeOnce
<1>1. TypeOK'
  BY <1>0 DEF DeploymentInv, TypeOK, CallOK, JobBecomes
<1>2. FileOfDeploy' /\ Accounted' /\ MadeOnce'
  BY <1>0 DEF DeploymentInv, FileOfDeploy, Accounted, MadeOnce
<1>3. ClaimsTrue'
  BY <1>0 DEF DeploymentInv, ClaimsTrue, Claims, JobBecomes
<1>4. SignedWithHandle'
  BY <1>0 DEF DeploymentInv, SignedWithHandle
<1> QED
  BY <1>1, <1>2, <1>3, <1>4 DEF DeploymentInv

\* deploy of d goes on with its next command.
LEMMA DeployGoesOn ==
    ASSUME DeploymentInv, NEW d \in Jobs, Deploying(d), NEW j, JobBecomes(d, j),
           DOMAIN call' = CallFields,
           call'.op = "deploy", call'.id = d,
           UNCHANGED <<temp, deployed, handle, served, signed>>
    PROVE  DeploymentInv'
<1>0. /\ call' # NoCall
      /\ \A e \in Jobs : Deploying(e)' <=> Deploying(e)
      /\ \A e \in Jobs : job'[e] = IF e = d THEN j ELSE job[e]
  BY CallIsNone DEF Deploying, DeploymentInv, TypeOK, JobBecomes
<1>1. TypeOK'
  BY <1>0 DEF DeploymentInv, TypeOK, CallOK, JobBecomes
<1>2. FileOfDeploy' /\ Accounted' /\ MadeOnce'
  BY <1>0 DEF DeploymentInv, FileOfDeploy, Accounted, MadeOnce
<1>3. ClaimsTrue'
  BY <1>0 DEF DeploymentInv, ClaimsTrue, Claims, JobBecomes
<1>4. SignedWithHandle'
  BY DEF DeploymentInv, SignedWithHandle
<1> QED
  BY <1>1, <1>2, <1>3, <1>4 DEF DeploymentInv

\* A command that raised, or was rejected, ends deploy with the invariant intact.
LEMMA CommandFails ==
    ASSUME DeploymentInv, NEW d \in Jobs, Deploying(d),
           NEW j \in JobRecord, j.work = "serving" => d \in served,
           RaisesAround(d, j) \/ Rejected(d) \/ NoDseq(d, j),
           UNCHANGED <<handle, served, signed>>
    PROVE  DeploymentInv'
<1>1. job = [job EXCEPT ![d] = job[d]] /\ job[d] \in JobRecord
  BY DEF DeploymentInv, TypeOK
<1>2. job[d].work = "serving" => d \in served
  BY DEF DeploymentInv, ClaimsTrue
<1>3. Ends(d, "raised")
  BY DEF RaisesAround, Rejected, NoDseq
<1>4. job' = job \/ job' = [job EXCEPT ![d] = j]
  BY DEF RaisesAround, Rejected, NoDseq
<1>5. JobBecomes(d, job[d]) \/ JobBecomes(d, j)
  BY <1>1, <1>2, <1>4 DEF JobBecomes
<1> QED
  BY <1>3, <1>5, DeployRaises

\* The commands of deploy on Akash.
LEMMA AkashStep ==
    ASSUME DeploymentInv, NEW d \in Jobs, call # NoCall, call.id = d,
           \/ AkashCreate(d) \/ AkashLease(d) \/ AkashManifest(d)
           \/ \E bids \in BoundedSeq(Bid, MaxBids) : AkashBids(d, bids)
    PROVE  DeploymentInv'
<1>0. Deploying(d) /\ DOMAIN call = CallFields
  BY DEF Deploying, AkashCreate, AkashLease, AkashManifest, AkashBids, At, DeploymentInv, TypeOK, CallOK
<1>1. /\ job[d] \in JobRecord /\ (job[d].work = "serving" => d \in served)
      /\ job = [job EXCEPT ![d] = job[d]]
  BY DEF DeploymentInv, TypeOK, ClaimsTrue
<1>2. ASSUME NEW step, Continues(step)
      PROVE  /\ DOMAIN call' = CallFields
             /\ call'.op = "deploy" /\ call'.id = d /\ UNCHANGED <<temp, deployed>>
  BY <1>0, <1>2 DEF Continues, Deploying, CallFields
<1>3. CASE AkashCreate(d)
  <2> DEFINE created == [NoJob EXCEPT !.net = "akash"]
  <2>1. created \in JobRecord /\ created.work = "absent"
    BY DEF NoJob, JobRecord, Works, Networks
  <2>2. CASE RaisesAround(d, created) \/ Rejected(d) \/ NoDseq(d, created)
    BY <1>0, <1>3, <2>1, <2>2, CommandFails DEF AkashCreate
  <2>3. CASE job' = [job EXCEPT ![d] = created] /\ Continues("bids")
    <3>1. JobBecomes(d, created)
      BY <2>1, <2>3 DEF JobBecomes
    <3> QED
      BY <1>0, <1>2, <1>3, <2>3, <3>1, DeployGoesOn DEF AkashCreate
  <2> QED
    BY <1>3, <2>2, <2>3 DEF AkashCreate
<1>4. ASSUME NEW bids \in BoundedSeq(Bid, MaxBids), AkashBids(d, bids)
      PROVE  DeploymentInv'
  <2>0. JobBecomes(d, job[d]) /\ UNCHANGED <<handle, served, signed>>
    BY <1>1, <1>4 DEF JobBecomes, AkashBids
  <2>1. CASE PickCheapestBid(bids) = Nothing
    BY <1>0, <1>4, <2>0, <2>1, DeployRaises DEF AkashBids
  <2>2. CASE PickCheapestBid(bids) # Nothing
    <3>1. /\ call' = [call EXCEPT !.step = "lease", !.bids = bids, !.pick = PickCheapestBid(bids)]
          /\ UNCHANGED <<temp, deployed>>
      BY <1>4, <2>2 DEF AkashBids
    <3>2. /\ DOMAIN call' = CallFields
          /\ call'.op = "deploy" /\ call'.id = d
      BY <1>0, <3>1 DEF CallFields, Deploying
    <3> QED
      BY <1>0, <2>0, <3>1, <3>2, DeployGoesOn
  <2> QED
    BY <2>1, <2>2
<1>5. CASE AkashLease(d)
  <2> DEFINE leased == [job[d] EXCEPT !.leased = TRUE]
  <2>1. leased \in JobRecord /\ leased.work = job[d].work
    BY <1>1 DEF JobRecord
  <2>2. CASE RaisesAround(d, leased) \/ Rejected(d)
    BY <1>0, <1>1, <1>5, <2>1, <2>2, CommandFails DEF AkashLease
  <2>3. CASE job' = [job EXCEPT ![d] = leased] /\ Continues("manifest")
    <3>1. JobBecomes(d, leased)
      BY <1>1, <2>1, <2>3 DEF JobBecomes
    <3> QED
      BY <1>0, <1>2, <1>5, <2>3, <3>1, DeployGoesOn DEF AkashLease
  <2> QED
    BY <1>5, <2>2, <2>3 DEF AkashLease
<1>6. CASE AkashManifest(d)
  <2> DEFINE sent == [job[d] EXCEPT !.work = "starting"]
             h == NewHandle("akash", "deploying", Nothing)
  <2>1. sent \in JobRecord /\ sent.work = "starting"
    BY <1>1 DEF JobRecord, Works
  <2>2. CASE RaisesAround(d, sent) /\ UNCHANGED handle
    BY <1>0, <1>6, <2>1, <2>2, CommandFails DEF AkashManifest
  <2>3. CASE /\ job' = [job EXCEPT ![d] = sent] /\ Ends(d, "returned")
             /\ handle' = [handle EXCEPT ![d] = h]
    <3>1. JobBecomes(d, sent)
      BY <2>1, <2>3 DEF JobBecomes
    <3>2. h \in Deployments /\ Claims(h, d)
      BY DEF NewHandle, Deployments, Networks, Claims
    <3> QED
      BY <1>0, <1>6, <2>3, <3>1, <3>2, DeployReturns DEF AkashManifest
  <2> QED
    BY <1>6, <2>2, <2>3 DEF AkashManifest
<1> QED
  BY <1>3, <1>4, <1>5, <1>6

\* The one command of deploy on Nosana.
LEMMA NosanaStep ==
    ASSUME DeploymentInv, NEW d \in Jobs, call # NoCall, call.id = d, NosanaPost(d)
    PROVE  DeploymentInv'
<1> DEFINE posted == [NoJob EXCEPT !.net = "nosana", !.work = "starting"]
<1>0. Deploying(d)
  BY DEF Deploying, NosanaPost, At
<1>1. posted \in JobRecord /\ posted.work = "starting"
  BY DEF NoJob, JobRecord, Works, Networks
<1>2. CASE RaisesAround(d, posted) /\ UNCHANGED handle
  BY <1>0, <1>1, <1>2, CommandFails DEF NosanaPost
<1>3. ASSUME NEW a \in Answers(posted),
             job' = [job EXCEPT ![d] = posted], Ends(d, "returned"),
             handle' = [handle EXCEPT ![d] = NewHandle("nosana", MapState(a.state, "pending"), a.url)]
      PROVE  DeploymentInv'
  <2> DEFINE h == NewHandle("nosana", MapState(a.state, "pending"), a.url)
  <2>1. JobBecomes(d, posted)
    BY <1>1, <1>3 DEF JobBecomes
  <2>2. a.state # "serving" /\ a.url \in {Nothing, "url"}
    BY <1>1, AnswerTrue
  <2>3. /\ MapState(a.state, "pending") \in {"pending", "deploying", "running", "closed", "failed"}
        /\ MapState(a.state, "pending") # "running"
    BY <2>2, MapStateFacts
  <2>4. h \in Deployments /\ Claims(h, d)
    BY <2>2, <2>3 DEF NewHandle, Deployments, Networks, Claims
  <2> QED
    BY <1>0, <1>3, <2>1, <2>4, DeployReturns DEF NosanaPost
<1> QED
  BY <1>2, <1>3 DEF NosanaPost

\* A call to deploy, await_ready or status begins.
LEMMA CallBegins ==
    ASSUME DeploymentInv, NEW d \in Jobs, NEW net \in Networks,
           Deploy(d, net) \/ Poll(d, "await", net) \/ Poll(d, "status", net)
    PROVE  DeploymentInv'
<1>0. /\ DOMAIN call' = CallFields /\ call'.id = d /\ call' # NoCall /\ call = NoCall
      /\ UNCHANGED <<job, handle, deployed, served, signed>>
      /\ \A e \in Jobs : ~Deploying(e)
  BY DEF Deploy, Poll, Begun, CallFields, NoCall, Deploying
<1>1. CASE Deploy(d, net)
  <2>1. call'.op = "deploy" /\ temp' = temp \cup {d} /\ deployed[d] = "no"
    BY <1>1 DEF Deploy, Begun
  <2>2. \A e \in Jobs : Deploying(e)' <=> e = d
    BY <1>0, <2>1 DEF Deploying
  <2>3. TypeOK'
    BY <1>0, <2>1 DEF DeploymentInv, TypeOK, CallOK
  <2>4. FileOfDeploy' /\ Accounted' /\ MadeOnce'
    BY <1>0, <2>1, <2>2 DEF DeploymentInv, FileOfDeploy, Accounted, MadeOnce
  <2>5. ClaimsTrue' /\ SignedWithHandle'
    BY <1>0, <2>1 DEF DeploymentInv, ClaimsTrue, SignedWithHandle, Claims
  <2> QED
    BY <2>3, <2>4, <2>5 DEF DeploymentInv
<1>2. CASE Poll(d, "await", net) \/ Poll(d, "status", net)
  <2>1. /\ call'.op \in {"await", "status"} /\ call'.current = handle[d] /\ handle[d] # Nothing
        /\ temp' = temp
    BY <1>2 DEF Poll, Begun
  <2>2. \A e \in Jobs : ~Deploying(e)'
    BY <2>1 DEF Deploying
  <2>3. TypeOK'
    BY <1>0, <2>1 DEF DeploymentInv, TypeOK, CallOK
  <2>4. FileOfDeploy' /\ Accounted' /\ MadeOnce'
    BY <1>0, <2>1, <2>2 DEF DeploymentInv, FileOfDeploy, Accounted, MadeOnce
  <2>5. ClaimsTrue' /\ SignedWithHandle'
    BY <1>0, <2>1 DEF DeploymentInv, ClaimsTrue, SignedWithHandle, Claims
  <2> QED
    BY <2>3, <2>4, <2>5 DEF DeploymentInv
<1> QED
  BY <1>1, <1>2

\* A status query prints an answer, or the call raises.
LEMMA PollStep ==
    ASSUME DeploymentInv, NEW d \in Jobs, call # NoCall, call.id = d,
           (\E a \in Answers(job[d]) : Answer(d, a)) \/ PollRaises(d)
    PROVE  DeploymentInv'
<1>0. /\ call.op \in {"await", "status"} /\ call.current \in Deployments /\ DOMAIN call = CallFields
      /\ handle[d] # Nothing /\ job[d] \in JobRecord
      /\ Claims(call.current, d) /\ call.current.net = handle[d].net
      /\ job[d].work = "serving" => d \in served
  BY DEF Answer, PollRaises, DeploymentInv, TypeOK, CallOK, MadeOnce, ClaimsTrue
<1>1. /\ \A e \in Jobs : ~Deploying(e)
      /\ UNCHANGED <<job, served, signed>>
  BY <1>0 DEF Deploying, Answer, PollRaises
<1>2. temp = {}
  BY <1>1 DEF DeploymentInv, FileOfDeploy
<1>3. CASE PollRaises(d)
  <2>1. call' = NoCall /\ temp' = {} /\ UNCHANGED <<deployed, handle>>
    BY <1>0, <1>2, <1>3 DEF PollRaises, Ends
  <2>2. \A e \in Jobs : ~Deploying(e)'
    BY <2>1 DEF Deploying
  <2>3. TypeOK'
    BY <1>1, <2>1 DEF DeploymentInv, TypeOK, CallOK
  <2>4. FileOfDeploy' /\ Accounted' /\ MadeOnce'
    BY <1>1, <2>1, <2>2 DEF DeploymentInv, FileOfDeploy, Accounted, MadeOnce
  <2>5. ClaimsTrue' /\ SignedWithHandle'
    BY <1>1, <2>1 DEF DeploymentInv, ClaimsTrue, SignedWithHandle, Claims
  <2> QED
    BY <2>3, <2>4, <2>5 DEF DeploymentInv
<1>4. ASSUME NEW a \in Answers(job[d]), Answer(d, a)
      PROVE  DeploymentInv'
  <2> DEFINE h == Refreshed(call.current, a)
  <2>1. h \in Deployments /\ h.net = handle[d].net /\ Claims(h, d) /\ h # Nothing
    BY <1>0, RefreshedFacts, DeploymentAssumption
  <2> HIDE DEF h
  <2>2. CASE Waits(h)
    <3>1. /\ call' = [call EXCEPT !.current = h, !.polls = @ + 1]
          /\ UNCHANGED <<handle, temp, deployed>>
      BY <1>4, <2>2 DEF Answer, h
    <3>2. /\ DOMAIN call' = CallFields /\ call'.op = call.op /\ call'.id = d /\ call'.current = h
          /\ call' # NoCall
      BY <1>0, <3>1, CallIsNone DEF CallFields
    <3>3. \A e \in Jobs : ~Deploying(e)'
      BY <1>0, <3>2 DEF Deploying
    <3>4. TypeOK'
      BY <1>0, <1>1, <2>1, <3>1, <3>2 DEF DeploymentInv, TypeOK, CallOK
    <3>5. FileOfDeploy' /\ Accounted' /\ MadeOnce'
      BY <1>0, <1>1, <1>2, <3>1, <3>2, <3>3 DEF DeploymentInv, FileOfDeploy, Accounted, MadeOnce
    <3>6. ClaimsTrue' /\ SignedWithHandle'
      BY <1>1, <2>1, <3>1, <3>2 DEF DeploymentInv, ClaimsTrue, SignedWithHandle, Claims
    <3> QED
      BY <3>4, <3>5, <3>6 DEF DeploymentInv
  <2>3. CASE ~Waits(h)
    <3>1. /\ call' = NoCall /\ temp' = {} /\ UNCHANGED deployed
          /\ handle' = [handle EXCEPT ![d] = h]
      BY <1>0, <1>2, <1>4, <2>3 DEF Answer, Ends, h
    <3>2. \A e \in Jobs : ~Deploying(e)' /\ handle'[e] = IF e = d THEN h ELSE handle[e]
      BY <3>1 DEF Deploying, DeploymentInv, TypeOK
    <3>3. TypeOK'
      BY <1>1, <2>1, <3>1 DEF DeploymentInv, TypeOK, CallOK
    <3>4. FileOfDeploy' /\ Accounted' /\ MadeOnce'
      BY <1>0, <1>1, <2>1, <3>1, <3>2 DEF DeploymentInv, FileOfDeploy, Accounted, MadeOnce
    <3>5. ClaimsTrue' /\ SignedWithHandle'
      BY <1>1, <2>1, <3>1, <3>2 DEF DeploymentInv, ClaimsTrue, SignedWithHandle, Claims
    <3> QED
      BY <3>3, <3>4, <3>5 DEF DeploymentInv
  <2> QED
    BY <2>2, <2>3
<1> QED
  BY <1>3, <1>4

\* The workload of a job that exists goes on or ends, by itself or by teardown.
LEMMA WorkChanges ==
    ASSUME DeploymentInv, NEW d \in Jobs, NEW work \in Works,
           job[d] # NoJob, job' = [job EXCEPT ![d].work = work],
           served' = IF work = "serving" THEN served \cup {d} ELSE served,
           UNCHANGED <<handle, call, temp, deployed, signed>>
    PROVE  DeploymentInv'
<1>0. /\ \A e \in Jobs : Deploying(e)' <=> Deploying(e)
      /\ \A e \in Jobs : e # d => job'[e] = job[e]
      /\ job'[d].work = work /\ served \subseteq served'
      /\ work = "serving" => d \in served'
  BY DEF Deploying, DeploymentInv, TypeOK, JobRecord
<1>1. TypeOK'
  BY DEF DeploymentInv, TypeOK, CallOK, JobRecord
<1>2. FileOfDeploy' /\ Accounted' /\ MadeOnce'
  BY <1>0 DEF DeploymentInv, FileOfDeploy, Accounted, MadeOnce
<1>3. ClaimsTrue'
  BY <1>0 DEF DeploymentInv, ClaimsTrue, Claims
<1>4. SignedWithHandle'
  BY <1>0 DEF DeploymentInv, SignedWithHandle
<1> QED
  BY <1>1, <1>2, <1>3, <1>4 DEF DeploymentInv

\* teardown, provider_manifest_for and the network.
LEMMA OutsideStep ==
    ASSUME DeploymentInv, NEW d \in Jobs,
           \/ Teardown(d) \/ Manifest(d)
           \/ \E work \in {"ingress", "serving", "ended"} : NetworkStep(d, work)
    PROVE  DeploymentInv'
<1>0. NoJob.work = "absent" /\ "ended" \in Works
  BY DEF NoJob, Works
<1>1. CASE Teardown(d)
  <2>1. /\ job' = job \/ job' = Ended(d)
        /\ handle[d] # Nothing
        /\ UNCHANGED <<handle, call, temp, deployed, served, signed>>
    BY <1>1 DEF Teardown, TeardownRaises, AkashTeardown, NosanaTeardown
  <2>2. CASE job' = job
    BY <2>1, <2>2 DEF DeploymentInv, TypeOK, CallOK, FileOfDeploy, Accounted, MadeOnce, ClaimsTrue,
                      Claims, SignedWithHandle, Deploying
  <2>3. CASE job' = Ended(d)
    <3>1. /\ \A e \in Jobs : Deploying(e)' <=> Deploying(e)
          /\ \A e \in Jobs : e # d => job'[e] = job[e]
          /\ job'[d].work = "ended"
      BY <2>1, <2>3 DEF Deploying, DeploymentInv, TypeOK, JobRecord, Ended
    <3>2. TypeOK'
      BY <1>0, <2>1, <2>3 DEF DeploymentInv, TypeOK, CallOK, JobRecord, Ended
    <3>3. FileOfDeploy' /\ Accounted' /\ MadeOnce'
      BY <2>1, <3>1 DEF DeploymentInv, FileOfDeploy, Accounted, MadeOnce
    <3>4. ClaimsTrue' /\ SignedWithHandle'
      BY <2>1, <3>1 DEF DeploymentInv, ClaimsTrue, Claims, SignedWithHandle
    <3> QED
      BY <3>2, <3>3, <3>4 DEF DeploymentInv
  <2> QED
    BY <2>1, <2>2, <2>3
<1>2. CASE Manifest(d)
  <2>1. /\ UNCHANGED <<job, handle, call, temp, deployed, served>>
        /\ signed' = signed \cup {<<d, handle[d].price>>}
        /\ handle[d] # Nothing /\ handle[d].endpoint # Nothing
    BY <1>2 DEF Manifest
  <2>2. handle[d].price = Price /\ (handle[d].net = "akash" => d \in served)
    BY <2>1 DEF DeploymentInv, TypeOK, ClaimsTrue, Claims, Deployments
  <2>3. SignedWithHandle'
    BY <2>1, <2>2 DEF DeploymentInv, SignedWithHandle
  <2>4. TypeOK' /\ FileOfDeploy' /\ Accounted' /\ MadeOnce' /\ ClaimsTrue'
    BY <2>1 DEF DeploymentInv, TypeOK, CallOK, FileOfDeploy, Accounted, MadeOnce, ClaimsTrue,
                Claims, Deploying
  <2> QED
    BY <2>3, <2>4 DEF DeploymentInv
<1>3. ASSUME NEW work \in {"ingress", "serving", "ended"}, NetworkStep(d, work)
      PROVE  DeploymentInv'
  <2>1. job[d].work # "absent" /\ work \in Works
    BY <1>3 DEF NetworkStep, Works
  <2> QED
    BY <1>0, <1>3, <2>1, WorkChanges DEF NetworkStep
<1> QED
  BY <1>1, <1>2, <1>3

\* Every step keeps the invariant.
LEMMA NextDeployment == DeploymentInv /\ [Next]_vars => DeploymentInv'
<1> SUFFICES ASSUME DeploymentInv, [Next]_vars PROVE DeploymentInv'
  OBVIOUS
<1>1. CASE UNCHANGED vars
  BY <1>1 DEF vars, DeploymentInv, TypeOK, CallOK, FileOfDeploy, Accounted, MadeOnce, ClaimsTrue,
              Claims, SignedWithHandle, Deploying
<1>2. ASSUME NEW d \in Jobs, Running(d)
      PROVE  DeploymentInv'
  BY <1>2, AkashStep, NosanaStep, PollStep DEF Running, CallStep
<1>3. CASE Next
  BY <1>2, <1>3, CallBegins, OutsideStep DEF Next
<1> QED
  BY <1>1, <1>3

-----------------------------------------------------------------------------
\* The inductive invariant holds of Spec.
THEOREM DeploymentInvHolds == Spec => []DeploymentInv
BY InitDeployment, NextDeployment, PTL DEF Spec

\* Between calls no SDL or job file is left, and whatever exists on the network
\* is in a handle or belongs to a deploy that raised: for any number of
\* deployments, whichever commands fail.
THEOREM NothingBehindHolds == Spec => []NothingBehind
<1>1. DeploymentInv => NothingBehind
  BY DEF DeploymentInv, FileOfDeploy, Accounted, NothingBehind, Deploying
<1> QED
  BY <1>1, DeploymentInvHolds, PTL

\* A handle is ready only if its workload has served, and a manifest is signed
\* at the deployed price, on Akash only for a node that has served.
THEOREM ReadyIsRealHolds == Spec => []ReadyIsReal
<1>1. DeploymentInv => ReadyHasServed
  BY DEF DeploymentInv, ClaimsTrue, Claims, ReadyHasServed, IsReady
<1>2. DeploymentInv => AdvertisedAsDeployed
  BY DEF DeploymentInv, SignedWithHandle, AdvertisedAsDeployed
<1> QED
  BY <1>1, <1>2, DeploymentInvHolds, PTL DEF ReadyIsReal

-----------------------------------------------------------------------------
(***************************************************************************)
(* _pick_cheapest_bid.                                                     *)
(***************************************************************************)
\* Induction on the natural numbers, for a set of them.
LEMMA NatSet ==
    ASSUME NEW T \in SUBSET Nat, 0 \in T, \A n \in T : n + 1 \in T
    PROVE  T = Nat
<1> DEFINE R == OpToRel(<, Nat)
<1>1. \A U \in SUBSET Nat : U # {} => \E x \in U : \A y \in U : ~(<<y, x>> \in R)
  BY WFMin, NatLessThanWellFounded, Zenon
<1>2. \A x, y \in Nat : y < x => <<y, x>> \in R
  BY DEF OpToRel
<1> HIDE DEF R
<1> SUFFICES ASSUME T # Nat PROVE FALSE
  OBVIOUS
<1>3. PICK x \in Nat \ T : \A y \in Nat \ T : ~(<<y, x>> \in R)
  BY <1>1
<1>4. \A y \in Nat \ T : ~(y < x)
  BY <1>2, <1>3
<1>5. x # 0 /\ x - 1 \in T
  BY <1>4
<1> QED
  BY <1>5

\* The loop over a set of positions, the last one taken last.
Loop(f, bids, D) ==
    f = [s \in SUBSET D |-> IF s = {} THEN Nothing
                            ELSE Cheaper(f[s \ {Max(s)}], bids[Max(s)])]

\* It is defined for the positions of every list.
LEMMA LoopExists ==
    ASSUME NEW bids, NEW n \in Nat
    PROVE  \E f : Loop(f, bids, 1..n)
<1> DEFINE T == {m \in Nat : \E f : Loop(f, bids, 1..m)}
<1>1. 0 \in T
  <2> DEFINE f == [s \in SUBSET (1..0) |-> Nothing]
  <2>1. Loop(f, bids, 1..0)
    <3>1. \A s \in SUBSET (1..0) : s = {}
      OBVIOUS
    <3> QED
      BY <3>1 DEF Loop
  <2> QED
    BY <2>1
<1>2. ASSUME NEW m \in T PROVE m + 1 \in T
  <2>1. PICK h : Loop(h, bids, 1..m)
    OBVIOUS
  <2>2. m \in Nat
    OBVIOUS
  <2> DEFINE D == 1..(m + 1)
             f == [s \in SUBSET D |->
                      IF m + 1 \in s THEN Cheaper(h[s \ {m + 1}], bids[m + 1]) ELSE h[s]]
  <2> HIDE DEF T
  <2>3. \A s \in SUBSET (1..m) : s \in SUBSET D /\ f[s] = h[s]
    <3>1. \A s \in SUBSET (1..m) : s \in SUBSET D /\ m + 1 \notin s
      BY <2>2
    <3> QED
      BY <3>1
  <2>4. \A s \in SUBSET D : m + 1 \notin s => s \in SUBSET (1..m)
    BY <2>2
  <2>5. \A s \in SUBSET D : m + 1 \in s => Max(s) = m + 1 /\ s \ {m + 1} \in SUBSET (1..m)
    <3> SUFFICES ASSUME NEW s \in SUBSET D, m + 1 \in s
                 PROVE  Max(s) = m + 1 /\ s \ {m + 1} \in SUBSET (1..m)
      OBVIOUS
    <3>1. \A x \in s : x \in Nat /\ x <= m + 1
      BY <2>2
    <3>2. \A y \in s : m + 1 >= y
      BY <2>2, <3>1
    <3>3. \A x \in s : (\A y \in s : x >= y) => x = m + 1
      BY <2>2, <3>1
    <3>4. Max(s) = m + 1
      BY <3>2, <3>3 DEF Max
    <3>5. s \ {m + 1} \in SUBSET (1..m)
      BY <2>2
    <3> QED
      BY <3>4, <3>5
  <2>6. \A s \in SUBSET (1..m) : s # {} => s \ {Max(s)} \in SUBSET (1..m)
    OBVIOUS
  <2>7. ASSUME NEW s \in SUBSET D
        PROVE  f[s] = IF s = {} THEN Nothing ELSE Cheaper(f[s \ {Max(s)}], bids[Max(s)])
    <3>1. CASE m + 1 \in s
      <4>1. f[s] = Cheaper(h[s \ {m + 1}], bids[m + 1])
        BY <3>1
      <4>2. f[s \ {m + 1}] = h[s \ {m + 1}] /\ Max(s) = m + 1
        BY <2>3, <2>5, <3>1
      <4> QED
        BY <3>1, <4>1, <4>2
    <3>2. CASE m + 1 \notin s
      <4>1. s \in SUBSET (1..m) /\ f[s] = h[s]
        BY <2>3, <2>4, <3>2
      <4>2. h[s] = IF s = {} THEN Nothing ELSE Cheaper(h[s \ {Max(s)}], bids[Max(s)])
        BY <2>1, <4>1 DEF Loop
      <4>3. s # {} => f[s \ {Max(s)}] = h[s \ {Max(s)}]
        BY <2>3, <2>6, <4>1
      <4> QED
        BY <4>1, <4>2, <4>3
    <3> QED
      BY <3>1, <3>2
  <2>8. f = [s \in SUBSET D |-> f[s]]
    OBVIOUS
  <2>9. Loop(f, bids, D)
    <3> HIDE DEF f
    <3> QED
      BY <2>7, <2>8 DEF Loop
  <2> HIDE DEF f
  <2> QED
    BY <2>2, <2>9 DEF T
<1>3. T = Nat
  <2> HIDE DEF T
  <2> QED
    BY <1>1, <1>2, NatSet DEF T
<1> QED
  BY <1>3

\* What an unreadable price counts as is above every price there is.
LEMMA InfinityIsLarge == Infinity \in Nat /\ 2 <= Infinity
BY SMT DEF Infinity

\* A price that is no NaN is a number up to that.
LEMMA AmountOfPrice ==
    \A b \in Bid : b.price # NaN => Amount(b) \in Nat /\ Amount(b) <= Infinity
<1> SUFFICES ASSUME NEW b \in Bid, b.price # NaN
             PROVE  Amount(b) \in Nat /\ Amount(b) <= Infinity
  OBVIOUS
<1>1. b.price \in 1..2 \/ b.price = Nothing
  BY DEF Bid
<1> QED
  BY <1>1, InfinityIsLarge DEF Amount

\* Nobody before bid i names a seller.
NoneBefore(bids, i) == \A j \in 1..(i - 1) : bids[j].seller = Nothing

\* What the loop makes of a price: NaN is never beaten by a later bid and beats
\* no earlier one.
Weight(bids, i) ==
    IF bids[i].price # NaN THEN Amount(bids[i])
    ELSE IF NoneBefore(bids, i) THEN -1 ELSE Infinity + 1

\* Bid i comes before bid j: it weighs less, or as much and is earlier.
Before(bids, i, j) ==
    \/ Weight(bids, i) < Weight(bids, j)
    \/ Weight(bids, i) = Weight(bids, j) /\ i <= j

\* best is the first of the named bids among the first n, if there is one.
FirstOf(best, bids, n) ==
    \/ best = Nothing /\ \A j \in 1..n : bids[j].seller = Nothing
    \/ \E i \in 1..n : /\ best = bids[i] /\ bids[i].seller # Nothing
                       /\ Weight(bids, i) <= Infinity
                       /\ \A j \in 1..n : bids[j].seller # Nothing => Before(bids, i, j)

\* A bid is taken for less than the best so far just when it weighs less.
LEMMA LessByWeight ==
    ASSUME NEW bids \in Seq(Bid), NEW i \in 1..Len(bids), NEW k \in 1..(i - 1),
           bids[k].seller # Nothing, Weight(bids, k) <= Infinity
    PROVE  Less(bids[i], bids[k]) <=> Weight(bids, i) < Weight(bids, k)
<1>1. /\ i \in Nat /\ k \in 1..Len(bids) /\ bids[i] \in Bid /\ bids[k] \in Bid
      /\ ~NoneBefore(bids, i)
  BY DEF NoneBefore
<1>2. \A b \in Bid : b.price # NaN => Amount(b) \in Nat /\ Amount(b) <= Infinity
  BY AmountOfPrice
<1>3. Infinity \in Nat
  BY InfinityIsLarge
<1>4. CASE bids[i].price = NaN
  <2>1. Weight(bids, i) = Infinity + 1
    BY <1>1, <1>4 DEF Weight
  <2>2. Weight(bids, k) \in Int
    BY <1>1, <1>2, <1>3 DEF Weight
  <2> QED
    BY <1>3, <1>4, <2>1, <2>2 DEF Less
<1>5. CASE bids[i].price # NaN /\ bids[k].price = NaN
  <2>1. Weight(bids, i) = Amount(bids[i]) /\ Weight(bids, k) = -1
    BY <1>3, <1>5 DEF Weight
  <2> QED
    BY <1>1, <1>2, <1>5, <2>1 DEF Less
<1>6. CASE bids[i].price # NaN /\ bids[k].price # NaN
  BY <1>6 DEF Less, Weight
<1> QED
  BY <1>4, <1>5, <1>6

\* The loop finds the first of the lightest bids that name a seller.
LEMMA PickIsFirst ==
    ASSUME NEW bids \in Seq(Bid)
    PROVE  FirstOf(PickCheapestBid(bids), bids, Len(bids))
<1> DEFINE n == Len(bids)
<1>0. n \in Nat /\ DOMAIN bids = 1..n /\ \A i \in 1..n : bids[i] \in Bid
  OBVIOUS
<1>1. PICK f : Loop(f, bids, 1..n) /\ PickCheapestBid(bids) = f[1..n]
  <2>1. PickCheapestBid(bids) = (CHOOSE f : Loop(f, bids, DOMAIN bids))[DOMAIN bids]
    BY DEF PickCheapestBid, FoldLeft, MapThenFoldSet, Loop
  <2>2. \E f : Loop(f, bids, 1..n)
    BY <1>0, LoopExists
  <2> QED
    BY <1>0, <2>1, <2>2
<1>2. f[{}] = Nothing
  BY <1>1 DEF Loop
<1>3. ASSUME NEW i \in Nat, i + 1 <= n PROVE f[1..(i + 1)] = Cheaper(f[1..i], bids[i + 1])
  <2> DEFINE s == 1..(i + 1)
  <2>1. s \in SUBSET (1..n) /\ s # {}
    <3> HIDE DEF n
    <3>1. 1 \in s
      OBVIOUS
    <3>2. \A x \in s : x \in 1..n
      BY <1>0, <1>3
    <3> QED
      BY <3>1, <3>2
  <2>2. Max(s) = i + 1
    <3>1. i + 1 \in s /\ \A y \in s : i + 1 >= y
      OBVIOUS
    <3>2. \A x \in s : (\A y \in s : x >= y) => x = i + 1
      BY <3>1
    <3> HIDE DEF s
    <3> QED
      BY <3>1, <3>2 DEF Max
  <2>3. s \ {i + 1} = 1..i
    OBVIOUS
  <2>4. f[s] = Cheaper(f[s \ {Max(s)}], bids[Max(s)])
    <3> HIDE DEF s
    <3> QED
      BY <1>1, <2>1 DEF Loop
  <2> HIDE DEF s
  <2> QED
    BY <2>2, <2>3, <2>4 DEF s
<1> HIDE DEF n
<1>4. (\A b \in Bid : b # Nothing) /\ \A j \in 1..Len(bids) : Weight(bids, j) \in Int
  BY <1>0, AmountOfPrice, BidAssumption, InfinityIsLarge DEF Weight
<1> DEFINE T == {i \in Nat : i <= n => FirstOf(f[1..i], bids, i)}
<1>5. 0 \in T
  <2>1. 1..0 = {}
    OBVIOUS
  <2> QED
    BY <1>2, <2>1 DEF FirstOf
<1>6. ASSUME NEW i \in T PROVE i + 1 \in T
  <2>0. i \in Nat /\ (i <= n => FirstOf(f[1..i], bids, i))
    OBVIOUS
  <2>1. ASSUME i + 1 <= n PROVE FirstOf(f[1..(i + 1)], bids, i + 1)
    <3> DEFINE old == f[1..i]
               bid == bids[i + 1]
               new == f[1..(i + 1)]
    <3>1. /\ FirstOf(old, bids, i) /\ new = Cheaper(old, bid)
          /\ bid \in Bid /\ \A j \in 1..i : bids[j] \in Bid
      BY <1>0, <1>3, <2>0, <2>1
    <3>2. \A j \in 1..(i + 1) : j \in 1..i \/ j = i + 1
      BY <2>0
    <3>3. i + 1 \in 1..(i + 1) /\ \A j \in 1..i : j \in 1..(i + 1) /\ j <= i + 1 /\ j \in Nat
      BY <2>0
    <3>a. Weight(bids, i + 1) \in Int /\ \A j \in 1..i : Weight(bids, j) \in Int
      BY <1>0, <1>4, <2>0, <2>1 DEF n
    <3> HIDE DEF old, new
    <3>4. CASE old = Nothing /\ \A j \in 1..i : bids[j].seller = Nothing
      <4>1. CASE bid.seller = Nothing
        BY <3>1, <3>2, <3>4, <4>1 DEF Cheaper, FirstOf, new
      <4>2. CASE bid.seller # Nothing
        <5>1. new = bid
          BY <3>1, <3>4, <4>2 DEF Cheaper
        <5>2. \A j \in 1..(i + 1) : bids[j].seller # Nothing => Before(bids, i + 1, j)
          BY <2>0, <3>2, <3>4, <3>a DEF Before
        <5>3. Weight(bids, i + 1) <= Infinity
          <6>1. NoneBefore(bids, i + 1)
            BY <2>0, <3>4 DEF NoneBefore
          <6>2. bid.price # NaN => Amount(bid) \in Nat /\ Amount(bid) <= Infinity
            BY <3>1, AmountOfPrice
          <6> QED
            BY <6>1, <6>2, InfinityIsLarge DEF Weight
        <5> QED
          BY <3>3, <4>2, <5>1, <5>2, <5>3 DEF FirstOf, new
      <4> QED
        BY <4>1, <4>2
    <3>5. ASSUME NEW k \in 1..i, old = bids[k], bids[k].seller # Nothing,
                 Weight(bids, k) <= Infinity,
                 \A j \in 1..i : bids[j].seller # Nothing => Before(bids, k, j)
          PROVE  FirstOf(new, bids, i + 1)
      <4>0. /\ old # Nothing /\ Weight(bids, k) \in Int /\ k \in Nat /\ \A j \in 1..i : j \in Nat
            /\ Less(bid, old) <=> Weight(bids, i + 1) < Weight(bids, k)
        <5>1. i + 1 \in 1..Len(bids) /\ k \in 1..((i + 1) - 1)
          BY <1>0, <2>0, <2>1, <3>5 DEF n
        <5> QED
          BY <1>4, <3>1, <3>3, <3>5, <3>a, <5>1, LessByWeight
      <4>1. CASE bid.seller # Nothing /\ Less(bid, old)
        <5>1. new = bid
          BY <3>1, <4>1 DEF Cheaper
        <5>2. \A j \in 1..(i + 1) : bids[j].seller # Nothing => Before(bids, i + 1, j)
          <6> SUFFICES ASSUME NEW j \in 1..(i + 1), bids[j].seller # Nothing
                       PROVE  Before(bids, i + 1, j)
            OBVIOUS
          <6>1. CASE j = i + 1
            BY <2>0, <6>1 DEF Before
          <6>2. CASE j \in 1..i
            <7>1. Weight(bids, k) <= Weight(bids, j)
              BY <3>5, <3>a, <4>0, <6>2 DEF Before
            <7>2. Weight(bids, i + 1) < Weight(bids, j)
              BY <3>a, <4>0, <4>1, <6>2, <7>1
            <7> QED
              BY <7>2 DEF Before
          <6> QED
            BY <3>2, <6>1, <6>2
        <5>3. Weight(bids, i + 1) <= Infinity
          BY <3>5, <3>a, <4>0, <4>1, InfinityIsLarge
        <5> QED
          BY <3>3, <4>1, <5>1, <5>2, <5>3 DEF FirstOf, new
      <4>2. CASE ~(bid.seller # Nothing /\ Less(bid, old))
        <5>1. new = bids[k]
          BY <3>1, <3>5, <4>0, <4>2 DEF Cheaper
        <5>2. \A j \in 1..(i + 1) : bids[j].seller # Nothing => Before(bids, k, j)
          <6>1. bid.seller # Nothing => Before(bids, k, i + 1)
            <7>1. bid.seller # Nothing => Weight(bids, k) <= Weight(bids, i + 1)
              BY <3>5, <3>a, <4>0, <4>2
            <7> QED
              BY <3>3, <3>a, <4>0, <7>1 DEF Before
          <6> QED
            BY <3>2, <3>5, <6>1
        <5> QED
          BY <3>3, <3>5, <5>1, <5>2 DEF FirstOf, new
      <4> QED
        BY <4>1, <4>2
    <3> QED
      BY <3>1, <3>4, <3>5 DEF FirstOf, new
  <2> QED
    BY <2>0, <2>1
<1>7. T = Nat
  <2> HIDE DEF T
  <2> QED
    BY <1>5, <1>6, NatSet DEF T
<1>8. n \in T
  BY <1>0, <1>7
<1> QED
  BY <1>0, <1>1, <1>8 DEF n

\* While an Akash deploy has a pick, it is of the bids it was shown.
PickOfBids ==
    call # NoCall /\ call.pick # Nothing =>
        call.bids \in Seq(Bid) /\ call.pick = PickCheapestBid(call.bids)

\* Only the choice sets the pick and the bids.
LEMMA NextPick == DeploymentInv /\ PickOfBids /\ [Next]_vars => PickOfBids'
<1> SUFFICES ASSUME DeploymentInv, PickOfBids, [Next]_vars PROVE PickOfBids'
  OBVIOUS
<1>0. /\ PickOfBids
      /\ call # NoCall => DOMAIN call = CallFields
  BY DEF DeploymentInv, TypeOK, CallOK
<1>1. CASE call' = call
  BY <1>1 DEF PickOfBids
<1>2. CASE call' = NoCall
  BY <1>2 DEF PickOfBids
<1>3. ASSUME call # NoCall, call' # NoCall, call'.pick = call.pick, call'.bids = call.bids PROVE PickOfBids'
  BY <1>3 DEF PickOfBids
<1>4. ASSUME call'.pick = Nothing PROVE PickOfBids'
  BY <1>4 DEF PickOfBids
<1>5. ASSUME NEW d \in Jobs, Running(d) PROVE PickOfBids'
  <2>0. call # NoCall /\ call.op # "none" /\ DOMAIN call = CallFields
    BY <1>0, <1>5 DEF Running, DeploymentInv, TypeOK, CallOK
  <2>1. ASSUME NEW how, Ends(d, how) PROVE PickOfBids'
    BY <1>2, <2>1 DEF Ends
  <2>2. ASSUME NEW step, Continues(step) PROVE PickOfBids'
    <3>1. call' = [call EXCEPT !.step = step]
      BY <2>2 DEF Continues
    <3>2. call'.op = call.op /\ call'.pick = call.pick /\ call'.bids = call.bids
      BY <2>0, <3>1 DEF CallFields
    <3> QED
      BY <1>3, <2>0, <3>2, CallIsNone
  <2>3. ASSUME NEW bids \in BoundedSeq(Bid, MaxBids), AkashBids(d, bids) PROVE PickOfBids'
    <3>1. bids \in Seq(Bid)
      BY DeploymentAssumption DEF BoundedSeq, SeqOf
    <3>2. CASE PickCheapestBid(bids) = Nothing
      BY <2>1, <2>3, <3>2 DEF AkashBids
    <3>3. CASE PickCheapestBid(bids) # Nothing
      <4>1. call' = [call EXCEPT !.step = "lease", !.bids = bids, !.pick = PickCheapestBid(bids)]
        BY <2>3, <3>3 DEF AkashBids
      <4>2. call'.pick = PickCheapestBid(bids) /\ call'.bids = bids
        BY <2>0, <4>1 DEF CallFields
      <4> QED
        BY <3>1, <4>2 DEF PickOfBids
    <3> QED
      BY <3>2, <3>3
  <2>4. ASSUME NEW a, Answer(d, a) PROVE PickOfBids'
    <3> DEFINE h == Refreshed(call.current, a)
    <3>1. CASE Waits(h)
      <4>1. call' = [call EXCEPT !.current = h, !.polls = @ + 1]
        BY <2>4, <3>1 DEF Answer
      <4> HIDE DEF h
      <4>2. call'.op = call.op /\ call'.pick = call.pick /\ call'.bids = call.bids
        BY <2>0, <4>1 DEF CallFields
      <4> QED
        BY <1>3, <2>0, <4>2, CallIsNone
    <3>2. CASE ~Waits(h)
      BY <2>1, <2>4, <3>2 DEF Answer
    <3> QED
      BY <3>1, <3>2
  <2>5. CASE AkashCreate(d)
    BY <2>1, <2>2, <2>5 DEF AkashCreate, RaisesAround, Rejected, NoDseq
  <2>6. CASE AkashLease(d)
    BY <2>1, <2>2, <2>6 DEF AkashLease, RaisesAround, Rejected
  <2>7. CASE AkashManifest(d) \/ NosanaPost(d) \/ PollRaises(d)
    BY <2>1, <2>7 DEF AkashManifest, NosanaPost, PollRaises, RaisesAround
  <2> QED
    BY <1>5, <2>3, <2>4, <2>5, <2>6, <2>7 DEF Running, CallStep
<1>6. ASSUME NEW d \in Jobs, NEW net \in Networks,
             Deploy(d, net) \/ Poll(d, "await", net) \/ Poll(d, "status", net)
      PROVE  PickOfBids'
  <2>1. call'.pick = Nothing
    BY <1>6 DEF Deploy, Poll, Begun
  <2> QED
    BY <1>4, <2>1
<1>7. ASSUME NEW d \in Jobs,
             \/ Teardown(d) \/ Manifest(d)
             \/ \E work \in {"ingress", "serving", "ended"} : NetworkStep(d, work)
      PROVE  PickOfBids'
  BY <1>1, <1>7 DEF Teardown, Manifest, NetworkStep
<1>8. CASE UNCHANGED vars
  BY <1>1, <1>8 DEF vars
<1> QED
  BY <1>5, <1>6, <1>7, <1>8 DEF Next

\* The lease goes to the first of the cheapest bids that name a seller, for any
\* bids, with a price, without a readable one, or NaN, which if first is kept.
THEOREM LeasedAtLowestHolds == Spec => []LeasedAtLowest
<1>1. PickOfBids => LeasedAtLowest
  <2> SUFFICES ASSUME PickOfBids, call # NoCall, call.pick # Nothing PROVE LeasedAtLowest
    BY DEF LeasedAtLowest
  <2> DEFINE bids  == call.bids
             named  == {i \in DOMAIN bids : bids[i].seller # Nothing}
             priced == {i \in named : bids[i].price # NaN}
             Earliest(i) == \A j \in named : i <= j
  <2>1. bids \in Seq(Bid) /\ FirstOf(call.pick, bids, Len(bids))
    BY PickIsFirst DEF PickOfBids
  <2> HIDE DEF bids
  <2>2. DOMAIN bids = 1..Len(bids) /\ Len(bids) \in Nat /\ \A i \in 1..Len(bids) : bids[i] \in Bid
    BY <2>1
  <2>3. /\ \A i \in named : i \in Nat /\ i \in 1..Len(bids)
        /\ \A i \in priced : Amount(bids[i]) \in Nat
    BY <2>2, AmountOfPrice
  <2>4. PICK k \in named : /\ call.pick = bids[k] /\ Weight(bids, k) <= Infinity
                           /\ \A j \in named : Before(bids, k, j)
    BY <2>1, <2>2 DEF FirstOf
  <2>5. \A i \in named : Weight(bids, i) = -1 => Earliest(i)
    <3> SUFFICES ASSUME NEW i \in named, Weight(bids, i) = -1, NEW j \in named PROVE i <= j
      OBVIOUS
    <3>1. NoneBefore(bids, i)
      BY <2>3, InfinityIsLarge DEF Weight
    <3> QED
      BY <2>3, <3>1 DEF NoneBefore
  <2>6. ASSUME NEW f \in named \ priced, Earliest(f) PROVE Earliest(k)
    <3>1. Weight(bids, f) = -1
      BY <2>3, <2>6 DEF Weight, NoneBefore
    <3>2. Weight(bids, k) \in Int /\ Weight(bids, k) >= -1
      BY <2>3, InfinityIsLarge DEF Weight
    <3>3. Weight(bids, k) = -1
      BY <2>4, <3>1, <3>2 DEF Before
    <3> QED
      BY <2>5, <3>3
  <2>7. ASSUME ~\E f \in named \ priced : Earliest(f)
        PROVE  k \in priced /\ \A j \in priced :
                   \/ Amount(bids[k]) < Amount(bids[j])
                   \/ Amount(bids[k]) = Amount(bids[j]) /\ k <= j
    <3>1. k \in priced
      <4>1. k \notin priced => Weight(bids, k) = -1
        BY <2>4, InfinityIsLarge DEF Weight
      <4> QED
        BY <2>5, <2>7, <4>1
    <3>2. \A j \in priced : Weight(bids, j) = Amount(bids[j])
      BY DEF Weight
    <3> QED
      BY <2>4, <3>1, <3>2 DEF Before
  <2>8. \E i \in named :
            /\ call.pick = bids[i]
            /\ IF \E f \in named \ priced : Earliest(f) THEN Earliest(i)
               ELSE i \in priced /\ \A j \in priced :
                        \/ Amount(bids[i]) < Amount(bids[j])
                        \/ Amount(bids[i]) = Amount(bids[j]) /\ i <= j
    <3> HIDE DEF named, priced, Earliest
    <3> QED
      BY <2>4, <2>6, <2>7
  <2> QED
    BY <2>8 DEF LeasedAtLowest, bids
<1>2. Init => PickOfBids
  BY DEF Init, PickOfBids
<1>3. DeploymentInv /\ PickOfBids /\ [Next]_vars => PickOfBids'
  BY NextPick
<1> QED
  BY <1>1, <1>2, <1>3, DeploymentInvHolds, PTL DEF Spec
=============================================================================

---------------------------- MODULE RuntimeProofs ----------------------------
(***************************************************************************)
(* Proofs about Runtime, for any number of processes, models and ports:    *)
(* every llama-server stays within somebody's reach unless an exception    *)
(* cuts its serve short, a stop stops, and for serves one at a time the    *)
(* adapter lists what is served at its address.                            *)
(***************************************************************************)
EXTENDS Runtime, TLAPS

-----------------------------------------------------------------------------
(* The inductive invariant.                                                *)

Process == [life : {"unborn", "loading", "up", "dead"}, model : Models \cup {Nothing},
            port : Ports \cup {Nothing}, killed : BOOLEAN]
Adapter == [process : Procs \cup {Nothing}, model : Models \cup {Nothing},
            port : Ports \cup {Nothing}]
Polling == [op : {"poll"}, p : Procs, left : Nat]
Stopping == [op : {"terminate"}, p : Procs, at : {"wait", "wait again"},
             for : {"serve", "stop", "handle"}]
Raising == [op : {"raise"}, p : Procs]

\* The fields of the adapter, of its processes and of the running call have the
\* types the code gives them.
TypeOK ==
    /\ proc \in [Procs -> Process]
    /\ adapter \in Adapter
    /\ call \in {NoCall} \cup Polling \cup Stopping \cup Raising
    /\ handles \subseteq Procs /\ cut \subseteq Procs
    /\ alone \in BOOLEAN

\* The second wait of _terminate comes after SIGKILL.
KilledBeforeSecondWait == call \in Stopping /\ call.at = "wait again" => proc[call.p].killed

\* What a call or the adapter refers to was spawned, with a model.
Spawned(p) == proc[p].life # "unborn" /\ proc[p].model \in Models
RefersToSpawned ==
    /\ call # NoCall => Spawned(call.p)
    /\ \A p \in handles : Spawned(p)
    /\ adapter.process # Nothing => /\ Spawned(adapter.process)
                                    /\ adapter.model = proc[adapter.process].model

\* stop is of the process the adapter has.
StopOfAdapter == call \in Stopping /\ call.for = "stop" => adapter.process = call.p

\* When every serve began with no other server alive and none was cut short, a
\* server that is alive is the one being started, one that was killed, or the
\* one the adapter serves.
NoOtherAlive ==
    alone => \A p \in Procs : Alive(p) =>
                 \/ Starting /\ call.p = p
                 \/ call \notin Polling /\ (proc[p].killed \/ p = adapter.process)

\* Somebody has a handle of the process of the adapter and of what is stopped;
\* a call that raises was stopping one of those, or starting one.
Handed ==
    /\ adapter.process # Nothing => adapter.process \in handles
    /\ call \in Stopping /\ call.for # "serve" => call.p \in handles
    /\ call \in Raising => call.p \in handles \cup cut

RuntimeInv ==
    /\ TypeOK /\ NoProcessOutOfReach /\ KilledBeforeSecondWait /\ RefersToSpawned
    /\ StopOfAdapter /\ NoOtherAlive /\ Handed

\* No call that runs is NoCall, and a call is of one kind.
LEMMA CallKinds ==
    /\ \A x \in Polling : x.op = "poll" /\ x # NoCall /\ x \notin Stopping /\ x \notin Raising
    /\ \A x \in Stopping : x.op = "terminate" /\ x # NoCall /\ x \notin Polling /\ x \notin Raising
    /\ \A x \in Raising : x.op = "raise" /\ x # NoCall /\ x \notin Polling /\ x \notin Stopping
    /\ NoCall.op = "none" /\ NoCall \notin Polling /\ NoCall \notin Stopping
    /\ NoCall \notin Raising
<1>1. \A x \in Polling : x.op = "poll"
  BY DEF Polling
<1>2. \A x \in Stopping : x.op = "terminate"
  BY DEF Stopping
<1>3. \A x \in Raising : x.op = "raise"
  BY DEF Raising
<1>4. NoCall.op = "none"
  BY DEF NoCall
<1> QED
  BY <1>1, <1>2, <1>3, <1>4

\* Before the first serve there is nothing to reach.
LEMMA InitRuntime == Init => RuntimeInv
<1> SUFFICES ASSUME Init PROVE RuntimeInv
  OBVIOUS
<1>1. \A p \in Procs : ~Alive(p)
  BY DEF Init, Alive, Unborn
<1>2. TypeOK
  BY DEF Init, TypeOK, Process, Adapter, Unborn
<1>3. NoProcessOutOfReach /\ NoOtherAlive
  BY <1>1 DEF NoProcessOutOfReach, NoOtherAlive
<1>4. KilledBeforeSecondWait /\ StopOfAdapter /\ RefersToSpawned /\ Handed
  BY CallKinds DEF Init, KilledBeforeSecondWait, StopOfAdapter, RefersToSpawned, Handed
<1> QED
  BY <1>2, <1>3, <1>4 DEF RuntimeInv

\* A server that loads, binds its port or ends on its own.
LEMMA LifeStep ==
    ASSUME RuntimeInv, NEW p \in Procs, Loads(p) \/ Ends(p)
    PROVE  RuntimeInv'
<1>1. PICK life \in {"up", "dead"} : proc' = [proc EXCEPT ![p].life = life]
  BY DEF Loads, Ends
<1>2. Alive(p) /\ UNCHANGED <<adapter, call, handles, cut, alone>>
  BY DEF Loads, Ends, Alive
<1>3. \A q \in Procs : /\ proc'[q].model = proc[q].model /\ proc'[q].killed = proc[q].killed
                       /\ proc'[q].port = proc[q].port
                       /\ q # p => proc'[q].life = proc[q].life
                       /\ proc'[q].life = "unborn" => proc[q].life = "unborn"
                       /\ Alive(q)' => Alive(q)
  BY <1>1, <1>2 DEF RuntimeInv, TypeOK, Process, Alive
<1>4. TypeOK'
  BY <1>1, <1>2 DEF RuntimeInv, TypeOK, Process
<1>5. NoProcessOutOfReach' /\ NoOtherAlive'
  BY <1>2, <1>3 DEF RuntimeInv, NoProcessOutOfReach, NoOtherAlive, Starting
<1>6. KilledBeforeSecondWait' /\ StopOfAdapter' /\ Handed'
  BY <1>2, <1>3 DEF StopOfAdapter, RuntimeInv, KilledBeforeSecondWait, Stopping, Handed
<1>7. RefersToSpawned'
  BY <1>2, <1>3, RuntimeAssumption, CallKinds
     DEF RuntimeInv, TypeOK, RefersToSpawned, Spawned, Adapter, Polling, Stopping, Raising
<1> QED
  BY <1>4, <1>5, <1>6, <1>7 DEF RuntimeInv

\* A step that leaves the processes alone leaves them alive or not, as they were.
LEMMA SameProcesses ==
    ASSUME UNCHANGED proc
    PROVE  \A p \in Procs : (Alive(p)' <=> Alive(p)) /\ (Spawned(p)' <=> Spawned(p))
BY DEF Alive, Spawned

\* The type of a call by its op.
LEMMA KindByOp ==
    ASSUME TypeOK
    PROVE  /\ call.op = "poll" => call \in Polling
           /\ call.op = "terminate" => call \in Stopping
           /\ call.op = "raise" => call \in Raising
           /\ call # NoCall => call.p \in Procs
<1>1. call \in Polling \/ call \in Stopping \/ call \in Raising => call.p \in Procs
  BY DEF Polling, Stopping, Raising
<1> QED
  BY <1>1, CallKinds DEF TypeOK

\* serve begins: the process it starts is the one its call polls.
LEMMA ServeStep ==
    ASSUME RuntimeInv, NEW p \in Procs, NEW model \in Models, NEW port \in Ports,
           Serve(p, model, port)
    PROVE  RuntimeInv'
<1>1. /\ call = NoCall /\ proc[p].life = "unborn"
      /\ proc' = [proc EXCEPT ![p] = BuildCommand(model, port)]
      /\ call' = [op |-> "poll", p |-> p, left |-> Retries]
      /\ alone' = (alone /\ \A q \in Procs : ~Alive(q))
      /\ UNCHANGED <<adapter, handles, cut>>
  BY DEF Serve, Unborn
<1>2. /\ BuildCommand(model, port) \in Process
      /\ BuildCommand(model, port).life = "loading"
      /\ BuildCommand(model, port).model = model
  BY DEF BuildCommand, Unborn, Process
<1>3. call' \in Polling /\ call'.p = p /\ call' # NoCall
  BY <1>1, RuntimeAssumption, CallKinds DEF Polling
<1>4. TypeOK'
  BY <1>1, <1>2, <1>3 DEF RuntimeInv, TypeOK
<1>5. /\ Spawned(p)'
      /\ \A q \in Procs : q # p => proc'[q] = proc[q]
  BY <1>1, <1>2 DEF RuntimeInv, TypeOK, Spawned
<1>6. \A q \in Procs : q # p /\ Alive(q)' => Alive(q)
  BY <1>5 DEF Alive
<1>7. NoProcessOutOfReach'
  BY <1>1, <1>3, <1>5, <1>6 DEF RuntimeInv, NoProcessOutOfReach
<1>8. KilledBeforeSecondWait' /\ StopOfAdapter' /\ Handed'
  BY <1>1, <1>3, CallKinds DEF RuntimeInv, StopOfAdapter, KilledBeforeSecondWait, Handed
<1>9. RefersToSpawned'
  BY <1>1, <1>3, <1>5 DEF RuntimeInv, TypeOK, Adapter, RefersToSpawned, Spawned
<1>10. NoOtherAlive'
  BY <1>1, <1>3, <1>6 DEF NoOtherAlive, Starting
<1> QED
  BY <1>4, <1>7, <1>8, <1>9, <1>10 DEF RuntimeInv

\* A poll of the health endpoint, whoever answers it.
LEMMA PollStep ==
    ASSUME RuntimeInv, PollSucceeds \/ PollFails \/ GiveUp
    PROVE  RuntimeInv'
<1>0. /\ TypeOK /\ call \in Polling /\ call # NoCall /\ call.p \in Procs /\ call \notin Stopping
      /\ call.left \in Nat
      /\ Spawned(call.p) /\ UNCHANGED <<proc, cut, alone>>
  BY KindByOp, CallKinds DEF RuntimeInv, PollSucceeds, PollFails, GiveUp, RefersToSpawned, Polling
<1>1. CASE PollSucceeds
  <2>1. /\ adapter' = [process |-> call.p, model |-> proc[call.p].model, port |-> proc[call.p].port]
        /\ handles' = handles \cup {call.p} /\ call' = NoCall
    BY <1>1 DEF PollSucceeds, Served
  <2>2. TypeOK'
    BY <1>0, <2>1 DEF TypeOK, Adapter, Process
  <2>3. NoProcessOutOfReach'
    BY <1>0, <2>1, SameProcesses DEF RuntimeInv, NoProcessOutOfReach
  <2>4. KilledBeforeSecondWait' /\ StopOfAdapter' /\ Handed'
    BY <2>1, CallKinds DEF StopOfAdapter, KilledBeforeSecondWait, Handed
  <2>5. RefersToSpawned'
    BY <1>0, <2>1, SameProcesses DEF RuntimeInv, TypeOK, RefersToSpawned
  <2>6. NoOtherAlive'
    BY <1>0, <2>1, SameProcesses, CallKinds DEF RuntimeInv, NoOtherAlive, Starting
  <2> QED
    BY <2>2, <2>3, <2>4, <2>5, <2>6 DEF RuntimeInv
<1>2. CASE PollFails \/ GiveUp
  <2>1. /\ call' \in Polling \/ (call' \in Stopping /\ call'.at = "wait")
        /\ call'.p = call.p /\ (call' \in Stopping => call'.for = "serve")
        /\ UNCHANGED <<adapter, handles, cut>>
    <3>1. CASE PollFails
      <4>1. call.left - 1 \in Nat /\ call' = [call EXCEPT !.left = call.left - 1]
        BY <1>0, <3>1 DEF PollFails, OneLess
      <4> QED
        BY <1>0, <3>1, <4>1, CallKinds DEF Polling, PollFails
    <3>2. CASE GiveUp
      BY <1>0, <3>2 DEF GiveUp, AfterTimeout, Terminating, Stopping
    <3> QED
      BY <1>2, <3>1, <3>2
  <2>2. call' # NoCall
    BY <2>1, CallKinds
  <2>3. TypeOK'
    BY <1>0, <2>1 DEF TypeOK
  <2>4. NoProcessOutOfReach' /\ NoOtherAlive'
    <3>1. Starting' /\ call \in Polling
      BY <1>0, <2>1, CallKinds DEF Starting
    <3> QED
      BY <1>0, <2>1, <2>2, <3>1, SameProcesses DEF RuntimeInv, NoProcessOutOfReach, NoOtherAlive
  <2>5. KilledBeforeSecondWait' /\ StopOfAdapter' /\ Handed'
    BY <2>1, CallKinds DEF RuntimeInv, StopOfAdapter, KilledBeforeSecondWait, Handed
  <2>6. RefersToSpawned'
    BY <1>0, <2>1, SameProcesses, RuntimeAssumption DEF RuntimeInv, TypeOK, Adapter, RefersToSpawned
  <2> QED
    BY <2>3, <2>4, <2>5, <2>6 DEF RuntimeInv
<1> QED
  BY <1>1, <1>2

\* The stop of the adapter, or of a handle, begins.
LEMMA StopStep ==
    ASSUME RuntimeInv, Stop \/ \E p \in Procs : HandleStop(p)
    PROVE  RuntimeInv'
<1>0. TypeOK /\ call = NoCall /\ UNCHANGED <<proc, adapter, handles, cut, alone>>
  BY DEF RuntimeInv, Stop, HandleStop
<1>1. CASE call' = NoCall
  <2>1. UNCHANGED call
    BY <1>0, <1>1
  <2> QED
    BY <1>0, <2>1 DEF RuntimeInv, TypeOK, NoProcessOutOfReach, KilledBeforeSecondWait,
       StopOfAdapter, RefersToSpawned, Handed, NoOtherAlive, Starting, Alive, Spawned
<1>2. CASE call' # NoCall
  <2>0. PICK p \in Procs, for \in {"stop", "handle"} :
             /\ p \in handles \/ (p = adapter.process /\ adapter.process # Nothing)
             /\ call' = Terminating(p, for) /\ (for = "stop" => p = adapter.process)
    BY <1>0, <1>2 DEF Stop, HandleStop, TypeOK, Adapter
  <2>1. call' \in Stopping /\ call'.at = "wait" /\ call'.p = p /\ call'.for = for
    BY <2>0 DEF Terminating, Stopping
  <2>2. TypeOK'
    BY <1>0, <2>1 DEF TypeOK
  <2>3. NoProcessOutOfReach' /\ NoOtherAlive'
    BY <1>0, <2>1, SameProcesses, CallKinds
       DEF RuntimeInv, NoProcessOutOfReach, NoOtherAlive, Starting
  <2>4. KilledBeforeSecondWait' /\ StopOfAdapter' /\ Handed'
    BY <1>0, <2>0, <2>1, CallKinds DEF RuntimeInv, StopOfAdapter, KilledBeforeSecondWait, Handed
  <2>5. RefersToSpawned'
    BY <1>0, <2>0, <2>1 DEF RuntimeInv, RefersToSpawned, Spawned
  <2> QED
    BY <2>2, <2>3, <2>4, <2>5 DEF RuntimeInv
<1> QED
  BY <1>1, <1>2

\* _terminate ends: its process is dead, or was killed.
LEMMA TerminatedStep ==
    ASSUME RuntimeInv, Reaped \/ NotReaped
    PROVE  RuntimeInv'
<1>0. /\ TypeOK /\ call \in Stopping /\ call # NoCall /\ call.p \in Procs /\ call \notin Polling
      /\ call' = NoCall /\ UNCHANGED <<proc, handles, cut, alone>>
      /\ adapter' = IF call.for = "stop" THEN NoProcess ELSE adapter
  BY KindByOp, CallKinds DEF RuntimeInv, Reaped, NotReaped, Terminated
<1>1. Alive(call.p) => proc[call.p].killed
  BY <1>0 DEF RuntimeInv, KilledBeforeSecondWait, Reaped, NotReaped
<1>2. call.for = "stop" => adapter.process = call.p
  BY <1>0 DEF RuntimeInv, StopOfAdapter
<1>3. TypeOK'
  BY <1>0 DEF TypeOK, NoProcess, Adapter
<1>4. NoProcessOutOfReach'
  BY <1>0, <1>1, SameProcesses DEF RuntimeInv, NoProcessOutOfReach
<1>5. KilledBeforeSecondWait' /\ StopOfAdapter' /\ Handed'
  BY <1>0, CallKinds DEF RuntimeInv, StopOfAdapter, KilledBeforeSecondWait, Handed, NoProcess
<1>6. RefersToSpawned'
  BY <1>0, SameProcesses DEF RuntimeInv, TypeOK, Adapter, RefersToSpawned, NoProcess
<1>7. NoOtherAlive'
  BY <1>0, <1>1, <1>2, SameProcesses, CallKinds DEF RuntimeInv, NoOtherAlive, Starting
<1> QED
  BY <1>3, <1>4, <1>5, <1>6, <1>7 DEF RuntimeInv

\* The first wait of _terminate times out.
LEMMA EscalateStep ==
    ASSUME RuntimeInv, Escalate
    PROVE  RuntimeInv'
<1>0. /\ TypeOK /\ call \in Stopping /\ call # NoCall /\ call.p \in Procs
      /\ proc' = [proc EXCEPT ![call.p].killed = TRUE]
      /\ call' = [call EXCEPT !.at = "wait again"]
      /\ UNCHANGED <<adapter, handles, cut, alone>>
  BY KindByOp, CallKinds DEF RuntimeInv, Escalate, Kills
<1>1. call' \in Stopping /\ call'.p = call.p /\ call'.for = call.for
  BY <1>0 DEF Stopping
<1>2. call' # NoCall /\ call' \notin Polling
  BY <1>1, CallKinds
<1>3. /\ \A q \in Procs : /\ proc'[q].model = proc[q].model /\ proc'[q].life = proc[q].life
                          /\ proc[q].killed => proc'[q].killed
      /\ proc'[call.p].killed
  BY <1>0 DEF TypeOK, Process
<1>4. \A q \in Procs : (Alive(q)' <=> Alive(q)) /\ (Spawned(q)' <=> Spawned(q))
  BY <1>3 DEF Alive, Spawned
<1>5. TypeOK'
  BY <1>0, <1>1 DEF TypeOK, Process
<1>6. NoProcessOutOfReach'
  BY <1>0, <1>1, <1>2, <1>3, <1>4 DEF RuntimeInv, NoProcessOutOfReach
<1>7. NoOtherAlive'
  <2>1. (Starting' <=> Starting) /\ call \notin Polling
    BY <1>0, <1>1, CallKinds DEF Starting
  <2> QED
    BY <1>0, <1>1, <1>2, <1>3, <1>4, <2>1 DEF RuntimeInv, NoOtherAlive
<1>8. KilledBeforeSecondWait' /\ StopOfAdapter'
  BY <1>0, <1>1, <1>3 DEF RuntimeInv, StopOfAdapter, KilledBeforeSecondWait
<1>9. Handed'
  <2>1. call' \notin Raising
    BY <1>1, CallKinds
  <2>2. /\ call.for # "serve" => call.p \in handles
        /\ adapter.process # Nothing => adapter.process \in handles
    BY <1>0 DEF RuntimeInv, Handed
  <2>3. UNCHANGED <<adapter, handles>> /\ call'.p = call.p /\ call'.for = call.for
    BY <1>0, <1>1
  <2> QED
    BY <2>1, <2>2, <2>3 DEF Handed
<1>10. RefersToSpawned'
  BY <1>0, <1>1, <1>3, <1>4 DEF RuntimeInv, TypeOK, Adapter, RefersToSpawned
<1> QED
  BY <1>5, <1>6, <1>7, <1>8, <1>9, <1>10 DEF RuntimeInv

\* An exception ends the call: what it was starting is cut short, what it was
\* stopping is still where it was.
LEMMA RaiseStep ==
    ASSUME RuntimeInv, Interrupted \/ Raised
    PROVE  RuntimeInv'
<1>0. /\ TypeOK /\ call # NoCall /\ call.p \in Procs
      /\ UNCHANGED <<proc, adapter, handles>>
  BY KindByOp, CallKinds DEF RuntimeInv, Interrupted, Raised
<1>1. CASE Interrupted
  <2>1. /\ call' \in Raising /\ call'.p = call.p
        /\ cut' = IF Starting THEN cut \cup {call.p} ELSE cut
        /\ alone' = (alone /\ ~Starting)
    BY <1>0, <1>1 DEF Interrupted, Raising
  <2>2. call' # NoCall /\ call' \notin Polling /\ call' \notin Stopping
    BY <2>1, CallKinds
  <2>3. TypeOK'
    BY <1>0, <2>1 DEF TypeOK
  <2>4. NoProcessOutOfReach'
    BY <1>0, <2>1, <2>2, SameProcesses DEF RuntimeInv, NoProcessOutOfReach
  <2>5. NoOtherAlive'
    BY <1>0, <2>1, <2>2, SameProcesses DEF RuntimeInv, NoOtherAlive
  <2>6. KilledBeforeSecondWait' /\ StopOfAdapter' /\ Handed'
    <3>1. Starting \/ (call \in Stopping /\ call.for # "serve")
      BY <1>1, KindByOp DEF RuntimeInv, Interrupted, Starting
    <3> QED
      BY <1>0, <2>1, <2>2, <3>1 DEF RuntimeInv, StopOfAdapter, KilledBeforeSecondWait, Handed
  <2>7. RefersToSpawned'
    BY <1>0, <2>1, SameProcesses, RuntimeAssumption DEF RuntimeInv, TypeOK, Adapter, RefersToSpawned
  <2> QED
    BY <2>3, <2>4, <2>5, <2>6, <2>7 DEF RuntimeInv
<1>2. CASE Raised
  <2>1. call.op = "raise" /\ call' = NoCall /\ UNCHANGED <<cut, alone>>
    BY <1>2 DEF Raised
  <2>2. ~Starting
    BY <2>1 DEF Starting
  <2>3. TypeOK'
    BY <1>0, <2>1 DEF TypeOK
  <2>4. NoProcessOutOfReach'
    <3>1. call.p \in handles \cup cut
      BY <1>0, <2>1, KindByOp DEF RuntimeInv, Handed
    <3> QED
      BY <1>0, <2>1, <3>1, SameProcesses DEF RuntimeInv, NoProcessOutOfReach
  <2>5. NoOtherAlive'
    BY <1>0, <2>1, <2>2, SameProcesses, CallKinds DEF RuntimeInv, NoOtherAlive
  <2>6. KilledBeforeSecondWait' /\ StopOfAdapter' /\ Handed'
    BY <1>0, <2>1, CallKinds DEF RuntimeInv, StopOfAdapter, KilledBeforeSecondWait, Handed
  <2>7. RefersToSpawned'
    BY <1>0, <2>1, SameProcesses, RuntimeAssumption DEF RuntimeInv, TypeOK, Adapter, RefersToSpawned
  <2> QED
    BY <2>3, <2>4, <2>5, <2>6, <2>7 DEF RuntimeInv
<1> QED
  BY <1>1, <1>2

\* Every step keeps the invariant.
LEMMA NextRuntime ==
    ASSUME RuntimeInv, [Next]_vars
    PROVE  RuntimeInv'
<1>1. CASE UNCHANGED vars
  BY <1>1 DEF vars, RuntimeInv, TypeOK, NoProcessOutOfReach, KilledBeforeSecondWait,
     RefersToSpawned, StopOfAdapter, Handed, NoOtherAlive, Starting, Alive, Spawned
<1>2. ASSUME NEW p \in Procs, Loads(p) \/ Ends(p)
      PROVE  RuntimeInv'
  BY <1>2, LifeStep
<1>3. ASSUME NEW p \in Procs, NEW model \in Models, NEW port \in Ports, Serve(p, model, port)
      PROVE  RuntimeInv'
  BY <1>3, ServeStep
<1>4. ASSUME Stop \/ \E p \in Procs : HandleStop(p)
      PROVE  RuntimeInv'
  BY <1>4, StopStep
<1>5. CASE PollSucceeds \/ PollFails \/ GiveUp
  BY <1>5, PollStep
<1>6. CASE Reaped \/ NotReaped
  BY <1>6, TerminatedStep
<1>7. CASE Escalate
  BY <1>7, EscalateStep
<1>8. CASE Interrupted \/ Raised
  BY <1>8, RaiseStep
<1> QED
  BY <1>1, <1>2, <1>3, <1>4, <1>5, <1>6, <1>7, <1>8 DEF Next, AdapterStep

\* The invariant holds of every adapter, however its servers load, crash or hang.
THEOREM RuntimeInvHolds == Spec => []RuntimeInv
<1>1. Init => RuntimeInv
  BY InitRuntime
<1>2. RuntimeInv /\ [Next]_vars => RuntimeInv'
  BY NextRuntime
<1> QED
  BY <1>1, <1>2, PTL DEF Spec

\* No llama-server is out of reach but by an exception that leaves serve: a serve
\* that returns or times out, and every stop, leaves no live process that has
\* neither a handle nor a SIGKILL.
THEOREM NoProcessOutOfReachHolds == Spec => []NoProcessOutOfReach
<1>1. RuntimeInv => NoProcessOutOfReach
  BY DEF RuntimeInv
<1> QED
  BY <1>1, RuntimeInvHolds, PTL

\* When _terminate returns, its process is dead or was sent SIGKILL.
THEOREM StopStopsHolds == Spec => StopStops
<1> DEFINE Stopped == call # NoCall /\ call.op = "terminate" /\ call' = NoCall =>
                          ~Alive(call.p) \/ proc'[call.p].killed
<1>1. ASSUME RuntimeInv, [Next]_vars PROVE [Stopped]_vars
  <2> SUFFICES ASSUME call # NoCall, call.op = "terminate", call' = NoCall
               PROVE  ~Alive(call.p) \/ proc'[call.p].killed
    OBVIOUS
  <2>1. call \in Stopping /\ call.p \in Procs
    BY <1>1, KindByOp DEF RuntimeInv
  <2>2. CASE Reaped
    BY <2>2 DEF Reaped
  <2>3. CASE NotReaped
    BY <1>1, <2>1, <2>3 DEF NotReaped, RuntimeInv, KilledBeforeSecondWait
  <2>4. ~Escalate /\ ~Raised
    BY <2>1, CallKinds DEF Escalate, Raised, Stopping
  <2>5. ~Interrupted
    BY DEF Interrupted, NoCall
  <2> QED
    BY <1>1, <2>2, <2>3, <2>4, <2>5 DEF Next, AdapterStep, vars, Loads, Ends, Serve, Stop, HandleStop,
       PollSucceeds, PollFails, GiveUp
<1> QED
  BY <1>1, RuntimeInvHolds, PTL DEF Spec, StopStops

\* With serves that begin when no other server is alive and are not cut short,
\* whatever answers at the adapter's address is its own process, with the model
\* list_models reports.
THEOREM ListedIsServedHolds == Spec => []ListedIsServed
<1>1. RuntimeInv => ListedIsServed
  BY RuntimeAssumption, CallKinds
     DEF RuntimeInv, ListedIsServed, NoOtherAlive, Starting, RefersToSpawned, Spawned, Answers, Alive, ListModels
<1> QED
  BY <1>1, RuntimeInvHolds, PTL
=============================================================================

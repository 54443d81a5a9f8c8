------------------------------ MODULE Runtime ------------------------------
(***************************************************************************)
(* The llama.cpp runtime: an adapter that starts, polls and stops          *)
(* llama-server processes (adapters/runtime-llamacpp).                     *)
(*                                                                         *)
(* One adapter object, used by one thread.  Processes load their model,    *)
(* bind their port, crash and ignore SIGTERM on their own, between any two *)
(* steps of the adapter.                                                   *)
(***************************************************************************)
EXTENDS Naturals, FiniteSets

CONSTANTS Models,    \* models
          Ports,     \* ports
          Nothing,   \* no process, no model, no port
          Retries,   \* the retries of serve
          MaxProcs   \* bound: processes that are spawned

ASSUME RuntimeAssumption ==
    /\ Retries \in Nat \ {0} /\ MaxProcs \in Nat
    /\ Nothing \notin Models \cup Ports \cup (1..MaxProcs)

Procs == 1..MaxProcs      \* in the order in which they are spawned

VARIABLES
    proc,     \* llama-server processes
    adapter,  \* the fields of LlamaCppAdapter
    call,     \* the call of it that is running
    handles,  \* processes whose ServerHandle a caller was given
    cut,      \* processes whose serve an exception cut short (an observer)
    alone     \* no serve began while another process was alive, nor was one cut
              \* short (an observer)

vars == <<proc, adapter, call, handles, cut, alone>>

NoCall == [op |-> "none"]
Unborn == [life |-> "unborn", model |-> Nothing, port |-> Nothing, killed |-> FALSE]
Alive(p) == proc[p].life \in {"loading", "up"}

-----------------------------------------------------------------------------
(* The processes (external).                                               *)

\* A server that has loaded its model binds its port, or exits if it is taken.
Taken(port) == \E q \in Procs : proc[q].life = "up" /\ proc[q].port = port
Loads(p) ==
    /\ proc[p].life = "loading" /\ ~proc[p].killed
    /\ proc' = [proc EXCEPT ![p].life = IF Taken(proc[p].port) THEN "dead" ELSE "up"]
    /\ UNCHANGED <<adapter, call, handles, cut, alone>>

\* It crashes, or ends because of a signal.
Ends(p) ==
    /\ Alive(p)
    /\ proc' = [proc EXCEPT ![p].life = "dead"]
    /\ UNCHANGED <<adapter, call, handles, cut, alone>>

-----------------------------------------------------------------------------
(* LlamaCppAdapter.                                                        *)

\* The process build_command describes: it is to load model and bind port.
BuildCommand(model, port) == [Unborn EXCEPT !.life = "loading", !.model = model, !.port = port]

\* serve spawns the command it builds.  When that raises (there is no such
\* binary) nothing has changed.
Serve(p, model, port) ==
    /\ call = NoCall /\ proc[p] = Unborn /\ \A q \in 1..(p - 1) : proc[q] # Unborn
    /\ proc' = [proc EXCEPT ![p] = BuildCommand(model, port)]
    /\ call' = [op |-> "poll", p |-> p, left |-> Retries]
    /\ alone' = (alone /\ \A q \in Procs : ~Alive(q))
    /\ UNCHANGED <<adapter, handles, cut>>

\* A plausible bug: an earlier process is kept.
ServedFirst(p) == [process |-> IF adapter.process = Nothing THEN p ELSE adapter.process,
                   model |-> proc[p].model, port |-> proc[p].port]

\* The fields set when serve succeeds; an earlier process is forgotten.
Served(p) == [process |-> p, model |-> proc[p].model, port |-> proc[p].port]

\* One health check: whatever listens on the port answers it.
Healthy(port) == Taken(port)
PollSucceeds ==
    /\ call.op = "poll" /\ call.left > 0 /\ Healthy(proc[call.p].port)
    /\ adapter' = Served(call.p)
    /\ handles' = handles \cup {call.p}
    /\ call' = NoCall
    /\ UNCHANGED <<proc, cut, alone>>

\* A plausible bug: a check that fails is not counted.
OneMoreTry(left) == left

OneLess(left) == left - 1
PollFails ==
    /\ call.op = "poll" /\ call.left > 0 /\ ~Healthy(proc[call.p].port)
    /\ call' = [call EXCEPT !.left = OneLess(@)]
    /\ UNCHANGED <<proc, adapter, handles, cut, alone>>

\* _terminate: SIGTERM, a wait of five seconds, SIGKILL, and another wait.
Terminating(p, for) == [op |-> "terminate", p |-> p, at |-> "wait", for |-> for]

\* A plausible bug: the process of a serve that timed out is left to itself.
LeftLoading == NoCall

\* The retries are used up: the process is terminated, and serve raises.
AfterTimeout == Terminating(call.p, "serve")
GiveUp ==
    /\ call.op = "poll" /\ call.left = 0
    /\ call' = AfterTimeout
    /\ UNCHANGED <<proc, adapter, handles, cut, alone>>

\* stop: the process of the last serve, if it was not stopped already.
Stop ==
    /\ call = NoCall
    /\ call' = IF adapter.process = Nothing THEN NoCall
               ELSE Terminating(adapter.process, "stop")
    /\ UNCHANGED <<proc, adapter, handles, cut, alone>>

\* The stop of a handle: its own process, whichever the adapter serves now.
HandleStop(p) ==
    /\ call = NoCall /\ p \in handles
    /\ call' = Terminating(p, "handle")
    /\ UNCHANGED <<proc, adapter, handles, cut, alone>>

\* What the caller of _terminate does next.
NoProcess == [process |-> Nothing, model |-> Nothing, port |-> adapter.port]
Terminated ==
    /\ call' = NoCall
    /\ adapter' = IF call.for = "stop" THEN NoProcess ELSE adapter

\* wait returns: the process has ended and is reaped.
Reaped ==
    /\ call.op = "terminate" /\ ~Alive(call.p)
    /\ Terminated
    /\ UNCHANGED <<proc, handles, cut, alone>>

\* A plausible bug: a process that ignores SIGTERM is given up.
KillsNothing(p) == proc

Kills(p) == [proc EXCEPT ![p].killed = TRUE]

\* The first wait times out: SIGKILL.
Escalate ==
    /\ call.op = "terminate" /\ call.at = "wait" /\ Alive(call.p)
    /\ proc' = Kills(call.p)
    /\ call' = [call EXCEPT !.at = "wait again"]
    /\ UNCHANGED <<adapter, handles, cut, alone>>

\* The second wait times out too: that is suppressed.
NotReaped ==
    /\ call.op = "terminate" /\ call.at = "wait again" /\ Alive(call.p)
    /\ Terminated
    /\ UNCHANGED <<proc, handles, cut, alone>>

\* An interrupt in a sleep or a wait, or a health check that raises: the call
\* does nothing more.  The process of a serve is left as it is, and nobody has it.
Starting == call.op = "poll" \/ (call.op = "terminate" /\ call.for = "serve")
Interrupted ==
    /\ call.op \in {"poll", "terminate"}
    /\ call' = [op |-> "raise", p |-> call.p]
    /\ cut' = IF Starting THEN cut \cup {call.p} ELSE cut
    /\ alone' = (alone /\ ~Starting)
    /\ UNCHANGED <<proc, adapter, handles>>

\* The exception reaches the caller.
Raised ==
    /\ call.op = "raise" /\ call' = NoCall
    /\ UNCHANGED <<proc, adapter, handles, cut, alone>>

\* list_models of the adapter.
ListModels == {adapter.model} \ {Nothing}

-----------------------------------------------------------------------------
Init ==
    /\ proc = [p \in Procs |-> Unborn]
    /\ adapter = [process |-> Nothing, model |-> Nothing, port |-> Nothing]
    /\ call = NoCall /\ handles = {} /\ cut = {} /\ alone = TRUE

AdapterStep == PollSucceeds \/ PollFails \/ GiveUp \/ Reaped \/ Escalate \/ NotReaped \/ Raised

Next ==
    \/ \E p \in Procs : Loads(p) \/ Ends(p) \/ HandleStop(p)
    \/ \E p \in Procs, model \in Models, port \in Ports : Serve(p, model, port)
    \/ Stop \/ AdapterStep \/ Interrupted

\* The polls are counted and both waits have a time-out, so a call goes on.
Spec == Init /\ [][Next]_vars /\ WF_vars(AdapterStep)

-----------------------------------------------------------------------------
(* Properties.                                                             *)

\* No llama-server is out of reach but by an exception that leaves serve before
\* it returns or times out: one that is alive is being started or stopped by the
\* call that runs, was killed, or belongs to a handle somebody was given.  A
\* serve that times out leaves none behind, even though the adapter itself
\* forgets the process of an earlier serve.
NoProcessOutOfReach ==
    \A p \in Procs : Alive(p) =>
        \/ p \in handles \/ proc[p].killed \/ p \in cut
        \/ call # NoCall /\ call.p = p

\* After stop the process the adapter served is dead, or was sent SIGKILL: a
\* stop does not return while the server goes on ignoring SIGTERM.
StopStops ==
    [][ call # NoCall /\ call.op = "terminate" /\ call' = NoCall =>
            ~Alive(call.p) \/ proc'[call.p].killed ]_vars

Answers(p, port) == proc[p].life = "up" /\ proc[p].port = port /\ ~proc[p].killed

\* When every serve began with no other server alive and none was cut short, whatever answers at the
\* adapter's address is the process the adapter would stop, with the model it
\* lists.
ListedIsServed ==
    alone /\ adapter.process # Nothing =>
        \A p \in Procs : call = NoCall /\ Answers(p, adapter.port) =>
            p = adapter.process /\ proc[p].model \in ListModels

\* Every serve and every stop returns or raises.
EveryCallEnds == call # NoCall ~> call = NoCall
=============================================================================

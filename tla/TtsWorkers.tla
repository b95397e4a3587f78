----------------------------- MODULE TtsWorkers -----------------------------
(***************************************************************************)
(* The resident speech workers: TtsWorkerManager owns the host of the      *)
(* current settings, an EngineHost hands its workers out in turn, calls    *)
(* run on the threads of an AdaptiveWorkerPool, and a ManagedKokoroWorker  *)
(* talks to one process over a pipe.  A worker is <<host, number>>.  The   *)
(* process is kokoro_setup's serve_json: it answers the lines it reads one *)
(* by one, may die, and may write a line that is no JSON.                  *)
(* worker.stop() takes no lock, so its steps interleave with those of the  *)
(* thread that has the worker's.                                           *)
(***************************************************************************)
EXTENDS Integers, Sequences, FiniteSets, SequencesExt

CONSTANTS
  Caller,      \* threads that render or preview
  Handler,     \* threads that save the settings
  Key,         \* worker settings: paths of the interpreter, model and voices
  Engines      \* bounds: [workers, left], the engines to try:
               \* max_workers of the pool, which is also the number of workers
               \* of a host, and how often a voice is asked for, the settings
               \* are saved, and a process dies or writes an odd line

ASSUME KeyAssumption == Key # {}
ASSUME EnginesAssumption == Engines \subseteq [workers : Nat \ {0}, calls : Nat, saves : Nat, faults : Nat]

VARIABLES
  adapter,     \* key of container.tts_adapter
  hosts,       \* every EngineHost made: [key, next, process], the last one a
               \* function from its workers to their _process, 0 for None
  manager,     \* _managed_kokoro: index of a host, 0 for None
  queue,       \* callers in the pool's queue
  procs,       \* every process started: [worker, alive, asked, lines]
  acts,        \* what each thread is about
  left,        \* what is left of the bounds
  overtaken    \* history: hosts retired while a call was using them

vars == <<adapter, hosts, manager, queue, procs, acts, left, overtaken>>

MaxWorkers == left.workers

\* No call can start more than two processes.
MaxRequests == CHOOSE n \in {e.calls : e \in Engines} : \A e \in Engines : e.calls <= n

Idle == [pc |-> "idle", key |-> CHOOSE k \in Key : TRUE, worker |-> <<0, 1>>, attempt |-> 0, process |-> 0,
         request |-> 0, answer |-> 0, stop |-> <<>>, victim |-> 0, back |-> "idle"]

Working == {"start", "poll", "send", "read", "done", "failed"}
InPool(c) == acts[c].pc \in {"lock"} \cup Working \/ (acts[c].pc \in {"stop", "kill"} /\ acts[c].back \in Working)
Locked(w) == \E c \in Caller : InPool(c) /\ acts[c].pc # "lock" /\ acts[c].worker = w
Uses(c, h) == acts[c].pc # "idle" /\ acts[c].worker[1] = h

Process(w) == hosts[w[1]].process[w[2]]
WorkersOf(h) == [i \in 1..MaxWorkers |-> <<h, i>>]

\* Thread t goes on stopping the workers one by one, then at back.
ThenStop(t, act, workers, back) ==
  acts' = [acts EXCEPT ![t] = IF workers = <<>> THEN [act EXCEPT !.pc = back]
                              ELSE [act EXCEPT !.stop = workers, !.back = back, !.pc = "stop"]]

\* The host the manager had is no longer the one it gives out.
Retired(h) == overtaken' = IF h # 0 /\ \E c \in Caller : Uses(c, h) THEN overtaken \cup {h} ELSE overtaken
-----------------------------------------------------------------------------
(* TtsWorkerManager and EngineHost *)

\* A render reads the adapter it will call the manager with.
Request(c) ==
  /\ acts[c].pc = "idle"
  /\ left.calls > 0
  /\ left' = [left EXCEPT !.calls = @ - 1]
  /\ acts' = [acts EXCEPT ![c] = [Idle EXCEPT !.pc = "manager", !.key = adapter, !.request = left.calls]]
  /\ UNCHANGED <<adapter, hosts, manager, queue, procs, overtaken>>

\* Variant of HostForKey: the host of the old key is left running.
HostForKeyLeaky(c) ==
  /\ acts[c].pc = "manager"
  /\ IF manager # 0 /\ hosts[manager].key = acts[c].key
     THEN /\ acts' = [acts EXCEPT ![c].pc = "assign", ![c].key = Idle.key, ![c].worker[1] = manager]
          /\ UNCHANGED <<hosts, manager, overtaken>>
     ELSE /\ hosts' = Append(hosts, [key |-> acts[c].key, next |-> 1, process |-> [i \in 1..MaxWorkers |-> 0]])
          /\ manager' = Len(hosts')
          /\ Retired(manager)
          /\ ThenStop(c, [acts[c] EXCEPT !.key = Idle.key, !.worker[1] = manager'], <<>>, "assign")
  /\ UNCHANGED <<adapter, queue, procs, left>>

\* The host is looked up and replaced under the manager's lock, the old one
\* stopped outside it.
HostForKey(c) ==
  /\ acts[c].pc = "manager"
  /\ IF manager # 0 /\ hosts[manager].key = acts[c].key
     THEN /\ acts' = [acts EXCEPT ![c].pc = "assign", ![c].key = Idle.key, ![c].worker[1] = manager]
          /\ UNCHANGED <<hosts, manager, overtaken>>
     ELSE /\ hosts' = Append(hosts, [key |-> acts[c].key, next |-> 1, process |-> [i \in 1..MaxWorkers |-> 0]])
          /\ manager' = Len(hosts')
          /\ Retired(manager)
          /\ ThenStop(c, [acts[c] EXCEPT !.key = Idle.key, !.worker[1] = manager'],
                      IF manager = 0 THEN <<>> ELSE WorkersOf(manager), "assign")
  /\ UNCHANGED <<adapter, queue, procs, left>>

\* EngineHost.run: the workers take turns, whether they are busy or not.
Assign(c) ==
  LET h == acts[c].worker[1]
  IN /\ acts[c].pc = "assign"
     /\ acts' = [acts EXCEPT ![c].pc = "queued", ![c].worker[2] = hosts[h].next]
     /\ hosts' = [hosts EXCEPT ![h].next = (@ % MaxWorkers) + 1]
     /\ queue' = Append(queue, c)
     /\ UNCHANGED <<adapter, manager, procs, left, overtaken>>

\* AdaptiveWorkerPool.run: a thread of the pool takes the first call.
PoolTakes(c) ==
  /\ acts[c].pc = "queued"
  /\ queue # <<>> /\ Head(queue) = c
  /\ Cardinality({d \in Caller : InPool(d)}) < MaxWorkers
  /\ queue' = Tail(queue)
  /\ acts' = [acts EXCEPT ![c].pc = "lock"]
  /\ UNCHANGED <<adapter, hosts, manager, procs, left, overtaken>>

\* save_tts_settings: stop_all, and only then the new adapter.
StopAll(s) ==
  /\ acts[s].pc = "idle"
  /\ left.saves > 0
  /\ left' = [left EXCEPT !.saves = @ - 1]
  /\ manager' = 0
  /\ Retired(manager)
  /\ \E k \in Key : ThenStop(s, [Idle EXCEPT !.key = k], IF manager = 0 THEN <<>> ELSE WorkersOf(manager), "adapt")
  /\ UNCHANGED <<adapter, hosts, queue, procs>>

Adapt(s) ==
  /\ acts[s].pc = "adapt"
  /\ adapter' = acts[s].key
  /\ acts' = [acts EXCEPT ![s] = Idle]
  /\ UNCHANGED <<hosts, manager, queue, procs, left, overtaken>>
-----------------------------------------------------------------------------
(* ManagedKokoroWorker.stop *)

StopReads(t) ==
  /\ acts[t].pc = "stop"
  /\ acts' = [acts EXCEPT ![t].pc = "kill", ![t].victim = Process(Head(acts[t].stop))]
  /\ UNCHANGED <<adapter, hosts, manager, queue, procs, left, overtaken>>

Stopped(t) ==
  LET last == Len(acts[t].stop) = 1
  IN [acts EXCEPT ![t].stop = Tail(@), ![t].victim = 0,
                  ![t].pc = IF last THEN acts[t].back ELSE "stop", ![t].back = IF last THEN "idle" ELSE @]

\* What _process is by now is lost; the process that was read is terminated,
\* and killed when it does not end in time: its pipe is at its end.
StopKills(t) ==
  LET w == Head(acts[t].stop)
  IN /\ acts[t].pc = "kill"
     /\ hosts' = [hosts EXCEPT ![w[1]].process[w[2]] = 0]
     /\ procs' = IF acts[t].victim = 0 THEN procs
                 ELSE [procs EXCEPT ![acts[t].victim].alive = FALSE, ![acts[t].victim].asked = <<>>]
     /\ acts' = Stopped(t)
     /\ UNCHANGED <<adapter, manager, queue, left, overtaken>>
-----------------------------------------------------------------------------
(* ManagedKokoroWorker.synthesize *)

Spawn(c) ==
  LET w == acts[c].worker
  IN /\ procs' = Append(procs, [worker |-> w, alive |-> TRUE, asked |-> <<>>, lines |-> <<>>])
     /\ hosts' = [hosts EXCEPT ![w[1]].process[w[2]] = Len(procs')]
     /\ acts' = [acts EXCEPT ![c].pc = "send"]

\* synthesize takes the worker's lock for both attempts; _ensure_started
\* reads _process to see whether there is one ...
EnsureStarted(c) ==
  /\ \/ acts[c].pc = "lock" /\ ~Locked(acts[c].worker)
     \/ acts[c].pc = "start"
  /\ IF Process(acts[c].worker) = 0 THEN Spawn(c)
     ELSE acts' = [acts EXCEPT ![c].pc = "poll"] /\ UNCHANGED <<hosts, procs>>
  /\ UNCHANGED <<adapter, manager, queue, left, overtaken>>

\* ... and again to poll it: a stop in between raises an error that is no
\* WorkerProcessError.
EnsurePolls(c) ==
  LET p == Process(acts[c].worker)
  IN /\ acts[c].pc = "poll"
     /\ IF p # 0 /\ ~procs[p].alive THEN Spawn(c)
        ELSE /\ acts' = [acts EXCEPT ![c].pc = IF p = 0 THEN "failed" ELSE "send"]
             /\ UNCHANGED <<hosts, procs>>
     /\ UNCHANGED <<adapter, manager, queue, left, overtaken>>

\* Variant of Broken: the request goes to the same process again.
BrokenKept(c) ==
  acts' = [acts EXCEPT ![c].attempt = @ + 1, ![c].pc = IF acts[c].attempt = 0 THEN "start" ELSE "failed"]

\* A WorkerProcessError: the worker is stopped and the request sent once more.
Broken(c) ==
  ThenStop(c, [acts[c] EXCEPT !.attempt = @ + 1, !.process = 0], <<acts[c].worker>>,
           IF acts[c].attempt = 0 THEN "start" ELSE "failed")

Send(c) ==
  LET p == Process(acts[c].worker)
  IN /\ acts[c].pc = "send"
     /\ IF p = 0 \/ ~procs[p].alive
        THEN Broken(c) /\ UNCHANGED procs
        ELSE /\ procs' = [procs EXCEPT ![p].asked = Append(@, acts[c].request)]
             /\ acts' = [acts EXCEPT ![c].pc = "read", ![c].process = p]
     /\ UNCHANGED <<adapter, hosts, manager, queue, left, overtaken>>

\* Variant of Read: an empty line is read over.
ReadOn(c) ==
  LET p == acts[c].process
      line == Head(procs[p].lines)
  IN /\ acts[c].pc = "read"
     /\ procs[p].lines # <<>>
     /\ procs' = [procs EXCEPT ![p].lines = Tail(@)]
     /\ CASE line.kind = "ok" -> acts' = [acts EXCEPT ![c].pc = "done", ![c].answer = line.of, ![c].process = 0]
          [] line.kind = "refused" -> acts' = [acts EXCEPT ![c].pc = "failed", ![c].answer = line.of, ![c].process = 0]
          [] line.kind = "odd" -> Broken(c)
     /\ UNCHANGED <<adapter, hosts, manager, queue, left, overtaken>>

\* readline returns the next line, or nothing when the process is gone; a
\* refusal keeps the process.
Read(c) ==
  LET p == acts[c].process
      line == Head(procs[p].lines)
  IN /\ acts[c].pc = "read"
     /\ IF procs[p].lines = <<>>
        THEN ~procs[p].alive /\ Broken(c) /\ UNCHANGED procs
        ELSE /\ procs' = [procs EXCEPT ![p].lines = Tail(@)]
             /\ CASE line.kind = "ok" -> acts' = [acts EXCEPT ![c].pc = "done", ![c].answer = line.of, ![c].process = 0]
                  [] line.kind = "refused" -> acts' = [acts EXCEPT ![c].pc = "failed", ![c].answer = line.of, ![c].process = 0]
                  [] line.kind = "odd" -> Broken(c)
     /\ UNCHANGED <<adapter, hosts, manager, queue, left, overtaken>>

\* The worker's lock and the thread of the pool are given back.
Finish(c) ==
  /\ acts[c].pc \in {"done", "failed"}
  /\ acts' = [acts EXCEPT ![c] = Idle]
  /\ UNCHANGED <<adapter, hosts, manager, queue, procs, left, overtaken>>
-----------------------------------------------------------------------------
(* The process *)

Serve(p) ==
  /\ procs[p].alive /\ procs[p].asked # <<>>
  /\ \E kind \in {"ok", "refused"} :
       procs' = [procs EXCEPT ![p].asked = Tail(@), ![p].lines = Append(@, [kind |-> kind, of |-> Head(procs[p].asked)])]
  /\ UNCHANGED <<adapter, hosts, manager, queue, acts, left, overtaken>>

Fault(p) ==
  /\ left.faults > 0
  /\ left' = [left EXCEPT !.faults = @ - 1]
  /\ procs[p].alive
  /\ \/ procs' = [procs EXCEPT ![p].alive = FALSE, ![p].asked = <<>>]
     \/ /\ procs[p].asked # <<>>
        /\ procs' = [procs EXCEPT ![p].lines = Append(@, [kind |-> "odd", of |-> 0])]
  /\ UNCHANGED <<adapter, hosts, manager, queue, acts, overtaken>>

Init ==
  /\ adapter = CHOOSE k \in Key : TRUE
  /\ hosts = <<>> /\ manager = 0 /\ queue = <<>> /\ procs = <<>>
  /\ acts = [t \in Caller \cup Handler |-> Idle]
  /\ left \in Engines
  /\ overtaken = {}

CallerSteps(c) ==
  \/ HostForKey(c) \/ Assign(c) \/ PoolTakes(c) \/ EnsureStarted(c) \/ EnsurePolls(c)
  \/ Send(c) \/ Read(c) \/ Finish(c)

StopSteps(t) == StopReads(t) \/ StopKills(t)

Next ==
  \/ \E c \in Caller : Request(c) \/ CallerSteps(c)
  \/ \E s \in Handler : StopAll(s) \/ Adapt(s)
  \/ \E t \in Caller \cup Handler : StopSteps(t)
  \/ \E p \in DOMAIN procs : Serve(p) \/ Fault(p)

Spec == Init /\ [][Next]_vars

\* Threads run on, and a process that is asked something answers it unless
\* it dies: the code waits for it without a timeout.
Fairness ==
  /\ \A c \in Caller : WF_vars(CallerSteps(c))
  /\ \A t \in Caller \cup Handler : WF_vars(StopSteps(t))
  /\ \A s \in Handler : WF_vars(Adapt(s))
  /\ \A p \in 1..(2 * MaxRequests) : WF_vars(p \in DOMAIN procs /\ Serve(p))

FairSpec == Spec /\ Fairness

-----------------------------------------------------------------------------
TypeOK ==
  /\ adapter \in Key /\ manager \in 0..Len(hosts) /\ overtaken \subseteq 1..Len(hosts)
  /\ \A h \in DOMAIN hosts : hosts[h].next \in 1..MaxWorkers /\ \A i \in 1..MaxWorkers : hosts[h].process[i] \in 0..Len(procs)
  /\ \A t \in Caller \cup Handler : acts[t].attempt \in 0..2 /\ acts[t].victim \in 0..Len(procs)

\* A call returns what the process said of its own text, whatever died,
\* stammered or was stopped meanwhile, and only one thread reads a pipe
\* (ManagedKokoroWorker._send_request, synthesize).
AnswersMatch ==
  /\ \A c \in Caller : acts[c].answer # 0 => acts[c].answer = acts[c].request
  /\ \A c, d \in Caller : acts[c].pc = "read" /\ acts[d].pc = "read" /\ acts[c].process = acts[d].process => c = d

Stopping(w) == \E t \in Caller \cup Handler : \E i \in DOMAIN acts[t].stop : acts[t].stop[i] = w
Victim(p) == \E t \in Caller \cup Handler : acts[t].victim = p

\* A worker of the current host has one process at most, and a process of
\* an older host is on its way out, unless the host was retired while a call
\* was using it: only then can a process outlive everybody who could stop it
\* (TtsWorkerManager.stop_all, _host_for_key).
OnlyOverlapLeaks ==
  \A p \in DOMAIN procs : procs[p].alive =>
    LET w == procs[p].worker
    IN \/ w[1] = manager /\ (Process(w) = p \/ Victim(p))
       \/ Stopping(w)
       \/ w[1] \in overtaken

WorkersAreSafe == TypeOK /\ AnswersMatch /\ OnlyOverlapLeaks

\* Every call ends, also when its worker is stopped, replaced or dies under
\* it, when the pool is full and when two calls got the same worker
\* (EngineHost.run, AdaptiveWorkerPool.run).
CallsEnd == \A c \in Caller : acts[c].pc # "idle" ~> acts[c].pc = "idle"
=============================================================================

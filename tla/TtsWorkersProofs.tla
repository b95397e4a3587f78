-------------------------- MODULE TtsWorkersProofs --------------------------
(***************************************************************************)
(* Processes, pipes and answers of TtsWorkers, for any callers, settings   *)
(* requests, settings, pool sizes, calls and faults.                       *)
(***************************************************************************)
EXTENDS TtsWorkers, SequenceTheorems, TLAPS

Thread == Caller \cup Handler
Stopper == {"stop", "kill"}
Pc == {"idle", "manager", "assign", "queued", "lock", "adapt"} \cup Working \cup Stopper
Back == {"idle", "assign", "adapt", "start", "failed"}
Worker == Nat \X Nat
Act == [pc : Pc, key : Key, worker : Worker, attempt : 0..2, process : Nat, request : Nat,
        answer : Nat, stop : Seq(Worker), victim : Nat, back : Back]
Line == [kind : {"ok", "refused", "odd"}, of : Nat]
Proc == [worker : Worker, alive : BOOLEAN, asked : Seq(Nat), lines : Seq(Line)]
Host == [key : Key, next : 1..MaxWorkers, process : [1..MaxWorkers -> Nat]]

Types ==
  /\ left \in [workers : Nat \ {0}, calls : Nat, saves : Nat, faults : Nat]
  /\ adapter \in Key
  /\ hosts \in Seq(Host)
  /\ procs \in Seq(Proc)
  /\ acts \in [Thread -> Act]
  /\ queue \in Seq(Caller)
  /\ manager \in 0..Len(hosts)
  /\ overtaken \subseteq 1..Len(hosts)

RealWorker(w) == w[1] \in 1..Len(hosts) /\ w[2] \in 1..MaxWorkers

\* A worker's process was started for it.
ProcessIsOwn ==
  /\ \A h \in DOMAIN hosts : \A i \in 1..MaxWorkers :
       LET p == hosts[h].process[i]
       IN p # 0 => p \in DOMAIN procs /\ procs[p].worker = <<h, i>>
  /\ \A p \in DOMAIN procs : RealWorker(procs[p].worker)

\* What a thread keeps at each place.
Holding(t) ==
  LET a == acts[t]
  IN /\ a.pc \in {"idle", "manager", "adapt"} \/ a.back = "adapt" => a.worker = <<0, 1>>
     /\ a.pc \in {"assign", "queued", "lock"} \cup Working \/ a.back \in {"assign", "start", "failed"}
          => RealWorker(a.worker)
     /\ a.attempt = 2 => a.pc = "failed" \/ (a.pc \in Stopper /\ a.back = "failed")
     /\ a.process # 0 => a.pc = "read"
     /\ a.victim # 0 => a.pc = "kill" /\ a.victim \in DOMAIN procs
     /\ a.pc \in Stopper <=> a.stop # <<>>
     /\ a.pc \in Stopper <=> a.back # "idle"

\* A thread that breaks stops its own worker, any other the workers of a host
\* that is not given out any more.
Mends(t) == acts[t].back \in {"start", "failed"}
Retires(t) == acts[t].back \in {"assign", "adapt"}
StopsRightly(t) ==
  /\ Mends(t) => t \in Caller /\ acts[t].stop = <<acts[t].worker>> /\ RealWorker(acts[t].worker)
  /\ Retires(t) => \A i \in DOMAIN acts[t].stop :
                      RealWorker(acts[t].stop[i]) /\ acts[t].stop[i][1] # manager

ThreadsAreSound == \A t \in Thread : Holding(t) /\ StopsRightly(t)

Holds(c) == InPool(c) /\ acts[c].pc # "lock"

\* The worker's lock.
OneHolds ==
  \A c, d \in Caller : Holds(c) /\ Holds(d) /\ acts[c].worker = acts[d].worker => c = d

\* Nobody uses a host that is not the manager's, unless it was overtaken.
UsersAreCounted ==
  \A c \in Caller : acts[c].pc # "idle" /\ acts[c].worker[1] \notin {0, manager}
                      => acts[c].worker[1] \in overtaken

\* A host is retired by one thread.
OneRetires ==
  \A s, t \in Thread : Retires(s) /\ Retires(t) =>
    \A i \in DOMAIN acts[s].stop, k \in DOMAIN acts[t].stop :
      acts[s].stop[i][1] = acts[t].stop[k][1] => s = t

\* Between the reading of a process and its end nobody changes it, nor does
\* a process live that its worker does not know, but on overtaken hosts.
VictimIsCurrent ==
  \A t \in Thread : acts[t].pc = "kill" =>
    LET w == Head(acts[t].stop)
    IN w[1] \notin overtaken => acts[t].victim = Process(w)
AliveIsKnown ==
  \A p \in DOMAIN procs : LET w == procs[p].worker
    IN procs[p].alive /\ w[1] \notin overtaken =>
         Process(w) = p /\ (w[1] = manager \/ Stopping(w))

Clean(p) == procs[p].asked = <<>> /\ procs[p].lines = <<>>

\* The thread that has worker <<h, i>> reads from process p or is about to stop it.
Attended(h, i, p) ==
  \E c \in Caller : /\ Holds(c) /\ acts[c].worker = <<h, i>>
                    /\ acts[c].pc \in Stopper \/ acts[c].process = p

\* A pipe a worker may still be sent to is empty, or the thread that has the
\* worker is reading from it or about to stop it.
PipesAreClean ==
  \A h \in DOMAIN hosts : \A i \in 1..MaxWorkers :
    LET p == hosts[h].process[i]
    IN p # 0 => Clean(p) \/ Attended(h, i, p)

\* The pipe a thread reads from holds its own request or the answer to it.
ReadsOwnPipe ==
  \A c \in Thread : acts[c].pc = "read" =>
    LET p == acts[c].process
    IN /\ c \in Caller
       /\ p \in DOMAIN procs /\ procs[p].worker = acts[c].worker
       /\ Len(procs[p].asked) <= 1
       /\ \A i \in DOMAIN procs[p].asked : procs[p].asked[i] = acts[c].request
       /\ \A i \in DOMAIN procs[p].lines : procs[p].lines[i].kind # "odd" =>
            /\ procs[p].lines[i].of = acts[c].request
            /\ i = Len(procs[p].lines) /\ procs[p].asked = <<>>

AnswersAreOwn == \A t \in Thread : acts[t].answer # 0 => acts[t].answer = acts[t].request

IInv ==
  /\ Types
  /\ ProcessIsOwn
  /\ ThreadsAreSound
  /\ OneHolds
  /\ UsersAreCounted
  /\ OneRetires
  /\ VictimIsCurrent
  /\ AliveIsKnown
  /\ PipesAreClean
  /\ ReadsOwnPipe
  /\ AnswersAreOwn
-----------------------------------------------------------------------------
\* A worker whose host or number is filled in.
LEMMA WorkerExcept ==
  ASSUME NEW w \in Worker, NEW n \in Nat
  PROVE  /\ [w EXCEPT ![1] = n] \in Worker /\ [w EXCEPT ![1] = n][1] = n /\ [w EXCEPT ![1] = n][2] = w[2]
         /\ [w EXCEPT ![2] = n] \in Worker /\ [w EXCEPT ![2] = n][1] = w[1] /\ [w EXCEPT ![2] = n][2] = n
BY DEF Worker

\* A worker is its host and its number.
LEMMA WorkerPair ==
  ASSUME NEW v \in Worker, NEW w \in Worker
  PROVE  /\ w = <<w[1], w[2]>> /\ w[1] \in Nat /\ w[2] \in Nat
         /\ v = w <=> v[1] = w[1] /\ v[2] = w[2]
BY DEF Worker

\* A thread that is about nothing.
LEMMA IdleAct ==
  /\ Idle \in Act
  /\ Idle.pc = "idle" /\ Idle.worker = <<0, 1>> /\ Idle.attempt = 0 /\ Idle.process = 0
  /\ Idle.answer = 0 /\ Idle.stop = <<>> /\ Idle.victim = 0 /\ Idle.back = "idle"
BY KeyAssumption DEF Idle, Act, Pc, Back, Worker, Working

\* What a thread keeps, as its record says it.
LEMMA ThreadFacts ==
  ASSUME IInv, NEW t \in Thread
  PROVE  acts[t] \in Act /\ Holding(t) /\ StopsRightly(t)
BY DEF IInv, Types, ThreadsAreSound

\* What is known of a process.
LEMMA ProcFacts ==
  ASSUME IInv, NEW p \in DOMAIN procs
  PROVE  /\ procs[p] \in Proc /\ procs[p].worker \in Worker /\ procs[p].alive \in BOOLEAN
         /\ procs[p].asked \in Seq(Nat) /\ procs[p].lines \in Seq(Line)
<1>1. procs[p] \in Proc
  BY DEF IInv, Types
<1> QED
  BY <1>1 DEF Proc

\* A worker's process is one that was started, or none.
LEMMA ProcessIsReal ==
  ASSUME IInv, NEW w \in Worker, RealWorker(w)
  PROVE  /\ Process(w) \in Nat
         /\ Process(w) # 0 => Process(w) \in DOMAIN procs /\ procs[Process(w)].worker = w
<1>1. w = <<w[1], w[2]>>
  BY WorkerPair
<1>2. w[1] \in DOMAIN hosts /\ w[2] \in 1..MaxWorkers
  BY DEF IInv, Types, RealWorker
<1>3. hosts[w[1]] \in Host
  BY <1>2 DEF IInv, Types
<1>4. hosts[w[1]].process \in [1..MaxWorkers -> Nat]
  BY <1>3 DEF Host
<1> QED
  BY <1>1, <1>2, <1>4 DEF IInv, ProcessIsOwn, Process

\* Who stops workers has one to stop, and it is a worker of a host that was made.
LEMMA StopperFacts ==
  ASSUME IInv, NEW t \in Thread, acts[t].pc \in Stopper
  PROVE  /\ acts[t].stop \in Seq(Worker) /\ acts[t].stop # <<>>
         /\ Head(acts[t].stop) = acts[t].stop[1] /\ 1 \in DOMAIN acts[t].stop
         /\ Head(acts[t].stop) \in Worker /\ RealWorker(Head(acts[t].stop))
         /\ Mends(t) \/ Retires(t)
<1>1. acts[t] \in Act /\ Holding(t) /\ StopsRightly(t)
  BY ThreadFacts
<1>2. acts[t].stop \in Seq(Worker) /\ acts[t].stop # <<>> /\ acts[t].back # "idle" /\ acts[t].back \in Back
  BY <1>1 DEF Holding, Act
<1>3. Head(acts[t].stop) = acts[t].stop[1] /\ 1 \in DOMAIN acts[t].stop /\ Head(acts[t].stop) \in Worker
  BY <1>2
<1>4. Mends(t) \/ Retires(t)
  BY <1>2 DEF Mends, Retires, Back
<1>5. RealWorker(acts[t].stop[1])
  BY <1>1, <1>3, <1>4 DEF StopsRightly
<1> QED
  BY <1>2, <1>3, <1>4, <1>5

\* Every worker has the process it had.
SameProcesses ==
  /\ Len(hosts') = Len(hosts)
  /\ \A h \in DOMAIN hosts : hosts'[h].process = hosts[h].process

\* One thread moves, and takes, keeps or gives up what it may; hosts and
\* processes stay as they are.
LEMMA MoveIInv ==
  ASSUME IInv, Types', NEW t \in Thread, NEW b \in Act,
         acts' = [acts EXCEPT ![t] = b], MaxWorkers' = MaxWorkers,
         SameProcesses, UNCHANGED <<procs, manager, overtaken>>,
         Holding(t)', StopsRightly(t)',
         t \in Caller /\ Holds(t)' =>
           (Holds(t) /\ b.worker = acts[t].worker) \/ ~Locked(b.worker),
         t \in Caller /\ b.pc # "idle" /\ b.worker[1] \notin {0, manager} =>
           acts[t].pc # "idle" /\ b.worker[1] = acts[t].worker[1],
         Retires(t)' => Retires(t) /\ b.stop = acts[t].stop,
         b.pc = "kill" => acts[t].pc \in Stopper /\ b.victim = Process(Head(b.stop)),
         acts[t].stop # <<>> => b.stop = acts[t].stop,
         t \in Caller /\ Holds(t) /\ acts[t].pc \in Stopper \cup {"read"} =>
           Holds(t)' /\ b.pc \in Stopper /\ b.worker = acts[t].worker,
         b.pc # "read",
         b.answer # 0 => b.answer = b.request
  PROVE  IInv'
<1>0. /\ acts'[t] = b
      /\ \A s \in Thread : s # t => acts'[s] = acts[s]
      /\ Caller \subseteq Thread
  BY DEF IInv, Types, Thread
<1> DOMAIN hosts' = DOMAIN hosts /\ Len(hosts') = Len(hosts) /\ DOMAIN hosts = 1..Len(hosts)
  BY DEF IInv, Types, SameProcesses
<1> \A w : RealWorker(w) => Process(w)' = hosts'[w[1]].process[w[2]] /\ Process(w)' = Process(w)
  BY DEF RealWorker, Process, SameProcesses
<1>1. ProcessIsOwn'
  BY DEF IInv, ProcessIsOwn, RealWorker, SameProcesses
<1>2. ThreadsAreSound'
  <2> SUFFICES ASSUME NEW s \in Thread, s # t PROVE Holding(s)' /\ StopsRightly(s)'
    BY DEF ThreadsAreSound
  <2> QED
    BY <1>0 DEF IInv, ThreadsAreSound, Holding, StopsRightly, Mends, Retires, RealWorker
<1>3. \A c \in Caller : c # t => (Holds(c)' <=> Holds(c))
  BY <1>0 DEF Holds, InPool
<1>4. OneHolds'
  <2> SUFFICES ASSUME NEW c \in Caller, NEW d \in Caller, c # d, c # t,
                      Holds(c)', Holds(d)', acts'[c].worker = acts'[d].worker
               PROVE  FALSE
    BY DEF OneHolds
  <2> QED
    BY <1>0, <1>3 DEF IInv, OneHolds, Holds, Locked
<1>5. UsersAreCounted'
  BY <1>0 DEF IInv, UsersAreCounted
<1>6. OneRetires'
  BY <1>0 DEF IInv, OneRetires, Retires
<1>7. VictimIsCurrent'
  <2> SUFFICES ASSUME NEW s \in Thread, acts'[s].pc = "kill"
               PROVE  \A w : w = Head(acts'[s].stop) /\ w[1] \notin overtaken
                               => acts'[s].victim = hosts'[w[1]].process[w[2]]
    BY DEF VictimIsCurrent, Process
  <2>1. acts[s].pc \in Stopper /\ acts'[s].stop = acts[s].stop
    BY <1>0, StopperFacts DEF Stopper
  <2>2. RealWorker(Head(acts[s].stop))
    BY <2>1, StopperFacts
  <2> QED
    BY SMTT(30), <1>0, <2>1, <2>2 DEF IInv, VictimIsCurrent
<1>8. AliveIsKnown'
  <2>1. \A w : Stopping(w) => Stopping(w)'
    BY <1>0 DEF Stopping, Thread
  <2> QED
    BY <2>1 DEF IInv, AliveIsKnown, ProcessIsOwn
<1>9. PipesAreClean'
  <2>1. ASSUME NEW h, NEW i, NEW p, p # 0, Attended(h, i, p) PROVE Attended(h, i, p)'
    <3>1. PICK c \in Caller : /\ Holds(c) /\ acts[c].worker = <<h, i>>
                              /\ acts[c].pc \in Stopper \/ acts[c].process = p
      BY <2>1 DEF Attended
    <3>2. acts[c].pc \in Stopper \cup {"read"}
      BY <2>1, <3>1, <1>0 DEF IInv, ThreadsAreSound, Holding
    <3> QED
      BY <1>0, <1>3, <3>1, <3>2 DEF Attended
  <2> QED
    BY <2>1 DEF IInv, PipesAreClean, Clean, SameProcesses
<1>10. ReadsOwnPipe'
  BY <1>0 DEF IInv, ReadsOwnPipe
<1>11. AnswersAreOwn'
  BY <1>0 DEF IInv, AnswersAreOwn
<1> QED
  BY <1>1, <1>2, <1>4, <1>5, <1>6, <1>7, <1>8, <1>9, <1>10, <1>11 DEF IInv
-----------------------------------------------------------------------------
\* A render reads the adapter.
LEMMA RequestIInv ==
  ASSUME IInv, NEW c \in Caller, Request(c)
  PROVE  IInv'
<1> DEFINE b == [Idle EXCEPT !.pc = "manager", !.key = adapter, !.request = left.calls]
<1> USE IdleAct
<1>1. c \in Thread /\ acts[c] \in Act /\ acts[c].stop = <<>> /\ ~Holds(c)
  BY DEF IInv, Types, Thread, ThreadsAreSound, Holding, Request, Holds, InPool, Working, Stopper
<1>2. b \in Act /\ acts' = [acts EXCEPT ![c] = b] /\ MaxWorkers' = MaxWorkers
  BY DEF Request, IInv, Types, Act, Pc, MaxWorkers
<1>3. Types'
  <2>1. Host' = Host
    BY <1>2 DEF Host
  <2>2. left' \in [workers : Nat \ {0}, calls : Nat, saves : Nat, faults : Nat]
    <3>1. left \in [workers : Nat \ {0}, calls : Nat, saves : Nat, faults : Nat]
      BY DEF IInv, Types
    <3>2. left.calls > 0 /\ left' = [left EXCEPT !.calls = left.calls - 1]
      BY DEF Request
    <3> QED
      BY <3>1, <3>2
  <2>3. hosts' \in Seq(Host)' /\ acts' \in [Thread -> Act]
    BY <1>1, <1>2, <2>1 DEF IInv, Types, Request
  <2>4. /\ adapter' \in Key /\ procs' \in Seq(Proc) /\ queue' \in Seq(Caller)
        /\ manager' \in 0..Len(hosts)' /\ overtaken' \subseteq 1..Len(hosts)'
    BY DEF IInv, Types, Request
  <2> QED
    BY <2>2, <2>3, <2>4 DEF Types
<1>4. acts'[c] = b /\ b.pc = "manager" /\ b.worker = <<0, 1>> /\ b.worker[1] = 0 /\ b.stop = <<>> /\ b.back = "idle"
      /\ b.process = 0 /\ b.victim = 0 /\ b.attempt = 0 /\ b.answer = 0
  BY <1>1, <1>2 DEF IInv, Types
<1> HIDE DEF b
<1>5. Holding(c)' /\ StopsRightly(c)' /\ ~Holds(c)' /\ ~Retires(c)'
  BY <1>4 DEF Holding, StopsRightly, Mends, Retires, Stopper, Working, Holds, InPool
<1> QED
  BY <1>1, <1>2, <1>3, <1>4, <1>5, MoveIInv DEF Request, Stopper, SameProcesses

\* A thread of the pool takes the first call.
LEMMA PoolTakesIInv ==
  ASSUME IInv, NEW c \in Caller, PoolTakes(c)
  PROVE  IInv'
<1> DEFINE b == [acts[c] EXCEPT !.pc = "lock"]
<1>1. c \in Thread /\ acts[c] \in Act /\ acts[c].pc = "queued"
  BY DEF IInv, Types, Thread, PoolTakes
<1>2. b \in Act /\ acts' = [acts EXCEPT ![c] = b] /\ MaxWorkers' = MaxWorkers
  BY <1>1 DEF PoolTakes, Act, Pc, MaxWorkers
<1>3. Types'
  BY <1>1, <1>2 DEF IInv, Types, PoolTakes, Host
<1>4. /\ acts'[c] = b /\ b.pc = "lock" /\ b.worker = acts[c].worker /\ b.attempt = acts[c].attempt
      /\ b.process = acts[c].process /\ b.victim = acts[c].victim /\ b.stop = acts[c].stop
      /\ b.back = acts[c].back /\ b.answer = acts[c].answer /\ b.request = acts[c].request
  BY <1>1, <1>2 DEF IInv, Types, Act
<1> HIDE DEF b
<1>5. Holding(c) /\ StopsRightly(c)
  BY <1>1 DEF IInv, ThreadsAreSound
<1>6. ~Holds(c) /\ ~Holds(c)' /\ ~Retires(c)'
  BY <1>1, <1>4, <1>5 DEF Holds, InPool, Working, Stopper, Holding, Retires
<1>7. UNCHANGED <<hosts, procs, manager, overtaken>>
  BY DEF PoolTakes
<1>8. Holding(c)'
  BY <1>1, <1>2, <1>4, <1>5, <1>7 DEF Holding, RealWorker, Stopper, Working
<1>9. acts[c].stop = <<>> /\ acts[c].back = "idle"
  BY <1>1, <1>5 DEF Holding, Stopper
<1>10. StopsRightly(c)'
  BY <1>4, <1>9 DEF StopsRightly, Mends, Retires
<1>11. b.answer # 0 => b.answer = b.request
  BY <1>1, <1>4 DEF IInv, AnswersAreOwn
<1> QED
  BY <1>1, <1>2, <1>3, <1>4, <1>6, <1>7, <1>8, <1>9, <1>10, <1>11, MoveIInv DEF SameProcesses

\* The types hold on when only one thread's record changes.
LEMMA MoveTypes ==
  ASSUME IInv, NEW t \in Thread, NEW b \in Act, acts' = [acts EXCEPT ![t] = b],
         UNCHANGED <<hosts, procs, manager, overtaken, left, queue>>, adapter' \in Key
  PROVE  Types' /\ acts'[t] = b /\ MaxWorkers' = MaxWorkers
<1>1. Host' = Host /\ MaxWorkers' = MaxWorkers
  BY DEF Host, MaxWorkers
<1>2. acts' \in [Thread -> Act] /\ acts'[t] = b
  BY DEF IInv, Types
<1> QED
  BY <1>1, <1>2 DEF IInv, Types

\* A stop reads the process it will end.
LEMMA StopReadsIInv ==
  ASSUME IInv, NEW t \in Thread, StopReads(t)
  PROVE  IInv'
<1> DEFINE w == Head(acts[t].stop)
           b == [acts[t] EXCEPT !.pc = "kill", !.victim = Process(w)]
<1>1. acts[t].pc = "stop" /\ acts[t] \in Act /\ Holding(t) /\ StopsRightly(t)
  BY ThreadFacts DEF StopReads
<1>2. w \in Worker /\ RealWorker(w) /\ acts[t].stop # <<>>
  BY <1>1, StopperFacts DEF Stopper
<1>3. Process(w) \in Nat /\ (Process(w) # 0 => Process(w) \in DOMAIN procs)
  BY <1>2, ProcessIsReal
<1> HIDE DEF w
<1>4. /\ b \in Act /\ b.pc = "kill" /\ b.victim = Process(w)
      /\ b.worker = acts[t].worker /\ b.attempt = acts[t].attempt /\ b.process = acts[t].process
      /\ b.stop = acts[t].stop /\ b.back = acts[t].back /\ b.answer = acts[t].answer /\ b.request = acts[t].request
  BY <1>1, <1>3 DEF Act, Pc, Stopper
<1>5. acts' = [acts EXCEPT ![t] = b] /\ UNCHANGED <<adapter, hosts, manager, queue, procs, left, overtaken>>
  BY <1>1 DEF StopReads, IInv, Types, w
<1> HIDE DEF b
<1>6. Types' /\ acts'[t] = b /\ MaxWorkers' = MaxWorkers
  BY <1>4, <1>5, MoveTypes DEF IInv, Types
<1>7. Holding(t)'
  BY <1>1, <1>3, <1>4, <1>5, <1>6 DEF Holding, RealWorker, Stopper, Working
<1>8. StopsRightly(t)'
  BY <1>1, <1>4, <1>5, <1>6 DEF StopsRightly, Mends, Retires, RealWorker
<1>9. Holds(t)' <=> Holds(t)
  BY <1>1, <1>4, <1>6 DEF Holds, InPool, Working
<1>10. b.answer # 0 => b.answer = b.request
  BY <1>4 DEF IInv, AnswersAreOwn
<1>11. Retires(t)' => Retires(t)
  BY <1>4, <1>6 DEF Retires
<1>12. b.victim = Process(Head(b.stop))
  BY <1>4 DEF w
<1> QED
  BY <1>1, <1>4, <1>5, <1>6, <1>7, <1>8, <1>9, <1>10, <1>11, <1>12, MoveIInv DEF Stopper, SameProcesses

\* A thread that has the worker's lock goes on without touching the worker;
\* it may have just got the lock.
LEMMA HolderMoves ==
  ASSUME IInv, NEW c \in Caller, NEW pc \in {"poll", "send", "failed"},
         \/ acts[c].pc = "lock" /\ ~Locked(acts[c].worker)
         \/ acts[c].pc \in {"start", "poll"},
         acts' = [acts EXCEPT ![c].pc = pc],
         UNCHANGED <<adapter, hosts, manager, queue, procs, left, overtaken>>
  PROVE  IInv'
<1> DEFINE b == [acts[c] EXCEPT !.pc = pc]
<1>1. c \in Thread /\ acts[c] \in Act /\ Holding(c) /\ StopsRightly(c)
  BY ThreadFacts DEF Thread
<1>2. /\ b \in Act /\ b.pc = pc /\ b.victim = acts[c].victim
      /\ b.worker = acts[c].worker /\ b.attempt = acts[c].attempt /\ b.process = acts[c].process
      /\ b.stop = acts[c].stop /\ b.back = acts[c].back /\ b.answer = acts[c].answer /\ b.request = acts[c].request
  BY <1>1 DEF Act, Pc, Stopper, Working
<1>3. acts' = [acts EXCEPT ![c] = b]
  BY <1>1 DEF IInv, Types
<1> HIDE DEF b
<1>4. Types' /\ acts'[c] = b /\ MaxWorkers' = MaxWorkers
  BY <1>1, <1>2, <1>3, MoveTypes DEF IInv, Types
<1>5. acts[c].stop = <<>> /\ acts[c].back = "idle" /\ acts[c].attempt # 2 /\ acts[c].process = 0
      /\ acts[c].victim = 0 /\ RealWorker(acts[c].worker)
  BY <1>1 DEF Holding, Stopper, Working
<1>6. Holding(c)' /\ StopsRightly(c)' /\ ~Retires(c)'
  BY <1>2, <1>4, <1>5 DEF Holding, StopsRightly, Mends, Retires, RealWorker, Stopper, Working
<1>7. Holds(c) \/ ~Locked(acts[c].worker)
  BY DEF Holds, InPool, Working
<1>8. b.answer # 0 => b.answer = b.request
  BY <1>1, <1>2 DEF IInv, AnswersAreOwn
<1> QED
  BY <1>1, <1>2, <1>3, <1>4, <1>5, <1>6, <1>7, <1>8, MoveIInv DEF Stopper, SameProcesses

\* A WorkerProcessError, of a process that said nothing.
LEMMA BrokenIInv ==
  ASSUME IInv, NEW c \in Caller, acts[c].pc \in {"send", "read"}, Broken(c),
         UNCHANGED <<adapter, hosts, manager, queue, procs, left, overtaken>>
  PROVE  IInv'
<1> DEFINE back == IF acts[c].attempt = 0 THEN "start" ELSE "failed"
           stop == <<acts[c].worker>>
           n == acts[c].attempt + 1
           b == [acts[c] EXCEPT !.attempt = n, !.process = 0, !.stop = stop,
                                !.back = back, !.pc = "stop"]
<1>1. c \in Thread /\ acts[c] \in Act /\ Holding(c) /\ StopsRightly(c)
  BY ThreadFacts DEF Thread
<1>2. acts[c].stop = <<>> /\ acts[c].back = "idle" /\ acts[c].attempt \in 0..1
      /\ acts[c].victim = 0 /\ RealWorker(acts[c].worker) /\ acts[c].worker \in Worker
  BY <1>1 DEF Holding, Stopper, Working, Act
<1>3. back \in {"start", "failed"} /\ (n = 2 => back = "failed") /\ n \in 0..2
  BY <1>2
<1> HIDE DEF back
<1>10. stop \in Seq(Worker) /\ stop # <<>> /\ back \in Back /\ "stop" \in Pc
  BY <1>2, <1>3 DEF Back, Pc, Stopper
<1>5. acts' = [acts EXCEPT ![c] = b]
  BY <1>1, <1>2 DEF Broken, ThenStop, back
<1> HIDE DEF stop, n
<1>4. /\ b \in Act /\ b.pc = "stop" /\ b.victim = 0
      /\ b.worker = acts[c].worker /\ b.attempt = n /\ b.process = 0
      /\ b.stop = stop /\ b.back = back /\ b.answer = acts[c].answer /\ b.request = acts[c].request
  BY <1>1, <1>2, <1>3, <1>10 DEF Act
<1> HIDE DEF b
<1>6. Types' /\ acts'[c] = b /\ MaxWorkers' = MaxWorkers
  BY <1>1, <1>4, <1>5, MoveTypes DEF IInv, Types
<1>11. RealWorker(acts[c].worker)'
  BY <1>2, <1>4, <1>6 DEF RealWorker
<1>12. Holding(c)'
  BY <1>3, <1>4, <1>6, <1>10, <1>11 DEF Holding, Stopper, Working
<1>7. Holding(c)' /\ StopsRightly(c)' /\ ~Retires(c)'
  BY <1>3, <1>4, <1>6, <1>11, <1>12 DEF StopsRightly, Mends, Retires, stop
<1>8. Holds(c) /\ Holds(c)'
  BY <1>3, <1>4, <1>6 DEF Holds, InPool, Working
<1>9. b.answer # 0 => b.answer = b.request
  BY <1>1, <1>4 DEF IInv, AnswersAreOwn
<1> QED
  BY <1>1, <1>2, <1>4, <1>5, <1>6, <1>7, <1>8, <1>9, MoveIInv DEF Stopper, SameProcesses

\* A thread is done with its call, or has saved the new adapter.
LEMMA EndIInv ==
  ASSUME IInv, NEW t \in Thread, acts[t].pc \in {"done", "failed", "adapt"},
         acts' = [acts EXCEPT ![t] = Idle], adapter' \in Key,
         UNCHANGED <<hosts, manager, queue, procs, left, overtaken>>
  PROVE  IInv'
<1> USE IdleAct
<1>1. acts[t] \in Act /\ Holding(t)
  BY ThreadFacts
<1>2. Types' /\ acts'[t] = Idle /\ MaxWorkers' = MaxWorkers
  BY MoveTypes
<1>3. acts[t].stop = <<>>
  BY <1>1 DEF Holding, Stopper
<1>4. Holding(t)' /\ StopsRightly(t)' /\ ~Holds(t)' /\ ~Retires(t)'
  BY <1>2 DEF Holding, StopsRightly, Mends, Retires, Stopper, Working, Holds, InPool
<1> QED
  BY <1>2, <1>3, <1>4, MoveIInv DEF Stopper, SameProcesses

\* The manager's host has the key of the adapter.
LEMMA HostIsKept ==
  ASSUME IInv, NEW c \in Caller, acts[c].pc = "manager", manager # 0,
         acts' = [acts EXCEPT ![c].pc = "assign", ![c].key = Idle.key, ![c].worker[1] = manager],
         UNCHANGED <<hosts, manager, overtaken, adapter, queue, procs, left>>
  PROVE  IInv'
<1> DEFINE v == [acts[c].worker EXCEPT ![1] = manager]
           b == [acts[c] EXCEPT !.pc = "assign", !.key = Idle.key, !.worker = v]
<1>0. v \in Worker /\ v[1] = manager /\ v[2] = acts[c].worker[2]
  <2>1. manager \in Nat /\ acts[c].worker \in Worker
    BY DEF IInv, Types, Thread, Act
  <2> QED
    BY <2>1, WorkerExcept
<1>1. c \in Thread /\ acts[c] \in Act /\ Holding(c) /\ StopsRightly(c)
  BY ThreadFacts DEF Thread
<1>2. /\ b \in Act /\ b.pc = "assign" /\ b.worker = v
      /\ b.attempt = acts[c].attempt /\ b.process = acts[c].process /\ b.victim = acts[c].victim
      /\ b.stop = acts[c].stop /\ b.back = acts[c].back /\ b.answer = acts[c].answer /\ b.request = acts[c].request
  BY <1>0, <1>1, IdleAct DEF Act, Pc
<1>3. acts' = [acts EXCEPT ![c] = b]
  BY <1>1 DEF IInv, Types
<1> HIDE DEF b, v
<1>4. Types' /\ acts'[c] = b /\ MaxWorkers' = MaxWorkers
  BY <1>1, <1>2, <1>3, MoveTypes DEF IInv, Types
<1>5. acts[c].stop = <<>> /\ acts[c].back = "idle" /\ acts[c].attempt # 2 /\ acts[c].process = 0
      /\ acts[c].victim = 0
  BY <1>1 DEF Holding, Stopper, Working
<1>6. RealWorker(acts[c].worker)'
  <2>1. acts[c].worker = <<0, 1>> /\ v[2] = 1 /\ v[1] = manager
    BY <1>0, <1>1 DEF Holding
  <2>2. 1 \in 1..MaxWorkers /\ manager \in 1..Len(hosts)
    BY DEF IInv, Types, MaxWorkers
  <2> QED
    BY <1>2, <1>4, <2>1, <2>2 DEF RealWorker
<1>7. Holding(c)' /\ StopsRightly(c)' /\ ~Retires(c)' /\ ~Holds(c)'
  BY <1>2, <1>4, <1>5, <1>6 DEF Holding, StopsRightly, Mends, Retires, Stopper, Working, Holds, InPool
<1>9. b.answer # 0 => b.answer = b.request
  BY <1>1, <1>2 DEF IInv, AnswersAreOwn
<1> QED
  BY <1>0, <1>1, <1>2, <1>3, <1>4, <1>5, <1>6, <1>7, <1>9, MoveIInv DEF Stopper, SameProcesses

\* The manager's host is retired: its workers are left to the thread that
\* retires it, or it is overtaken.
LEMMA RetireIInv ==
  ASSUME IInv, Types', NEW t \in Thread, NEW b \in Act,
         acts' = [acts EXCEPT ![t] = b], MaxWorkers' = MaxWorkers, procs' = procs,
         Len(hosts) <= Len(hosts'), \A h \in DOMAIN hosts : hosts'[h] = hosts[h],
         \A h \in DOMAIN hosts' : h \notin DOMAIN hosts =>
            \A i \in 1..MaxWorkers : hosts'[h].process[i] = 0,
         manager' \notin DOMAIN hosts, Retired(manager),
         Holding(t)', acts[t].pc \in {"idle", "manager"}, b.pc \in {"assign", "adapt", "stop"},
         b.back \in {"idle", "assign", "adapt"}, b.worker[1] \in {0, manager'},
         b.stop = IF manager = 0 THEN <<>> ELSE WorkersOf(manager), b.answer # 0 => b.answer = b.request
  PROVE  IInv'
<1>0. /\ acts'[t] = b /\ acts[t] \in Act /\ Holding(t) /\ StopsRightly(t)
      /\ \A s \in Thread : s # t => acts'[s] = acts[s]
      /\ Caller \subseteq Thread
      /\ DOMAIN hosts \subseteq DOMAIN hosts' /\ DOMAIN hosts = 1..Len(hosts)
      /\ DOMAIN hosts' = 1..Len(hosts') /\ manager \in 0..Len(hosts)
      /\ overtaken \subseteq overtaken'
  BY SMTT(30), ThreadFacts DEF IInv, Types, Thread, Retired
<1>1. \A w : RealWorker(w) => RealWorker(w)' /\ Process(w)' = Process(w) /\ w[1] # manager' /\ w[1] # 0
  BY <1>0 DEF RealWorker, Process
<1>2. acts[t].stop = <<>> /\ ~Mends(t)' /\ (t \in Caller => ~Holds(t) /\ ~Holds(t)')
  BY <1>0 DEF Holding, Stopper, Holds, InPool, Working, Mends
<1>3. \A c \in Caller : c # t => (Holds(c)' <=> Holds(c))
  BY <1>0 DEF Holds, InPool
<1>4. \A i \in DOMAIN b.stop : b.stop[i] = <<manager, i>> /\ manager # 0 /\ b.stop[i][1] = manager
  BY DEF WorkersOf
<1>5. \A i \in DOMAIN b.stop : i \in 1..MaxWorkers
  BY DEF WorkersOf
<1>6. ProcessIsOwn'
  BY <1>0, <1>1 DEF IInv, ProcessIsOwn, RealWorker
<1>7. ThreadsAreSound'
  <2>1. StopsRightly(t)'
    BY <1>0, <1>2, <1>4, <1>5 DEF StopsRightly, RealWorker
  <2>2. ASSUME NEW s \in Thread, s # t PROVE Holding(s)' /\ StopsRightly(s)'
    BY <1>0, <1>1, <2>2 DEF IInv, ThreadsAreSound, Holding, StopsRightly, Mends, Retires
  <2> QED
    BY <2>1, <2>2 DEF ThreadsAreSound
<1>8. OneHolds'
  BY <1>0, <1>2, <1>3 DEF IInv, OneHolds
<1>9. UsersAreCounted'
  <2> SUFFICES ASSUME NEW c \in Caller, acts'[c].pc # "idle", acts'[c].worker[1] \notin {0, manager'}
               PROVE  acts'[c].worker[1] \in overtaken'
    BY DEF UsersAreCounted
  <2>1. c # t /\ acts'[c] = acts[c]
    BY <1>0
  <2>2. CASE acts[c].worker[1] = manager
    BY <2>1, <2>2 DEF Retired, Uses
  <2> QED
    BY <1>0, <2>1, <2>2 DEF IInv, UsersAreCounted
<1>10. OneRetires'
  <2>1. ASSUME NEW s \in Thread, s # t, Retires(s)'
        PROVE  \A i \in DOMAIN acts'[s].stop : acts'[s].stop[i][1] # manager
    BY <1>0, <2>1 DEF IInv, ThreadsAreSound, StopsRightly, Retires
  <2> SUFFICES ASSUME NEW s \in Thread, NEW u \in Thread, Retires(s)', Retires(u)', s # u,
                      NEW i \in DOMAIN acts'[s].stop, NEW k \in DOMAIN acts'[u].stop,
                      acts'[s].stop[i][1] = acts'[u].stop[k][1]
               PROVE  FALSE
    BY DEF OneRetires
  <2>2. CASE s = t
    BY <1>0, <1>4, <2>1, <2>2
  <2>3. CASE u = t
    BY SMTT(30), <1>0, <1>4, <2>1, <2>3
  <2> QED
    BY <1>0, <2>2, <2>3 DEF IInv, OneRetires, Retires
<1>11. VictimIsCurrent'
  <2> SUFFICES ASSUME NEW s \in Thread, acts'[s].pc = "kill"
               PROVE  \A w : w = Head(acts'[s].stop) /\ w[1] \notin overtaken'
                               => acts'[s].victim = hosts'[w[1]].process[w[2]]
    BY DEF VictimIsCurrent, Process
  <2>1. s # t /\ acts'[s] = acts[s] /\ RealWorker(Head(acts[s].stop))
    BY <1>0, StopperFacts DEF Stopper
  <2> QED
    BY SMTT(30), <1>0, <1>1, <2>1 DEF IInv, VictimIsCurrent, Process
<1>12. AliveIsKnown'
  <2>1. \A w : Stopping(w) => Stopping(w)'
    BY <1>0, <1>2 DEF Stopping, Thread
  <2>2. ASSUME NEW w \in Worker, RealWorker(w), w[1] = manager PROVE Stopping(w)'
    <3>2. manager # 0 /\ w[2] \in 1..MaxWorkers /\ w = <<w[1], w[2]>>
      BY <2>2, <1>0, WorkerPair DEF RealWorker
    <3>1. w[2] \in DOMAIN b.stop /\ b.stop[w[2]] = <<manager, w[2]>> /\ w = <<w[1], w[2]>>
      BY <3>2 DEF WorkersOf
    <3> QED
      BY <1>0, <2>2, <3>1 DEF Stopping, Thread
  <2> SUFFICES ASSUME NEW p \in DOMAIN procs, procs[p].alive, procs[p].worker[1] \notin overtaken'
               PROVE  Process(procs[p].worker)' = p /\ Stopping(procs[p].worker)'
    BY DEF AliveIsKnown
  <2>3. procs[p].worker \in Worker /\ RealWorker(procs[p].worker)
    <3>1. procs[p] \in Proc
      BY SMTT(30) DEF IInv, Types
    <3> QED
      BY <3>1 DEF IInv, Proc, ProcessIsOwn
  <2> QED
    BY <1>0, <1>1, <2>1, <2>2, <2>3 DEF IInv, AliveIsKnown
<1>13. PipesAreClean'
  <2>1. ASSUME NEW h, NEW i, NEW p, p # 0, Attended(h, i, p) PROVE Attended(h, i, p)'
    BY <1>0, <1>2, <1>3, <2>1 DEF Attended
  <2>2. \A p : Clean(p)' <=> Clean(p)
    BY DEF Clean
  <2> QED
    BY <1>0, <2>1, <2>2 DEF IInv, PipesAreClean
<1>14. ReadsOwnPipe'
  BY <1>0 DEF IInv, ReadsOwnPipe
<1>15. AnswersAreOwn'
  BY <1>0 DEF IInv, AnswersAreOwn
<1> QED
  BY <1>6, <1>7, <1>8, <1>9, <1>10, <1>11, <1>12, <1>13, <1>14, <1>15 DEF IInv

\* A process that its worker has, or had, answers a line, dies or writes an
\* odd line.
LEMMA ProcessIInv ==
  ASSUME IInv, NEW p \in DOMAIN procs, NEW q \in Proc,
         procs' = [procs EXCEPT ![p] = q],
         UNCHANGED <<adapter, hosts, manager, queue, acts, overtaken>>,
         left' \in [workers : Nat \ {0}, calls : Nat, saves : Nat, faults : Nat], MaxWorkers' = MaxWorkers,
         q.worker = procs[p].worker, q.alive => procs[p].alive,
         Clean(p) => q.asked = <<>> /\ q.lines = <<>>,
         \A r : /\ Len(procs[p].asked) <= 1
                /\ \A i \in DOMAIN procs[p].asked : procs[p].asked[i] = r
                /\ \A i \in DOMAIN procs[p].lines : procs[p].lines[i].kind # "odd" =>
                     procs[p].lines[i].of = r /\ i = Len(procs[p].lines) /\ procs[p].asked = <<>>
                => /\ Len(q.asked) <= 1
                   /\ \A i \in DOMAIN q.asked : q.asked[i] = r
                   /\ \A i \in DOMAIN q.lines : q.lines[i].kind # "odd" =>
                        q.lines[i].of = r /\ i = Len(q.lines) /\ q.asked = <<>>
  PROVE  IInv'
<1>0. /\ procs'[p] = q /\ DOMAIN procs' = DOMAIN procs
      /\ \A r \in DOMAIN procs : r # p => procs'[r] = procs[r]
  BY DEF IInv, Types
<1>1. Types'
  <2>1. Host' = Host
    BY DEF Host
  <2>2. procs' \in Seq(Proc)
    BY DEF IInv, Types
  <2> QED
    BY <2>1, <2>2 DEF IInv, Types
<1>2. ProcessIsOwn'
  BY SMTT(30), <1>0 DEF IInv, ProcessIsOwn, RealWorker
<1>3. ThreadsAreSound'
  BY <1>0 DEF IInv, ThreadsAreSound, Holding, StopsRightly, Mends, Retires, RealWorker
<1>4. OneHolds' /\ UsersAreCounted' /\ OneRetires' /\ VictimIsCurrent' /\ AnswersAreOwn'
  BY DEF IInv, OneHolds, UsersAreCounted, OneRetires, VictimIsCurrent, AnswersAreOwn, Holds, InPool, Retires, Process
<1>5. AliveIsKnown'
  BY <1>0 DEF IInv, AliveIsKnown, Process, Stopping
<1>6. PipesAreClean'
  <2>1. \A r \in DOMAIN procs : Clean(r) => Clean(r)'
    BY <1>0 DEF Clean
  <2>2. \A h, i, r : Attended(h, i, r) => Attended(h, i, r)'
    BY DEF Attended, Holds, InPool
  <2> QED
    BY <2>1, <2>2 DEF IInv, PipesAreClean, ProcessIsOwn
<1>7. ReadsOwnPipe'
  <2> SUFFICES ASSUME NEW c \in Thread, acts[c].pc = "read"
               PROVE  LET r == acts[c].process
                      IN /\ c \in Caller
                         /\ r \in DOMAIN procs' /\ procs'[r].worker = acts[c].worker
                         /\ Len(procs'[r].asked) <= 1
                         /\ \A i \in DOMAIN procs'[r].asked : procs'[r].asked[i] = acts[c].request
                         /\ \A i \in DOMAIN procs'[r].lines : procs'[r].lines[i].kind # "odd" =>
                              /\ procs'[r].lines[i].of = acts[c].request
                              /\ i = Len(procs'[r].lines) /\ procs'[r].asked = <<>>
    BY DEF ReadsOwnPipe
  <2>1. CASE acts[c].process = p
    <3>1. /\ c \in Caller /\ procs[p].worker = acts[c].worker
          /\ Len(procs[p].asked) <= 1
          /\ \A i \in DOMAIN procs[p].asked : procs[p].asked[i] = acts[c].request
          /\ \A i \in DOMAIN procs[p].lines : procs[p].lines[i].kind # "odd" =>
               procs[p].lines[i].of = acts[c].request /\ i = Len(procs[p].lines) /\ procs[p].asked = <<>>
      BY <2>1 DEF IInv, ReadsOwnPipe
    <3>2. /\ Len(q.asked) <= 1
          /\ \A i \in DOMAIN q.asked : q.asked[i] = acts[c].request
          /\ \A i \in DOMAIN q.lines : q.lines[i].kind # "odd" =>
               q.lines[i].of = acts[c].request /\ i = Len(q.lines) /\ q.asked = <<>>
      BY <3>1
    <3> QED
      BY <1>0, <2>1, <3>1, <3>2
  <2>2. CASE acts[c].process # p
    BY <1>0, <2>2 DEF IInv, ReadsOwnPipe
  <2> QED
    BY <2>1, <2>2
<1> QED
  BY <1>1, <1>2, <1>3, <1>4, <1>5, <1>6, <1>7 DEF IInv

\* The process answers a line.
LEMMA ServeIInv ==
  ASSUME IInv, NEW p \in DOMAIN procs, Serve(p)
  PROVE  IInv'
<1>1. PICK kind \in {"ok", "refused"} :
        procs' = [procs EXCEPT ![p].asked = Tail(@),
                               ![p].lines = Append(@, [kind |-> kind, of |-> Head(procs[p].asked)])]
  BY DEF Serve
<1> DEFINE line == [kind |-> kind, of |-> Head(procs[p].asked)]
           q == [procs[p] EXCEPT !.asked = Tail(@), !.lines = Append(@, line)]
<1>2. procs[p] \in Proc /\ procs[p].asked # <<>> /\ procs[p].asked \in Seq(Nat) /\ procs[p].lines \in Seq(Line)
  BY ProcFacts DEF Serve
<1>3. line \in Line /\ line.kind # "odd" /\ line.of = procs[p].asked[1]
  BY <1>2 DEF Line
<1>4. procs' = [procs EXCEPT ![p] = q]
  BY <1>1, <1>2 DEF Proc
<1> HIDE DEF line
<1>5. Append(procs[p].lines, line) \in Seq(Line) /\ Tail(procs[p].asked) \in Seq(Nat)
  BY <1>2, <1>3
<1>6. q \in Proc /\ q.asked = Tail(procs[p].asked) /\ q.lines = Append(procs[p].lines, line)
      /\ q.worker = procs[p].worker /\ q.alive = procs[p].alive
  BY <1>2, <1>5 DEF Proc
<1> HIDE DEF q
<1>7. ASSUME NEW r, Len(procs[p].asked) <= 1, \A i \in DOMAIN procs[p].asked : procs[p].asked[i] = r,
             \A i \in DOMAIN procs[p].lines : procs[p].lines[i].kind # "odd" =>
               procs[p].lines[i].of = r /\ i = Len(procs[p].lines) /\ procs[p].asked = <<>>
      PROVE  /\ Len(q.asked) <= 1
             /\ \A i \in DOMAIN q.asked : q.asked[i] = r
             /\ \A i \in DOMAIN q.lines : q.lines[i].kind # "odd" =>
                  q.lines[i].of = r /\ i = Len(q.lines) /\ q.asked = <<>>
  <2>1. q.asked = <<>>
    BY <1>2, <1>6, <1>7
  <2>2. line.of = r
    BY <1>2, <1>3, <1>7
  <2> QED
    BY <1>2, <1>6, <1>7, <2>1, <2>2
<1>8. left' \in [workers : Nat \ {0}, calls : Nat, saves : Nat, faults : Nat] /\ MaxWorkers' = MaxWorkers
      /\ UNCHANGED <<adapter, hosts, manager, queue, acts, overtaken>>
  BY DEF Serve, IInv, Types, MaxWorkers
<1>9. ~Clean(p)
  BY <1>2 DEF Clean
<1> QED
  BY <1>4, <1>6, <1>7, <1>8, <1>9, ProcessIInv

\* The process dies, or writes a line that is no JSON.
LEMMA FaultIInv ==
  ASSUME IInv, NEW p \in DOMAIN procs, Fault(p)
  PROVE  IInv'
<1> DEFINE line == [kind |-> "odd", of |-> 0]
           dead == [procs[p] EXCEPT !.alive = FALSE, !.asked = <<>>]
           odd == [procs[p] EXCEPT !.lines = Append(@, line)]
<1>1. procs[p] \in Proc /\ procs[p].asked \in Seq(Nat) /\ procs[p].lines \in Seq(Line) /\ line \in Line
  BY ProcFacts DEF Line
<1>2. left' \in [workers : Nat \ {0}, calls : Nat, saves : Nat, faults : Nat] /\ MaxWorkers' = MaxWorkers
  <2>1. left \in [workers : Nat \ {0}, calls : Nat, saves : Nat, faults : Nat]
    BY DEF IInv, Types
  <2>2. left.faults > 0 /\ left' = [left EXCEPT !.faults = left.faults - 1]
    BY DEF Fault
  <2> QED
    BY <2>1, <2>2 DEF MaxWorkers
<1>3. UNCHANGED <<adapter, hosts, manager, queue, acts, overtaken>>
  BY DEF Fault
<1>4. CASE procs' = [procs EXCEPT ![p].alive = FALSE, ![p].asked = <<>>]
  <2>1. procs' = [procs EXCEPT ![p] = dead]
    BY <1>1, <1>4
  <2>2. dead \in Proc /\ dead.asked = <<>> /\ dead.lines = procs[p].lines /\ dead.worker = procs[p].worker
        /\ dead.alive = FALSE
    <3>1. <<>> \in Seq(Nat)
      OBVIOUS
    <3> QED
      BY <1>1, <3>1 DEF Proc
  <2> HIDE DEF dead
  <2>3. Len(dead.asked) <= 1 /\ DOMAIN dead.asked = {}
    BY <2>2
  <2> QED
    BY <1>1, <1>2, <1>3, <2>1, <2>2, <2>3, ProcessIInv DEF Clean
<1>5. CASE procs[p].asked # <<>> /\ procs' = [procs EXCEPT ![p].lines = Append(@, [kind |-> "odd", of |-> 0])]
  <2>1. procs' = [procs EXCEPT ![p] = odd]
    BY <1>1, <1>5
  <2>2. line.kind = "odd"
    OBVIOUS
  <2> HIDE DEF line
  <2>3. Append(procs[p].lines, line) \in Seq(Line)
    BY <1>1
  <2>4. odd \in Proc /\ odd.asked = procs[p].asked /\ odd.lines = Append(procs[p].lines, line)
        /\ odd.worker = procs[p].worker /\ odd.alive = procs[p].alive
    BY <1>1, <2>3 DEF Proc
  <2> HIDE DEF odd
  <2>5. ~Clean(p)
    BY <1>5 DEF Clean
  <2>6. ASSUME NEW r, \A i \in DOMAIN procs[p].lines : procs[p].lines[i].kind # "odd" =>
               procs[p].lines[i].of = r /\ i = Len(procs[p].lines) /\ procs[p].asked = <<>>
        PROVE  \A i \in DOMAIN odd.lines : odd.lines[i].kind = "odd"
    BY <1>1, <1>5, <2>2, <2>4, <2>6
  <2> QED
    BY <1>2, <1>3, <2>1, <2>4, <2>5, <2>6, ProcessIInv
<1> QED
  BY <1>4, <1>5 DEF Fault

\* The host of the manager is replaced.
LEMMA HostIsReplaced ==
  ASSUME IInv, NEW c \in Caller, HostForKey(c), ~(manager # 0 /\ hosts[manager].key = acts[c].key)
  PROVE  IInv'
<1> DEFINE n == Len(hosts) + 1
           host == [key |-> acts[c].key, next |-> 1, process |-> [i \in 1..MaxWorkers |-> 0]]
           v == [acts[c].worker EXCEPT ![1] = n]
           stop == IF manager = 0 THEN <<>> ELSE WorkersOf(manager)
           pc == IF manager = 0 THEN "assign" ELSE "stop"
           back == IF manager = 0 THEN "idle" ELSE "assign"
           b == [acts[c] EXCEPT !.key = Idle.key, !.worker = v, !.stop = stop, !.pc = pc, !.back = back]
<1>1. c \in Thread /\ acts[c] \in Act /\ Holding(c) /\ acts[c].pc = "manager" /\ MaxWorkers' = MaxWorkers
      /\ UNCHANGED <<adapter, queue, procs, left>> /\ Retired(manager)
  BY ThreadFacts DEF Thread, HostForKey, MaxWorkers
<1>2. acts[c].stop = <<>> /\ acts[c].back = "idle" /\ acts[c].attempt # 2 /\ acts[c].process = 0
      /\ acts[c].victim = 0 /\ acts[c].worker = <<0, 1>> /\ acts[c].worker \in Worker
  BY <1>1 DEF Holding, Stopper, Working, Act
<1>3. n \in Nat /\ v \in Worker /\ v[1] = n /\ v[2] = 1 /\ v = [acts[c].worker EXCEPT ![1] = n]
  <2>1. n \in Nat
    BY DEF IInv, Types
  <2>2. [acts[c].worker EXCEPT ![1] = n] \in Worker /\ [acts[c].worker EXCEPT ![1] = n][1] = n
        /\ [acts[c].worker EXCEPT ![1] = n][2] = acts[c].worker[2]
    BY <1>2, <2>1, WorkerExcept
  <2>3. acts[c].worker[2] = 1
    BY <1>2
  <2> QED
    BY <2>1, <2>2, <2>3
<1>4. hosts' = Append(hosts, host) /\ manager' = n
  BY DEF HostForKey, IInv, Types
<1>5. host \in Host /\ host.process = [i \in 1..MaxWorkers |-> 0] /\ 1 \in 1..MaxWorkers
  <2>1. acts[c].key \in Key /\ MaxWorkers \in Nat \ {0}
    BY <1>1 DEF IInv, Types, Act, MaxWorkers
  <2> QED
    BY <2>1 DEF Host
<1> HIDE DEF host
<1>6. manager # 0 => WorkersOf(manager) # <<>>
  BY <1>5 DEF WorkersOf
<1>7. stop \in Seq(Worker) /\ (stop = <<>> <=> manager = 0)
  <2>1. MaxWorkers \in Nat /\ manager \in Nat
    BY DEF IInv, Types, MaxWorkers
  <2>2. WorkersOf(manager) \in [1..MaxWorkers -> Worker]
    BY <2>1 DEF WorkersOf, Worker
  <2> QED
    BY <2>1, <2>2, <1>6, SeqDef
<1>8. acts' = [acts EXCEPT ![c] = b]
  <2>1. ThenStop(c, [acts[c] EXCEPT !.key = Idle.key, !.worker[1] = n], stop, "assign")
    BY <1>4 DEF HostForKey
  <2>2. CASE manager = 0
    BY <1>1, <1>2, <2>1, <2>2 DEF ThenStop, Act
  <2>3. CASE manager # 0
    BY <1>1, <1>2, <1>6, <2>1, <2>3 DEF ThenStop, Act
  <2> QED
    BY <2>2, <2>3
<1>9. pc \in {"assign", "stop"} /\ back \in {"idle", "assign"}
  OBVIOUS
<1> HIDE DEF stop
<1>10. /\ (pc = "stop" <=> stop # <<>>) /\ (back # "idle" <=> stop # <<>>)
  BY <1>7
<1> HIDE DEF v, n, pc, back
<1>11. /\ b \in Act /\ b.pc = pc /\ b.worker = v /\ b.stop = stop /\ b.back = back
       /\ b.attempt = acts[c].attempt /\ b.process = 0 /\ b.victim = 0
       /\ b.answer = acts[c].answer /\ b.request = acts[c].request
  BY <1>1, <1>2, <1>3, <1>7, <1>9, IdleAct DEF Act, Pc, Back, Stopper
<1> HIDE DEF b
<1>12. Host' = Host
  BY <1>1 DEF Host
<1>13. Types'
  BY <1>1, <1>4, <1>5, <1>8, <1>11, <1>12 DEF IInv, Types, Retired, n
<1>14. acts'[c] = b /\ RealWorker(acts[c].worker)'
  <2>1. acts'[c] = b
    BY <1>1, <1>8 DEF IInv, Types
  <2>2. Len(hosts') = n /\ n \in 1..n
    BY <1>4 DEF IInv, Types, n
  <2> QED
    BY <1>1, <1>3, <1>5, <1>11, <2>1, <2>2 DEF RealWorker
<1>15. Holding(c)'
  BY <1>2, <1>9, <1>10, <1>11, <1>14 DEF Holding, Stopper, Working
<1>16. /\ Len(hosts) <= Len(hosts') /\ \A h \in DOMAIN hosts : hosts'[h] = hosts[h]
       /\ manager' \notin DOMAIN hosts
       /\ \A h \in DOMAIN hosts' : h \notin DOMAIN hosts => h = n /\ hosts'[n] = host
  BY <1>4, <1>5 DEF IInv, Types, n
<1>17. b.answer # 0 => b.answer = b.request
  BY <1>1, <1>11 DEF IInv, AnswersAreOwn
<1>19. \A h \in DOMAIN hosts' : h \notin DOMAIN hosts => \A i \in 1..MaxWorkers : hosts'[h].process[i] = 0
  <2>1. hosts'[n].process = [i \in 1..MaxWorkers |-> 0] \/ n \notin DOMAIN hosts' \/ n \in DOMAIN hosts
    BY <1>5, <1>16
  <2> QED
    BY <1>16, <2>1
<1>18. /\ acts[c].pc \in {"idle", "manager"} /\ b.pc \in {"assign", "adapt", "stop"}
       /\ b.back \in {"idle", "assign", "adapt"} /\ b.worker[1] \in {0, manager'}
       /\ b.stop = IF manager = 0 THEN <<>> ELSE WorkersOf(manager)
  BY <1>1, <1>3, <1>4, <1>9, <1>11 DEF stop
<1> QED
  BY <1>1, <1>8, <1>11, <1>13, <1>15, <1>16, <1>17, <1>18, <1>19, RetireIInv

\* The manager looks its host up.
LEMMA HostForKeyIInv ==
  ASSUME IInv, NEW c \in Caller, HostForKey(c)
  PROVE  IInv'
BY HostIsReplaced, HostIsKept DEF HostForKey

\* The settings are saved: the workers are stopped first.
LEMMA StopAllIInv ==
  ASSUME IInv, NEW s \in Handler, StopAll(s)
  PROVE  IInv'
<1> DEFINE stop == IF manager = 0 THEN <<>> ELSE WorkersOf(manager)
           pc == IF manager = 0 THEN "adapt" ELSE "stop"
           back == IF manager = 0 THEN "idle" ELSE "adapt"
<1>1. s \in Thread /\ acts[s].pc = "idle" /\ MaxWorkers' = MaxWorkers /\ manager' = 0
      /\ UNCHANGED <<adapter, hosts, queue, procs>> /\ Retired(manager)
  BY DEF Thread, StopAll, MaxWorkers
<1>2. PICK k \in Key : ThenStop(s, [Idle EXCEPT !.key = k], stop, "adapt")
  BY DEF StopAll
<1> DEFINE b == [Idle EXCEPT !.key = k, !.stop = stop, !.pc = pc, !.back = back]
<1>3. MaxWorkers \in Nat \ {0} /\ manager \in 0..Len(hosts) /\ Len(hosts) \in Nat
  BY DEF IInv, Types, MaxWorkers
<1>4. manager # 0 => WorkersOf(manager) # <<>>
  BY <1>3 DEF WorkersOf
<1>5. stop \in Seq(Worker) /\ (stop = <<>> <=> manager = 0)
  <2>1. WorkersOf(manager) \in [1..MaxWorkers -> Worker]
    BY <1>3 DEF WorkersOf, Worker
  <2> QED
    BY <2>1, <1>3, <1>4, SeqDef
<1>6. acts' = [acts EXCEPT ![s] = b]
  <2>1. CASE manager = 0
    BY <1>2, <2>1, IdleAct DEF ThenStop, Act
  <2>2. CASE manager # 0
    BY <1>2, <1>4, <2>2, IdleAct DEF ThenStop, Act
  <2> QED
    BY <2>1, <2>2
<1>7. pc \in {"adapt", "stop"} /\ back \in {"idle", "adapt"}
  OBVIOUS
<1> HIDE DEF stop
<1>8. /\ (pc = "stop" <=> stop # <<>>) /\ (back # "idle" <=> stop # <<>>)
  BY <1>5
<1> HIDE DEF pc, back
<1>9. /\ b \in Act /\ b.pc = pc /\ b.worker = <<0, 1>> /\ b.stop = stop /\ b.back = back
      /\ b.attempt = 0 /\ b.process = 0 /\ b.victim = 0 /\ b.answer = 0
  BY <1>5, <1>7, IdleAct DEF Act, Pc, Back, Stopper
<1> HIDE DEF b
<1>10. left' \in [workers : Nat \ {0}, calls : Nat, saves : Nat, faults : Nat]
  <2>1. left \in [workers : Nat \ {0}, calls : Nat, saves : Nat, faults : Nat]
    BY DEF IInv, Types
  <2>2. left.saves > 0 /\ left' = [left EXCEPT !.saves = left.saves - 1]
    BY DEF StopAll
  <2> QED
    BY <2>1, <2>2
<1>11. Host' = Host
  BY <1>1 DEF Host
<1>12. Types'
  BY <1>1, <1>6, <1>9, <1>10, <1>11 DEF IInv, Types, Retired
<1>13. acts'[s] = b
  BY <1>1, <1>6 DEF IInv, Types
<1>14. Holding(s)'
  BY <1>7, <1>8, <1>9, <1>13 DEF Holding, Stopper, Working
<1>15. manager' \notin DOMAIN hosts
  BY <1>1 DEF IInv, Types
<1>16. /\ Len(hosts) <= Len(hosts') /\ \A h \in DOMAIN hosts : hosts'[h] = hosts[h]
       /\ \A h \in DOMAIN hosts' : h \notin DOMAIN hosts => \A i \in 1..MaxWorkers : hosts'[h].process[i] = 0
       /\ acts[s].pc \in {"idle", "manager"} /\ b.pc \in {"assign", "adapt", "stop"}
       /\ b.back \in {"idle", "assign", "adapt"} /\ b.worker[1] \in {0, manager'}
       /\ b.stop = IF manager = 0 THEN <<>> ELSE WorkersOf(manager)
  BY <1>1, <1>3, <1>7, <1>9 DEF stop
<1> QED
  BY <1>1, <1>6, <1>9, <1>12, <1>14, <1>15, <1>16, RetireIInv

\* The call is queued for the next worker.
LEMMA AssignIInv ==
  ASSUME IInv, NEW c \in Caller, Assign(c)
  PROVE  IInv'
<1> DEFINE h == acts[c].worker[1]
           n == hosts[h].next
           v == [acts[c].worker EXCEPT ![2] = n]
           b == [acts[c] EXCEPT !.pc = "queued", !.worker = v]
<1>1. c \in Thread /\ acts[c] \in Act /\ Holding(c) /\ acts[c].pc = "assign" /\ MaxWorkers' = MaxWorkers
      /\ UNCHANGED <<adapter, manager, procs, left, overtaken>>
  BY ThreadFacts DEF Thread, Assign, MaxWorkers
<1>2. acts[c].stop = <<>> /\ acts[c].back = "idle" /\ acts[c].attempt # 2 /\ acts[c].process = 0
      /\ acts[c].victim = 0 /\ RealWorker(acts[c].worker) /\ acts[c].worker \in Worker
  BY <1>1 DEF Holding, Stopper, Working, Act
<1>3. h \in DOMAIN hosts /\ hosts[h] \in Host
  BY SMTT(30), <1>2 DEF IInv, Types, RealWorker
<1>4. n \in 1..MaxWorkers /\ MaxWorkers \in Nat \ {0}
  BY <1>3 DEF Host, IInv, Types, MaxWorkers
<1>5. v \in Worker /\ v[1] = h /\ v[2] = n
  <2>1. n \in Nat
    BY <1>4
  <2> HIDE DEF n
  <2> QED
    BY <1>2, <2>1, WorkerExcept
<1>6. acts' = [acts EXCEPT ![c] = b] /\ hosts' = [hosts EXCEPT ![h].next = (n % MaxWorkers) + 1]
      /\ queue' = Append(queue, c)
  BY <1>1 DEF Assign, IInv, Types, Act
<1> HIDE DEF n, h, v
<1>7. /\ b \in Act /\ b.pc = "queued" /\ b.worker = v /\ b.stop = <<>> /\ b.back = "idle"
      /\ b.attempt = acts[c].attempt /\ b.process = 0 /\ b.victim = 0
      /\ b.answer = acts[c].answer /\ b.request = acts[c].request
  BY <1>1, <1>2, <1>5 DEF Act, Pc
<1> HIDE DEF b
<1>8. (n % MaxWorkers) + 1 \in 1..MaxWorkers
  BY <1>4
<1>9. Host' = Host
  BY <1>1 DEF Host
<1>10. hosts' \in Seq(Host) /\ SameProcesses /\ Len(hosts') = Len(hosts)
  <2> DEFINE host == [hosts[h] EXCEPT !.next = (n % MaxWorkers) + 1]
  <2>1. host \in Host /\ host.process = hosts[h].process
    BY <1>3, <1>8 DEF Host
  <2>2. hosts' = [hosts EXCEPT ![h] = host]
    BY <1>6
  <2> HIDE DEF host
  <2> QED
    BY <1>3, <2>1, <2>2 DEF IInv, Types, SameProcesses
<1>11. Types' /\ acts'[c] = b
  BY <1>1, <1>6, <1>7, <1>9, <1>10 DEF IInv, Types
<1>12. RealWorker(acts[c].worker)'
  BY <1>1, <1>2, <1>3, <1>4, <1>5, <1>7, <1>10, <1>11 DEF RealWorker, h
<1>13. Holding(c)' /\ StopsRightly(c)' /\ ~Holds(c)' /\ ~Retires(c)'
  BY <1>2, <1>7, <1>11, <1>12 DEF Holding, Stopper, Working, StopsRightly, Mends, Retires, Holds, InPool
<1>14. b.answer # 0 => b.answer = b.request
  BY <1>1, <1>7 DEF IInv, AnswersAreOwn
<1> QED
  BY <1>1, <1>2, <1>5, <1>6, <1>7, <1>10, <1>11, <1>13, <1>14, MoveIInv DEF Stopper, h

\* Two threads that stop a worker of a host that was not overtaken are one.
LEMMA OneStops ==
  ASSUME IInv, NEW s \in Thread, NEW t \in Thread, acts[s].pc \in Stopper, acts[t].pc \in Stopper,
         Head(acts[s].stop) = Head(acts[t].stop), Head(acts[s].stop)[1] \notin overtaken
  PROVE  s = t
<1> DEFINE w == Head(acts[s].stop)
<1>1. /\ w = acts[s].stop[1] /\ w = acts[t].stop[1] /\ RealWorker(w)
      /\ 1 \in DOMAIN acts[s].stop /\ 1 \in DOMAIN acts[t].stop
      /\ Mends(s) \/ Retires(s)
      /\ Mends(t) \/ Retires(t)
  BY StopperFacts
<1>2. ASSUME NEW u \in Thread, Mends(u), acts[u].pc \in Stopper, acts[u].stop[1] = w
      PROVE  u \in Caller /\ acts[u].worker = w /\ Holds(u) /\ w[1] = manager
  <2>1. u \in Caller /\ acts[u].worker = w /\ Holds(u)
    BY <1>2, ThreadFacts DEF StopsRightly, Holds, InPool, Mends, Stopper, Working
  <2> QED
    BY <1>1, <1>2, <2>1 DEF IInv, UsersAreCounted, RealWorker, Stopper
<1>3. ASSUME NEW u \in Thread, Retires(u), 1 \in DOMAIN acts[u].stop, acts[u].stop[1] = w
      PROVE  w[1] # manager
  BY <1>3, ThreadFacts DEF StopsRightly
<1>4. CASE Mends(s) /\ Mends(t)
  BY <1>1, <1>2, <1>4 DEF IInv, OneHolds
<1>5. CASE Retires(s) /\ Retires(t)
  BY <1>1, <1>5 DEF IInv, OneRetires
<1> QED
  BY <1>1, <1>2, <1>3, <1>4, <1>5

\* A process is ended and its worker left without one.
LEMMA StopKillsIInv ==
  ASSUME IInv, NEW t \in Thread, StopKills(t)
  PROVE  IInv'
<1> DEFINE w == Head(acts[t].stop)
           v == acts[t].victim
           rest == Tail(acts[t].stop)
           last == Len(acts[t].stop) = 1
           pc == IF last THEN acts[t].back ELSE "stop"
           back == IF last THEN "idle" ELSE acts[t].back
           b == [acts[t] EXCEPT !.stop = rest, !.victim = 0, !.pc = pc, !.back = back]
<1>1. acts[t] \in Act /\ Holding(t) /\ StopsRightly(t) /\ acts[t].pc = "kill" /\ MaxWorkers' = MaxWorkers
      /\ UNCHANGED <<adapter, manager, queue, left, overtaken>>
  BY ThreadFacts DEF StopKills, MaxWorkers
<1>2. /\ acts[t].stop \in Seq(Worker) /\ acts[t].stop # <<>> /\ w = acts[t].stop[1]
      /\ w \in Worker /\ RealWorker(w)
      /\ Mends(t) \/ Retires(t)
      /\ v \in Nat /\ (v # 0 => v \in DOMAIN procs)
  BY <1>1, StopperFacts DEF Stopper, Holding, Act
<1>3. acts' = [acts EXCEPT ![t] = b]
  BY <1>1 DEF StopKills, Stopped, IInv, Types, Act
<1>4. hosts' = [hosts EXCEPT ![w[1]].process[w[2]] = 0]
  BY DEF StopKills
<1>5. procs' = IF v = 0 THEN procs ELSE [procs EXCEPT ![v].alive = FALSE, ![v].asked = <<>>]
  BY DEF StopKills
<1>6. /\ rest \in Seq(Worker) /\ (last <=> rest = <<>>)
      /\ \A i \in DOMAIN rest : i + 1 \in DOMAIN acts[t].stop /\ rest[i] = acts[t].stop[i + 1]
      /\ \A i \in DOMAIN acts[t].stop : i # 1 => i - 1 \in DOMAIN rest /\ rest[i - 1] = acts[t].stop[i]
  <2>1. rest \in Seq(Worker) /\ Len(rest) = Len(acts[t].stop) - 1
    BY <1>2
  <2>2. \A i \in 1..Len(rest) : rest[i] = acts[t].stop[i + 1]
    BY <1>2
  <2>3. Len(acts[t].stop) \in Nat \ {0} /\ DOMAIN acts[t].stop = 1..Len(acts[t].stop)
        /\ DOMAIN rest = 1..Len(rest)
    BY <1>2, <2>1
  <2>4. last <=> rest = <<>>
    <3> HIDE DEF rest
    <3>1. rest = <<>> <=> Len(rest) = 0
      BY <2>1, EmptySeq
    <3> QED
      BY <2>1, <2>3, <3>1
  <2> HIDE DEF rest, last
  <2> QED
    BY <2>1, <2>2, <2>3, <2>4
<1>7. /\ b \in Act /\ b.pc = pc /\ b.stop = rest /\ b.victim = 0 /\ b.back = back
      /\ b.worker = acts[t].worker /\ b.attempt = acts[t].attempt /\ b.process = acts[t].process
      /\ b.answer = acts[t].answer /\ b.request = acts[t].request
  <2>1. pc \in Pc /\ back \in Back
    BY <1>1 DEF Act, Pc, Back, Working, Stopper
  <2> HIDE DEF pc, back, rest
  <2> QED
    BY <1>1, <1>6, <2>1 DEF Act
<1> HIDE DEF w, v, rest, last, b
<1>8. /\ acts'[t] = b /\ \A s \in Thread : s # t => acts'[s] = acts[s]
      /\ Caller \subseteq Thread
  BY <1>3 DEF IInv, Types, Thread
<1>9. /\ hosts' \in Seq(Host) /\ Len(hosts') = Len(hosts) /\ DOMAIN hosts' = DOMAIN hosts
      /\ \A u \in Worker : RealWorker(u) => Process(u)' = IF u = w THEN 0 ELSE Process(u)
      /\ \A h \in DOMAIN hosts : \A i \in 1..MaxWorkers :
           hosts'[h].process[i] = IF h = w[1] /\ i = w[2] THEN 0 ELSE hosts[h].process[i]
  <2> DEFINE host == [hosts[w[1]] EXCEPT !.process[w[2]] = 0]
  <2>7. w[1] \in DOMAIN hosts /\ w[2] \in 1..MaxWorkers
    <3>1. DOMAIN hosts = 1..Len(hosts)
      BY DEF IInv, Types
    <3> QED
      BY <1>2, <3>1 DEF RealWorker
  <2>1. w[1] \in DOMAIN hosts /\ hosts[w[1]] \in Host /\ w[2] \in 1..MaxWorkers
    BY <2>7 DEF IInv, Types
  <2>2. host \in Host /\ host.process = [hosts[w[1]].process EXCEPT ![w[2]] = 0]
        /\ hosts[w[1]].process \in [1..MaxWorkers -> Nat]
    BY <2>1 DEF Host
  <2>3. hosts' = [hosts EXCEPT ![w[1]] = host]
    BY <1>4, <2>1
  <2> HIDE DEF host
  <2>4. hosts' \in Seq(Host) /\ Len(hosts') = Len(hosts) /\ DOMAIN hosts' = DOMAIN hosts
        /\ DOMAIN hosts = 1..Len(hosts)
    BY <2>1, <2>2, <2>3 DEF IInv, Types
  <2>5. \A h \in DOMAIN hosts : \A i \in 1..MaxWorkers :
           hosts'[h].process[i] = IF h = w[1] /\ i = w[2] THEN 0 ELSE hosts[h].process[i]
    BY <2>1, <2>2, <2>3, <2>4
  <2>6. \A u \in Worker : RealWorker(u) => Process(u)' = IF u = w THEN 0 ELSE Process(u)
    BY SMTT(30), <1>2, <2>4, <2>5, WorkerPair DEF Process, RealWorker
  <2> QED
    BY <2>4, <2>5, <2>6
<1>10. /\ procs' \in Seq(Proc) /\ DOMAIN procs' = DOMAIN procs /\ Len(procs') = Len(procs)
       /\ \A p \in DOMAIN procs : /\ procs'[p].worker = procs[p].worker /\ procs'[p].lines = procs[p].lines
                                  /\ procs'[p].asked \in {procs[p].asked, <<>>}
                                  /\ procs'[p].alive => procs[p].alive /\ p # v
  <2>1. CASE v = 0
    BY <1>5, <2>1 DEF IInv, Types
  <2>2. CASE v # 0
    <3> DEFINE q == [procs[v] EXCEPT !.alive = FALSE, !.asked = <<>>]
    <3>1. v \in DOMAIN procs /\ procs[v] \in Proc
      BY <1>2, <2>2, ProcFacts
    <3>2. procs' = [procs EXCEPT ![v] = q]
      BY <1>5, <2>2, <3>1
    <3>3. <<>> \in Seq(Nat)
      OBVIOUS
    <3>4. q \in Proc /\ q.worker = procs[v].worker /\ q.lines = procs[v].lines /\ q.asked = <<>> /\ q.alive = FALSE
      BY <3>1, <3>3 DEF Proc
    <3> HIDE DEF q
    <3> QED
      BY <3>1, <3>2, <3>4 DEF IInv, Types
  <2> QED
    BY <2>1, <2>2
<1>11. Types'
  <2>1. Host' = Host
    BY <1>1 DEF Host
  <2>2. acts' \in [Thread -> Act]
    BY <1>3, <1>7 DEF IInv, Types
  <2> QED
    BY <1>1, <1>9, <1>10, <2>1, <2>2 DEF IInv, Types
<1>12. \A u \in Worker : RealWorker(u)' <=> RealWorker(u)
  BY <1>1, <1>9 DEF RealWorker
<1>13. ProcessIsOwn'
  <2>1. ASSUME NEW h \in DOMAIN hosts, NEW i \in 1..MaxWorkers, hosts'[h].process[i] # 0
        PROVE  hosts'[h].process[i] \in DOMAIN procs' /\ procs'[hosts'[h].process[i]].worker = <<h, i>>
    BY <1>9, <1>10, <2>1 DEF IInv, ProcessIsOwn
  <2>2. \A p \in DOMAIN procs : RealWorker(procs[p].worker)'
    BY <1>1, <1>9, <1>10 DEF IInv, ProcessIsOwn, RealWorker
  <2> QED
    BY <1>1, <1>9, <1>10, <2>1, <2>2 DEF ProcessIsOwn
<1>14. Holding(t)' /\ StopsRightly(t)' /\ (Retires(t)' => Retires(t))
       /\ (t \in Caller => (Holds(t)' <=> Holds(t)))
  <2>1. acts[t].back \in {"assign", "adapt", "start", "failed"}
    BY <1>1 DEF Holding, Act, Back, Stopper
  <2>2. RealWorker(acts[t].worker)' <=> RealWorker(acts[t].worker)
    BY <1>1, <1>7, <1>8, <1>9 DEF RealWorker
  <2>3. CASE last
    <3>1. b.pc = acts[t].back /\ b.back = "idle" /\ b.stop = <<>>
      BY <1>6, <1>7, <2>3
    <3>2. Holding(t)'
      BY <1>1, <1>7, <1>8, <2>1, <2>2, <3>1 DEF Holding, Stopper, Working
    <3>3. t \in Caller => (Holds(t)' <=> Holds(t))
      BY <1>1, <1>8, <2>1, <3>1 DEF Holds, InPool, Working
    <3> QED
      BY <1>8, <3>1, <3>2, <3>3 DEF StopsRightly, Mends, Retires
  <2>4. CASE ~last
    <3>1. b.pc = "stop" /\ b.back = acts[t].back /\ b.stop = rest /\ rest # <<>>
      BY <1>6, <1>7, <2>4
    <3>2. Holding(t)'
      BY <1>1, <1>7, <1>8, <2>1, <2>2, <3>1 DEF Holding, Stopper, Working
    <3>3. t \in Caller => (Holds(t)' <=> Holds(t))
      BY <1>1, <1>8, <2>1, <3>1 DEF Holds, InPool, Working
    <3>4. ~Mends(t)
      BY <1>1, <2>4 DEF StopsRightly, last
    <3>5. StopsRightly(t)'
      BY <1>1, <1>6, <1>8, <1>9, <3>1, <3>4 DEF StopsRightly, Mends, Retires, RealWorker
    <3> QED
      BY <1>8, <3>1, <3>2, <3>3, <3>5 DEF Retires
  <2> QED
    BY <2>3, <2>4
<1>15. ThreadsAreSound'
  <2> SUFFICES ASSUME NEW s \in Thread, s # t PROVE Holding(s)' /\ StopsRightly(s)'
    BY <1>14 DEF ThreadsAreSound
  <2> QED
    BY <1>1, <1>8, <1>9, <1>10 DEF IInv, ThreadsAreSound, Holding, StopsRightly, Mends, Retires, RealWorker
<1>16. \A c \in Caller : c # t => (Holds(c)' <=> Holds(c))
  BY <1>8 DEF Holds, InPool
<1>17. \A c \in Caller : acts'[c].worker = acts[c].worker
  BY <1>7, <1>8
<1>18. OneHolds'
  BY <1>14, <1>16, <1>17 DEF IInv, OneHolds
<1>19. UsersAreCounted'
  BY <1>1, <1>7, <1>8 DEF IInv, UsersAreCounted
<1>20. OneRetires'
  <2>1. \A s \in Thread : \A i \in DOMAIN acts'[s].stop :
           \E k \in DOMAIN acts[s].stop : acts'[s].stop[i] = acts[s].stop[k]
    BY <1>6, <1>7, <1>8
  <2>2. \A s \in Thread : Retires(s)' => Retires(s)
    BY SMTT(30), <1>8, <1>14 DEF Retires
  <2> QED
    BY <2>1, <2>2 DEF IInv, OneRetires
<1>21. VictimIsCurrent'
  <2> SUFFICES ASSUME NEW s \in Thread, acts'[s].pc = "kill"
               PROVE  \A u : u = Head(acts'[s].stop) /\ u[1] \notin overtaken'
                               => acts'[s].victim = hosts'[u[1]].process[u[2]]
    BY DEF VictimIsCurrent, Process
  <2>1. s # t /\ acts'[s] = acts[s] /\ acts[s].pc \in Stopper
    BY <1>1, <1>7, <1>8 DEF Stopper, Holding, Act, Back, last
  <2>2. RealWorker(Head(acts[s].stop)) /\ Head(acts[s].stop) \in Worker
    BY <2>1, StopperFacts
  <2>3. Head(acts[s].stop)[1] \notin overtaken => Head(acts[s].stop) # w
    BY <1>1, <2>1, OneStops DEF Stopper, w
  <2> QED
    BY <1>1, <1>8, <1>9, <2>1, <2>2, <2>3 DEF IInv, VictimIsCurrent, Process
<1>22. AliveIsKnown'
  <2>1. \A u : u # w /\ Stopping(u) => Stopping(u)'
    <3> SUFFICES ASSUME NEW u, u # w, NEW s \in Thread, NEW i \in DOMAIN acts[s].stop, acts[s].stop[i] = u
                 PROVE  \E r \in Thread : \E k \in DOMAIN acts'[r].stop : acts'[r].stop[k] = u
      BY DEF Stopping, Thread
    <3>1. CASE s # t
      BY <1>8, <3>1
    <3>2. CASE s = t
      <4>1. i # 1
        BY <1>2, <3>2
      <4> QED
        BY <1>6, <1>7, <1>8, <3>2, <4>1
    <3> QED
      BY <3>1, <3>2
  <2>2. \A p \in DOMAIN procs : procs[p].worker \in Worker /\ RealWorker(procs[p].worker)
    BY ProcFacts DEF IInv, ProcessIsOwn
  <2>3. w[1] \notin overtaken => v = Process(w)
    BY <1>1 DEF IInv, VictimIsCurrent, w, v
  <2> QED
    BY <1>1, <1>2, <1>9, <1>10, <2>1, <2>2, <2>3 DEF IInv, AliveIsKnown
<1>23. PipesAreClean'
  <2>1. \A p \in DOMAIN procs : Clean(p) => Clean(p)'
    BY <1>10 DEF Clean
  <2>2. ASSUME NEW h \in DOMAIN hosts, NEW i \in 1..MaxWorkers, NEW p, p # 0, Attended(h, i, p), <<h, i>> # w
        PROVE  Attended(h, i, p)'
    <3>1. PICK c \in Caller : Holds(c) /\ acts[c].worker = <<h, i>> /\ (acts[c].pc \in Stopper \/ acts[c].process = p)
      BY <2>2 DEF Attended
    <3>2. c # t
      BY <1>1, <1>2, <2>2, <3>1 DEF StopsRightly, Mends, Retires, Holds, InPool, Working
    <3> QED
      BY <1>8, <1>16, <3>1, <3>2 DEF Attended
  <2> QED
    BY <1>1, <1>2, <1>9, <2>1, <2>2 DEF IInv, PipesAreClean, ProcessIsOwn, RealWorker
<1>24. ReadsOwnPipe'
  <2>1. acts'[t].pc # "read"
    BY <1>1, <1>7, <1>8 DEF Act, Back
  <2> QED
    BY SMTT(30), <1>8, <1>10, <2>1 DEF IInv, ReadsOwnPipe
<1>25. AnswersAreOwn'
  BY <1>7, <1>8 DEF IInv, AnswersAreOwn
<1> QED
  BY SMTT(30), <1>11, <1>13, <1>15, <1>18, <1>19, <1>20, <1>21, <1>22, <1>23, <1>24, <1>25 DEF IInv

\* The thread that has the worker's lock starts a process for it.
LEMMA SpawnIInv ==
  ASSUME IInv, NEW c \in Caller, Spawn(c),
         \/ acts[c].pc = "lock" /\ ~Locked(acts[c].worker)
         \/ acts[c].pc \in {"start", "poll"},
         Process(acts[c].worker) = 0 \/ ~procs[Process(acts[c].worker)].alive,
         UNCHANGED <<adapter, manager, queue, left, overtaken>>
  PROVE  IInv'
<1>w. PICK w : w = acts[c].worker
  OBVIOUS
<1>n. PICK new : new = Len(procs) + 1
  OBVIOUS
<1> DEFINE proc == [worker |-> w, alive |-> TRUE, asked |-> <<>>, lines |-> <<>>]
           b == [acts[c] EXCEPT !.pc = "send"]
<1>1. c \in Thread /\ acts[c] \in Act /\ Holding(c) /\ StopsRightly(c) /\ MaxWorkers' = MaxWorkers
  BY ThreadFacts DEF Thread, MaxWorkers
<1>2. /\ acts[c].stop = <<>> /\ acts[c].back = "idle" /\ acts[c].attempt # 2 /\ acts[c].process = 0
      /\ acts[c].victim = 0 /\ RealWorker(w) /\ w \in Worker
  BY <1>w, <1>1 DEF Holding, Stopper, Working, Act
<1>3. /\ b \in Act /\ b.pc = "send" /\ b.worker = w /\ b.attempt = acts[c].attempt /\ b.process = 0
      /\ b.victim = 0 /\ b.stop = <<>> /\ b.back = "idle"
      /\ b.answer = acts[c].answer /\ b.request = acts[c].request
  BY <1>w, <1>1, <1>2 DEF Act, Pc, Working
<1>4. acts' = [acts EXCEPT ![c] = b] /\ procs' = Append(procs, proc)
      /\ hosts' = [hosts EXCEPT ![w[1]].process[w[2]] = Len(procs')]
  BY <1>w, <1>1 DEF Spawn, IInv, Types
<1>5. proc \in Proc /\ proc.worker = w /\ proc.asked = <<>> /\ proc.lines = <<>>
  <2>1. <<>> \in Seq(Nat) /\ <<>> \in Seq(Line)
    OBVIOUS
  <2> QED
    BY <1>2, <2>1 DEF Proc
<1> HIDE DEF b, proc
<1>6. /\ procs' \in Seq(Proc) /\ Len(procs') = new /\ DOMAIN procs' = DOMAIN procs \cup {new}
      /\ new \in Nat \ {0} /\ new \notin DOMAIN procs /\ procs'[new] = proc
      /\ \A p \in DOMAIN procs : procs'[p] = procs[p]
  BY <1>n, <1>4, <1>5 DEF IInv, Types
<1>7. acts'[c] = b /\ \A s \in Thread : s # c => acts'[s] = acts[s]
  BY <1>1, <1>4 DEF IInv, Types
<1>8. /\ hosts' \in Seq(Host) /\ Len(hosts') = Len(hosts) /\ DOMAIN hosts' = DOMAIN hosts
      /\ \A u \in Worker : RealWorker(u) => Process(u)' = IF u = w THEN new ELSE Process(u)
      /\ \A h \in DOMAIN hosts : \A i \in 1..MaxWorkers :
           hosts'[h].process[i] = IF h = w[1] /\ i = w[2] THEN new ELSE hosts[h].process[i]
  <2> DEFINE host == [hosts[w[1]] EXCEPT !.process[w[2]] = new]
  <2>0. DOMAIN hosts = 1..Len(hosts)
    BY DEF IInv, Types
  <2>1. w[1] \in DOMAIN hosts /\ w[2] \in 1..MaxWorkers
    BY <1>2, <2>0 DEF RealWorker
  <2>2. hosts[w[1]] \in Host
    BY <2>1 DEF IInv, Types
  <2>3. host \in Host /\ host.process = [hosts[w[1]].process EXCEPT ![w[2]] = new]
        /\ hosts[w[1]].process \in [1..MaxWorkers -> Nat]
    BY <1>6, <2>1, <2>2 DEF Host
  <2>4. hosts' = [hosts EXCEPT ![w[1]] = host]
    BY <1>4, <1>6, <2>1
  <2> HIDE DEF host
  <2>5. hosts' \in Seq(Host) /\ Len(hosts') = Len(hosts) /\ DOMAIN hosts' = DOMAIN hosts
    BY <2>1, <2>3, <2>4 DEF IInv, Types
  <2>6. \A h \in DOMAIN hosts : \A i \in 1..MaxWorkers :
           hosts'[h].process[i] = IF h = w[1] /\ i = w[2] THEN new ELSE hosts[h].process[i]
    BY <2>1, <2>3, <2>4, <2>5
  <2>7. \A u \in Worker : RealWorker(u) => Process(u)' = IF u = w THEN new ELSE Process(u)
    <3> SUFFICES ASSUME NEW u \in Worker, u[1] \in DOMAIN hosts, u[2] \in 1..MaxWorkers
                 PROVE  Process(u)' = IF u = w THEN new ELSE Process(u)
      BY <2>0 DEF RealWorker
    <3>1. u = w <=> u[1] = w[1] /\ u[2] = w[2]
      BY <1>2, WorkerPair
    <3> QED
      BY <2>6, <3>1 DEF Process
  <2> QED
    BY <2>5, <2>6, <2>7
<1>9. Types'
  <2>1. Host' = Host
    BY <1>1 DEF Host
  <2>2. acts' \in [Thread -> Act]
    BY <1>3, <1>4 DEF IInv, Types
  <2> QED
    BY <1>6, <1>8, <2>1, <2>2 DEF IInv, Types
<1>10. \A u : RealWorker(u)' <=> RealWorker(u)
  BY <1>1, <1>8 DEF RealWorker
<1>11. ProcessIsOwn'
  <2>1. ASSUME NEW h \in DOMAIN hosts, NEW i \in 1..MaxWorkers, hosts'[h].process[i] # 0
        PROVE  hosts'[h].process[i] \in DOMAIN procs' /\ procs'[hosts'[h].process[i]].worker = <<h, i>>
    <3>1. CASE h = w[1] /\ i = w[2]
      BY <1>2, <1>5, <1>6, <1>8, <2>1, <3>1, WorkerPair
    <3>2. CASE ~(h = w[1] /\ i = w[2])
      BY <1>6, <1>8, <2>1, <3>2 DEF IInv, ProcessIsOwn
    <3> QED
      BY <3>1, <3>2
  <2>2. \A p \in DOMAIN procs' : RealWorker(procs'[p].worker)
    BY <1>2, <1>5, <1>6 DEF IInv, ProcessIsOwn
  <2>3. \A p \in DOMAIN procs' : procs'[p].worker[1] \in 1..Len(hosts') /\ procs'[p].worker[2] \in 1..MaxWorkers'
    BY <1>1, <1>8, <2>2 DEF RealWorker
  <2> QED
    BY <1>1, <1>8, <2>1, <2>3 DEF ProcessIsOwn, RealWorker
<1>12. ThreadsAreSound'
  <2>1. Holding(c)' /\ StopsRightly(c)'
    BY <1>1, <1>2, <1>3, <1>7, <1>10 DEF Holding, StopsRightly, Mends, Retires, Stopper, Working
  <2>2. ASSUME NEW s \in Thread, s # c PROVE Holding(s)' /\ StopsRightly(s)'
    BY <1>1, <1>6, <1>7, <1>8, <2>2 DEF IInv, ThreadsAreSound, Holding, StopsRightly, Mends, Retires, RealWorker
  <2> QED
    BY <2>1, <2>2 DEF ThreadsAreSound
<1>13. /\ Holds(c)' /\ Caller \subseteq Thread
       /\ \A d \in Caller : d # c => (Holds(d)' <=> Holds(d))
       /\ \A d \in Caller : acts'[d].worker = acts[d].worker
  BY <1>w, <1>3, <1>7 DEF Holds, InPool, Working, Thread
<1>14. \A d \in Caller : Holds(d) /\ acts[d].worker = w => d = c
  BY <1>w DEF IInv, OneHolds, Holds, InPool, Locked, Working
<1>15. OneHolds'
  BY <1>w, <1>13, <1>14 DEF IInv, OneHolds
<1>16. UsersAreCounted'
  BY <1>w, <1>3, <1>7, <1>13 DEF IInv, UsersAreCounted
<1>17. OneRetires'
  BY <1>3, <1>7 DEF IInv, OneRetires, Retires
<1>18. w[1] = manager \/ w[1] \in overtaken
  BY <1>w, <1>2 DEF IInv, UsersAreCounted, RealWorker
<1>19. VictimIsCurrent'
  <2> SUFFICES ASSUME NEW s \in Thread, acts'[s].pc = "kill"
               PROVE  \A u : u = Head(acts'[s].stop) /\ u[1] \notin overtaken'
                               => acts'[s].victim = hosts'[u[1]].process[u[2]]
    BY DEF VictimIsCurrent, Process
  <2>1. s # c /\ acts'[s] = acts[s] /\ acts[s].pc \in Stopper
    BY <1>3, <1>7 DEF Stopper
  <2>2. RealWorker(Head(acts[s].stop)) /\ Head(acts[s].stop) \in Worker /\ (Mends(s) \/ Retires(s))
        /\ 1 \in DOMAIN acts[s].stop /\ Head(acts[s].stop) = acts[s].stop[1]
    BY SMTT(30), <2>1, StopperFacts
  <2>3. CASE Mends(s)
    <3>1. s \in Caller /\ acts[s].stop = <<acts[s].worker>> /\ Holds(s)
      BY <2>1, <2>3, ThreadFacts DEF StopsRightly, Holds, InPool, Mends, Stopper, Working
    <3>2. Head(acts[s].stop) # w
      BY <1>14, <2>1, <3>1
    <3>3. \A u : u = Head(acts[s].stop) => Process(u)' = Process(u)
      BY SMTT(30), <1>8, <2>2, <3>2
    <3> QED
      BY <2>1, <3>3 DEF IInv, VictimIsCurrent, Process
  <2>4. CASE Retires(s)
    <3>1. Head(acts[s].stop)[1] # manager
      BY <2>2, <2>4, ThreadFacts DEF StopsRightly
    <3>2. Head(acts[s].stop)[1] \notin overtaken => Head(acts[s].stop) # w
      BY <1>18, <3>1
    <3>3. \A u : u = Head(acts[s].stop) /\ u[1] \notin overtaken => Process(u)' = Process(u)
      BY SMTT(30), <1>8, <2>2, <3>2
    <3> QED
      BY <2>1, <3>3 DEF IInv, VictimIsCurrent, Process
  <2> QED
    BY SMTT(30), <2>2, <2>3, <2>4
<1>20. AliveIsKnown'
  <2>1. \A u : Stopping(u) => Stopping(u)'
    BY <1>2, <1>3, <1>7 DEF Stopping, Thread
  <2>2. \A p \in DOMAIN procs : procs[p].worker \in Worker /\ RealWorker(procs[p].worker)
    BY ProcFacts DEF IInv, ProcessIsOwn
  <2>3. ASSUME NEW p \in DOMAIN procs, procs[p].alive, procs[p].worker[1] \notin overtaken
        PROVE  /\ Process(procs[p].worker) = p /\ procs[p].worker # w
               /\ procs[p].worker[1] = manager \/ Stopping(procs[p].worker)
    <3>1. p # 0
      BY DEF IInv, Types
    <3> QED
      BY <1>w, <2>3, <3>1 DEF IInv, AliveIsKnown
  <2>4. ASSUME NEW p \in DOMAIN procs', NEW u, u = procs'[p].worker, procs'[p].alive, u[1] \notin overtaken
        PROVE  Process(u)' = p /\ (u[1] = manager \/ Stopping(u)')
    <3>1. CASE p = new
      BY <1>2, <1>5, <1>6, <1>8, <1>18, <2>4, <3>1
    <3>2. CASE p # new
      BY <1>6, <1>8, <2>1, <2>2, <2>3, <2>4, <3>2
    <3> QED
      BY <3>1, <3>2
  <2> QED
    BY <2>4 DEF AliveIsKnown, Process
<1>21. PipesAreClean'
  <2>1. \A p \in DOMAIN procs : Clean(p) => Clean(p)'
    BY <1>6 DEF Clean
  <2>2. Clean(new)'
    BY <1>5, <1>6 DEF Clean
  <2>3. ASSUME NEW h \in DOMAIN hosts, NEW i \in 1..MaxWorkers, NEW p, p # 0, Attended(h, i, p), <<h, i>> # w
        PROVE  Attended(h, i, p)'
    <3>1. PICK d \in Caller : Holds(d) /\ acts[d].worker = <<h, i>> /\ (acts[d].pc \in Stopper \/ acts[d].process = p)
      BY <2>3 DEF Attended
    <3>2. d # c
      BY <1>w, <2>3, <3>1
    <3> QED
      BY <1>7, <1>13, <3>1, <3>2 DEF Attended
  <2>4. ASSUME NEW h \in DOMAIN hosts, NEW i \in 1..MaxWorkers, NEW p, p = hosts'[h].process[i], p # 0
        PROVE  Clean(p)' \/ Attended(h, i, p)'
    <3>1. CASE <<h, i>> = w
      BY <1>8, <2>2, <2>4, <3>1
    <3>2. CASE <<h, i>> # w
      <4>1. p = hosts[h].process[i] /\ p \in DOMAIN procs
        BY <1>2, <1>8, <2>4, <3>2, WorkerPair DEF IInv, ProcessIsOwn
      <4>2. Clean(p) \/ Attended(h, i, p)
        BY SMTT(30), <2>4, <4>1 DEF IInv, PipesAreClean
      <4> QED
        BY <2>1, <2>3, <2>4, <3>2, <4>1, <4>2
    <3> QED
      BY <3>1, <3>2
  <2> QED
    BY <1>1, <1>8, <2>4 DEF PipesAreClean
<1>22. ReadsOwnPipe'
  BY SMTT(30), <1>3, <1>6, <1>7 DEF IInv, ReadsOwnPipe
<1>23. AnswersAreOwn'
  BY <1>1, <1>3, <1>7 DEF IInv, AnswersAreOwn
<1> QED
  BY <1>9, <1>11, <1>12, <1>15, <1>16, <1>17, <1>19, <1>20, <1>21, <1>22, <1>23 DEF IInv

\* The voice is ready, or another process is started.
LEMMA EnsureStartedIInv ==
  ASSUME IInv, NEW c \in Caller, EnsureStarted(c)
  PROVE  IInv'
<1>1. \/ acts[c].pc = "lock" /\ ~Locked(acts[c].worker)
      \/ acts[c].pc \in {"start", "poll"}
  BY DEF EnsureStarted
<1>2. CASE Process(acts[c].worker) = 0
  BY <1>1, <1>2, SpawnIInv DEF EnsureStarted
<1>3. CASE Process(acts[c].worker) # 0
  <2>1. acts' = [acts EXCEPT ![c].pc = "poll"] /\ UNCHANGED <<adapter, hosts, manager, queue, procs, left, overtaken>>
    BY <1>3 DEF EnsureStarted
  <2> QED
    BY <1>1, <2>1, HolderMoves
<1> QED
  BY <1>2, <1>3

\* The process is polled.
LEMMA EnsurePollsIInv ==
  ASSUME IInv, NEW c \in Caller, EnsurePolls(c)
  PROVE  IInv'
<1> DEFINE p == Process(acts[c].worker)
           pc == IF p = 0 THEN "failed" ELSE "send"
<1>1. acts[c].pc = "poll"
  BY DEF EnsurePolls
<1>2. CASE p # 0 /\ ~procs[p].alive
  BY <1>1, <1>2, SpawnIInv DEF EnsurePolls
<1>3. CASE ~(p # 0 /\ ~procs[p].alive)
  <2>1. acts' = [acts EXCEPT ![c].pc = pc] /\ UNCHANGED <<adapter, hosts, manager, queue, procs, left, overtaken>>
    BY <1>3 DEF EnsurePolls
  <2>2. pc \in {"poll", "send", "failed"}
    OBVIOUS
  <2> HIDE DEF pc
  <2> QED
    BY <1>1, <2>1, <2>2, HolderMoves
<1> QED
  BY <1>2, <1>3

\* A thread that has a worker's lock talks to the process of the worker, or
\* reads a line of it: no other thread and no other pipe is concerned.
LEMMA TalkIInv ==
  ASSUME IInv, NEW c \in Caller, acts[c].pc \in {"send", "read"}, NEW b \in Act, NEW q \in Proc,
         NEW p \in DOMAIN procs, procs[p].worker = acts[c].worker,
         acts' = [acts EXCEPT ![c] = b], procs' = [procs EXCEPT ![p] = q],
         UNCHANGED <<adapter, hosts, manager, queue, left, overtaken>>,
         q.worker = procs[p].worker, q.alive = procs[p].alive,
         Holding(c)', StopsRightly(c)', b.worker = acts[c].worker, b.pc \in Working \cup {"stop"},
         b.back \in {"idle", "start", "failed"}, b.stop # <<>> => b.back \in {"start", "failed"},
         b.pc \in Working \/ b.back \in {"start", "failed"},
         \/ q.asked = <<>> /\ q.lines = <<>>
         \/ b.pc = "read" /\ b.process = p
         \/ b.pc = "stop",
         acts[c].pc = "read" => acts[c].process = p,
         b.pc = "read" =>
           /\ b.process = p /\ Len(q.asked) <= 1
           /\ \A i \in DOMAIN q.asked : q.asked[i] = b.request
           /\ \A i \in DOMAIN q.lines : q.lines[i].kind # "odd" =>
                q.lines[i].of = b.request /\ i = Len(q.lines) /\ q.asked = <<>>,
         b.answer # 0 => b.answer = b.request
  PROVE  IInv'
<1>0. /\ c \in Thread /\ acts[c] \in Act /\ Holding(c) /\ StopsRightly(c) /\ MaxWorkers' = MaxWorkers
      /\ Caller \subseteq Thread
  BY ThreadFacts DEF Thread, MaxWorkers
<1>1. acts'[c] = b /\ \A s \in Thread : s # c => acts'[s] = acts[s]
  BY <1>0 DEF IInv, Types
<1>2. /\ procs' \in Seq(Proc) /\ Len(procs') = Len(procs) /\ DOMAIN procs' = DOMAIN procs /\ procs'[p] = q
      /\ \A r \in DOMAIN procs : r # p => procs'[r] = procs[r]
  BY DEF IInv, Types
<1>3. Types'
  <2>1. Host' = Host
    BY <1>0 DEF Host
  <2>2. acts' \in [Thread -> Act]
    BY DEF IInv, Types
  <2> QED
    BY <1>2, <2>1, <2>2 DEF IInv, Types
<1>4. ProcessIsOwn'
  BY SMTT(30), <1>0, <1>2 DEF IInv, ProcessIsOwn, RealWorker
<1>5. ThreadsAreSound'
  <2> SUFFICES ASSUME NEW s \in Thread, s # c PROVE Holding(s)' /\ StopsRightly(s)'
    BY DEF ThreadsAreSound
  <2> QED
    BY <1>0, <1>1, <1>2 DEF IInv, ThreadsAreSound, Holding, StopsRightly, Mends, Retires, RealWorker
<1>6. /\ Holds(c) /\ Holds(c)'
      /\ \A d \in Caller : d # c => (Holds(d)' <=> Holds(d))
      /\ \A d \in Caller : acts'[d].worker = acts[d].worker
  BY <1>0, <1>1 DEF Holds, InPool, Working
<1>7. OneHolds'
  BY <1>6 DEF IInv, OneHolds
<1>8. UsersAreCounted'
  BY <1>0, <1>1, <1>6 DEF IInv, UsersAreCounted
<1>9. OneRetires'
  BY SMTT(30), <1>0, <1>1 DEF IInv, OneRetires, Retires
<1>10. VictimIsCurrent'
  BY <1>0, <1>1 DEF IInv, VictimIsCurrent, Process, Working
<1>11. AliveIsKnown'
  <2>1. acts[c].stop = <<>>
    BY <1>0 DEF Holding, Stopper
  <2>2. \A w : Stopping(w) => Stopping(w)'
    BY <1>1, <2>1 DEF Stopping, Thread
  <2> QED
    BY <1>2, <2>2 DEF IInv, AliveIsKnown, Process
<1>12. \A d \in Caller : Holds(d) /\ acts[d].worker = acts[c].worker => d = c
  BY <1>6 DEF IInv, OneHolds
<1>13. PipesAreClean'
  <2> SUFFICES ASSUME NEW h \in DOMAIN hosts, NEW i \in 1..MaxWorkers, NEW r, r = hosts[h].process[i], r # 0
               PROVE  Clean(r)' \/ Attended(h, i, r)'
    BY <1>0 DEF PipesAreClean
  <2>1. r \in DOMAIN procs /\ procs[r].worker = <<h, i>> /\ (Clean(r) \/ Attended(h, i, r))
    BY DEF IInv, ProcessIsOwn, PipesAreClean
  <2>2. CASE r = p
    BY <1>1, <1>2, <1>6, <2>1, <2>2 DEF Clean, Attended, Stopper
  <2>3. CASE r # p
    <3>1. Clean(r) => Clean(r)'
      BY <1>2, <2>1, <2>3 DEF Clean
    <3>2. ASSUME NEW d \in Caller, Holds(d), acts[d].worker = <<h, i>>, acts[d].pc \in Stopper \/ acts[d].process = r
          PROVE  d # c
      <4>1. r \in Nat \ {0}
        BY SMTT(30), <2>1 DEF IInv, Types
      <4> QED
        BY <1>0, <2>3, <3>2, <4>1 DEF Holding, Stopper
    <3> QED
      BY <1>1, <1>6, <2>1, <3>1, <3>2 DEF Attended
  <2> QED
    BY <2>2, <2>3
<1>14. ReadsOwnPipe'
  <2>1. ASSUME NEW d \in Thread, d # c, acts[d].pc = "read"
        PROVE  d \in Caller /\ acts[d].process # p
    BY SMTT(30), <1>12, <2>1 DEF IInv, ReadsOwnPipe, Holds, InPool, Working
  <2>2. ASSUME NEW d \in Thread, d # c, acts'[d].pc = "read"
        PROVE  LET r == acts[d].process
               IN /\ d \in Caller
                  /\ r \in DOMAIN procs' /\ procs'[r].worker = acts[d].worker
                  /\ Len(procs'[r].asked) <= 1
                  /\ \A i \in DOMAIN procs'[r].asked : procs'[r].asked[i] = acts[d].request
                  /\ \A i \in DOMAIN procs'[r].lines : procs'[r].lines[i].kind # "odd" =>
                       /\ procs'[r].lines[i].of = acts[d].request
                       /\ i = Len(procs'[r].lines) /\ procs'[r].asked = <<>>
    BY <1>1, <1>2, <2>1, <2>2 DEF IInv, ReadsOwnPipe
  <2> QED
    BY <1>1, <1>2, <2>2 DEF ReadsOwnPipe
<1>15. AnswersAreOwn'
  BY <1>0, <1>1 DEF IInv, AnswersAreOwn
<1> QED
  BY <1>3, <1>4, <1>5, <1>7, <1>8, <1>9, <1>10, <1>11, <1>13, <1>14, <1>15 DEF IInv

\* The request goes to a process whose pipe is empty.
LEMMA SendIInv ==
  ASSUME IInv, NEW c \in Caller, Send(c)
  PROVE  IInv'
<1>p. PICK p : p = Process(acts[c].worker)
  OBVIOUS
<1>1. c \in Thread /\ acts[c] \in Act /\ Holding(c) /\ StopsRightly(c) /\ acts[c].pc = "send" /\ MaxWorkers' = MaxWorkers
      /\ UNCHANGED <<adapter, hosts, manager, queue, left, overtaken>>
  BY ThreadFacts DEF Thread, Send, MaxWorkers
<1>2. /\ acts[c].stop = <<>> /\ acts[c].back = "idle" /\ acts[c].attempt # 2 /\ acts[c].process = 0
      /\ acts[c].victim = 0 /\ RealWorker(acts[c].worker) /\ acts[c].worker \in Worker
  BY <1>1 DEF Holding, Stopper, Working, Act
<1>3. CASE p = 0 \/ ~procs[p].alive
  BY <1>p, <1>1, <1>3, BrokenIInv DEF Send
<1>4. CASE p # 0 /\ procs[p].alive
  <2> DEFINE b == [acts[c] EXCEPT !.pc = "read", !.process = p]
             q == [procs[p] EXCEPT !.asked = Append(@, acts[c].request)]
  <2>1. p \in DOMAIN procs /\ procs[p].worker = acts[c].worker /\ p \in Nat
    BY <1>p, <1>2, <1>4, ProcessIsReal
  <2>2. procs[p] \in Proc /\ procs[p].asked \in Seq(Nat) /\ acts[c].request \in Nat
    BY <1>1, <2>1, ProcFacts DEF Act
  <2>3. acts' = [acts EXCEPT ![c] = b] /\ procs' = [procs EXCEPT ![p] = q]
    BY <1>p, <1>1, <1>4, <2>1 DEF Send, IInv, Types
  <2>4. Clean(p)
    <3>1. acts[c].worker = <<acts[c].worker[1], acts[c].worker[2]>>
          /\ acts[c].worker[1] \in DOMAIN hosts /\ acts[c].worker[2] \in 1..MaxWorkers
      BY SMTT(30), <1>2, WorkerPair DEF RealWorker, IInv, Types
    <3>2. Clean(p) \/ Attended(acts[c].worker[1], acts[c].worker[2], p)
      BY <1>p, <1>4, <3>1 DEF IInv, PipesAreClean, Process
    <3>3. ASSUME NEW d \in Caller, Holds(d), acts[d].worker = acts[c].worker PROVE d = c
      BY <1>1, <3>3 DEF IInv, OneHolds, Holds, InPool, Working
    <3> QED
      BY <1>1, <1>2, <1>4, <3>1, <3>2, <3>3 DEF Attended, Stopper
  <2>5. q \in Proc /\ q.asked = <<acts[c].request>> /\ q.lines = <<>> /\ q.worker = procs[p].worker /\ q.alive = procs[p].alive
    <3>1. Append(procs[p].asked, acts[c].request) \in Seq(Nat)
          /\ Append(procs[p].asked, acts[c].request) = <<acts[c].request>> /\ procs[p].lines = <<>>
      BY <2>2, <2>4 DEF Clean
    <3> QED
      BY <2>2, <3>1 DEF Proc
  <2>6. /\ b \in Act /\ b.pc = "read" /\ b.worker = acts[c].worker /\ b.attempt = acts[c].attempt /\ b.process = p
        /\ b.victim = 0 /\ b.stop = <<>> /\ b.back = "idle"
        /\ b.answer = acts[c].answer /\ b.request = acts[c].request
    BY <1>1, <1>2, <2>1 DEF Act, Pc, Working
  <2> HIDE DEF b, q
  <2>7. acts'[c] = b /\ (RealWorker(acts[c].worker)' <=> RealWorker(acts[c].worker))
    BY <1>1, <2>3, <2>6 DEF IInv, Types, RealWorker
  <2>8. Holding(c)' /\ StopsRightly(c)'
    BY <1>2, <2>6, <2>7 DEF Holding, StopsRightly, Mends, Retires, Stopper, Working
  <2>9. /\ Len(q.asked) <= 1 /\ \A i \in DOMAIN q.asked : q.asked[i] = b.request
        /\ DOMAIN q.lines = {}
    BY <2>5, <2>6
  <2>10. b.answer # 0 => b.answer = b.request
    BY <1>1, <2>6 DEF IInv, AnswersAreOwn
  <2>11. b.pc \in Working
    BY <2>6 DEF Working
  <2> QED
    BY <1>1, <2>1, <2>3, <2>5, <2>6, <2>8, <2>9, <2>10, <2>11, TalkIInv
<1> QED
  BY <1>3, <1>4, ProcessIsReal, ProcFacts, <1>p, <1>2

\* A line is read, or the end of the pipe.
LEMMA ReadIInv ==
  ASSUME IInv, NEW c \in Caller, Read(c)
  PROVE  IInv'
<1>p. PICK p : p = acts[c].process
  OBVIOUS
<1>l. PICK line : line = Head(procs[p].lines)
  BY SMTT(30)
<1>1. c \in Thread /\ acts[c] \in Act /\ Holding(c) /\ StopsRightly(c) /\ acts[c].pc = "read" /\ MaxWorkers' = MaxWorkers
      /\ UNCHANGED <<adapter, hosts, manager, queue, left, overtaken>>
  BY ThreadFacts DEF Thread, Read, MaxWorkers
<1>2. /\ acts[c].stop = <<>> /\ acts[c].back = "idle" /\ acts[c].attempt \in 0..1
      /\ acts[c].victim = 0 /\ RealWorker(acts[c].worker) /\ acts[c].worker \in Worker
      /\ acts[c].request \in Nat
  BY <1>1 DEF Holding, Stopper, Working, Act
<1>3. /\ p \in DOMAIN procs /\ procs[p].worker = acts[c].worker
      /\ \A i \in DOMAIN procs[p].lines : procs[p].lines[i].kind # "odd" =>
           /\ procs[p].lines[i].of = acts[c].request
           /\ i = Len(procs[p].lines) /\ procs[p].asked = <<>>
  BY <1>p, <1>1 DEF IInv, ReadsOwnPipe
<1>4. procs[p] \in Proc /\ procs[p].lines \in Seq(Line)
  BY <1>3, ProcFacts
<1>5. CASE procs[p].lines = <<>>
  BY <1>p, <1>1, <1>5, BrokenIInv DEF Read
<1>6. CASE procs[p].lines # <<>>
  <2> DEFINE q == [procs[p] EXCEPT !.lines = Tail(@)]
  <2>1. procs' = [procs EXCEPT ![p] = q]
    BY <1>p, <1>3, <1>6 DEF Read
  <2>2. Tail(procs[p].lines) \in Seq(Line) /\ line = procs[p].lines[1] /\ 1 \in DOMAIN procs[p].lines
        /\ line \in Line
    BY <1>l, <1>4, <1>6
  <2>3. q \in Proc /\ q.asked = procs[p].asked /\ q.lines = Tail(procs[p].lines)
        /\ q.worker = procs[p].worker /\ q.alive = procs[p].alive
    BY <1>4, <2>2 DEF Proc
  <2> HIDE DEF q
  <2>4. RealWorker(acts[c].worker) /\ \A w : RealWorker(w)' <=> RealWorker(w)
    BY <1>1, <1>2 DEF RealWorker
  <2>5. acts[c].answer # 0 => acts[c].answer = acts[c].request
    BY <1>1 DEF IInv, AnswersAreOwn
  <2>6. CASE line.kind # "odd"
    <3>1. PICK pc \in {"done", "failed"} :
            acts' = [acts EXCEPT ![c].pc = pc, ![c].answer = line.of, ![c].process = 0]
      BY <1>p, <1>l, <1>6, <2>2, <2>6 DEF Read, Line
    <3> DEFINE b == [acts[c] EXCEPT !.pc = pc, !.answer = line.of, !.process = 0]
    <3>2. line.of = acts[c].request /\ Len(procs[p].lines) = 1 /\ procs[p].asked = <<>>
      BY <1>3, <2>2, <2>6
    <3>3. q.lines = <<>> /\ q.asked = <<>>
      <4>1. Len(Tail(procs[p].lines)) = 0
        BY <1>4, <1>6, <3>2
      <4> QED
        BY <2>2, <2>3, <3>2, <4>1, EmptySeq
    <3>4. acts' = [acts EXCEPT ![c] = b]
      BY <1>1, <3>1 DEF Act
    <3>5. /\ b \in Act /\ b.pc = pc /\ b.worker = acts[c].worker /\ b.attempt = acts[c].attempt /\ b.process = 0
          /\ b.victim = 0 /\ b.stop = <<>> /\ b.back = "idle"
          /\ b.answer = acts[c].request /\ b.request = acts[c].request
      BY <1>1, <1>2, <3>2 DEF Act, Pc, Working
    <3> HIDE DEF b
    <3>6. acts'[c] = b
      BY <1>1, <3>4 DEF IInv, Types
    <3>7. Holding(c)' /\ StopsRightly(c)'
      BY <1>2, <2>4, <3>5, <3>6 DEF Holding, StopsRightly, Mends, Retires, Stopper, Working
    <3>8. b.pc \in Working /\ b.pc # "read"
      BY <3>5 DEF Working
    <3> QED
      BY <1>p, <1>1, <1>3, <2>1, <2>3, <3>3, <3>4, <3>5, <3>7, <3>8, TalkIInv
  <2>7. CASE line.kind = "odd"
    <3>1. Broken(c)
      BY <1>p, <1>l, <1>6, <2>7 DEF Read
    <3> DEFINE back == IF acts[c].attempt = 0 THEN "start" ELSE "failed"
               stop == <<acts[c].worker>>
               n == acts[c].attempt + 1
               b == [acts[c] EXCEPT !.attempt = n, !.process = 0, !.stop = stop, !.back = back, !.pc = "stop"]
    <3>2. acts' = [acts EXCEPT ![c] = b]
      BY <1>1, <1>2, <3>1 DEF Broken, ThenStop
    <3>3. back \in {"start", "failed"} /\ (n = 2 => back = "failed") /\ n \in 0..2
          /\ stop \in Seq(Worker) /\ stop # <<>> /\ stop = <<acts[c].worker>>
      BY <1>2
    <3> HIDE DEF back, stop, n
    <3>4. /\ b \in Act /\ b.pc = "stop" /\ b.worker = acts[c].worker /\ b.attempt = n /\ b.process = 0
          /\ b.victim = 0 /\ b.stop = stop /\ b.back = back
          /\ b.answer = acts[c].answer /\ b.request = acts[c].request
      BY <1>1, <1>2, <3>3 DEF Act, Pc, Back, Stopper
    <3> HIDE DEF b
    <3>5. acts'[c] = b
      BY <1>1, <3>2 DEF IInv, Types
    <3>6. Holding(c)'
      BY <2>4, <3>3, <3>4, <3>5 DEF Holding, Stopper, Working
    <3>7. StopsRightly(c)'
      BY <2>4, <3>3, <3>4, <3>5 DEF StopsRightly, Mends, Retires
    <3> QED
      BY <1>p, <1>1, <1>3, <2>1, <2>3, <2>5, <3>2, <3>3, <3>4, <3>6, <3>7, TalkIInv
  <2> QED
    BY SMTT(30), <2>6, <2>7
<1> QED
  BY <1>5, <1>6

\* The first state.
LEMMA InitIInv == Init => IInv
<1> SUFFICES ASSUME Init PROVE IInv
  OBVIOUS
<1>1. Types
  BY EnginesAssumption, KeyAssumption, IdleAct DEF Init, Types, Thread
<1>2. \A t \in Thread : acts[t] = Idle
  BY DEF Init, Thread
<1>3. ThreadsAreSound /\ OneHolds /\ UsersAreCounted /\ OneRetires /\ VictimIsCurrent /\ ReadsOwnPipe /\ AnswersAreOwn
  <2>1. ThreadsAreSound
    BY <1>2, IdleAct DEF ThreadsAreSound, Holding, StopsRightly, Mends, Retires, Stopper, Working
  <2>2. \A c \in Caller : acts[c] = Idle /\ ~Holds(c)
    BY <1>2, IdleAct DEF Holds, InPool, Working, Thread
  <2> QED
    BY <1>2, <2>1, <2>2, IdleAct
       DEF OneHolds, UsersAreCounted, OneRetires, Retires, VictimIsCurrent, ReadsOwnPipe, AnswersAreOwn
<1>4. ProcessIsOwn /\ AliveIsKnown /\ PipesAreClean
  BY DEF Init, ProcessIsOwn, AliveIsKnown, PipesAreClean
<1> QED
  BY <1>1, <1>3, <1>4 DEF IInv

\* Every step.
LEMMA NextIInv == IInv /\ [Next]_vars => IInv'
<1> SUFFICES ASSUME IInv, [Next]_vars PROVE IInv'
  OBVIOUS
<1>1. ASSUME NEW c \in Caller, Finish(c) PROVE IInv'
  BY <1>1, EndIInv DEF Finish, Thread, IInv, Types
<1>2. ASSUME NEW s \in Handler, Adapt(s) PROVE IInv'
  <2>1. s \in Thread /\ acts[s] \in Act
    BY ThreadFacts DEF Thread
  <2> QED
    BY <1>2, <2>1, EndIInv DEF Adapt, Act
<1>3. ASSUME NEW t \in Caller \cup Handler, StopSteps(t) PROVE IInv'
  BY <1>3, StopReadsIInv, StopKillsIInv DEF StopSteps, Thread
<1>4. ASSUME NEW c \in Caller, CallerSteps(c) PROVE IInv'
  BY <1>1, <1>4, HostForKeyIInv, AssignIInv, PoolTakesIInv, EnsureStartedIInv, EnsurePollsIInv, SendIInv, ReadIInv
     DEF CallerSteps
<1>5. ASSUME UNCHANGED vars PROVE IInv'
  <2>1. UNCHANGED <<adapter, hosts, manager, queue, procs, acts, left, overtaken>> /\ MaxWorkers' = MaxWorkers
    BY <1>5 DEF vars, MaxWorkers
  <2>2. Types'
    <3>1. Host' = Host
      BY <2>1 DEF Host
    <3> QED
      BY <2>1, <3>1 DEF IInv, Types
  <2>3. ProcessIsOwn' /\ ThreadsAreSound'
    BY SMTT(30), <2>1 DEF IInv, ProcessIsOwn, ThreadsAreSound, Holding, StopsRightly, Mends, Retires, RealWorker
  <2>4. OneHolds' /\ UsersAreCounted' /\ OneRetires' /\ VictimIsCurrent' /\ AliveIsKnown'
    BY <2>1 DEF IInv, OneHolds, UsersAreCounted, OneRetires, Retires, VictimIsCurrent, AliveIsKnown,
       Holds, InPool, Process, Stopping
  <2>5. PipesAreClean' /\ ReadsOwnPipe' /\ AnswersAreOwn'
    <3>1. \A p : Clean(p)' <=> Clean(p)
      BY <2>1 DEF Clean
    <3>2. \A h, i, p : Attended(h, i, p)' <=> Attended(h, i, p)
      BY <2>1 DEF Attended, Holds, InPool
    <3>3. PipesAreClean'
      BY <2>1, <3>1, <3>2 DEF IInv, PipesAreClean
    <3> QED
      BY <2>1, <3>3 DEF IInv, ReadsOwnPipe, AnswersAreOwn
  <2> QED
    BY <2>2, <2>3, <2>4, <2>5 DEF IInv
<1> QED
  BY <1>2, <1>3, <1>4, <1>5, RequestIInv, StopAllIInv, ServeIInv, FaultIInv DEF Next

\* What every state of the workers keeps to.
THEOREM Invariance == Spec => []IInv
  BY InitIInv, NextIInv, PTL DEF Spec

\* Every call gets its own answer and no process is left running behind the
\* manager's back, unless its host was retired while a call used it.
THEOREM WorkersStaySafe == Spec => []WorkersAreSafe
<1>1. IInv => WorkersAreSafe
  <2> SUFFICES ASSUME IInv PROVE WorkersAreSafe
    OBVIOUS
  <2>1. TypeOK
    <3>1. \A h \in DOMAIN hosts : hosts[h] \in Host
      BY DEF IInv, Types
    <3>2. \A t \in Thread : acts[t] \in Act /\ acts[t].victim \in 0..Len(procs)
      BY ThreadFacts DEF Holding, IInv, Types
    <3>3. \A h \in DOMAIN hosts : \A i \in 1..MaxWorkers : hosts[h].process[i] \in 0..Len(procs)
      BY DEF IInv, Types, ProcessIsOwn
    <3> QED
      BY <3>1, <3>2, <3>3 DEF TypeOK, IInv, Types, Host, Act, Thread
  <2>2. AnswersMatch
    BY DEF AnswersMatch, IInv, AnswersAreOwn, ReadsOwnPipe, OneHolds, Holds, InPool, Working, Thread
  <2>3. OnlyOverlapLeaks
    BY DEF OnlyOverlapLeaks, IInv, AliveIsKnown
  <2> QED
    BY <2>1, <2>2, <2>3 DEF WorkersAreSafe
<1> QED
  BY <1>1, Invariance, PTL
=============================================================================

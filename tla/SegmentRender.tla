--------------------------- MODULE SegmentRender ---------------------------
(***************************************************************************)
(* SegmentRenderer.render for one segment: callers in one or more API      *)
(* processes ask for audio of the segment while its text is edited and the *)
(* production settings change.                                             *)
(*                                                                         *)
(* The key of a request is fixed from the segment row before the segment's *)
(* lock is taken.  The lock serialises the callers of one process only; a  *)
(* SQLite write transaction (BEGIN IMMEDIATE ... commit) makes the second  *)
(* cache check, the choice of the parent and the insert one step for every *)
(* process.                                                                *)
(***************************************************************************)
EXTENDS Naturals, Sequences, FiniteSets

CONSTANTS
  Caller,       \* threads that call render(): requests and job workers
  Process,      \* API processes sharing the database file
  ProcessOf,    \* the process each caller runs in
  Input,        \* resolved voice, direction, pronunciations and provider
  NoCaller,     \* the owner of a free lock
  MaxRequests,  \* bound: calls of render()
  MaxRevision,  \* bound: text revisions of the segment
  MaxCrashes    \* bound: process crashes

ASSUME CallersAssumption ==
  /\ ProcessOf \in [Caller -> Process]
  /\ NoCaller \notin Caller

ASSUME BoundsAssumption ==
  MaxRequests \in Nat /\ MaxRevision \in Nat \ {0} /\ MaxCrashes \in Nat

VARIABLES
  revision,  \* SegmentRecord.revision
  renders,   \* succeeded segment_renders rows, in commit (created_at) order
  files,     \* render directories with finished audio on disk
  lock,      \* _render_locks entry of the segment, per process
  pc,        \* where each caller is in render()
  call,      \* each caller's request
  issued,    \* calls made so far; the n-th call owns render id and nonce n
  crashes

vars == <<revision, renders, files, lock, pc, call, issued, crashes>>

NoRender == 0
RenderId == 1..MaxRequests
Key == [revision : 1..MaxRevision, input : Input, nonce : 0..MaxRequests]

Stage == {"idle", "resolved", "keyed", "synthesizing", "written", "inserted"}
Locked == {"synthesizing", "written"}

\* A call that has not read the segment row yet has revision 0.
Call == [n : 1..MaxRequests, force : BOOLEAN, input : Input, revision : 0..MaxRevision]
NoCall == [n |-> 0]

Row == [id : RenderId, key : Key, parent : {NoRender} \cup RenderId]

TypeOK ==
  /\ revision \in 1..MaxRevision
  /\ renders \in Seq(Row)
  /\ files \subseteq RenderId
  /\ lock \in [Process -> Caller \cup {NoCaller}]
  /\ pc \in [Caller -> Stage]
  /\ call \in [Caller -> Call \cup {NoCall}]
  /\ issued \in 0..MaxRequests
  /\ crashes \in 0..MaxCrashes
-----------------------------------------------------------------------------
\* The render key: a forced request carries a fresh nonce.
RenderKey(r) ==
  [revision |-> r.revision, input |-> r.input, nonce |-> IF r.force THEN r.n ELSE 0]

Cached(key) == \E i \in 1..Len(renders) : renders[i].key = key

\* Rows nobody names as a parent.
Tips(rows) ==
  {i \in 1..Len(rows) : \A j \in 1..Len(rows) : rows[j].parent # rows[i].id}

\* Variant of Tip: parent taken from the first row instead of the newest.
TipIsFirst(rows) == IF rows = <<>> THEN NoRender ELSE rows[1].id

\* _tip: the newest childless row, or the newest row when every row has a child.
Tip(rows) ==
  IF rows = <<>> THEN NoRender
  ELSE IF Tips(rows) = {} THEN rows[Len(rows)].id
  ELSE rows[CHOOSE i \in Tips(rows) : \A j \in Tips(rows) : j <= i].id

Init ==
  /\ revision = 1
  /\ renders = <<>>
  /\ files = {}
  /\ lock = [p \in Process |-> NoCaller]
  /\ pc = [c \in Caller |-> "idle"]
  /\ call = [c \in Caller |-> NoCall]
  /\ issued = 0
  /\ crashes = 0
-----------------------------------------------------------------------------
Goto(c, stage) == pc' = [pc EXCEPT ![c] = stage]

Return(c) ==
  /\ Goto(c, "idle")
  /\ call' = [call EXCEPT ![c] = NoCall]

Release(c) == lock' = [lock EXCEPT ![ProcessOf[c]] = NoCaller]

\* The caller resolves voice and direction to what the settings say by now
\* and calls render().
Resolve(c, force, input) ==
  /\ pc[c] = "idle"
  /\ issued < MaxRequests
  /\ issued' = issued + 1
  /\ call' = [call EXCEPT ![c] =
       [n |-> issued + 1, force |-> force, input |-> input, revision |-> 0]]
  /\ Goto(c, "resolved")
  /\ UNCHANGED <<revision, renders, files, lock, crashes>>

\* Variant of Prepare: the key is built without reading the segment row.
PrepareUnread(c) ==
  /\ pc[c] = "resolved"
  /\ Goto(c, "keyed")
  /\ UNCHANGED <<revision, renders, files, lock, call, issued, crashes>>

\* render() reads the segment row and hashes the payload, holding no lock.
Prepare(c) ==
  /\ pc[c] = "resolved"
  /\ call' = [call EXCEPT ![c].revision = revision]
  /\ Goto(c, "keyed")
  /\ UNCHANGED <<revision, renders, files, lock, issued, crashes>>

\* With the lock, an unforced request finds its key: the row is returned.
EnterHit(c) ==
  /\ pc[c] = "keyed"
  /\ lock[ProcessOf[c]] = NoCaller
  /\ ~call[c].force
  /\ Cached(RenderKey(call[c]))
  /\ Return(c)
  /\ UNCHANGED <<revision, renders, files, lock, issued, crashes>>

\* Variant of EnterMiss: the segment's lock is not waited for.
EnterMissUnlocked(c) ==
  /\ pc[c] = "keyed"
  /\ call[c].force \/ ~Cached(RenderKey(call[c]))
  /\ lock' = [lock EXCEPT ![ProcessOf[c]] = c]
  /\ Goto(c, "synthesizing")
  /\ UNCHANGED <<revision, renders, files, call, issued, crashes>>

EnterMiss(c) ==
  /\ pc[c] = "keyed"
  /\ lock[ProcessOf[c]] = NoCaller
  /\ call[c].force \/ ~Cached(RenderKey(call[c]))
  /\ lock' = [lock EXCEPT ![ProcessOf[c]] = c]
  /\ Goto(c, "synthesizing")
  /\ UNCHANGED <<revision, renders, files, call, issued, crashes>>

\* Variant of Synthesize: audio is left to a later writer.
SynthesizeDeferred(c) ==
  /\ pc[c] = "synthesizing"
  /\ Goto(c, "written")
  /\ UNCHANGED <<revision, renders, files, lock, call, issued, crashes>>

\* The adapter writes speech.wav, the analysis writes metadata.json.
Synthesize(c) ==
  /\ pc[c] = "synthesizing"
  /\ files' = files \cup {call[c].n}
  /\ Goto(c, "written")
  /\ UNCHANGED <<revision, renders, lock, call, issued, crashes>>

\* Variant of SynthesisFails: no `with`, the exception leaves the lock taken.
SynthesisFailsLocked(c) ==
  /\ pc[c] \in Locked
  /\ Return(c)
  /\ UNCHANGED <<revision, renders, files, lock, issued, crashes>>

\* Synthesis or analysis raises, or the database stays locked when the write
\* transaction begins; the lock is released on the way out.
SynthesisFails(c) ==
  /\ pc[c] \in Locked
  /\ Release(c)
  /\ Return(c)
  /\ UNCHANGED <<revision, renders, files, issued, crashes>>

\* In the write transaction the key turns up: another process inserted it.
CommitHit(c) ==
  /\ pc[c] = "written"
  /\ ~call[c].force
  /\ Cached(RenderKey(call[c]))
  /\ Release(c)
  /\ Return(c)
  /\ UNCHANGED <<revision, renders, files, issued, crashes>>

\* Variant of CommitInsert: no second cache check in the transaction.
CommitInsertBlind(c) ==
  /\ pc[c] = "written"
  /\ renders' = Append(renders,
       [id |-> call[c].n, key |-> RenderKey(call[c]), parent |-> Tip(renders)])
  /\ Release(c)
  /\ Goto(c, "inserted")
  /\ UNCHANGED <<revision, files, call, issued, crashes>>

CommitInsert(c) ==
  /\ pc[c] = "written"
  /\ call[c].force \/ ~Cached(RenderKey(call[c]))
  /\ renders' = Append(renders,
       [id |-> call[c].n, key |-> RenderKey(call[c]), parent |-> Tip(renders)])
  /\ Release(c)
  /\ Goto(c, "inserted")
  /\ UNCHANGED <<revision, files, call, issued, crashes>>

\* qa_segment runs after the lock is gone.  Whether it checks the row, returns
\* early because the segment is gone or raises, render() is over and the row
\* stays; a later call that finds the row returns before QA.
QaSegment(c) ==
  /\ pc[c] = "inserted"
  /\ Return(c)
  /\ UNCHANGED <<revision, renders, files, lock, issued, crashes>>
-----------------------------------------------------------------------------
\* update_segment: new text, next revision.
UpdateSegment ==
  /\ revision < MaxRevision
  /\ revision' = revision + 1
  /\ UNCHANGED <<renders, files, lock, pc, call, issued, crashes>>

\* A process dies: its threads and its lock table go, files and rows stay.
Crash(p) ==
  /\ crashes < MaxCrashes
  /\ \E c \in Caller : ProcessOf[c] = p /\ pc[c] # "idle"
  /\ crashes' = crashes + 1
  /\ lock' = [lock EXCEPT ![p] = NoCaller]
  /\ pc' = [c \in Caller |-> IF ProcessOf[c] = p THEN "idle" ELSE pc[c]]
  /\ call' = [c \in Caller |-> IF ProcessOf[c] = p THEN NoCall ELSE call[c]]
  /\ UNCHANGED <<revision, renders, files, issued>>

Step(c) ==
  \/ Prepare(c)
  \/ EnterHit(c)
  \/ EnterMiss(c)
  \/ Synthesize(c)
  \/ SynthesisFails(c)
  \/ CommitHit(c)
  \/ CommitInsert(c)
  \/ QaSegment(c)

Next ==
  \/ \E c \in Caller, force \in BOOLEAN, input \in Input : Resolve(c, force, input)
  \/ \E c \in Caller : Step(c)
  \/ UpdateSegment
  \/ \E p \in Process : Crash(p)

Spec == Init /\ [][Next]_vars

\* Threads are scheduled, so a call keeps running, but for the call of the
\* voice provider: the worker's line is awaited without a timeout.
FairSpec == Spec /\ \A c \in Caller : WF_vars(pc[c] # "synthesizing" /\ Step(c))
-----------------------------------------------------------------------------
(***************************************************************************)
(* rendering.py 18-21, alpha-operations.md 19: concurrent renders "cannot  *)
(* fork the append-only render chain": in commit order every render has    *)
(* its predecessor as parent, however callers and processes interleave.    *)
(***************************************************************************)
LinearHistory ==
  \A i \in 1..Len(renders) :
    renders[i].parent = IF i = 1 THEN NoRender ELSE renders[i - 1].id

(***************************************************************************)
(* No insert ever trips uq_segment_renders_succeeded_key: the index is a   *)
(* backstop, not the mechanism.                                            *)
(***************************************************************************)
KeysUnique ==
  \A i, j \in 1..Len(renders) : renders[i].key = renders[j].key => i = j

\* A row is only visible once its audio is on disk, also across crashes.
AudioBeforeRow == \A i \in 1..Len(renders) : renders[i].id \in files

(***************************************************************************)
(* Renders of the segment are serialised in each process: one caller at a  *)
(* time is between the first cache check and the commit, and it owns the   *)
(* lock.                                                                   *)
(***************************************************************************)
Serialised ==
  \A c \in Caller : pc[c] \in Locked => lock[ProcessOf[c]] = c

\* The lock of a process is never kept: whoever holds it lets go.
LockIsReleased ==
  \A p \in Process : []<>(lock[p] = NoCaller)

\* Nobody waits for ever for audio, or for the lock of who does.
CallsReturn == \A c \in Caller : []<>(pc[c] = "idle")

\* Whatever is asked of a provider is answered, raises or dies with its process.
ProvidersAnswer ==
  \A c \in Caller : []<>(pc[c] # "synthesizing")

\* If providers answer, the lock of a segment is given back and every call ends,
\* whether audio, commit and QA succeed or raise and whoever dies (render, for
\* finitely many calls: the lock is no queue).
RendersFinish == ProvidersAnswer => LockIsReleased /\ CallsReturn

History == INSTANCE RenderHistory WITH log <- renders

\* The rows are the append-only, linear history RenderHistory describes.
RefinesHistory == History!Spec
=============================================================================

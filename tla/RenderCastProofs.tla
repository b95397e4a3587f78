-------------------------- MODULE RenderCastProofs ---------------------------
(***************************************************************************)
(* Proofs about SegmentRender and CastBook for any callers, processes,     *)
(* books, casts and bounds.  The invariant of the renderer adds to the     *)
(* checked properties where the ids of calls and rows come from: each call *)
(* owns one number, a row takes its id and its nonce from the call that    *)
(* inserted it.  That of the cast adds what discovery has read, and what   *)
(* became of the names it read since.                                      *)
(***************************************************************************)
EXTENDS SegmentRender, CastBook, SequenceTheorems, NaturalsInduction, WellFoundedInduction, TLAPS

Busy(c) == pc[c] # "idle"

\* A busy caller has a request; its number was issued and is its own.
CallsOwnNumbers ==
  /\ \A c \in Caller : Busy(c) <=> call[c] # NoCall
  /\ \A c \in Caller : Busy(c) => call[c].n <= issued
  /\ \A c, d \in Caller :
       Busy(c) /\ Busy(d) /\ call[c].n = call[d].n => c = d

\* Past Prepare the request holds a revision of the segment.
KeyedHasRevision ==
  \A c \in Caller :
    pc[c] \notin {"idle", "resolved"} => call[c].revision \in 1..MaxRevision

\* Rows carry issued ids, and only a call that inserted shares its id with one.
RowsOwnNumbers ==
  /\ \A i \in 1..Len(renders) : renders[i].id <= issued
  /\ \A i \in 1..Len(renders), c \in Caller :
       Busy(c) /\ call[c].n = renders[i].id => pc[c] = "inserted"
  /\ \A i, j \in 1..Len(renders) : renders[i].id = renders[j].id => i = j
  /\ \A i \in 1..Len(renders) :
       renders[i].key.nonce \in {0, renders[i].id}

WrittenHasAudio == \A c \in Caller : pc[c] = "written" => call[c].n \in files

IInv ==
  /\ TypeOK
  /\ CallsOwnNumbers
  /\ KeyedHasRevision
  /\ RowsOwnNumbers
  /\ WrittenHasAudio
  /\ Serialised
  /\ LinearHistory
  /\ KeysUnique
  /\ AudioBeforeRow
-----------------------------------------------------------------------------
(***************************************************************************)
(* _tip finds the newest row of a linear history with distinct ids.        *)
(***************************************************************************)
LEMMA TipOfLinear ==
  ASSUME TypeOK, LinearHistory,
         \A i, j \in 1..Len(renders) : renders[i].id = renders[j].id => i = j
  PROVE  Tip(renders) = IF renders = <<>> THEN NoRender ELSE renders[Len(renders)].id
<1>1. CASE renders = <<>>
  BY <1>1 DEF Tip
<1>2. CASE renders # <<>>
  <2> DEFINE n == Len(renders)
  <2>1. n \in Nat /\ n # 0
    BY <1>2 DEF TypeOK
  <2>2. \A j \in 1..n : renders[j].parent # renders[n].id
    <3> SUFFICES ASSUME NEW j \in 1..n PROVE renders[j].parent # renders[n].id
      OBVIOUS
    <3>1. CASE j = 1
      <4>1. renders[n] \in Row
        BY <2>1 DEF TypeOK
      <4>2. renders[j].parent = NoRender
        BY <3>1 DEF LinearHistory
      <4> QED BY <4>1, <4>2 DEF Row, RenderId, NoRender
    <3>2. CASE j # 1
      <4>1. j - 1 \in 1..n /\ j - 1 # n
        BY <3>2, <2>1
      <4>2. renders[j].parent = renders[j - 1].id
        BY <3>2 DEF LinearHistory
      <4> QED BY <4>1, <4>2, <2>1
    <3> QED BY <3>1, <3>2
  <2>3. \A i \in 1..n : i # n => \E j \in 1..n : renders[j].parent = renders[i].id
    <3> SUFFICES ASSUME NEW i \in 1..n, i # n
                 PROVE  \E j \in 1..n : renders[j].parent = renders[i].id
      OBVIOUS
    <3>1. i + 1 \in 1..n /\ i + 1 # 1 /\ (i + 1) - 1 = i
      BY <2>1
    <3>2. renders[i + 1].parent = renders[i].id
      BY <3>1 DEF LinearHistory
    <3> QED BY <3>1, <3>2
  <2>4. Tips(renders) = {n}
    BY <2>1, <2>2, <2>3 DEF Tips
  <2>5. (CHOOSE i \in {n} : \A j \in {n} : j <= i) = n
    BY <2>1
  <2> QED BY <1>2, <2>4, <2>5 DEF Tip
<1> QED BY <1>1, <1>2
-----------------------------------------------------------------------------
\* Where a busy caller's request is a request, in the form the steps use.
LEMMA BusyCall ==
  ASSUME TypeOK, CallsOwnNumbers, NEW c \in Caller, pc[c] # "idle"
  PROVE  call[c] \in Call
BY DEF TypeOK, CallsOwnNumbers, Busy

LEMMA KeyOfCall ==
  ASSUME TypeOK, CallsOwnNumbers, KeyedHasRevision,
         NEW c \in Caller, pc[c] \notin {"idle", "resolved"}
  PROVE  RenderKey(call[c]) \in Key
<1>1. call[c] \in Call
  BY BusyCall
<1>2. call[c].revision \in 1..MaxRevision
  BY DEF KeyedHasRevision
<1> QED BY <1>1, <1>2, BoundsAssumption DEF RenderKey, Key, Call

LEMMA InitIInv == Init => IInv
<1> SUFFICES ASSUME Init PROVE IInv
  OBVIOUS
<1>1. TypeOK
  BY BoundsAssumption DEF Init, TypeOK, Stage
<1>2. QED
  BY <1>1 DEF Init, IInv, CallsOwnNumbers, KeyedHasRevision, RowsOwnNumbers,
     WrittenHasAudio, Serialised, LinearHistory, KeysUnique, AudioBeforeRow, Busy, Locked

(***************************************************************************)
(* Type correctness of each kind of step.                                  *)
(***************************************************************************)
LEMMA TypeStep == IInv /\ [Next]_vars => TypeOK'
<1> SUFFICES ASSUME IInv, [Next]_vars PROVE TypeOK'
  OBVIOUS
<1> USE DEF IInv
<1>1. ASSUME NEW c \in Caller, NEW force \in BOOLEAN, NEW input \in Input,
            Resolve(c, force, input) PROVE TypeOK'
  <2>1. [n |-> issued + 1, force |-> force, input |-> input, revision |-> 0] \in Call
    BY <1>1, BoundsAssumption DEF Resolve, TypeOK, Call
  <2> QED BY <1>1, <2>1, BoundsAssumption DEF Resolve, TypeOK, Goto, Stage
<1>2. ASSUME NEW c \in Caller, Prepare(c) PROVE TypeOK'
  <2>1. call[c] \in Call
    BY <1>2, BusyCall DEF Prepare
  <2>2. [call[c] EXCEPT !.revision = revision] \in Call
    BY <2>1, BoundsAssumption DEF TypeOK, Call
  <2> QED BY <1>2, <2>2 DEF Prepare, TypeOK, Goto, Stage
<1>3. ASSUME NEW c \in Caller, EnterHit(c) PROVE TypeOK'
  BY <1>3 DEF EnterHit, TypeOK, Return, Goto, Stage
<1>4. ASSUME NEW c \in Caller, EnterMiss(c) PROVE TypeOK'
  BY <1>4 DEF EnterMiss, TypeOK, Goto, Stage
<1>5. ASSUME NEW c \in Caller, Synthesize(c) PROVE TypeOK'
  <2>1. call[c].n \in RenderId
    BY <1>5, BusyCall DEF Synthesize, Call, RenderId
  <2> QED BY <1>5, <2>1 DEF Synthesize, TypeOK, Goto, Stage
<1>6. ASSUME NEW c \in Caller, SynthesisFails(c) PROVE TypeOK'
  BY <1>6 DEF SynthesisFails, TypeOK, Release, Return, Goto, Stage
<1>7. ASSUME NEW c \in Caller, CommitHit(c) PROVE TypeOK'
  BY <1>7 DEF CommitHit, TypeOK, Release, Return, Goto, Stage
<1>8. ASSUME NEW c \in Caller, CommitInsert(c) PROVE TypeOK'
  <2>1. call[c].n \in RenderId
    BY <1>8, BusyCall DEF CommitInsert, Call, RenderId
  <2>2. RenderKey(call[c]) \in Key
    BY <1>8, KeyOfCall DEF CommitInsert
  <2>3. Tip(renders) \in {NoRender} \cup RenderId
    <3>1. Tip(renders) = IF renders = <<>> THEN NoRender ELSE renders[Len(renders)].id
      BY TipOfLinear DEF RowsOwnNumbers
    <3>2. renders # <<>> => Len(renders) \in 1..Len(renders) /\ renders[Len(renders)] \in Row
      BY DEF TypeOK
    <3> QED BY <3>1, <3>2 DEF Row
  <2>4. renders' \in Seq(Row)
    BY <1>8, <2>1, <2>2, <2>3 DEF CommitInsert, TypeOK, Row
  <2> QED BY <1>8, <2>4 DEF CommitInsert, TypeOK, Release, Goto, Stage
<1>9. ASSUME NEW c \in Caller, QaSegment(c) PROVE TypeOK'
  BY <1>9 DEF QaSegment, TypeOK, Return, Goto, Stage
<1>10. ASSUME UpdateSegment PROVE TypeOK'
  BY <1>10, BoundsAssumption DEF UpdateSegment, TypeOK
<1>11. ASSUME NEW p \in Process, Crash(p) PROVE TypeOK'
  BY <1>11, BoundsAssumption DEF Crash, TypeOK, Stage
<1>12. ASSUME UNCHANGED vars PROVE TypeOK'
  BY <1>12 DEF vars, TypeOK
<1> QED
  BY <1>1, <1>2, <1>3, <1>4, <1>5, <1>6, <1>7, <1>8, <1>9, <1>10, <1>11, <1>12
  DEF Next, Step
(***************************************************************************)
(* Steps that leave the rows, the files and the issued numbers alone, and  *)
(* move callers to "idle" or forward without a new request.                *)
(***************************************************************************)
LEMMA ResolveStep ==
  ASSUME IInv, NEW c \in Caller, NEW force \in BOOLEAN, NEW input \in Input,
         Resolve(c, force, input)
  PROVE  IInv'
<1> USE DEF IInv
<1>1. TypeOK'
  BY TypeStep DEF Next
<1>2. CallsOwnNumbers'
  BY <1>1 DEF Resolve, CallsOwnNumbers, Busy, Goto, TypeOK, NoCall, Call
<1>3. KeyedHasRevision'
  BY DEF Resolve, KeyedHasRevision, Goto, TypeOK
<1>4. RowsOwnNumbers'
  <2>1. \A i \in 1..Len(renders) : renders[i].id # issued + 1
    <3> SUFFICES ASSUME NEW i \in 1..Len(renders) PROVE renders[i].id # issued + 1
      OBVIOUS
    <3>1. renders[i] \in Row /\ renders[i].id <= issued
      BY DEF TypeOK, RowsOwnNumbers
    <3> QED BY <3>1 DEF TypeOK, Row, RenderId
  <2>2. renders' = renders /\ issued' = issued + 1
    BY DEF Resolve
  <2>3. \A d \in Caller : d # c => pc'[d] = pc[d] /\ call'[d] = call[d]
    BY DEF Resolve, Goto, TypeOK
  <2>4. call'[c].n = issued + 1
    BY DEF Resolve, TypeOK
  <2>5. \A i \in 1..Len(renders) : renders[i].id <= issued + 1
    <3> SUFFICES ASSUME NEW i \in 1..Len(renders) PROVE renders[i].id <= issued + 1
      OBVIOUS
    <3>1. renders[i] \in Row /\ renders[i].id <= issued
      BY DEF TypeOK, RowsOwnNumbers
    <3> QED BY <3>1 DEF TypeOK, Row, RenderId
  <2> QED BY <2>1, <2>2, <2>3, <2>4, <2>5 DEF RowsOwnNumbers, Busy
<1>5. WrittenHasAudio' /\ Serialised'
  BY DEF Resolve, WrittenHasAudio, Serialised, Goto, TypeOK, Locked
<1>6. LinearHistory' /\ KeysUnique' /\ AudioBeforeRow'
  BY DEF Resolve, LinearHistory, KeysUnique, AudioBeforeRow
<1> QED BY <1>1, <1>2, <1>3, <1>4, <1>5, <1>6

LEMMA PrepareStep ==
  ASSUME IInv, NEW c \in Caller, Prepare(c)
  PROVE  IInv'
<1> USE DEF IInv
<1>1. TypeOK'
  BY TypeStep DEF Next, Step
<1>2. call[c] \in Call
  BY BusyCall DEF Prepare
<1>3. \A d \in Caller : call'[d].n = call[d].n /\ (call'[d] = NoCall <=> call[d] = NoCall)
  BY <1>1, <1>2 DEF Prepare, TypeOK, Call, NoCall
<1>4. CallsOwnNumbers'
  BY <1>3 DEF Prepare, CallsOwnNumbers, Busy, Goto, TypeOK
<1>5. KeyedHasRevision'
  BY <1>2 DEF Prepare, KeyedHasRevision, Goto, TypeOK, Call
<1>6. RowsOwnNumbers'
  BY <1>3 DEF Prepare, RowsOwnNumbers, Busy, Goto, TypeOK
<1>7. WrittenHasAudio' /\ Serialised'
  BY <1>3 DEF Prepare, WrittenHasAudio, Serialised, Goto, TypeOK, Locked
<1>8. LinearHistory' /\ KeysUnique' /\ AudioBeforeRow'
  BY DEF Prepare, LinearHistory, KeysUnique, AudioBeforeRow
<1> QED BY <1>1, <1>4, <1>5, <1>6, <1>7, <1>8

\* The caller returns and, if it had the lock, gives it up.
LEMMA ReturnStep ==
  ASSUME IInv, TypeOK', NEW c \in Caller, Return(c),
         \/ lock' = lock
         \/ pc[c] \in Locked /\ Release(c),
         UNCHANGED <<revision, renders, files, issued>>
  PROVE  IInv'
<1> USE DEF IInv, Return, Goto
<1>1. CallsOwnNumbers'
  BY DEF CallsOwnNumbers, Busy, TypeOK
<1>2. KeyedHasRevision' /\ WrittenHasAudio'
  BY DEF KeyedHasRevision, WrittenHasAudio, TypeOK
<1>3. RowsOwnNumbers'
  BY DEF RowsOwnNumbers, Busy, TypeOK
<1>4. Serialised'
  BY ZenonT(60), CallersAssumption DEF Serialised, Release, Locked, TypeOK
<1>5. LinearHistory' /\ KeysUnique' /\ AudioBeforeRow'
  BY DEF LinearHistory, KeysUnique, AudioBeforeRow
<1> QED BY <1>1, <1>2, <1>3, <1>4, <1>5

LEMMA EnterMissStep ==
  ASSUME IInv, NEW c \in Caller, EnterMiss(c)
  PROVE  IInv'
<1> USE DEF IInv
<1>1. TypeOK'
  BY TypeStep DEF Next, Step
<1>2. CallsOwnNumbers' /\ KeyedHasRevision' /\ WrittenHasAudio'
  BY DEF EnterMiss, CallsOwnNumbers, KeyedHasRevision, WrittenHasAudio, Busy, Goto, TypeOK
<1>3. RowsOwnNumbers'
  BY DEF EnterMiss, RowsOwnNumbers, Busy, Goto, TypeOK
<1>4. Serialised'
  BY CallersAssumption DEF EnterMiss, Serialised, Goto, TypeOK, Locked
<1>5. LinearHistory' /\ KeysUnique' /\ AudioBeforeRow'
  BY DEF EnterMiss, LinearHistory, KeysUnique, AudioBeforeRow
<1> QED BY <1>1, <1>2, <1>3, <1>4, <1>5

LEMMA SynthesizeStep ==
  ASSUME IInv, NEW c \in Caller, Synthesize(c)
  PROVE  IInv'
<1> USE DEF IInv
<1>1. TypeOK'
  BY TypeStep DEF Next, Step
<1>2. CallsOwnNumbers' /\ KeyedHasRevision' /\ WrittenHasAudio'
  BY DEF Synthesize, CallsOwnNumbers, KeyedHasRevision, WrittenHasAudio, Busy, Goto, TypeOK
<1>3. RowsOwnNumbers'
  BY DEF Synthesize, RowsOwnNumbers, Busy, Goto, TypeOK
<1>4. Serialised'
  BY DEF Synthesize, Serialised, Goto, TypeOK, Locked
<1>5. LinearHistory' /\ KeysUnique' /\ AudioBeforeRow'
  BY DEF Synthesize, LinearHistory, KeysUnique, AudioBeforeRow
<1> QED BY <1>1, <1>2, <1>3, <1>4, <1>5

(***************************************************************************)
(* The insert extends the history by a row with a new id, a new key and    *)
(* the newest row as its parent.                                           *)
(***************************************************************************)
LEMMA InsertExtends ==
  ASSUME IInv, NEW c \in Caller, CommitInsert(c)
  PROVE  LET new == [id |-> call[c].n, key |-> RenderKey(call[c]),
                     parent |-> IF renders = <<>> THEN NoRender
                                ELSE renders[Len(renders)].id]
         IN  /\ renders' = Append(renders, new)
             /\ new \in Row
             /\ new.key.nonce \in {0, new.id}
             /\ \A i \in 1..Len(renders) : renders[i].id # new.id /\ renders[i].key # new.key
<1> USE DEF IInv
<1>1. call[c] \in Call /\ RenderKey(call[c]) \in Key
  BY BusyCall, KeyOfCall DEF CommitInsert
<1>2. Tip(renders) = IF renders = <<>> THEN NoRender ELSE renders[Len(renders)].id
  BY TipOfLinear DEF RowsOwnNumbers
<1>3. renders # <<>> => Len(renders) \in 1..Len(renders) /\ renders[Len(renders)] \in Row
  BY DEF TypeOK
<1>4. \A i \in 1..Len(renders) : renders[i].id # call[c].n
  BY DEF RowsOwnNumbers, Busy, CommitInsert
<1>5. \A i \in 1..Len(renders) : renders[i].key # RenderKey(call[c])
  <2>1. CASE call[c].force
    <3>1. RenderKey(call[c]).nonce = call[c].n /\ call[c].n # 0
      BY <2>1, <1>1 DEF RenderKey, Call
    <3> QED BY <3>1, <1>4 DEF RowsOwnNumbers
  <2>2. CASE ~call[c].force
    BY <2>2 DEF CommitInsert, Cached
  <2> QED BY <2>1, <2>2
<1>6. RenderKey(call[c]).nonce \in {0, call[c].n}
  BY DEF RenderKey
<1> QED BY <1>1, <1>2, <1>3, <1>4, <1>5, <1>6 DEF CommitInsert, Row, Call, RenderId

LEMMA CommitInsertStep ==
  ASSUME IInv, NEW c \in Caller, CommitInsert(c)
  PROVE  IInv'
<1> USE DEF IInv
<1> DEFINE new == [id |-> call[c].n, key |-> RenderKey(call[c]),
                   parent |-> IF renders = <<>> THEN NoRender ELSE renders[Len(renders)].id]
           len == Len(renders)
<1>1. TypeOK'
  BY TypeStep DEF Next, Step
<1>2. /\ renders' = Append(renders, new)
      /\ new \in Row
      /\ new.key.nonce \in {0, new.id}
      /\ \A i \in 1..len : renders[i].id # new.id /\ renders[i].key # new.key
  BY InsertExtends
<1>3. /\ len \in Nat
      /\ Len(renders') = len + 1
      /\ renders'[len + 1] = new
      /\ \A i \in 1..len : renders'[i] = renders[i]
  <2> HIDE DEF new
  <2> QED BY <1>2 DEF TypeOK
<1>4. new.id = call[c].n
  OBVIOUS
<1>5. call[c] \in Call /\ call[c].n <= issued /\ pc[c] = "written"
  BY BusyCall DEF CommitInsert, CallsOwnNumbers, Busy
<1> HIDE DEF new, len
<1>6. CallsOwnNumbers' /\ KeyedHasRevision' /\ WrittenHasAudio'
  BY DEF CommitInsert, CallsOwnNumbers, KeyedHasRevision, WrittenHasAudio, Busy, Goto, TypeOK
<1>7. RowsOwnNumbers'
  <2>1. \A i \in 1..len + 1 : renders'[i].id <= issued
    BY <1>3, <1>4, <1>5 DEF RowsOwnNumbers, len
  <2>2. \A i \in 1..len + 1, d \in Caller :
          pc'[d] # "idle" /\ call[d].n = renders'[i].id => pc'[d] = "inserted"
    <3> SUFFICES ASSUME NEW i \in 1..len + 1, NEW d \in Caller,
                        pc'[d] # "idle", call[d].n = renders'[i].id
                 PROVE  pc'[d] = "inserted"
      OBVIOUS
    <3>1. CASE d = c
      BY <3>1 DEF CommitInsert, Goto, TypeOK
    <3>2. CASE d # c
      <4>1. pc'[d] = pc[d] /\ call[d].n # call[c].n
        BY <3>2, <1>5 DEF CommitInsert, Goto, TypeOK, CallsOwnNumbers, Busy
      <4>2. i # len + 1
        BY <4>1, <1>3, <1>4
      <4>3. i \in 1..len
        BY <4>2, <1>3
      <4> QED BY <4>1, <4>3, <1>3 DEF RowsOwnNumbers, Busy, len
    <3> QED BY <3>1, <3>2
  <2>3. \A i, j \in 1..len + 1 : renders'[i].id = renders'[j].id => i = j
    <3>1. \A i \in 1..len + 1 : i = len + 1 \/ i \in 1..len
      BY <1>3
    <3> QED BY <3>1, <1>2, <1>3 DEF RowsOwnNumbers, len
  <2>4. \A i \in 1..len + 1 : renders'[i].key.nonce \in {0, renders'[i].id}
    <3>1. \A i \in 1..len + 1 : i = len + 1 \/ i \in 1..len
      BY <1>3
    <3> QED BY <3>1, <1>2, <1>3 DEF RowsOwnNumbers, len
  <2> QED BY <1>3, <2>1, <2>2, <2>3, <2>4 DEF RowsOwnNumbers, Busy, CommitInsert
<1>8. Serialised'
  BY <1>5, CallersAssumption DEF CommitInsert, Serialised, Release, Goto, TypeOK, Locked
<1>9. LinearHistory'
  <2> SUFFICES ASSUME NEW i \in 1..len + 1
               PROVE  renders'[i].parent = IF i = 1 THEN NoRender ELSE renders'[i - 1].id
    BY <1>3 DEF LinearHistory
  <2>1. CASE i \in 1..len
    <3>1. i # 1 => i - 1 \in 1..len
      BY <2>1, <1>3
    <3> QED BY <2>1, <3>1, <1>3 DEF LinearHistory, len
  <2>2. CASE i = len + 1
    <3>1. len = 0 <=> renders = <<>>
      BY DEF TypeOK, len
    <3>2. new.parent = IF len = 0 THEN NoRender ELSE renders[len].id
      BY <3>1 DEF new, len
    <3>3. len # 0 => len \in 1..len
      BY <1>3
    <3> QED BY <2>2, <3>2, <3>3, <1>3
  <2> QED BY <2>1, <2>2, <1>3
<1>10. KeysUnique'
  <2>1. \A i \in 1..len + 1 : i = len + 1 \/ i \in 1..len
    BY <1>3
  <2>2. \A i, j \in 1..len + 1 : renders'[i].key = renders'[j].key => i = j
    BY <2>1, <1>2, <1>3 DEF KeysUnique, len
  <2> QED BY <2>2, <1>3 DEF KeysUnique
<1>11. AudioBeforeRow'
  <2>1. \A i \in 1..len + 1 : i = len + 1 \/ i \in 1..len
    BY <1>3
  <2>2. \A i \in 1..len + 1 : renders'[i].id \in files
    BY <2>1, <1>3, <1>4, <1>5 DEF AudioBeforeRow, WrittenHasAudio, len
  <2> QED BY <2>2, <1>3 DEF AudioBeforeRow, CommitInsert
<1> QED BY <1>1, <1>6, <1>7, <1>8, <1>9, <1>10, <1>11

LEMMA CrashStep ==
  ASSUME IInv, NEW p \in Process, Crash(p)
  PROVE  IInv'
<1> USE DEF IInv
<1>1. TypeOK'
  BY TypeStep DEF Next
<1>2. CallsOwnNumbers' /\ KeyedHasRevision' /\ WrittenHasAudio'
  BY DEF Crash, CallsOwnNumbers, KeyedHasRevision, WrittenHasAudio, Busy, TypeOK
<1>3. RowsOwnNumbers'
  BY DEF Crash, RowsOwnNumbers, Busy, TypeOK
<1>4. Serialised'
  BY CallersAssumption DEF Crash, Serialised, TypeOK, Locked
<1>5. LinearHistory' /\ KeysUnique' /\ AudioBeforeRow'
  BY DEF Crash, LinearHistory, KeysUnique, AudioBeforeRow
<1> QED BY <1>1, <1>2, <1>3, <1>4, <1>5

LEMMA StepIInv == IInv /\ [Next]_vars => IInv'
<1> SUFFICES ASSUME IInv, [Next]_vars PROVE IInv'
  OBVIOUS
<1>1. ASSUME NEW c \in Caller, NEW force \in BOOLEAN, NEW input \in Input,
            Resolve(c, force, input) PROVE IInv'
  BY <1>1, ResolveStep
<1>2. ASSUME NEW c \in Caller, Prepare(c) PROVE IInv'
  BY <1>2, PrepareStep
<1>3. ASSUME NEW c \in Caller, EnterHit(c) PROVE IInv'
  BY <1>3, TypeStep, ReturnStep DEF EnterHit
<1>4. ASSUME NEW c \in Caller, EnterMiss(c) PROVE IInv'
  BY <1>4, EnterMissStep
<1>5. ASSUME NEW c \in Caller, Synthesize(c) PROVE IInv'
  BY <1>5, SynthesizeStep
<1>6. ASSUME NEW c \in Caller, SynthesisFails(c) PROVE IInv'
  BY <1>6, TypeStep, ReturnStep DEF SynthesisFails, Locked
<1>7. ASSUME NEW c \in Caller, CommitHit(c) PROVE IInv'
  BY <1>7, TypeStep, ReturnStep DEF CommitHit, Locked
<1>8. ASSUME NEW c \in Caller, CommitInsert(c) PROVE IInv'
  BY <1>8, CommitInsertStep
<1>9. ASSUME NEW c \in Caller, QaSegment(c) PROVE IInv'
  BY <1>9, TypeStep, ReturnStep DEF QaSegment
<1>10. ASSUME NEW p \in Process, Crash(p) PROVE IInv'
  BY <1>10, CrashStep
<1>11. ASSUME UNCHANGED <<renders, files, lock, pc, call, issued>> PROVE IInv'
  <2>1. TypeOK'
    BY TypeStep
  <2> QED BY <1>11, <2>1 DEF IInv, CallsOwnNumbers, KeyedHasRevision, RowsOwnNumbers,
      WrittenHasAudio, Serialised, LinearHistory, KeysUnique, AudioBeforeRow, Busy
<1> QED
  BY <1>1, <1>2, <1>3, <1>4, <1>5, <1>6, <1>7, <1>8, <1>9, <1>10, <1>11
  DEF Next, Step, UpdateSegment, vars

LEMMA InductiveInvariant == Spec => []IInv
BY InitIInv, StepIInv, PTL DEF Spec
-----------------------------------------------------------------------------
(***************************************************************************)
(* Every variable keeps its type, whatever the callers, processes and      *)
(* crashes do.                                                             *)
(***************************************************************************)
THEOREM TypeCorrect == Spec => []TypeOK
<1>1. IInv => TypeOK
  BY DEF IInv
<1> QED BY <1>1, InductiveInvariant, PTL

(***************************************************************************)
(* The render chain of a segment never forks (rendering.py 18-21), for any *)
(* number of threads and API processes.                                    *)
(***************************************************************************)
THEOREM NoFork == Spec => []LinearHistory
<1>1. IInv => LinearHistory
  BY DEF IInv
<1> QED BY <1>1, InductiveInvariant, PTL

(***************************************************************************)
(* The cache recheck inside the write transaction alone keeps succeeded    *)
(* keys unique: no insert can fail on the unique index.                    *)
(***************************************************************************)
THEOREM IndexNeverTrips == Spec => []KeysUnique
<1>1. IInv => KeysUnique
  BY DEF IInv
<1> QED BY <1>1, InductiveInvariant, PTL

(***************************************************************************)
(* No reader of the history finds a row whose audio was not written.       *)
(***************************************************************************)
THEOREM RowsHaveAudio == Spec => []AudioBeforeRow
<1>1. IInv => AudioBeforeRow
  BY DEF IInv
<1> QED BY <1>1, InductiveInvariant, PTL

(***************************************************************************)
(* In each process at most one caller is between the cache check and the   *)
(* commit.                                                                 *)
(***************************************************************************)
THEOREM RendersSerialised == Spec => []Serialised
<1>1. IInv => Serialised
  BY DEF IInv
<1> QED BY <1>1, InductiveInvariant, PTL

(***************************************************************************)
(* The renderer implements the append-only history: each step either       *)
(* leaves the rows alone or appends one with a fresh id, a fresh key and   *)
(* the newest row as parent.                                               *)
(***************************************************************************)
THEOREM RendererImplementsHistory == Spec => RefinesHistory
<1>1. Init => History!Init
  BY DEF Init, History!Init
<1>2. IInv /\ [Next]_vars => [History!Next]_renders
  <2> SUFFICES ASSUME IInv, [Next]_vars PROVE History!Next \/ renders' = renders
    BY DEF IInv
  <2>1. ASSUME NEW c \in Caller, CommitInsert(c) PROVE History!Next
    <3>1. call[c].n \in RenderId /\ RenderKey(call[c]) \in Key
      <4>1. call[c] \in Call
        BY <2>1, BusyCall DEF CommitInsert, IInv
      <4> QED BY <2>1, <4>1, KeyOfCall DEF CommitInsert, IInv, Call, RenderId
    <3>2. History!Append1(call[c].n, RenderKey(call[c]))
      BY <2>1, InsertExtends DEF History!Append1, History!Last
    <3> QED BY <3>1, <3>2 DEF History!Next
  <2>2. CASE UNCHANGED vars
    BY <2>2 DEF vars
  <2>3. ASSUME Next, \A c \in Caller : ~CommitInsert(c) PROVE renders' = renders
    BY <2>3 DEF Next, Step, Resolve, Prepare, EnterHit, EnterMiss, Synthesize,
       SynthesisFails, CommitHit, QaSegment, UpdateSegment, Crash
  <2> QED BY <2>1, <2>2, <2>3
<1> QED
  BY <1>1, <1>2, InductiveInvariant, PTL DEF Spec, RefinesHistory, History!Spec
-----------------------------------------------------------------------------
(*                                 CastBook                                *)

-----------------------------------------------------------------------------
(* What Clean makes of a list *)

LEMMA LeastExists ==
  ASSUME NEW S \in SUBSET Nat, S # {}
  PROVE  \E m \in S : \A k \in S : m <= k
<1>1. PICK m \in S : \A k \in S : <<k, m>> \notin OpToRel(<, Nat)
  BY NatLessThanWellFounded, WFMin
<1>2. \A k \in S : m <= k
  <2> SUFFICES ASSUME NEW k \in S PROVE ~(k < m)
    OBVIOUS
  <2>1. <<k, m>> \notin {ss \in Nat \X Nat : ss[1] < ss[2]}
    BY <1>1, Zenon DEF OpToRel
  <2> QED
    BY <2>1
<1> QED
  BY <1>2

\* The largest of the first numbers.
LEMMA MaxOfFirst ==
  ASSUME NEW n \in Nat, NEW s \in SUBSET (1..n), n \in s
  PROVE  Max(s) = n /\ s \ {Max(s)} \in SUBSET (1..(n - 1))
<1>1. \A y \in s : n >= y
  OBVIOUS
<1>2. \A x \in s : (\A y \in s : x >= y) => x = n
  OBVIOUS
<1>3. Max(s) = n
  BY <1>1, <1>2 DEF Max
<1> QED
  BY <1>3

\* What a fold's table says of the sets of places up to n, and that it is one.
Table(it, F, base, seq, n) ==
  it = [s \in SUBSET (1..n) |-> IF s = {} THEN base ELSE F[it[s \ {Max(s)}]][seq[Max(s)]]]
HasTable(A, F, base, seq, n) == \E it \in [SUBSET (1..n) -> A] : Table(it, F, base, seq, n)

LEMMA TableGrows ==
  ASSUME NEW A, NEW S, NEW seq \in Seq(S), NEW base, NEW F \in [A -> [S -> A]],
         NEW m \in 1..Len(seq), HasTable(A, F, base, seq, m - 1)
  PROVE  HasTable(A, F, base, seq, m)
<1>2. PICK old \in [SUBSET (1..(m - 1)) -> A] : Table(old, F, base, seq, m - 1)
  BY DEF HasTable
<1>3. PICK it : it = [s \in SUBSET (1..m) |-> IF m \in s THEN F[old[s \ {m}]][seq[m]] ELSE old[s]]
  OBVIOUS
<1>4. seq[m] \in S
  OBVIOUS
<1>5. \A s \in SUBSET (1..m) : /\ m \in s => s \ {m} \in SUBSET (1..(m - 1))
                               /\ m \notin s => s \in SUBSET (1..(m - 1))
  OBVIOUS
<1>6. it \in [SUBSET (1..m) -> A]
  BY <1>2, <1>3, <1>4, <1>5
<1>7. ASSUME NEW s \in SUBSET (1..m)
      PROVE  it[s] = IF s = {} THEN base ELSE F[it[s \ {Max(s)}]][seq[Max(s)]]
  <2>1. CASE m \in s
    <3>1. Max(s) = m /\ s \ {m} \in SUBSET (1..(m - 1)) /\ m \notin s \ {m} /\ s \ {m} \in SUBSET (1..m)
      BY <2>1, <1>5, MaxOfFirst
    <3>2. it[s \ {m}] = old[s \ {m}]
      BY <3>1, <1>3
    <3> QED
      BY <3>1, <3>2, <1>3, <2>1
  <2>2. CASE m \notin s
    <3>1. s \in SUBSET (1..(m - 1))
      BY <1>5, <2>2
    <3>2. old[s] = IF s = {} THEN base ELSE F[old[s \ {Max(s)}]][seq[Max(s)]]
      BY <1>2, <3>1 DEF Table
    <3>3. s \ {Max(s)} \in SUBSET (1..m) /\ m \notin s \ {Max(s)}
      BY <2>2
    <3> QED
      BY <3>2, <3>3, <1>3, <2>2
  <2> QED
    BY <2>1, <2>2
<1>8. Table(it, F, base, seq, m)
  <2> PICK h : h = [s \in SUBSET (1..m) |-> IF s = {} THEN base ELSE F[it[s \ {Max(s)}]][seq[Max(s)]]]
    OBVIOUS
  <2>1. it = h
    BY <1>6, <1>7
  <2> QED
    BY <2>1 DEF Table
<1> QED
  BY <1>6, <1>8 DEF HasTable

LEMMA TableExists ==
  ASSUME NEW A, NEW S, NEW seq \in Seq(S), NEW base \in A, NEW F \in [A -> [S -> A]]
  PROVE  HasTable(A, F, base, seq, Len(seq))
<1> SUFFICES ASSUME ~HasTable(A, F, base, seq, Len(seq)) PROVE FALSE
  OBVIOUS
<1> PICK bad \in SUBSET Nat : \A n \in Nat : n \in bad <=> n <= Len(seq) /\ ~HasTable(A, F, base, seq, n)
  <2> WITNESS {n \in Nat : n <= Len(seq) /\ ~HasTable(A, F, base, seq, n)} \in SUBSET Nat
  <2> QED
    OBVIOUS
<1>0. bad # {}
  OBVIOUS
<1>1. PICK m \in bad : \A k \in bad : m <= k
  BY <1>0, LeastExists
<1>2. CASE m = 0
  <2>1. PICK it : it = [s \in SUBSET (1..0) |-> base]
    OBVIOUS
  <2>2. \A s \in SUBSET (1..0) : s = {}
    OBVIOUS
  <2>3. it = [s \in SUBSET (1..0) |-> IF s = {} THEN base ELSE F[it[s \ {Max(s)}]][seq[Max(s)]]]
    BY <2>1, <2>2
  <2>4. it \in [SUBSET (1..0) -> A]
    BY <2>1
  <2> QED
    BY <1>1, <1>2, <2>3, <2>4 DEF Table, HasTable
<1>3. CASE m > 0
  <2>1. m \in 1..Len(seq) /\ HasTable(A, F, base, seq, m - 1)
    BY <1>1, <1>3
  <2> QED
    BY <1>1, <2>1, TableGrows
<1> QED
  BY <1>1, <1>2, <1>3

\* The table of the fold that Clean is.
CleanTable(it, s) ==
  it = [x \in SUBSET DOMAIN s |->
          IF x = {} THEN <<>>
          ELSE IF s[Max(x)] = <<>> \/ Contains(it[x \ {Max(x)}], s[Max(x)]) THEN it[x \ {Max(x)}]
               ELSE Append(it[x \ {Max(x)}], s[Max(x)])]

LEMMA CleanIsTable == 
  ASSUME NEW s
  PROVE Clean(s) = (CHOOSE it : CleanTable(it, s))[DOMAIN s]
BY DEF Clean, FoldLeft, MapThenFoldSet, CleanTable

\* A set of places has a largest one.
LEMMA MaxOfPlaces ==
  ASSUME NEW n \in Nat, NEW x \in SUBSET (1..n), x # {}
  PROVE  Max(x) \in x
<1> PICK above \in SUBSET Nat : \A k \in Nat : k \in above <=> \A y \in x : y <= k
  <2> WITNESS {k \in Nat : \A y \in x : y <= k} \in SUBSET Nat
  <2> QED
    OBVIOUS
<1>1. n \in above
  OBVIOUS
<1>2. PICK m \in above : \A k \in above : m <= k
  BY <1>1, LeastExists
<1>3. m \in x
  <2> SUFFICES ASSUME m \notin x PROVE FALSE
    OBVIOUS
  <2>0. PICK z : z \in x
    OBVIOUS
  <2>1. \A y \in x : y \in Nat /\ y >= 1
    OBVIOUS
  <2>2. m \in Nat /\ \A y \in x : y <= m
    BY <1>2
  <2>3. \A y \in x : y <= m - 1
    BY <2>1, <2>2
  <2>4. m - 1 \in Nat
    BY <2>0, <2>1, <2>2
  <2> QED
    BY <1>2, <2>3, <2>4
<1>4. \E b \in x : \A y \in x : b >= y
  BY <1>2, <1>3
<1> QED
  BY <1>4 DEF Max

LEMMA CleanTableExists ==
  ASSUME NEW S, NEW s \in Seq(S)
  PROVE  \E it : CleanTable(it, s)
<1>1. PICK F : F = [out \in Seq(S) |-> [n \in S |-> IF n = <<>> \/ Contains(out, n) THEN out ELSE Append(out, n)]]
  OBVIOUS
<1>2. F \in [Seq(S) -> [S -> Seq(S)]]
  BY <1>1
<1>3. <<>> \in Seq(S)
  OBVIOUS
<1>4. PICK it \in [SUBSET (1..Len(s)) -> Seq(S)] : Table(it, F, <<>>, s, Len(s))
  BY <1>2, <1>3, TableExists DEF HasTable
<1>5. DOMAIN s = 1..Len(s)
  OBVIOUS
<1>6. ASSUME NEW x \in SUBSET DOMAIN s, x # {}
      PROVE  Max(x) \in x /\ x \ {Max(x)} \in SUBSET DOMAIN s
  <2>1. x \in SUBSET (1..Len(s)) /\ Len(s) \in Nat
    BY <1>5
  <2>2. Max(x) \in x
    BY <2>1, <1>6, MaxOfPlaces
  <2> QED
    BY <2>1, <2>2, <1>5
<1>7. PICK h : h = [x \in SUBSET DOMAIN s |->
          IF x = {} THEN <<>>
          ELSE IF s[Max(x)] = <<>> \/ Contains(it[x \ {Max(x)}], s[Max(x)]) THEN it[x \ {Max(x)}]
               ELSE Append(it[x \ {Max(x)}], s[Max(x)])]
  OBVIOUS
<1>8. ASSUME NEW x \in SUBSET DOMAIN s PROVE it[x] = h[x]
  <2>1. CASE x = {}
    BY <1>4, <1>5, <1>7, <2>1 DEF Table
  <2>2. CASE x # {}
    <3>1. it[x] = F[it[x \ {Max(x)}]][s[Max(x)]]
      BY <1>4, <1>5, <2>2 DEF Table
    <3>2. it[x \ {Max(x)}] \in Seq(S) /\ s[Max(x)] \in S
      BY <1>4, <1>5, <1>6, <2>2
    <3> QED
      BY <3>1, <3>2, <1>1, <1>7, <2>2
  <2> QED
    BY <2>1, <2>2
<1>9. it = h
  BY <1>4, <1>5, <1>7, <1>8
<1> QED
  BY <1>7, <1>9 DEF CleanTable
\* One more element is taken up, or left out, each time.
LEMMA CleanSteps ==
  ASSUME NEW S, NEW s \in Seq(S), NEW it, CleanTable(it, s), NEW k \in 1..Len(s)
  PROVE  it[1..k] = IF s[k] = <<>> \/ Contains(it[1..(k - 1)], s[k]) THEN it[1..(k - 1)]
                    ELSE Append(it[1..(k - 1)], s[k])
<1>1. DOMAIN s = 1..Len(s)
  OBVIOUS
<1>2. k \in Nat /\ 1..k \in SUBSET (1..Len(s)) /\ k \in 1..k
  OBVIOUS
<1>3. Max(1..k) = k
  <2>1. 1..k \in SUBSET (1..k)
    BY Zenon
  <2> QED
    BY <1>2, <2>1, MaxOfFirst
<1>4. (1..k) \ {k} = 1..(k - 1) /\ 1..k # {} /\ 1..k \in SUBSET (1..k)
  BY <1>2
<1>5. it[1..k] = IF s[Max(1..k)] = <<>> \/ Contains(it[(1..k) \ {Max(1..k)}], s[Max(1..k)])
                 THEN it[(1..k) \ {Max(1..k)}]
                 ELSE Append(it[(1..k) \ {Max(1..k)}], s[Max(1..k)])
  BY <1>1, <1>2, <1>4 DEF CleanTable
<1> QED
  BY <1>3, <1>4, <1>5

LEMMA AppendElements ==
  ASSUME NEW S, NEW a \in Seq(S), NEW x \in S
  PROVE  ToSet(Append(a, x)) = ToSet(a) \cup {x}
<1>1. DOMAIN Append(a, x) = DOMAIN a \cup {Len(a) + 1} /\ Append(a, x)[Len(a) + 1] = x
  OBVIOUS
<1>2. \A i \in DOMAIN a : Append(a, x)[i] = a[i]
  OBVIOUS
<1> QED
  BY <1>1, <1>2 DEF ToSet

\* out is what Clean has made of the first k elements.
CleanTo(S, s, out, k) ==
  out \in Seq(S) /\ \A x : x \in ToSet(out) <=> x # <<>> /\ \E i \in 1..k : x = s[i]

LEMMA CleanHolds ==
  ASSUME NEW S, NEW s \in Seq(S)
  PROVE  Clean(s) \in Seq(S) /\ ToSet(Clean(s)) = ToSet(s) \ {<<>>}
<1>1. PICK it : CleanTable(it, s) /\ Clean(s) = it[DOMAIN s]
  BY CleanTableExists, CleanIsTable
<1>2. DOMAIN s = 1..Len(s) /\ Len(s) \in Nat
  OBVIOUS
<1>3. \A k \in 0..Len(s) :
        CleanTo(S, s, it[1..k], k)
  <2> SUFFICES ASSUME NEW wrong \in 0..Len(s),
                      ~CleanTo(S, s, it[1..wrong], wrong)
               PROVE  FALSE
    OBVIOUS
  <2> PICK bad \in SUBSET Nat :
        \A k \in Nat : k \in bad <=>
          /\ k \in 0..Len(s)
          /\ ~CleanTo(S, s, it[1..k], k)
    <3> WITNESS {k \in Nat : /\ k \in 0..Len(s)
                             /\ ~CleanTo(S, s, it[1..k], k)}
                  \in SUBSET Nat
    <3> QED
      OBVIOUS
  <2>1. wrong \in bad
    OBVIOUS
  <2>2. PICK m \in bad : \A k \in bad : m <= k
    BY <2>1, LeastExists
  <2>3. CASE m = 0
    <3>1. 1..0 = {} /\ it[{}] = <<>>
      BY <1>1 DEF CleanTable
    <3>2. ToSet(<<>>) = {} /\ <<>> \in Seq(S)
      BY DEF ToSet
    <3> QED
      BY <3>1, <3>2, <2>2, <2>3 DEF CleanTo
  <2>4. CASE m > 0
    <3>1. m \in 1..Len(s) /\ m - 1 \in 0..Len(s) /\ m - 1 \notin bad
      BY <2>2, <2>4
    <3>2. PICK old : old = it[1..(m - 1)]
      OBVIOUS
    <3>3. CleanTo(S, s, old, m - 1)
      BY <3>1, <3>2
    <3>4. it[1..m] = IF s[m] = <<>> \/ Contains(old, s[m]) THEN old ELSE Append(old, s[m])
      BY <3>1, <3>2, <1>1, CleanSteps
    <3>5. s[m] \in S /\ \A i : i \in 1..m <=> i \in 1..(m - 1) \/ i = m
      BY <3>1
    <3>6. Contains(old, s[m]) <=> s[m] \in ToSet(old)
      BY <3>3 DEF Contains, ToSet, CleanTo
    <3>7. CASE s[m] = <<>> \/ Contains(old, s[m])
      <4>1. it[1..m] = old
        BY <3>4, <3>7
      <4> QED
        <5>1. CleanTo(S, s, old, m)
          BY <3>3, <3>5, <3>6, <3>7 DEF CleanTo
        <5> QED
          BY <4>1, <5>1, <2>2
    <3>8. CASE ~(s[m] = <<>> \/ Contains(old, s[m]))
      <4>1. it[1..m] = Append(old, s[m]) /\ Append(old, s[m]) \in Seq(S)
        BY <3>3, <3>4, <3>5, <3>8 DEF CleanTo
      <4>2. ToSet(Append(old, s[m])) = ToSet(old) \cup {s[m]}
        BY <3>3, <3>5, AppendElements DEF CleanTo
      <4> QED
        <5>1. CleanTo(S, s, Append(old, s[m]), m)
          BY <4>1, <4>2, <3>3, <3>5, <3>8 DEF CleanTo
        <5> QED
          BY <4>1, <5>1, <2>2
    <3> QED
      BY <3>7, <3>8
  <2> QED
    BY <2>2, <2>3, <2>4
<1>4. \A x : x \in ToSet(s) <=> \E i \in 1..Len(s) : x = s[i]
  BY <1>2 DEF ToSet
<1>5. Len(s) \in 0..Len(s)
  BY <1>2
<1> QED
  <2>1. Clean(s) = it[1..Len(s)] /\ CleanTo(S, s, it[1..Len(s)], Len(s))
    BY <1>1, <1>2, <1>3, <1>5
  <2>2. Clean(s) \in Seq(S) /\ \A x : x \in ToSet(Clean(s)) <=> x # <<>> /\ x \in ToSet(s)
    BY <2>1, <1>4 DEF CleanTo
  <2> QED
    BY <2>2

-----------------------------------------------------------------------------
(* Every character has a place at the desk, and a voice there is *)

IsList(s) == s \in Seq(ToSet(s))

LEMMA ListFacts ==
  ASSUME NEW s, IsList(s)
  PROVE  /\ DOMAIN s = 1..Len(s) /\ Len(s) \in Nat
         /\ \A x : IsList(Append(s, x)) /\ Len(Append(s, x)) = Len(s) + 1
         /\ \A x : DOMAIN Append(s, x) = DOMAIN s \cup {Len(s) + 1}
         /\ \A x : Append(s, x)[Len(s) + 1] = x
         /\ \A x : \A i \in DOMAIN s : Append(s, x)[i] = s[i]
<1>1. DOMAIN s = 1..Len(s) /\ Len(s) \in Nat
  BY DEF IsList
<1>2. ASSUME NEW x
      PROVE  /\ IsList(Append(s, x)) /\ Len(Append(s, x)) = Len(s) + 1
             /\ DOMAIN Append(s, x) = DOMAIN s \cup {Len(s) + 1}
             /\ Append(s, x)[Len(s) + 1] = x
             /\ \A i \in DOMAIN s : Append(s, x)[i] = s[i]
  <2> PICK S : S = ToSet(s) \cup {x}
    OBVIOUS
  <2>1. s \in Seq(S) /\ x \in S
    BY DEF IsList
  <2>2. ToSet(Append(s, x)) = S
    BY <2>1, AppendElements
  <2>3. Append(s, x) \in Seq(S)
    BY <2>1
  <2> QED
    BY <2>1, <2>2, <2>3 DEF IsList
<1> QED
  BY <1>1, <1>2

\* A list with one place changed, or every place.
LEMMA ListOf ==
  ASSUME NEW n \in Nat, NEW f, f = [i \in 1..n |-> f[i]]
  PROVE  IsList(f) /\ Len(f) = n
<1>1. \A i \in 1..n : f[i] \in ToSet(f)
  BY DEF ToSet
<1>2. f \in Seq(ToSet(f))
  BY <1>1
<1> QED
  BY <1>2 DEF IsList

\* Every caller has its own discovery.
Runs == run = [r \in Runner |-> run[r]] /\ \A r \in Runner : DOMAIN run[r] = DOMAIN NoRun
\* One place at the desk for each character.
Rows ==
  /\ IsList(cast) /\ IsList(desk) /\ Len(desk) = Len(cast)
  /\ \A c \in Ids : DOMAIN desk[c] = DOMAIN NoRow
  /\ Runs
  /\ DOMAIN narrator = {"voice", "hand"}
Seats == Rows /\ VoicesInUseExist

\* A step of one caller leaves the discoveries of the others as they are.
LEMMA OneRunner ==
  ASSUME Runs, NEW r \in Runner, NEW me, DOMAIN me = DOMAIN NoRun, run' = [run EXCEPT ![r] = me]
  PROVE  Runs' /\ run'[r] = me /\ \A q \in Runner \ {r} : run'[q] = run[q]
BY DEF Runs

\* What a candidate leaves behind, and what is left to do.
LEMMA SettledRun ==
  ASSUME Runs, NEW r \in Runner, NEW how, NEW row, Settled(r, how, row)
  PROVE  /\ Runs' /\ \A q \in Runner \ {r} : run'[q] = run[q]
         /\ run'[r].todo = Tail(run[r].todo)
         /\ run'[r].at = IF Tail(run[r].todo) = <<>> THEN "done" ELSE "decide"
         /\ run'[r].past = run[r].past \cup {[name |-> run[r].todo[1].name, how |-> how, target |-> run[r].decision.target]}
<1>1. PICK old, known, over, rest :
        /\ old = run[r] /\ rest = Tail(run[r].todo)
        /\ over = [name |-> run[r].todo[1].name, how |-> how, target |-> run[r].decision.target]
        /\ run' = [run EXCEPT ![r] = [old EXCEPT !.at = IF rest = <<>> THEN "done" ELSE "decide", !.todo = rest,
                                                 !.index = known, !.row = 0, !.past = @ \cup {over}]]
  BY Zenon DEF Settled
<1>2. PICK me : me = [old EXCEPT !.at = IF rest = <<>> THEN "done" ELSE "decide", !.todo = rest,
                                 !.index = known, !.row = 0, !.past = @ \cup {over}]
  OBVIOUS
<1>3. DOMAIN old = DOMAIN NoRun /\ run' = [run EXCEPT ![r] = me]
  BY <1>1, <1>2 DEF Runs
<1>4. /\ DOMAIN me = DOMAIN NoRun /\ me.todo = rest /\ me.past = old.past \cup {over}
      /\ me.at = IF rest = <<>> THEN "done" ELSE "decide"
  BY <1>2, <1>3 DEF NoRun
<1> QED
  BY <1>1, <1>3, <1>4, OneRunner

\* The steps that come before: what they make of the caller's discovery.
LEMMA FoundRun ==
  ASSUME Runs, NEW r \in Runner, NEW kind, Discover(r, kind)
  PROVE  /\ Runs' /\ \A q \in Runner \ {r} : run'[q] = run[q]
         /\ run'[r].todo \in Found(kind) /\ run'[r].past = {}
         /\ run'[r].at = IF run'[r].todo = <<>> THEN "done" ELSE "index"
<1>1. PICK todo \in Found(kind) :
        run' = [run EXCEPT ![r] = [NoRun EXCEPT !.at = IF todo = <<>> THEN "done" ELSE "index",
                                                !.kind = kind, !.todo = todo]]
  BY DEF Discover
<1>2. PICK me : me = [NoRun EXCEPT !.at = IF todo = <<>> THEN "done" ELSE "index", !.kind = kind, !.todo = todo]
  OBVIOUS
<1>3. DOMAIN me = DOMAIN NoRun /\ me.todo = todo /\ me.past = {} /\ me.at = IF todo = <<>> THEN "done" ELSE "index"
  BY <1>2 DEF NoRun
<1>4. run' = [run EXCEPT ![r] = me]
  BY <1>1, <1>2
<1>5. Runs' /\ run'[r] = me /\ \A q \in Runner \ {r} : run'[q] = run[q]
  BY <1>3, <1>4, OneRunner
<1> QED
  BY <1>3, <1>5

LEMMA ReadRun ==
  ASSUME Runs, NEW r \in Runner, ReadIndex(r)
  PROVE  /\ Runs' /\ \A q \in Runner \ {r} : run'[q] = run[q]
         /\ run'[r].todo = run[r].todo /\ run'[r].past = run[r].past /\ run[r].at = "index" /\ run'[r].at = "decide"
<1>1. PICK old, index : old = run[r] /\ run' = [run EXCEPT ![r] = [old EXCEPT !.at = "decide", !.index = index]]
  BY DEF ReadIndex
<1>2. PICK me : me = [old EXCEPT !.at = "decide", !.index = index]
  OBVIOUS
<1>3. DOMAIN old = DOMAIN NoRun
  BY <1>1 DEF Runs
<1>4. DOMAIN me = DOMAIN NoRun /\ me.todo = old.todo /\ me.past = old.past /\ me.at = "decide"
  BY <1>2, <1>3 DEF NoRun
<1> QED
  BY <1>1, <1>2, <1>4, OneRunner DEF ReadIndex

LEMMA DecideRun ==
  ASSUME Runs, NEW r \in Runner, Decide(r)
  PROVE  /\ Runs' /\ \A q \in Runner \ {r} : run'[q] = run[q]
         /\ run[r].at = "decide" /\ run'[r].at = "apply" /\ run'[r].past = run[r].past
         /\ \E cand : /\ run'[r].todo = [run[r].todo EXCEPT ![1] = cand]
                      /\ cand = run[r].todo[1] \/ \E p : cand = ProfileCandidate(run[r].todo[1], p)
<1>1. PICK old, d, cand :
        /\ old = run[r] /\ run' = [run EXCEPT ![r] = [old EXCEPT !.at = "apply", !.decision = d, !.todo[1] = cand]]
        /\ cand = run[r].todo[1] \/ \E p : cand = ProfileCandidate(run[r].todo[1], p)
  <2>1. PICK old : old = run[r]
    OBVIOUS
  <2>0. PICK d, p :
          run' = [run EXCEPT ![r] = [run[r] EXCEPT !.at = "apply", !.decision = d,
                              !.todo[1] = IF run[r].kind = "v2" /\ d.action \in {"merge", "new"}
                                          THEN ProfileCandidate(run[r].todo[1], p) ELSE run[r].todo[1]]]
    BY Zenon DEF Decide
  <2>2. PICK cand : cand = IF old.kind = "v2" /\ d.action \in {"merge", "new"}
                           THEN ProfileCandidate(old.todo[1], p) ELSE old.todo[1]
    OBVIOUS
  <2>3. run' = [run EXCEPT ![r] = [old EXCEPT !.at = "apply", !.decision = d, !.todo[1] = cand]]
    BY <2>0, <2>1, <2>2
  <2>4. cand = run[r].todo[1] \/ \E q : cand = ProfileCandidate(run[r].todo[1], q)
    BY <2>1, <2>2
  <2> QED
    BY <2>1, <2>3, <2>4
<1>2. PICK me : me = [old EXCEPT !.at = "apply", !.decision = d, !.todo[1] = cand]
  OBVIOUS
<1>3. DOMAIN old = DOMAIN NoRun
  BY <1>1 DEF Runs
<1>4. DOMAIN me = DOMAIN NoRun /\ me.todo = [old.todo EXCEPT ![1] = cand] /\ me.past = old.past /\ me.at = "apply"
  BY <1>2, <1>3 DEF NoRun
<1>5. Runs' /\ run'[r] = me /\ \A q \in Runner \ {r} : run'[q] = run[q]
  BY <1>1, <1>2, <1>4, OneRunner
<1> QED
  BY <1>1, <1>4, <1>5 DEF Decide

LEMMA MergeRun ==
  ASSUME Runs, NEW r \in Runner, ApplyMerge(r)
  PROVE  /\ Runs' /\ \A q \in Runner \ {r} : run'[q] = run[q]
         /\ run[r].at = "apply" /\ run'[r].at = "write" /\ run'[r].past = run[r].past /\ run'[r].todo = run[r].todo
         /\ run'[r].row = run[r].decision.target /\ run'[r].row \in Ids
         /\ run'[r].index = {c \in run[r].index : c.id # run'[r].row} \cup {cast[run'[r].row]}
<1>1. PICK old, t, index :
        /\ old = run[r] /\ t = run[r].decision.target /\ t \in Ids
        /\ index = {c \in run[r].index : c.id # t} \cup {cast[t]}
        /\ run' = [run EXCEPT ![r] = [old EXCEPT !.at = "write", !.row = t, !.index = index]]
  <2>1. PICK old : old = run[r]
    OBVIOUS
  <2>2. PICK t : t = old.decision.target
    OBVIOUS
  <2>3. PICK index : index = {c \in old.index : c.id # t} \cup {cast[t]}
    OBVIOUS
  <2>5. run' = [run EXCEPT ![r] = [old EXCEPT !.at = "write", !.row = t, !.index = index]]
    BY <2>1, <2>2, <2>3 DEF ApplyMerge
  <2>6. t \in Ids
    BY <2>1, <2>2 DEF ApplyMerge, MayMerge
  <2> QED
    BY <2>1, <2>2, <2>3, <2>5, <2>6
<1>2. PICK me : me = [old EXCEPT !.at = "write", !.row = t, !.index = index]
  OBVIOUS
<1>3. DOMAIN old = DOMAIN NoRun
  BY <1>1 DEF Runs
<1>4. /\ DOMAIN me = DOMAIN NoRun /\ me.todo = old.todo /\ me.past = old.past /\ me.at = "write"
      /\ me.row = t /\ me.index = index
  BY <1>2, <1>3 DEF NoRun
<1>5. Runs' /\ run'[r] = me /\ \A q \in Runner \ {r} : run'[q] = run[q]
  BY <1>1, <1>2, <1>4, OneRunner
<1> QED
  BY <1>1, <1>4, <1>5 DEF ApplyMerge

LEMMA SeatsInit == CastInit => Seats
<1> SUFFICES ASSUME CastInit PROVE Seats
  OBVIOUS
<1>1. IsList(cast) /\ Ids = 1..Len(cast) /\ Len(cast) \in Nat
  BY CastAssumption, ListFacts DEF CastInit, Ids, IsList
<1>2. PICK v \in {0, Custom} \cup {w.id : w \in Catalogue} :
        /\ desk = [c \in Ids |-> IF c = 1 /\ v # 0 THEN [voice |-> v, locked |-> v = Custom, decided |-> v # Custom]
                                 ELSE NoRow]
        /\ profiles = {Custom, v} \ {0}
  BY DEF CastInit
<1>3. \A c \in Ids : desk[c].voice \in {0, v} /\ DOMAIN desk[c] = DOMAIN NoRow
  BY <1>2 DEF NoRow
<1>4. desk = [c \in 1..Len(cast) |-> desk[c]]
  BY <1>1, <1>2
<1>5. IsList(desk) /\ Len(desk) = Len(cast)
  BY <1>1, <1>4, ListOf
<1>6. VoicesInUseExist
  BY <1>2, <1>3 DEF VoicesInUseExist, CastInit
<1>7. Runs /\ DOMAIN narrator = {"voice", "hand"}
  BY DEF CastInit, Runs
<1> QED
  BY <1>1, <1>3, <1>5, <1>6, <1>7 DEF Seats, Rows

\* A new row has nobody's voice.
LEMMA AddedSeats ==
  ASSUME NEW row, Seats, Added(row), run' = run \/ Runs', UNCHANGED <<narrator, profiles>>
  PROVE  Seats'
<1>1. PICK new : cast' = Append(cast, new)
  BY DEF Added
<1>2. IsList(cast) /\ IsList(desk) /\ Len(desk) = Len(cast) /\ desk' = Append(desk, NoRow)
  BY DEF Seats, Rows, Added
<1>3. IsList(cast') /\ IsList(desk') /\ Len(desk') = Len(cast') /\ Ids = 1..Len(cast)
  BY <1>1, <1>2, ListFacts DEF Ids
<1>4. Ids' = Ids \cup {Len(cast) + 1} /\ desk'[Len(cast) + 1] = NoRow /\ \A c \in Ids : desk'[c] = desk[c]
  BY <1>1, <1>2, ListFacts DEF Ids
<1>5. \A c \in Ids' : DOMAIN desk'[c] = DOMAIN NoRow
  BY <1>4 DEF Seats, Rows
<1>6. VoicesInUseExist'
  BY <1>4 DEF Seats, VoicesInUseExist, NoRow
<1>7. Runs'
  BY DEF Seats, Rows, Runs
<1> QED
  BY <1>3, <1>5, <1>6, <1>7 DEF Seats, Rows

\* The rows may be filled anew, with voices there are.
LEMMA FilledSeats ==
  ASSUME Seats, IsList(cast'), Len(cast') = Len(cast), DOMAIN desk' = DOMAIN desk, desk' = [c \in DOMAIN desk |-> desk'[c]],
         \A c \in Ids : DOMAIN desk'[c] = DOMAIN NoRow /\ desk'[c].voice \in profiles' \cup {0},
         run' = run, DOMAIN narrator' = DOMAIN narrator, narrator'.voice \in profiles' \cup {0}
  PROVE  Seats'
<1>1. DOMAIN desk = 1..Len(cast) /\ Ids = 1..Len(cast) /\ Ids' = 1..Len(cast) /\ Len(cast) \in Nat
  BY ListFacts DEF Seats, Rows, Ids
<1>2. IsList(desk') /\ Len(desk') = Len(cast)
  BY <1>1, ListOf
<1>3. Runs'
  BY DEF Seats, Rows, Runs
<1> QED
  BY <1>1, <1>2, <1>3 DEF Seats, Rows, VoicesInUseExist

LEMMA DiscoverSeats ==
  ASSUME Seats, DiscoverNext
  PROVE  Seats'
<1>0. IsList(cast) /\ Ids = 1..Len(cast) /\ Len(cast) \in Nat /\ DOMAIN desk = Ids /\ desk = [c \in DOMAIN desk |-> desk[c]]
  <2>1. IsList(cast) /\ IsList(desk) /\ Len(desk) = Len(cast)
    BY DEF Seats, Rows
  <2> QED
    BY <2>1, ListFacts DEF Ids, IsList
<1> SUFFICES ASSUME NEW r \in Runner,
                    \/ \E kind \in Kinds : Discover(r, kind)
                    \/ ReadIndex(r) \/ Decide(r) \/ ApplyMerge(r) \/ WriteObservations(r) \/ ApplyNew(r) \/ ApplyIssue(r)
             PROVE  Seats'
  BY DEF DiscoverNext
<1>a. Runs
  BY DEF Seats, Rows
<1>1. CASE (\E kind \in Kinds : Discover(r, kind)) \/ ReadIndex(r) \/ Decide(r) \/ ApplyMerge(r)
  <2>1. Runs'
    BY <1>a, <1>1, FoundRun, ReadRun, DecideRun, MergeRun
  <2>2. UNCHANGED <<people, booth>>
    BY <1>1, Zenon DEF Discover, ReadIndex, Decide, ApplyMerge
  <2> QED
    BY <2>1, <2>2 DEF Seats, Rows, VoicesInUseExist, people, booth, Ids
<1>3. CASE WriteObservations(r)
  <2>1. Runs' /\ UNCHANGED booth
    <3>1. \E how, row : Settled(r, how, row)
      BY <1>3, Zenon DEF WriteObservations
    <3> QED
      BY <1>a, <1>3, <3>1, SettledRun DEF WriteObservations
  <2>0. PICK t, row : cast' = cast \/ cast' = [cast EXCEPT ![t] = row]
    BY <1>3, Zenon DEF WriteObservations
  <2>2. DOMAIN cast' = DOMAIN cast /\ cast' = [c \in DOMAIN cast |-> cast'[c]]
    BY <1>0, <2>0 DEF IsList
  <2>3. IsList(cast') /\ Len(cast') = Len(cast)
    BY <1>0, <2>2, ListOf DEF Ids
  <2> QED
    BY <2>1, <2>2, <2>3 DEF Seats, Rows, VoicesInUseExist, booth, Ids
<1>4. CASE ApplyNew(r)
  <2>1. Runs'
    <3>1. \E how, row : Settled(r, how, row)
      BY <1>4, Zenon DEF ApplyNew
    <3> QED
      BY <1>a, <3>1, SettledRun
  <2> QED
    BY <1>4, <2>1, AddedSeats DEF ApplyNew
<1>5. CASE ApplyIssue(r)
  <2>1. Runs'
    BY <1>a, <1>5, SettledRun DEF ApplyIssue
  <2>2. UNCHANGED <<cast, booth>>
    BY <1>5, Zenon DEF ApplyIssue
  <2> QED
    BY <2>1, <2>2 DEF Seats, Rows, VoicesInUseExist, booth, Ids
<1> QED
  BY <1>1, <1>3, <1>4, <1>5

LEMMA AutoSeats ==
  ASSUME Seats, AutoNext
  PROVE  Seats'
<1>0. IsList(cast) /\ Ids = 1..Len(cast) /\ Len(cast) \in Nat /\ DOMAIN desk = Ids /\ desk = [c \in DOMAIN desk |-> desk[c]]
  <2>1. IsList(cast) /\ IsList(desk) /\ Len(desk) = Len(cast)
    BY DEF Seats, Rows
  <2> QED
    BY <2>1, ListFacts DEF Ids, IsList
<1>1. CASE BeginAuto
  <2>1. UNCHANGED <<people, desk, live, run>>
    BY <1>1 DEF BeginAuto
  <2>2. PICK chosen : \/ UNCHANGED <<narrator, profiles>>
                      \/ narrator' = [narrator EXCEPT !.voice = chosen] /\ profiles' = profiles \cup {chosen}
    BY <1>1 DEF BeginAuto
  <2> QED
    BY <2>1, <2>2 DEF Seats, Rows, Runs, VoicesInUseExist, people, Ids
<1>2. CASE PrepareAuto
  <2>1. UNCHANGED <<people, profiles, narrator, run>> /\ desk' = [c \in Ids |-> Linked(c)]
    BY <1>2 DEF PrepareAuto
  <2>2. ASSUME NEW c \in Ids PROVE DOMAIN desk'[c] = DOMAIN NoRow /\ desk'[c].voice = desk[c].voice
    <3>1. desk'[c] = Linked(c) /\ DOMAIN desk[c] = DOMAIN NoRow
      BY <2>1 DEF Seats, Rows
    <3> QED
      BY <3>1 DEF Linked, NoRow
  <2> QED
    BY <1>0, <2>1, <2>2, FilledSeats DEF Seats, VoicesInUseExist, people
<1>3. CASE PlanAuto \/ SaveDecision
  <2>1. UNCHANGED <<people, desk, narrator, run>> /\ profiles \subseteq profiles'
    BY <1>3 DEF PlanAuto, SaveDecision, booth
  <2> QED
    BY <2>1 DEF Seats, Rows, Runs, VoicesInUseExist, people, Ids
<1>4. CASE AutoAssign
  <2>1. UNCHANGED <<people, profiles, narrator, run>>
    BY <1>4 DEF AutoAssign, people
  <2>2. /\ DOMAIN desk' = DOMAIN desk /\ desk' = [c \in DOMAIN desk |-> desk'[c]]
        /\ \A c \in Ids : \/ desk'[c] = desk[c]
                         \/ \E v \in profiles : desk'[c] = [voice |-> v, locked |-> FALSE, decided |-> TRUE]
    BY <1>0, <1>4 DEF AutoAssign
  <2>3. \A c \in Ids : DOMAIN desk'[c] = DOMAIN NoRow /\ desk'[c].voice \in profiles' \cup {0}
    <3> TAKE c \in Ids
    <3>1. DOMAIN desk[c] = DOMAIN NoRow /\ desk[c].voice \in profiles \cup {0} /\ profiles' = profiles
      BY <2>1 DEF Seats, Rows, VoicesInUseExist
    <3>2. CASE desk'[c] = desk[c]
      BY <3>1, <3>2
    <3>3. CASE \E v \in profiles : desk'[c] = [voice |-> v, locked |-> FALSE, decided |-> TRUE]
      BY <3>1, <3>3 DEF NoRow
    <3> QED
      BY <2>2, <3>2, <3>3
  <2> QED
    BY <1>0, <2>1, <2>2, <2>3, FilledSeats DEF Seats, VoicesInUseExist, people
<1> QED
  BY <1>1, <1>2, <1>3, <1>4 DEF AutoNext

\* Two people become one: the one that stays takes the voice over if it has
\* none of its own.
LEMMA MergedSeats ==
  ASSUME NEW rows, NEW seats, NEW t, NEW s, Merged(rows, seats, t, s),
         IsList(rows), IsList(seats), Len(seats) = Len(rows), t \in DOMAIN rows, s \in DOMAIN rows,
         \A c \in DOMAIN rows : DOMAIN seats[c] = DOMAIN NoRow /\ seats[c].voice \in profiles \cup {0},
         Seats, UNCHANGED <<run, profiles, narrator>>
  PROVE  Seats'
<1>0. DOMAIN rows = 1..Len(rows) /\ DOMAIN seats = 1..Len(rows) /\ Len(rows) \in Nat
      /\ seats = [c \in DOMAIN seats |-> seats[c]] /\ rows = [c \in DOMAIN rows |-> rows[c]]
  BY ListFacts DEF IsList
<1>1. cast' = [c \in 1..Len(rows) |-> cast'[c]]
  BY <1>0 DEF Merged
<1>2. desk' = [seats EXCEPT ![t] = IF @.voice = 0 THEN seats[s] ELSE @, ![s] = NoRow]
  BY DEF Merged
<1>3. /\ desk' = [c \in 1..Len(rows) |-> desk'[c]]
      /\ \A c \in 1..Len(rows) : desk'[c] \in {seats[c], seats[s], NoRow}
  BY <1>0, <1>2
<1>4. IsList(cast') /\ IsList(desk') /\ Len(cast') = Len(rows) /\ Len(desk') = Len(rows) /\ Ids' = 1..Len(rows)
  BY <1>0, <1>1, <1>3, ListOf DEF Ids
<1>5. \A c \in Ids' : DOMAIN desk'[c] = DOMAIN NoRow /\ desk'[c].voice \in profiles' \cup {0}
  BY <1>0, <1>3, <1>4 DEF NoRow
<1> QED
  BY <1>4, <1>5 DEF Seats, Rows, Runs, VoicesInUseExist

\* Whoever is found by name is somebody.
LEMMA ByNameIsSomebody ==
  ASSUME NEW name, ByName(name) # 0, Ids \in SUBSET Nat
  PROVE  ByName(name) \in Ids /\ name \in NamesOf(cast[ByName(name)])
<1> PICK same : same = {c \in Ids : name \in NamesOf(cast[c])}
  OBVIOUS
<1>1. same # {} /\ ByName(name) = CHOOSE c \in same : \A d \in same : c <= d
  BY DEF ByName
<1>2. \E c \in same : \A d \in same : c <= d
  BY <1>1, LeastExists
<1> QED
  BY <1>1, <1>2

LEMMA UserSeats ==
  ASSUME Seats, UserNext
  PROVE  Seats'
<1>0. /\ IsList(cast) /\ Ids = 1..Len(cast) /\ Len(cast) \in Nat /\ DOMAIN desk = Ids
      /\ desk = [c \in DOMAIN desk |-> desk[c]] /\ cast = [c \in 1..Len(cast) |-> cast[c]]
      /\ IsList(desk) /\ Len(desk) = Len(cast)
      /\ \A c \in Ids : DOMAIN desk[c] = DOMAIN NoRow /\ desk[c].voice \in profiles \cup {0}
  <2>1. IsList(cast) /\ IsList(desk) /\ Len(desk) = Len(cast)
    BY DEF Seats, Rows
  <2> QED
    BY <2>1, ListFacts DEF Ids, IsList, Seats, Rows, VoicesInUseExist
<1>1. CASE \E n \in NewNames : CreateCharacter(n)
  BY <1>1, AddedSeats DEF CreateCharacter, Act
<1>2. ASSUME NEW c \in Ids, NEW n, NEW canonical, NEW aliases, NEW hold, UpdateCharacter(c, n, canonical, aliases, hold)
      PROVE  Seats'
  <2>1. (\E row : cast' = [cast EXCEPT ![c] = row]) /\ UNCHANGED <<desk, profiles, narrator, run>>
    BY <1>2, Zenon DEF UpdateCharacter, Act, booth
  <2>2. cast' = [d \in 1..Len(cast) |-> cast'[d]]
    BY <1>0, <2>1
  <2>3. IsList(cast') /\ Len(cast') = Len(cast) /\ Ids' = Ids
    BY <1>0, <2>2, ListOf DEF Ids
  <2> QED
    BY <2>1, <2>3 DEF Seats, Rows, VoicesInUseExist, Runs
<1>3. ASSUME NEW c \in Ids, NEW v,
             \/ GiveVoice(c, v)
             \/ \E hold, reuse \in BOOLEAN : AssignVoice(c, v, hold, reuse)
      PROVE  Seats'
  <2>1. UNCHANGED <<cast, profiles, narrator, run>>
    BY <1>3 DEF GiveVoice, AssignVoice, Act, people
  <2>2. PICK row : desk' = [desk EXCEPT ![c] = row] /\ DOMAIN row = DOMAIN NoRow /\ row.voice \in profiles \cup {0}
    <3>1. CASE GiveVoice(c, v)
      <4>1. PICK row : row = IF v = 0 THEN NoRow ELSE [voice |-> v, locked |-> TRUE, decided |-> FALSE]
        OBVIOUS
      <4>2. DOMAIN row = DOMAIN NoRow /\ row.voice = v
        BY <4>1 DEF NoRow
      <4>3. desk' = [desk EXCEPT ![c] = row] /\ v \in profiles \cup {0}
        BY <3>1, <4>1 DEF GiveVoice
      <4> QED
        BY <4>2, <4>3
    <3>2. CASE \E hold, reuse \in BOOLEAN : AssignVoice(c, v, hold, reuse)
      <4>1. PICK hold, reuse \in BOOLEAN : AssignVoice(c, v, hold, reuse)
        BY <3>2
      <4>2. PICK l, d : desk' = [desk EXCEPT ![c] = [voice |-> v, locked |-> l, decided |-> d]] /\ v \in profiles
        BY <4>1, Zenon DEF AssignVoice
      <4> QED
        <5>1. PICK row : row = [voice |-> v, locked |-> l, decided |-> d]
          OBVIOUS
        <5>2. DOMAIN row = DOMAIN NoRow /\ row.voice = v
          BY <5>1 DEF NoRow
        <5> QED
          BY <4>2, <5>1, <5>2
    <3> QED
      BY <1>3, <3>1, <3>2
  <2>3. DOMAIN desk' = DOMAIN desk /\ desk' = [d \in DOMAIN desk |-> desk'[d]]
        /\ \A d \in Ids : desk'[d] \in {desk[d], row}
    BY <1>0, <2>2
  <2>4. \A d \in Ids : DOMAIN desk'[d] = DOMAIN NoRow /\ desk'[d].voice \in profiles' \cup {0}
    BY <1>0, <2>1, <2>2, <2>3
  <2> QED
    BY <1>0, <2>1, <2>3, <2>4, FilledSeats DEF Seats, VoicesInUseExist
<1>4. ASSUME NEW c \in Ids, NEW t \in Ids, Merge(t, c) PROVE Seats'
  <2>1. Merged(cast, desk, t, c) /\ UNCHANGED <<run, profiles, narrator>>
    BY <1>4 DEF Merge, Act
  <2> QED
    BY <1>0, <2>1, MergedSeats DEF Ids
<1>5. ASSUME NEW c \in Ids, NEW n, Split(c, n) \/ RejectMerge(c, n) PROVE Seats'
  <2>1. CASE Split(c, n)
    BY <2>1, AddedSeats DEF Split, Act
  <2>2. CASE RejectMerge(c, n)
    BY <2>2 DEF RejectMerge, Act, booth, Seats, Rows, Runs, VoicesInUseExist, Ids
  <2> QED
    BY <1>5, <2>1, <2>2
<1>6. ASSUME NEW v, SetNarrator(v) \/ DeleteVoice(v) PROVE Seats'
  <2>1. CASE SetNarrator(v)
    BY <2>1 DEF SetNarrator, Act, people, Seats, Rows, Runs, VoicesInUseExist, Ids
  <2>2. CASE DeleteVoice(v)
    <3>1. UNCHANGED <<cast, desk, narrator, run>> /\ profiles' = profiles \ {v} /\ v # narrator.voice
          /\ \A c \in Ids : desk[c].voice # v
      BY <2>2 DEF DeleteVoice, Act, people
    <3> QED
      BY <3>1 DEF Seats, Rows, Runs, VoicesInUseExist, Ids
  <2> QED
    BY <1>6, <2>1, <2>2
<1>7. ASSUME NEW i \in issues, ApplyConfirmCast(i) PROVE Seats'
  <2>1. UNCHANGED <<run, profiles, narrator>>
    BY <1>7 DEF ApplyConfirmCast, Act
  <2>2. UNCHANGED <<cast, desk>> \/ \E row : Added(row)
    BY <1>7 DEF ApplyConfirmCast
  <2>3. CASE UNCHANGED <<cast, desk>>
    BY <2>1, <2>3 DEF Seats, Rows, Runs, VoicesInUseExist, Ids
  <2>4. CASE \E row : Added(row)
    BY <2>1, <2>4, AddedSeats
  <2> QED
    BY <2>2, <2>3, <2>4
<1>8. ASSUME NEW i \in issues, NEW t \in Ids, ApplyMergeCast(i, t) PROVE Seats'
  <2>0. UNCHANGED <<run, profiles, narrator>>
    BY <1>8 DEF ApplyMergeCast, Act
  <2>1. CASE ByName(i.name) # 0
    <3>1. ByName(i.name) \in Ids
      BY <2>1, <1>0, ByNameIsSomebody
    <3>2. Merged(cast, desk, t, ByName(i.name))
      BY <1>8, <2>1 DEF ApplyMergeCast
    <3> QED
      BY <1>0, <2>0, <3>1, <3>2, MergedSeats DEF Ids
  <2>2. CASE ByName(i.name) = 0
    <3>1. PICK row : Merged(Append(cast, row), Append(desk, NoRow), t, Len(cast) + 1)
      BY <1>8, <2>2 DEF ApplyMergeCast
    <3>2. IsList(Append(cast, row)) /\ IsList(Append(desk, NoRow)) /\ Len(Append(desk, NoRow)) = Len(Append(cast, row))
          /\ DOMAIN Append(cast, row) = Ids \cup {Len(cast) + 1}
      BY <1>0, ListFacts DEF Ids
    <3>3. Append(desk, NoRow)[Len(cast) + 1] = NoRow /\ \A c \in Ids : Append(desk, NoRow)[c] = desk[c]
      <4>1. IsList(desk) /\ Len(desk) = Len(cast) /\ DOMAIN desk = Ids
        BY <1>0, ListFacts DEF Ids
      <4> QED
        BY <4>1, ListFacts
    <3>4. \A c \in DOMAIN Append(cast, row) :
             DOMAIN Append(desk, NoRow)[c] = DOMAIN NoRow /\ Append(desk, NoRow)[c].voice \in profiles \cup {0}
      BY <1>0, <3>2, <3>3 DEF NoRow
    <3>5. t \in DOMAIN Append(cast, row) /\ Len(cast) + 1 \in DOMAIN Append(cast, row)
      BY <3>2
    <3> QED
      BY <2>0, <3>1, <3>2, <3>4, <3>5, MergedSeats
  <2> QED
    BY <2>1, <2>2
<1> QED
  BY <1>1, <1>2, <1>3, <1>4, <1>5, <1>6, <1>7, <1>8 DEF UserNext

LEMMA SeatsStep == Seats /\ [CastNext]_castVars => Seats'
<1> SUFFICES ASSUME Seats, [CastNext]_castVars PROVE Seats'
  OBVIOUS
<1>1. CASE CastNext
  BY <1>1, DiscoverSeats, AutoSeats, UserSeats DEF CastNext
<1>2. CASE UNCHANGED castVars
  BY <1>2 DEF castVars, people, booth, Seats, Rows, Runs, VoicesInUseExist, Ids
<1> QED
  BY <1>1, <1>2

\* Neither the casting nor a person touches the discovery at work.
LEMMA RunUntouched ==
  ASSUME AutoNext \/ UserNext
  PROVE  run' = run
BY Zenon DEF AutoNext, BeginAuto, PrepareAuto, PlanAuto, SaveDecision, AutoAssign, UserNext, CreateCharacter,
             UpdateCharacter, GiveVoice, AssignVoice, Merge, Split, RejectMerge, SetNarrator, DeleteVoice,
             ApplyConfirmCast, ApplyMergeCast, Act

\* A voice anybody was given is one there is: none is deleted while a character
\* or the narrator has it, nor assigned after it was deleted
\* (delete_voice_profile; assign_voice, _apply_locked_result).
THEOREM VoicesStay == CastSpec => []VoicesInUseExist
<1>1. CastInit => Seats
  BY SeatsInit
<1>2. Seats /\ [CastNext]_castVars => Seats'
  BY SeatsStep
<1>3. Seats => VoicesInUseExist
  BY DEF Seats
<1> QED
  BY <1>1, <1>2, <1>3, PTL DEF CastSpec

-----------------------------------------------------------------------------
(* Who is known by which name *)

\* A candidate with a name, a list of them, and a finding about one.
IsCandidate(cand) ==
  /\ {"name", "aliases", "generated"} \subseteq DOMAIN cand
  /\ cand.name # <<>> /\ IsList(cand.aliases) /\ IsList(cand.generated)
AreCandidates(todo) == IsList(todo) /\ \A i \in DOMAIN todo : IsCandidate(todo[i])
IsIssue(i) == DOMAIN i = {"kind", "name", "segment", "cand", "possible", "open"} /\ IsCandidate(i.cand)
CandidatesAreNamed == \A r \in Runner : run[r].at \in {"apply", "write"} => IsCandidate(run[r].todo[1])

\* The names of everybody, and those that are known to have gone.
AllNames == UNION {NamesOf(cast[c]) : c \in Ids}
Lasting == AllNames \cup struck \cup raced
CharactersAreWhole == \A c \in Ids : IsCharacter(cast[c]) /\ cast[c].id = c
IssuesAreWhole == \A i \in issues : IsIssue(i)
\* What is written over a row was read from it, and its names were names.
ReadIsKnown(r) ==
  run[r].at = "write" =>
    /\ run[r].row \in Ids
    /\ \E read \in run[r].index :
         /\ \A c \in run[r].index : c.id = run[r].row => c = read
         /\ read.id = run[r].row /\ IsCharacter(read)
         /\ NamesOf(read) \subseteq Lasting
PastIsKnown(r) ==
  \A p \in run[r].past : (\E i \in issues : i.name = p.name) \/ p.name \in Lasting \/ p.how = "held"
RunsAreKnown == \A r \in Runner : ReadIsKnown(r) /\ PastIsKnown(r)
Known == CharactersAreWhole /\ IssuesAreWhole /\ RunsAreKnown

\* What a step may do to the characters: none goes, and no name does without
\* its being known.
Grown ==
  /\ Ids \subseteq Ids'
  /\ \A c \in Ids' : IsCharacter(cast'[c]) /\ cast'[c].id = c
  /\ Lasting \subseteq Lasting'
\* No finding goes.
Filing ==
  /\ {i.name : i \in issues} \subseteq {i.name : i \in issues'}
  /\ \A i \in issues' : IsIssue(i)

LEMMA LastingGrows ==
  ASSUME Ids \subseteq Ids', struck \subseteq struck', raced \subseteq raced',
         \A c \in Ids : NamesOf(cast[c]) \subseteq NamesOf(cast'[c]) \cup struck' \cup raced'
  PROVE  Lasting \subseteq Lasting'
<1>1. \A c \in Ids : c \in Ids' /\ NamesOf(cast[c]) \subseteq NamesOf(cast'[c]) \cup struck' \cup raced'
  OBVIOUS
<1>2. AllNames' = UNION {NamesOf(cast'[c]) : c \in Ids'}
  BY DEF AllNames
<1>3. AllNames \subseteq AllNames' \cup struck' \cup raced'
  BY <1>1, <1>2 DEF AllNames
<1> QED
  BY <1>3 DEF Lasting

\* What others do leaves a discovery's reading as good as it was.
LEMMA OthersKnown ==
  ASSUME Known, Grown, Filing, NEW q \in Runner, run'[q] = run[q]
  PROVE  ReadIsKnown(q)' /\ PastIsKnown(q)'
<1>1. ReadIsKnown(q) /\ PastIsKnown(q)
  BY DEF Known, RunsAreKnown
<1>2. ReadIsKnown(q)'
  <2>1. Ids \subseteq Ids' /\ Lasting \subseteq Lasting'
    BY DEF Grown
  <2> QED
    BY <1>1, <2>1 DEF ReadIsKnown
<1>3. PastIsKnown(q)'
  <2> SUFFICES ASSUME NEW p \in run[q].past, p.how # "held"
               PROVE  (\E i \in issues' : i.name = p.name) \/ p.name \in Lasting'
    BY DEF PastIsKnown
  <2>1. (\E i \in issues : i.name = p.name) \/ p.name \in Lasting
    BY <1>1 DEF PastIsKnown
  <2> QED
    BY <2>1 DEF Filing, Grown
<1> QED
  BY <1>2, <1>3

LEMMA KnownStays ==
  ASSUME Known, Grown, Filing, UNCHANGED run
  PROVE  Known'
<1>1. CharactersAreWhole' /\ IssuesAreWhole'
  BY DEF Grown, Filing, CharactersAreWhole, IssuesAreWhole
<1>2. RunsAreKnown'
  BY OthersKnown DEF RunsAreKnown
<1> QED
  BY <1>1, <1>2 DEF Known

LEMMA Joined ==
  ASSUME NEW a, IsList(a), NEW b, IsList(b)
  PROVE  IsList(a \o b) /\ ToSet(a \o b) = ToSet(a) \cup ToSet(b)
<1>1. PICK S : S = ToSet(a) \cup ToSet(b)
  OBVIOUS
<1>2. a \in Seq(S) /\ b \in Seq(S)
  BY <1>1 DEF IsList
<1>3. /\ a \o b \in Seq(S) /\ Len(a \o b) = Len(a) + Len(b) /\ Len(a) \in Nat /\ Len(b) \in Nat
      /\ \A i \in 1..Len(a) : (a \o b)[i] = a[i]
      /\ \A i \in 1..Len(b) : (a \o b)[Len(a) + i] = b[i]
      /\ \A i \in (Len(a) + 1)..(Len(a) + Len(b)) : (a \o b)[i] = b[i - Len(a)]
  BY <1>2
<1>4. DOMAIN a = 1..Len(a) /\ DOMAIN b = 1..Len(b) /\ DOMAIN (a \o b) = 1..(Len(a) + Len(b))
  BY <1>2, <1>3
<1>5. ASSUME NEW x \in S PROVE x \in ToSet(a \o b)
  <2>1. CASE x \in ToSet(a)
    <3>1. PICK i \in 1..Len(a) : x = a[i]
      BY <2>1, <1>4 DEF ToSet
    <3>2. i \in 1..(Len(a) + Len(b)) /\ (a \o b)[i] = x
      BY <3>1, <1>3
    <3> QED
      BY <3>2, <1>4 DEF ToSet
  <2>2. CASE x \in ToSet(b)
    <3>1. PICK i \in 1..Len(b) : x = b[i]
      BY <2>2, <1>4 DEF ToSet
    <3>2. Len(a) + i \in 1..(Len(a) + Len(b)) /\ (a \o b)[Len(a) + i] = x
      BY <3>1, <1>3
    <3> QED
      BY <3>2, <1>4 DEF ToSet
  <2> QED
    BY <1>1, <2>1, <2>2
<1>6. ToSet(a \o b) \subseteq S
  BY <1>3, <1>4 DEF ToSet
<1>7. ToSet(a \o b) = S
  BY <1>5, <1>6
<1> QED
  BY <1>1, <1>3, <1>7 DEF IsList

LEMMA CleanList ==
  ASSUME NEW a, IsList(a)
  PROVE  IsList(Clean(a)) /\ ToSet(Clean(a)) = ToSet(a) \ {<<>>}
<1>1. PICK S : S = ToSet(a)
  OBVIOUS
<1>2. Clean(a) \in Seq(S) /\ ToSet(Clean(a)) = ToSet(a) \ {<<>>}
  BY <1>1, CleanHolds DEF IsList
<1>3. \A i \in 1..Len(Clean(a)) : Clean(a)[i] \in ToSet(Clean(a))
  BY <1>2 DEF ToSet
<1>4. IsList(Clean(a))
  BY <1>2, <1>3 DEF IsList
<1> QED
  BY <1>2, <1>4

LEMMA ShortLists ==
  /\ IsList(<<>>) /\ ToSet(<<>>) = {}
  /\ \A x : IsList(<<x>>) /\ ToSet(<<x>>) = {x}
  /\ \A x, y : IsList(<<x, y>>) /\ ToSet(<<x, y>>) = {x, y}
<1>1. IsList(<<>>) /\ ToSet(<<>>) = {}
  BY DEF IsList, ToSet
<1>2. ASSUME NEW x PROVE IsList(<<x>>) /\ ToSet(<<x>>) = {x}
  <2>1. <<x>> \in Seq({x}) /\ DOMAIN <<x>> = {1} /\ <<x>>[1] = x
    OBVIOUS
  <2> QED
    BY <2>1 DEF IsList, ToSet
<1>3. ASSUME NEW x, NEW y PROVE IsList(<<x, y>>) /\ ToSet(<<x, y>>) = {x, y}
  <2>1. <<x, y>> \in Seq({x, y}) /\ DOMAIN <<x, y>> = {1, 2} /\ <<x, y>>[1] = x /\ <<x, y>>[2] = y
    OBVIOUS
  <2> QED
    BY <2>1 DEF IsList, ToSet
<1> QED
  BY <1>1, <1>2, <1>3

-----------------------------------------------------------------------------
(* What a session may add to the characters *)

\* Nobody new, and nobody changed but in other ways.
LEMMA GrownSame ==
  ASSUME Known, Ids' = Ids, UNCHANGED <<struck, raced>>,
         \A c \in Ids : /\ IsCharacter(cast'[c]) /\ cast'[c].id = c /\ cast'[c].name = cast[c].name
                        /\ cast'[c].canonical = cast[c].canonical /\ cast'[c].aliases = cast[c].aliases
  PROVE  Grown
<1>1. \A c \in Ids : NamesOf(cast'[c]) = NamesOf(cast[c])
  BY DEF NamesOf
<1>2. Lasting \subseteq Lasting'
  BY <1>1, LastingGrows
<1> QED
  BY <1>2 DEF Grown

LEMMA SameIssues ==
  ASSUME Known, UNCHANGED issues
  PROVE  Filing
BY DEF Known, Filing, IssuesAreWhole

\* One person more.
LEMMA AddedGrown ==
  ASSUME NEW row, Added(row), IsList(cast), Known, IsCharacter(row), UNCHANGED <<struck, raced>>
  PROVE  /\ Grown
         /\ Len(cast') \in Ids' /\ cast'[Len(cast')].name = row.name
         /\ cast'[Len(cast')].canonical = row.canonical /\ cast'[Len(cast')].aliases = row.aliases
<1>1. PICK new : new = [row EXCEPT !.id = Len(cast) + 1]
  OBVIOUS
<1>2. IsCharacter(new) /\ new.id = Len(cast) + 1 /\ new.name = row.name /\ new.canonical = row.canonical
      /\ new.aliases = row.aliases
  BY <1>1 DEF IsCharacter, Typed
<1>3. cast' = Append(cast, new)
  BY <1>1 DEF Added
<1>4. Ids' = Ids \cup {Len(cast) + 1} /\ cast'[Len(cast) + 1] = new /\ Len(cast') = Len(cast) + 1
      /\ \A c \in Ids : cast'[c] = cast[c]
  BY <1>3, ListFacts DEF Ids
<1>5. \A c \in Ids' : IsCharacter(cast'[c]) /\ cast'[c].id = c
  BY <1>2, <1>4 DEF Known, CharactersAreWhole
<1>6. Grown
  <2>1. Lasting \subseteq Lasting'
    BY <1>4, LastingGrows
  <2> QED
    BY <1>4, <1>5, <2>1 DEF Grown
<1> QED
  BY <1>2, <1>4, <1>6

LEMMA TypedIs ==
  ASSUME NEW name
  PROVE  IsCharacter(Typed(name)) /\ Typed(name).name = name
<1>1. Typed(name).aliases = <<>> /\ Typed(name).name = name /\ DOMAIN Typed(name) = DOMAIN Typed(<<>>)
  BY DEF Typed
<1> QED
  BY <1>1, ShortLists DEF IsCharacter, IsList

LEMMA CharacterOfIs ==
  ASSUME NEW cand, IsCandidate(cand)
  PROVE  IsCharacter(CharacterOf(cand, <<>>)) /\ CharacterOf(cand, <<>>).name = cand.name
<1>1. PICK all : all = Clean(cand.aliases \o cand.generated \o <<>>)
  OBVIOUS
<1>2. IsList(cand.aliases \o cand.generated)
  BY Joined DEF IsCandidate
<1>3. IsList(all)
  BY <1>1, <1>2, Joined, ShortLists, CleanList
<1>4. DOMAIN CharacterOf(cand, <<>>) = DOMAIN Typed(<<>>) /\ CharacterOf(cand, <<>>).name = cand.name
      /\ CharacterOf(cand, <<>>).aliases = all
  BY <1>1 DEF CharacterOf, Typed
<1> QED
  BY <1>3, <1>4 DEF IsCharacter, IsList

\* Two people become one, on rows to which one may have been added.
LEMMA MergedGrown ==
  ASSUME NEW rows, NEW seats, NEW t, NEW s, Merged(rows, seats, t, s), IsList(rows), Known,
         Ids \subseteq DOMAIN rows, t \in DOMAIN rows, s \in DOMAIN rows,
         \A c \in Ids : rows[c] = cast[c],
         \A c \in DOMAIN rows : IsCharacter(rows[c]) /\ rows[c].id = c,
         UNCHANGED <<struck, raced>>
  PROVE  Grown
<1>1. PICK all : all = Clean(rows[t].aliases \o <<rows[s].name, rows[s].canonical>> \o rows[s].aliases)
  OBVIOUS
<1>2. IsList(rows[t].aliases) /\ IsList(rows[s].aliases)
  BY DEF IsCharacter, IsList
<1>3. IsList(all) /\ ToSet(all) = (ToSet(rows[t].aliases) \cup {rows[s].name, rows[s].canonical} \cup ToSet(rows[s].aliases)) \ {<<>>}
  <2>1. PICK two : two = <<rows[s].name, rows[s].canonical>>
    OBVIOUS
  <2>2. IsList(two) /\ ToSet(two) = {rows[s].name, rows[s].canonical}
    BY <2>1, ShortLists
  <2>3. PICK b : b = rows[t].aliases \o two
    OBVIOUS
  <2>4. IsList(b) /\ ToSet(b) = ToSet(rows[t].aliases) \cup {rows[s].name, rows[s].canonical}
    BY <1>2, <2>2, <2>3, Joined
  <2>5. IsList(b \o rows[s].aliases) /\ ToSet(b \o rows[s].aliases) = ToSet(b) \cup ToSet(rows[s].aliases)
    BY <1>2, <2>4, Joined
  <2> QED
    BY <1>1, <2>1, <2>3, <2>4, <2>5, CleanList
<1>4. PICK traits, relations :
        cast' = [rows EXCEPT ![t].aliases = all, ![t].traits = traits, ![t].relations = relations,
                             ![s].into = t, ![s].locked = TRUE]
  BY <1>1 DEF Merged
<1>5. t # s
  BY DEF Merged
<1>6. Ids' = DOMAIN rows
  BY <1>4 DEF Ids
<1>7. /\ \A c \in DOMAIN rows \ {t, s} : cast'[c] = rows[c]
      /\ cast'[t] = [rows[t] EXCEPT !.aliases = all, !.traits = traits, !.relations = relations]
      /\ cast'[s] = [rows[s] EXCEPT !.into = t, !.locked = TRUE]
  BY <1>4, <1>5
<1>8. /\ IsCharacter(cast'[t]) /\ cast'[t].id = t /\ cast'[t].name = rows[t].name
      /\ cast'[t].canonical = rows[t].canonical /\ cast'[t].aliases = all
  BY <1>3, <1>7 DEF IsCharacter, Typed, IsList
<1>9. /\ IsCharacter(cast'[s]) /\ cast'[s].id = s /\ cast'[s].name = rows[s].name
      /\ cast'[s].canonical = rows[s].canonical /\ cast'[s].aliases = rows[s].aliases
  BY <1>7 DEF IsCharacter, Typed
<1>10. NamesOf(cast'[s]) = NamesOf(rows[s]) /\ NamesOf(cast'[t]) = NamesOf(rows[t]) \cup NamesOf(rows[s])
  BY <1>3, <1>8, <1>9 DEF NamesOf
<1>11. \A c \in Ids' : IsCharacter(cast'[c]) /\ cast'[c].id = c
  <2> TAKE c \in Ids'
  <2>1. CASE c \in {t, s}
    BY <2>1, <1>8, <1>9
  <2>2. CASE c \notin {t, s}
    <3>1. c \in DOMAIN rows /\ cast'[c] = rows[c]
      BY <2>2, <1>6, <1>7
    <3> QED
      BY <3>1
  <2> QED
    BY <2>1, <2>2
<1>12. ASSUME NEW c \in Ids PROVE NamesOf(cast[c]) \subseteq NamesOf(cast'[c])
  <2>1. CASE c \in {t, s}
    BY <2>1, <1>10
  <2>2. CASE c \notin {t, s}
    BY <2>2, <1>7
  <2> QED
    BY <2>1, <2>2
<1>13. Lasting \subseteq Lasting'
  BY <1>6, <1>12, LastingGrows
<1> QED
  BY <1>6, <1>11, <1>13 DEF Grown

-----------------------------------------------------------------------------
(* What people do *)

LEMMA KnownInit == CastInit => Known
<1> SUFFICES ASSUME CastInit PROVE Known
  OBVIOUS
<1>1. CharactersAreWhole
  BY CastAssumption DEF CastInit, CharactersAreWhole, Ids
<1>2. IssuesAreWhole
  BY DEF CastInit, IssuesAreWhole
<1>3. \A r \in Runner : run[r].at = "idle" /\ run[r].past = {}
  BY DEF CastInit, NoRun
<1>4. RunsAreKnown
  BY <1>3 DEF RunsAreKnown, ReadIsKnown, PastIsKnown
<1> QED
  BY <1>1, <1>2, <1>4 DEF Known

LEMMA PeopleKnown ==
  ASSUME Seats, Known, UserNext
  PROVE  Known'
<1>0. IsList(cast) /\ Ids = 1..Len(cast) /\ Len(cast) \in Nat
  <2>1. IsList(cast)
    BY DEF Seats, Rows
  <2> QED
    BY <2>1, ListFacts DEF Ids
<1>1. CASE \E n \in NewNames : CreateCharacter(n)
  <2>1. PICK n \in NewNames : Added(Typed(n)) /\ UNCHANGED <<issues, run, struck, raced>>
    BY <1>1 DEF CreateCharacter, Act
  <2> QED
    BY <2>1, <1>0, TypedIs, AddedGrown, SameIssues, KnownStays
<1>2. ASSUME NEW c \in Ids, NEW n, NEW canonical, NEW aliases \in {cast[c].aliases, <<>>}, NEW hold,
             UpdateCharacter(c, n, canonical, aliases, hold)
      PROVE  Known'
  <2>1. PICK old, new : old = cast[c] /\ new = [old EXCEPT !.name = n, !.canonical = canonical,
                                                           !.aliases = Clean(aliases), !.locked = hold]
    OBVIOUS
  <2>2. cast' = [cast EXCEPT ![c] = new] /\ UNCHANGED <<issues, run, raced>>
        /\ struck' = struck \cup (NamesOf(cast[c]) \ NamesOf(cast'[c]))
    BY <1>2, <2>1, Zenon DEF UpdateCharacter, Act
  <2>3. Ids' = Ids /\ (\A d \in Ids \ {c} : cast'[d] = cast[d]) /\ cast'[c] = new
    BY <2>2 DEF Ids
  <2>4. IsCharacter(old) /\ old.id = c
    BY <2>1 DEF Known, CharactersAreWhole
  <2>5. DOMAIN new = DOMAIN old /\ new.aliases = Clean(aliases) /\ new.id = c
    BY <2>1, <2>4 DEF IsCharacter, Typed
  <2>6. IsList(Clean(aliases))
    BY <2>1, <2>4, ShortLists, CleanList DEF IsCharacter, IsList
  <2>7. IsCharacter(new)
    BY <2>4, <2>5, <2>6 DEF IsCharacter, IsList
  <2>8. Lasting \subseteq Lasting'
    BY <2>2, <2>3, LastingGrows
  <2>9. Grown
    BY <2>3, <2>5, <2>7, <2>8 DEF Grown, Known, CharactersAreWhole
  <2> QED
    BY <2>2, <2>9, SameIssues, KnownStays
<1>3. ASSUME NEW c, NEW v,
             \/ GiveVoice(c, v) \/ SetNarrator(v) \/ DeleteVoice(v)
             \/ \E hold, reuse \in BOOLEAN : AssignVoice(c, v, hold, reuse)
      PROVE  Known'
  <2>1. UNCHANGED <<cast, issues, run, struck, raced>>
    BY <1>3, Zenon DEF GiveVoice, AssignVoice, SetNarrator, DeleteVoice, Act, people
  <2> QED
    BY <2>1 DEF Known, CharactersAreWhole, IssuesAreWhole, RunsAreKnown, ReadIsKnown, PastIsKnown, Ids, Lasting, AllNames
<1>4. ASSUME NEW c \in Ids, NEW t \in Ids, Merge(t, c) PROVE Known'
  <2>1. Merged(cast, desk, t, c) /\ UNCHANGED <<issues, run, struck, raced>>
    BY <1>4 DEF Merge, Act
  <2>2. Grown
    BY <1>0, <2>1, MergedGrown DEF Ids, Known, CharactersAreWhole
  <2> QED
    BY <2>1, <2>2, SameIssues, KnownStays
<1>5. ASSUME NEW c \in Ids, NEW n, Split(c, n) PROVE Known'
  <2>1. PICK row : /\ row = [Typed(n) EXCEPT !.segment = cast[c].segment,
                                             !.confidence = IF cast[c].confidence < 75 THEN cast[c].confidence ELSE 75]
                   /\ Added(row) /\ UNCHANGED <<issues, run, struck, raced>>
    BY <1>5 DEF Split, Act
  <2>2. row.aliases = Typed(n).aliases /\ DOMAIN row = DOMAIN Typed(<<>>)
    BY <2>1 DEF Typed
  <2>3. IsCharacter(row)
    BY <2>2, TypedIs DEF IsCharacter
  <2> QED
    BY <2>1, <2>3, <1>0, AddedGrown, SameIssues, KnownStays
<1>6. ASSUME NEW c \in Ids, NEW n, RejectMerge(c, n) PROVE Known'
  <2>1. UNCHANGED <<cast, run, struck, raced>>
    BY <1>6 DEF RejectMerge, Act
  <2>2. \A i \in issues : IsIssue(i)
    BY DEF Known, IssuesAreWhole
  <2>3. \A i \in issues : LET j == [i EXCEPT !.open = FALSE] IN IsIssue(j) /\ j.name = i.name
    BY <2>2 DEF IsIssue
  <2>4. /\ \A j \in issues' : \E i \in issues : j \in {i, [i EXCEPT !.open = FALSE]}
        /\ \A i \in issues : \E j \in issues' : j \in {i, [i EXCEPT !.open = FALSE]}
    BY <1>6 DEF RejectMerge
  <2>5. Filing
    BY <2>2, <2>3, <2>4 DEF Filing
  <2>6. Grown
    BY <2>1, GrownSame DEF Known, CharactersAreWhole, Ids
  <2> QED
    BY <2>1, <2>5, <2>6, KnownStays
<1>7. ASSUME NEW i \in issues, issues' = (issues \ {i}) \cup {[i EXCEPT !.open = FALSE]} PROVE Filing
  <2>1. \A j \in issues : IsIssue(j)
    BY DEF Known, IssuesAreWhole
  <2>2. LET j == [i EXCEPT !.open = FALSE] IN IsIssue(j) /\ j.name = i.name
    BY <2>1 DEF IsIssue
  <2> QED
    BY <1>7, <2>1, <2>2 DEF Filing
<1>8. ASSUME NEW i \in issues, ApplyConfirmCast(i) PROVE Known'
  <2>1. issues' = (issues \ {i}) \cup {[i EXCEPT !.open = FALSE]} /\ UNCHANGED <<run, struck, raced>>
    BY <1>8 DEF ApplyConfirmCast, Act
  <2>2. UNCHANGED cast \/ Added([CharacterOf(i.cand, <<>>) EXCEPT !.aliases = <<>>])
    BY <1>8 DEF ApplyConfirmCast
  <2>3. CASE UNCHANGED cast
    <3>1. Grown
      BY <2>1, <2>3, GrownSame DEF Known, CharactersAreWhole, Ids
    <3> QED
      BY <2>1, <3>1, <1>7, KnownStays
  <2>4. CASE Added([CharacterOf(i.cand, <<>>) EXCEPT !.aliases = <<>>])
    <3>1. PICK row : row = [CharacterOf(i.cand, <<>>) EXCEPT !.aliases = <<>>]
      OBVIOUS
    <3>2. IsCharacter(row)
      BY <3>1, ShortLists DEF CharacterOf, IsCharacter, Typed, IsList
    <3>3. Grown
      BY <2>1, <2>4, <3>1, <3>2, <1>0, AddedGrown
    <3> QED
      BY <2>1, <3>3, <1>7, KnownStays
  <2> QED
    BY <2>2, <2>3, <2>4
<1>9. ASSUME NEW i \in issues, NEW t \in Ids, ApplyMergeCast(i, t) PROVE Known'
  <2>1. issues' = (issues \ {i}) \cup {[i EXCEPT !.open = FALSE]} /\ UNCHANGED <<run, struck, raced>>
    BY <1>9 DEF ApplyMergeCast, Act
  <2>2. CASE ByName(i.name) # 0
    <3>1. ByName(i.name) \in Ids
      BY <2>2, <1>0, ByNameIsSomebody
    <3>2. Merged(cast, desk, t, ByName(i.name))
      BY <1>9, <2>2 DEF ApplyMergeCast
    <3>3. Grown
      BY <1>0, <2>1, <3>1, <3>2, MergedGrown DEF Ids, Known, CharactersAreWhole
    <3> QED
      BY <2>1, <3>3, <1>7, KnownStays
  <2>3. CASE ByName(i.name) = 0
    <3>1. PICK row : row = [CharacterOf(i.cand, <<>>) EXCEPT !.id = Len(cast) + 1]
      OBVIOUS
    <3>2. Merged(Append(cast, row), Append(desk, NoRow), t, Len(cast) + 1)
      BY <1>9, <2>3, <3>1 DEF ApplyMergeCast
    <3>3. IsCharacter(CharacterOf(i.cand, <<>>))
      BY CharacterOfIs DEF Known, IssuesAreWhole, IsIssue
    <3>4. IsCharacter(row) /\ row.id = Len(cast) + 1
      BY <3>1, <3>3 DEF IsCharacter, Typed
    <3>5. PICK rows : rows = Append(cast, row)
      OBVIOUS
    <3>6. /\ IsList(rows) /\ DOMAIN rows = Ids \cup {Len(cast) + 1} /\ rows[Len(cast) + 1] = row
          /\ \A c \in Ids : rows[c] = cast[c]
      BY <3>5, <1>0, ListFacts DEF Ids
    <3>7. \A c \in DOMAIN rows : IsCharacter(rows[c]) /\ rows[c].id = c
      BY <3>4, <3>6 DEF Known, CharactersAreWhole
    <3>8. Grown
      BY <2>1, <3>2, <3>5, <3>6, <3>7, MergedGrown
    <3> QED
      BY <2>1, <3>8, <1>7, KnownStays
  <2> QED
    BY <2>2, <2>3
<1> QED
  BY <1>1, <1>2, <1>3, <1>4, <1>5, <1>6, <1>8, <1>9 DEF UserNext

-----------------------------------------------------------------------------
(* What discovery does *)

\* What one candidate leaves behind, when it is one of the lasting ends.
LEMMA SettledKnown ==
  ASSUME NEW r \in Runner, NEW how, NEW row, Seats, Known, Grown, Filing, Settled(r, how, row),
         \/ \E i \in issues' : i.name = run[r].todo[1].name
         \/ run[r].todo[1].name \in Lasting'
         \/ how = "held"
  PROVE  Known'
<1>1. CharactersAreWhole' /\ IssuesAreWhole'
  BY DEF Grown, Filing, CharactersAreWhole, IssuesAreWhole
<1>2. /\ run'[r].past = run[r].past \cup {[name |-> run[r].todo[1].name, how |-> how, target |-> run[r].decision.target]}
      /\ run'[r].at \in {"done", "decide"}
      /\ \A q \in Runner \ {r} : run'[q] = run[q]
  BY SettledRun DEF Seats, Rows
<1>3. \A q \in Runner \ {r} : ReadIsKnown(q)' /\ PastIsKnown(q)'
  BY <1>2, OthersKnown
<1>4. ReadIsKnown(r)'
  BY <1>2 DEF ReadIsKnown
<1>5. PastIsKnown(r)'
  <2> SUFFICES ASSUME NEW p \in run'[r].past, p.how # "held"
               PROVE  (\E i \in issues' : i.name = p.name) \/ p.name \in Lasting'
    BY DEF PastIsKnown
  <2>1. CASE p \in run[r].past
    <3>1. (\E i \in issues : i.name = p.name) \/ p.name \in Lasting
      BY <2>1 DEF Known, RunsAreKnown, PastIsKnown
    <3> QED
      BY <3>1 DEF Filing, Grown
  <2>2. CASE p = [name |-> run[r].todo[1].name, how |-> how, target |-> run[r].decision.target]
    BY <2>2
  <2> QED
    BY <1>2, <2>1, <2>2
<1>6. RunsAreKnown'
  BY <1>3, <1>4, <1>5 DEF RunsAreKnown
<1> QED
  BY <1>1, <1>6 DEF Known

LEMMA WriteKnown ==
  ASSUME NEW r \in Runner, Seats, Known, CandidatesAreNamed, WriteObservations(r)
  PROVE  Known'
<1>1. PICK t, read : /\ t = run[r].row /\ t \in Ids /\ read \in run[r].index
                     /\ \A c \in run[r].index : c.id = t => c = read
                     /\ read.id = t /\ IsCharacter(read)
                     /\ NamesOf(read) \subseteq Lasting
  BY DEF Known, RunsAreKnown, ReadIsKnown, WriteObservations
<1>2. (CHOOSE c \in run[r].index : c.id = t) = read
  BY <1>1
<1>3. PICK cand : cand = run[r].todo[1] /\ IsCandidate(cand)
  BY DEF CandidatesAreNamed, WriteObservations
<1>4. PICK new : new = Observed(read, cand, <<>>)
  OBVIOUS
<1>5. PICK row : row = [cast[t] EXCEPT !.aliases = new.aliases, !.traits = new.traits,
                                       !.relations = new.relations, !.confidence = new.confidence]
  OBVIOUS
<1>6. UNCHANGED <<issues, struck>>
      /\ IF new = read THEN UNCHANGED <<cast, raced>> /\ Settled(r, IF read.locked THEN "held" ELSE "merge", {read})
         ELSE /\ cast' = [cast EXCEPT ![t] = row] /\ Settled(r, "merge", {row})
              /\ raced' = raced \cup (ToSet(cast[t].aliases) \ ToSet(read.aliases))
  BY <1>1, <1>2, <1>3, <1>4, <1>5 DEF WriteObservations
<1>7. ~read.locked => /\ IsList(new.aliases)
                      /\ ToSet(read.aliases) \ {<<>>} \subseteq ToSet(new.aliases) /\ cand.name \in ToSet(new.aliases)
  <2> SUFFICES ASSUME ~read.locked
               PROVE  /\ IsList(new.aliases)
                      /\ ToSet(read.aliases) \ {<<>>} \subseteq ToSet(new.aliases) /\ cand.name \in ToSet(new.aliases)
    OBVIOUS
  <2>1. new.aliases = Clean(read.aliases \o <<cand.name>> \o cand.aliases \o cand.generated \o <<>>)
    BY <1>1, <1>4 DEF Observed, IsCharacter, Typed
  <2>2. IsList(read.aliases) /\ IsList(cand.aliases) /\ IsList(cand.generated) /\ cand.name # <<>>
    BY <1>1, <1>3 DEF IsCharacter, IsCandidate, IsList
  <2>3. PICK a : a = read.aliases \o <<cand.name>>
    OBVIOUS
  <2>4. IsList(a) /\ ToSet(a) = ToSet(read.aliases) \cup {cand.name}
    BY <2>2, <2>3, Joined, ShortLists
  <2>5. PICK b : b = a \o cand.aliases
    OBVIOUS
  <2>6. IsList(b) /\ ToSet(a) \subseteq ToSet(b)
    BY <2>2, <2>4, <2>5, Joined
  <2>7. PICK c : c = b \o cand.generated
    OBVIOUS
  <2>8. IsList(c) /\ ToSet(a) \subseteq ToSet(c)
    BY <2>2, <2>6, <2>7, Joined
  <2>9. IsList(c \o <<>>) /\ ToSet(a) \subseteq ToSet(c \o <<>>)
    BY <2>8, Joined, ShortLists
  <2>10. new.aliases = Clean(c \o <<>>)
    BY <2>1, <2>3, <2>5, <2>7
  <2> QED
    BY <2>2, <2>4, <2>9, <2>10, CleanList
<1>8. CASE new = read
  <2>1. Grown /\ Filing
    BY <1>6, <1>8, GrownSame, SameIssues DEF Known, CharactersAreWhole, Ids
  <2>2. CASE read.locked
    BY <1>6, <1>8, <2>1, <2>2, SettledKnown
  <2>3. CASE ~read.locked
    <3>1. cand.name \in NamesOf(read)
      BY <1>3, <1>7, <1>8, <2>3 DEF NamesOf, IsCandidate
    <3>2. cand.name \in Lasting'
      BY <3>1, <1>1, <2>1 DEF Grown
    <3> QED
      BY <1>3, <1>6, <1>8, <2>1, <2>3, <3>2, SettledKnown
  <2> QED
    BY <2>2, <2>3
<1>9. CASE new # read
  <2>0. ~read.locked
    BY <1>4, <1>9 DEF Observed
  <2>1. /\ cast' = [cast EXCEPT ![t] = row] /\ Settled(r, "merge", {row})
        /\ raced' = raced \cup (ToSet(cast[t].aliases) \ ToSet(read.aliases))
    BY <1>6, <1>9
  <2>2. Ids' = Ids /\ cast'[t] = row /\ \A c \in Ids \ {t} : cast'[c] = cast[c]
    BY <1>1, <2>1 DEF Ids
  <2>3. IsCharacter(cast[t]) /\ cast[t].id = t
    BY <1>1 DEF Known, CharactersAreWhole
  <2>4. /\ row.name = cast[t].name /\ row.canonical = cast[t].canonical /\ row.id = t
        /\ row.aliases = new.aliases /\ DOMAIN row = DOMAIN Typed(<<>>)
    BY <1>5, <2>3 DEF IsCharacter, Typed
  <2>5. IsCharacter(row)
    BY <2>0, <2>4, <1>7 DEF IsCharacter, IsList
  <2>6. cand.name \in NamesOf(row)
    BY <2>0, <2>4, <1>3, <1>7 DEF NamesOf, IsCandidate
  <2>7. NamesOf(cast[t]) \subseteq NamesOf(row) \cup raced'
    <3> SUFFICES ASSUME NEW n \in NamesOf(cast[t]), n \in ToSet(cast[t].aliases), n \in ToSet(read.aliases)
                 PROVE  n \in NamesOf(row)
      BY <2>1, <2>4 DEF NamesOf
    <3>1. n # <<>>
      BY DEF NamesOf
    <3> QED
      BY <3>1, <2>0, <2>4, <1>7 DEF NamesOf
  <2>8. Lasting \subseteq Lasting'
    BY <1>6, <2>1, <2>2, <2>7, LastingGrows
  <2>9. Grown /\ Filing
    BY <1>6, <2>2, <2>4, <2>5, <2>8, SameIssues DEF Grown, Known, CharactersAreWhole
  <2>10. cand.name \in Lasting'
    <3>1. AllNames' = UNION {NamesOf(cast'[d]) : d \in Ids}
      BY <2>2 DEF AllNames
    <3> QED
      BY <3>1, <2>2, <2>6, <1>1 DEF Lasting
  <2> QED
    BY <1>3, <2>1, <2>9, <2>10, SettledKnown
<1> QED
  BY <1>8, <1>9

LEMMA DiscoverKnown ==
  ASSUME Seats, Known, CandidatesAreNamed, DiscoverNext
  PROVE  Known'
<1>0. Runs /\ IsList(cast)
  BY DEF Seats, Rows
<1> SUFFICES ASSUME NEW r \in Runner,
                    \/ \E kind \in Kinds : Discover(r, kind)
                    \/ ReadIndex(r) \/ Decide(r) \/ ApplyMerge(r) \/ WriteObservations(r) \/ ApplyNew(r) \/ ApplyIssue(r)
             PROVE  Known'
  BY DEF DiscoverNext
<1>1. ASSUME UNCHANGED <<cast, issues, struck, raced>>, run'[r].past \subseteq run[r].past, ReadIsKnown(r)',
             \A q \in Runner \ {r} : run'[q] = run[q]
      PROVE  Known'
  <2>1. Grown /\ Filing
    BY <1>1, GrownSame, SameIssues DEF Known, CharactersAreWhole, Ids
  <2>2. \A q \in Runner \ {r} : ReadIsKnown(q)' /\ PastIsKnown(q)'
    BY <1>1, <2>1, OthersKnown
  <2>3. PastIsKnown(r)'
    <3>1. PastIsKnown(r) /\ Lasting \subseteq Lasting'
      BY <2>1 DEF Known, RunsAreKnown, Grown
    <3> QED
      BY <1>1, <3>1 DEF PastIsKnown
  <2>4. RunsAreKnown'
    BY <1>1, <2>2, <2>3 DEF RunsAreKnown
  <2> QED
    BY <2>1, <2>4 DEF Known, CharactersAreWhole, IssuesAreWhole, Grown, Filing
<1>2. CASE (\E kind \in Kinds : Discover(r, kind)) \/ ReadIndex(r) \/ Decide(r)
  <2>1. UNCHANGED <<cast, issues, struck, raced>>
    <3>1. UNCHANGED people
      BY <1>2, Zenon DEF Discover, ReadIndex, Decide
    <3> QED
      BY <3>1 DEF people
  <2>2. run'[r].past \subseteq run[r].past /\ run'[r].at # "write" /\ \A q \in Runner \ {r} : run'[q] = run[q]
    BY <1>0, <1>2, FoundRun, ReadRun, DecideRun
  <2>3. ReadIsKnown(r)'
    BY <2>2 DEF ReadIsKnown
  <2> QED
    BY <2>1, <2>2, <2>3, <1>1
<1>3. CASE ApplyMerge(r)
  <2>1. UNCHANGED <<cast, issues, struck, raced>>
    BY <1>3, Zenon DEF ApplyMerge, people
  <2>2. PICK t : /\ t = run'[r].row /\ t \in Ids /\ run'[r].past = run[r].past
                 /\ run'[r].index = {c \in run[r].index : c.id # t} \cup {cast[t]}
                 /\ \A q \in Runner \ {r} : run'[q] = run[q]
    BY <1>0, <1>3, MergeRun
  <2>3. IsCharacter(cast[t]) /\ cast[t].id = t
    BY <2>2 DEF Known, CharactersAreWhole
  <2>4. NamesOf(cast[t]) \subseteq Lasting' /\ t \in Ids'
    BY <2>1, <2>2 DEF AllNames, Ids, Lasting
  <2>5. cast[t] \in run'[r].index /\ \A c \in run'[r].index : c.id = t => c = cast[t]
    BY <2>2
  <2>6. ReadIsKnown(r)'
    BY <2>2, <2>3, <2>4, <2>5 DEF ReadIsKnown
  <2> QED
    BY <2>1, <2>2, <2>6, <1>1
<1>4. CASE ApplyNew(r)
  <2>1. IsCandidate(run[r].todo[1])
    BY <1>4 DEF ApplyNew, CandidatesAreNamed
  <2>2. PICK row : /\ row = [CharacterOf(run[r].todo[1], <<>>) EXCEPT !.confidence = Max2(@, run[r].decision.confidence)]
                   /\ Added(row) /\ Settled(r, "new", {cast'[Len(cast')]}) /\ UNCHANGED <<issues, struck, raced>>
    BY <1>4 DEF ApplyNew
  <2>3. row.aliases = CharacterOf(run[r].todo[1], <<>>).aliases /\ DOMAIN row = DOMAIN CharacterOf(run[r].todo[1], <<>>)
        /\ row.name = CharacterOf(run[r].todo[1], <<>>).name
    BY <2>2 DEF CharacterOf
  <2>4. IsCharacter(row) /\ row.name = run[r].todo[1].name
    BY <2>1, <2>3, CharacterOfIs DEF IsCharacter
  <2>5. Grown /\ Len(cast') \in Ids' /\ cast'[Len(cast')].name = run[r].todo[1].name
    BY <1>0, <2>2, <2>4, AddedGrown
  <2>6. run[r].todo[1].name \in NamesOf(cast'[Len(cast')])
    BY <2>1, <2>5 DEF NamesOf, IsCandidate
  <2>7. run[r].todo[1].name \in Lasting'
    BY <2>5, <2>6 DEF Lasting, AllNames
  <2>8. Filing
    BY <2>2, SameIssues
  <2> QED
    BY <2>2, <2>5, <2>7, <2>8, SettledKnown
<1>5. CASE ApplyIssue(r)
  <2>1. IsCandidate(run[r].todo[1])
    BY <1>5 DEF ApplyIssue, CandidatesAreNamed
  <2>2. PICK kind, possible : issues' = Filed(Issue(kind, run[r].todo[1], possible))
    BY <1>5, Zenon DEF ApplyIssue
  <2>3. PICK issue : issue = Issue(kind, run[r].todo[1], possible)
    OBVIOUS
  <2>4. IsIssue(issue) /\ issue.name = run[r].todo[1].name
    BY <2>1, <2>3 DEF IsIssue, Issue
  <2>5. PICK same, b : /\ issues' = (issues \ same) \cup {[issue EXCEPT !.open = b]}
                       /\ \A i \in same : i.name = issue.name
    <3>1. PICK same : same = {i \in issues : i.kind = issue.kind /\ i.name = issue.name /\ i.segment = issue.segment}
      OBVIOUS
    <3>2. PICK b : b = (\A i \in same : i.open)
      OBVIOUS
    <3>3. issues' = (issues \ same) \cup {[issue EXCEPT !.open = b]}
      BY <2>2, <2>3, <3>1, <3>2, Zenon DEF Filed
    <3> QED
      <4> WITNESS same, b
      <4> QED
        BY <3>1, <3>3
  <2>6. PICK now : now = [issue EXCEPT !.open = b]
    OBVIOUS
  <2>7. IsIssue(now) /\ now.name = issue.name
    BY <2>4, <2>6 DEF IsIssue
  <2>8. Filing
    BY <2>5, <2>6, <2>7 DEF Filing, Known, IssuesAreWhole
  <2>9. UNCHANGED <<cast, struck, raced>> /\ Settled(r, "issue", {})
    BY <1>5, Zenon DEF ApplyIssue
  <2>10. Grown
    BY <2>9, GrownSame DEF Known, CharactersAreWhole, Ids
  <2> QED
    BY <2>4, <2>5, <2>6, <2>7, <2>8, <2>9, <2>10, SettledKnown
<1> QED
  BY <1>2, <1>3, <1>4, <1>5, WriteKnown

LEMMA AutoKnown ==
  ASSUME Known, AutoNext
  PROVE  Known'
<1>1. UNCHANGED <<cast, issues, run, struck, raced>>
  BY Zenon DEF AutoNext, BeginAuto, PrepareAuto, PlanAuto, SaveDecision, AutoAssign, people
<1> QED
  BY <1>1 DEF Known, CharactersAreWhole, IssuesAreWhole, RunsAreKnown, ReadIsKnown, PastIsKnown, Ids, Lasting, AllNames

-----------------------------------------------------------------------------
(* What discovery has still to do *)

\* Whatever is ruled, what a discovery comes up with are candidates with a name.
FoundAreNamed == \A kind \in Kinds : \A todo \in Found(kind) : AreCandidates(todo)
\* So is what it still has to do, and there is some while it is at work.
HasTodo(r) ==
  /\ AreCandidates(run[r].todo)
  /\ run[r].at \in {"index", "decide", "apply", "write"} => run[r].todo # <<>>
TodoIsNamed == \A r \in Runner : HasTodo(r)

LEMMA FirstOfList == \A s : IsList(s) /\ s # <<>> => 1 \in DOMAIN s
BY DEF IsList

LEMMA FirstIsNamed == TodoIsNamed => CandidatesAreNamed
<1> SUFFICES ASSUME TodoIsNamed, NEW r \in Runner, run[r].at \in {"apply", "write"} PROVE IsCandidate(run[r].todo[1])
  BY DEF CandidatesAreNamed
<1>1. AreCandidates(run[r].todo) /\ run[r].todo # <<>>
  BY DEF TodoIsNamed, HasTodo
<1>2. 1 \in DOMAIN run[r].todo
  BY <1>1, FirstOfList DEF AreCandidates
<1> QED
  BY <1>1, <1>2 DEF AreCandidates

LEMMA RestOfList ==
  ASSUME NEW s, IsList(s), s # <<>>
  PROVE  /\ DOMAIN s = 1..Len(s) /\ Len(s) \in Nat /\ 1 \in DOMAIN s
         /\ IsList(Tail(s)) /\ DOMAIN Tail(s) = 1..(Len(s) - 1)
         /\ \A i \in DOMAIN Tail(s) : i + 1 \in DOMAIN s /\ Tail(s)[i] = s[i + 1]
<1>1. PICK S : s \in Seq(S)
  BY DEF IsList
<1>2. DOMAIN s = 1..Len(s) /\ Len(s) \in Nat /\ Len(s) # 0
  BY <1>1
<1>3. PICK rest : rest = Tail(s)
  OBVIOUS
<1>4. rest \in Seq(S) /\ Len(rest) = Len(s) - 1 /\ \A i \in 1..(Len(s) - 1) : rest[i] = s[i + 1]
  BY <1>1, <1>2, <1>3
<1>5. \A i \in 1..Len(rest) : rest[i] \in ToSet(rest)
  BY <1>4 DEF ToSet
<1>6. IsList(rest)
  BY <1>4, <1>5 DEF IsList
<1> QED
  BY <1>2, <1>3, <1>4, <1>6

LEMMA RestAreCandidates ==
  ASSUME NEW todo, AreCandidates(todo), todo # <<>>
  PROVE  AreCandidates(Tail(todo))
BY RestOfList DEF AreCandidates

LEMMA SettledNamed ==
  ASSUME NEW r \in Runner, Seats, TodoIsNamed, run[r].todo # <<>>, NEW how, NEW row, Settled(r, how, row)
  PROVE  TodoIsNamed'
<1>1. PICK rest : rest = Tail(run[r].todo)
  OBVIOUS
<1>2. AreCandidates(rest)
  BY <1>1, RestAreCandidates DEF TodoIsNamed, HasTodo
<1>3. /\ run'[r].todo = rest /\ run'[r].at = IF rest = <<>> THEN "done" ELSE "decide"
      /\ \A q \in Runner \ {r} : run'[q] = run[q]
  BY <1>1, SettledRun DEF Seats, Rows
<1> QED
  BY <1>2, <1>3 DEF TodoIsNamed, HasTodo

\* One candidate of a list may be described anew.
LEMMA ProfiledAreCandidates ==
  ASSUME NEW todo, AreCandidates(todo), todo # <<>>, NEW cand,
         cand = todo[1] \/ \E p : cand = ProfileCandidate(todo[1], p)
  PROVE  AreCandidates([todo EXCEPT ![1] = cand]) /\ [todo EXCEPT ![1] = cand] # <<>>
<1>1. PICK first : first = todo[1] /\ IsCandidate(first)
  BY FirstOfList DEF AreCandidates
<1>2. IsCandidate(cand)
  <2>1. CASE cand = first
    BY <1>1, <2>1
  <2>2. CASE \E p : cand = ProfileCandidate(first, p)
    <3>1. PICK a, b, c : cand = [first EXCEPT !.confidence = a, !.traits = b, !.relations = c]
      BY <2>2, Zenon DEF ProfileCandidate
    <3>2. /\ DOMAIN cand = DOMAIN first
          /\ "name" \in DOMAIN first => cand.name = first.name
          /\ "aliases" \in DOMAIN first => cand.aliases = first.aliases
          /\ "generated" \in DOMAIN first => cand.generated = first.generated
      BY <3>1
    <3> QED
      BY <1>1, <3>2 DEF IsCandidate
  <2> QED
    BY <1>1, <2>1, <2>2
<1>3. PICK new : new = [todo EXCEPT ![1] = cand]
  OBVIOUS
<1>4. DOMAIN todo = 1..Len(todo) /\ Len(todo) \in Nat /\ Len(todo) # 0
  BY DEF IsList, AreCandidates
<1>5. new = [i \in 1..Len(todo) |-> new[i]]
  BY <1>3, <1>4
<1>6. IsList(new) /\ Len(new) = Len(todo)
  BY <1>4, <1>5, ListOf
<1>7. \A i \in DOMAIN new : IsCandidate(new[i])
  BY <1>2, <1>3 DEF AreCandidates
<1>8. new # <<>>
  BY <1>4, <1>6
<1> QED
  BY <1>3, <1>6, <1>7, <1>8 DEF AreCandidates

LEMMA NamedStep ==
  ASSUME Seats, TodoIsNamed, FoundAreNamed, CastNext
  PROVE  TodoIsNamed'
<1>0. Runs
  BY DEF Seats, Rows
<1>1. CASE AutoNext \/ UserNext
  <2>1. run' = run
    BY <1>1, RunUntouched
  <2> QED
    BY <2>1 DEF TodoIsNamed, HasTodo
<1>2. CASE DiscoverNext
  <2> SUFFICES ASSUME NEW r \in Runner,
                      \/ \E kind \in Kinds : Discover(r, kind)
                      \/ ReadIndex(r) \/ Decide(r) \/ ApplyMerge(r) \/ WriteObservations(r) \/ ApplyNew(r) \/ ApplyIssue(r)
               PROVE  TodoIsNamed'
    BY <1>2 DEF DiscoverNext
  <2>1. HasTodo(r)
    BY DEF TodoIsNamed
  <2>2. ASSUME \A q \in Runner \ {r} : run'[q] = run[q], HasTodo(r)' PROVE TodoIsNamed'
    BY <2>2 DEF TodoIsNamed, HasTodo
  <2>3. ASSUME NEW kind \in Kinds, Discover(r, kind) PROVE TodoIsNamed'
    <3>1. /\ \A q \in Runner \ {r} : run'[q] = run[q]
          /\ run'[r].todo \in Found(kind) /\ run'[r].at = IF run'[r].todo = <<>> THEN "done" ELSE "index"
      BY <1>0, <2>3, FoundRun
    <3>2. HasTodo(r)'
      BY <3>1 DEF FoundAreNamed, HasTodo
    <3> QED
      BY <2>2, <3>1, <3>2
  <2>4. CASE ReadIndex(r)
    <3>1. /\ \A q \in Runner \ {r} : run'[q] = run[q]
          /\ run'[r].todo = run[r].todo /\ run[r].at = "index"
      BY <1>0, <2>4, ReadRun
    <3>2. HasTodo(r)'
      BY <2>1, <3>1 DEF HasTodo
    <3> QED
      BY <2>2, <3>1, <3>2
  <2>5. CASE Decide(r)
    <3>0. /\ \A q \in Runner \ {r} : run'[q] = run[q]
          /\ run[r].at = "decide"
          /\ \E cand : /\ run'[r].todo = [run[r].todo EXCEPT ![1] = cand]
                       /\ cand = run[r].todo[1] \/ \E p : cand = ProfileCandidate(run[r].todo[1], p)
      BY <1>0, <2>5, DecideRun, Zenon
    <3>1. PICK todo, cand : /\ todo = run[r].todo /\ run'[r].todo = [todo EXCEPT ![1] = cand]
                            /\ cand = todo[1] \/ \E p : cand = ProfileCandidate(todo[1], p)
      BY <3>0, Zenon
    <3>2. AreCandidates(run'[r].todo) /\ run'[r].todo # <<>>
      <4>1. AreCandidates(todo) /\ todo # <<>>
        BY <2>1, <3>0, <3>1 DEF HasTodo
      <4> QED
        <5>1. AreCandidates([todo EXCEPT ![1] = cand]) /\ [todo EXCEPT ![1] = cand] # <<>>
          BY <3>1, <4>1, ProfiledAreCandidates
        <5> QED
          BY <3>1, <5>1
    <3>3. HasTodo(r)'
      BY <3>2 DEF HasTodo
    <3> QED
      BY <2>2, <3>0, <3>3
  <2>6. CASE ApplyMerge(r)
    <3>1. /\ \A q \in Runner \ {r} : run'[q] = run[q]
          /\ run'[r].todo = run[r].todo /\ run[r].at = "apply"
      BY <1>0, <2>6, MergeRun
    <3>2. HasTodo(r)'
      BY <2>1, <3>1 DEF HasTodo
    <3> QED
      BY <2>2, <3>1, <3>2
  <2>7. CASE WriteObservations(r) \/ ApplyNew(r) \/ ApplyIssue(r)
    <3>1. run[r].todo # <<>>
      BY <2>1, <2>7 DEF WriteObservations, ApplyNew, ApplyIssue, HasTodo
    <3>2. \E how, row : Settled(r, how, row)
      BY <2>7, Zenon DEF WriteObservations, ApplyNew, ApplyIssue
    <3> QED
      BY <3>1, <3>2, SettledNamed
  <2> QED
    BY <2>3, <2>4, <2>5, <2>6, <2>7
<1> QED
  BY <1>1, <1>2 DEF CastNext

\* Everybody any discovery has read of is afterwards somebody's name, a finding
\* or was taken for a locked character, however many discoveries overlap and
\* whatever people rename, merge and split in the meantime; a name goes only
\* when people take it from a character, or when it was written to a row between
\* a discovery's reading of that row and its writing.  What is assumed is that
\* the grouping comes up with candidates that have a name (_apply_candidate,
\* _merge_character_observations, update_character).
THEOREM NobodyLost == CastSpec /\ []FoundAreNamed => []NobodyIsLost
<1>1. CastInit => Seats /\ Known /\ TodoIsNamed
  <2>1. CastInit => TodoIsNamed
    BY ShortLists DEF CastInit, NoRun, TodoIsNamed, HasTodo, AreCandidates
  <2> QED
    BY <2>1, SeatsInit, KnownInit
<1>2. Seats /\ Known /\ TodoIsNamed /\ FoundAreNamed /\ [CastNext]_castVars => (Seats /\ Known /\ TodoIsNamed)'
  <2> SUFFICES ASSUME Seats, Known, TodoIsNamed, FoundAreNamed, [CastNext]_castVars
               PROVE  (Seats /\ Known /\ TodoIsNamed)'
    OBVIOUS
  <2>1. CASE CastNext
    <3>1. Seats'
      BY <2>1, SeatsStep
    <3>2. TodoIsNamed'
      BY <2>1, NamedStep
    <3>3. Known'
      BY <2>1, FirstIsNamed, DiscoverKnown, AutoKnown, PeopleKnown DEF CastNext
    <3> QED
      BY <3>1, <3>2, <3>3
  <2>2. CASE UNCHANGED castVars
    <3>1. UNCHANGED <<cast, issues, run, struck, raced>>
      BY <2>2 DEF castVars, people
    <3>2. Seats'
      BY SeatsStep
    <3> QED
      BY <3>1, <3>2 DEF Known, CharactersAreWhole, IssuesAreWhole, RunsAreKnown, ReadIsKnown, PastIsKnown,
                        TodoIsNamed, HasTodo, Ids, Lasting, AllNames
  <2> QED
    BY <2>1, <2>2
<1>3. Seats /\ Known => NobodyIsLost
  BY DEF Known, RunsAreKnown, PastIsKnown, NobodyIsLost, Lasting, AllNames
<1> QED
  BY <1>1, <1>2, <1>3, PTL DEF CastSpec

-----------------------------------------------------------------------------
(* A casting nobody disturbs *)

\* What is locked has a voice, and 0 is no voice anybody may be given.
Voiced(row) == row.locked => row.voice # 0
LockedAreVoiced ==
  /\ 0 \notin profiles
  /\ \A c \in Ids : Voiced(desk[c])

\* The solver gives every active character that is not locked a voice.
PlansAreWhole ==
  auto.at = "plan" =>
    /\ IsList(Planned)
    /\ {Planned[i].id : i \in DOMAIN Planned} = Active \ auto.locked
    /\ \A i \in DOMAIN Planned : Planned[i].voice \in VoiceIds

\* What is left of a plan gives voices to characters that are not locked.
MayBeGiven(given) == given.voice # 0 /\ given.id \notin auto.locked
PlanIsGiven ==
  /\ DOMAIN auto = DOMAIN NoAuto
  /\ auto.at = "done" => auto.plan = <<>>
  /\ auto.at \in {"save", "assign"} =>
       /\ IsList(auto.plan) /\ auto.plan # <<>>
       /\ \A i \in DOMAIN auto.plan : MayBeGiven(auto.plan[i])

\* Undisturbed, the locked rows have the voices they had before the rows were
\* prepared, and whoever was there then has a voice or a turn to come; whoever
\* was locked then is locked or has lost the lock to an open decision.
KeptIsKnown ==
  /\ auto.locked \subseteq DOMAIN auto.kept /\ DOMAIN auto.kept \subseteq Ids
  /\ \A c \in DOMAIN auto.kept : auto.kept[c].locked => c \in auto.locked \cup auto.opened
LockedAreKept ==
  \A c \in auto.locked : desk[c].voice = auto.kept[c].voice /\ desk[c].locked /\ desk[c].voice # 0
HasTurn(c) == \E i \in DOMAIN auto.plan : auto.plan[i].id = c
AllHaveTurns == \A c \in DOMAIN auto.kept : cast[c].into = 0 => desk[c].voice # 0 \/ HasTurn(c)
CastingHolds ==
  auto.calm =>
    /\ auto.at \in {"plan", "save", "assign", "done"} => KeptIsKnown /\ LockedAreKept
    /\ auto.at \in {"save", "assign", "done"} => AllHaveTurns
\* A character's row says into whom it was merged.
Told(row) == "into" \in DOMAIN row
AllAreTold == \A c \in Ids : Told(cast[c])
CastingInv == LockedAreVoiced /\ PlanIsGiven /\ CastingHolds /\ AllAreTold

LEMMA CastingInit == CastInit => CastingInv
<1> SUFFICES ASSUME CastInit PROVE CastingInv
  OBVIOUS
<1>1. PICK v \in {0, Custom} \cup {w.id : w \in Catalogue} :
        /\ desk = [c \in Ids |-> IF c = 1 /\ v # 0 THEN [voice |-> v, locked |-> v = Custom, decided |-> v # Custom]
                                 ELSE NoRow]
        /\ profiles = {Custom, v} \ {0}
  BY DEF CastInit
<1>2. ASSUME NEW c \in Ids PROVE Voiced(desk[c])
  <2>1. CASE c = 1 /\ v # 0
    <3>1. desk[c] = [voice |-> v, locked |-> v = Custom, decided |-> v # Custom]
      BY <1>1, <2>1
    <3> QED
      BY <2>1, <3>1 DEF Voiced
  <2>2. CASE ~(c = 1 /\ v # 0)
    <3>1. desk[c] = NoRow
      BY <1>1, <2>2
    <3> QED
      BY <3>1 DEF Voiced, NoRow
  <2> QED
    BY <2>1, <2>2
<1>3. LockedAreVoiced
  BY <1>1, <1>2 DEF LockedAreVoiced
<1>4. PlanIsGiven /\ CastingHolds
  BY DEF CastInit, NoAuto, PlanIsGiven, CastingHolds
<1>5. AllAreTold
  BY CastAssumption DEF CastInit, AllAreTold, Told, IsCharacter, Typed, Ids
<1> QED
  BY <1>3, <1>4, <1>5 DEF CastingInv

\* A new character is nobody's and disturbs nobody's place.
LEMMA AddedPlace ==
  ASSUME NEW row, Seats, Added(row)
  PROVE  /\ Ids \subseteq Ids'
         /\ \A c \in Ids : desk'[c] = desk[c] /\ cast'[c] = cast[c]
         /\ \A c \in Ids' : c \in Ids \/ desk'[c] = NoRow
<1>1. PICK new : cast' = Append(cast, new)
  BY DEF Added
<1>2. IsList(cast) /\ IsList(desk) /\ Len(desk) = Len(cast) /\ desk' = Append(desk, NoRow)
  BY DEF Seats, Rows, Added
<1>3. DOMAIN desk = Ids /\ Ids' = Ids \cup {Len(cast) + 1}
  BY <1>1, <1>2, ListFacts DEF Ids
<1>4. desk'[Len(cast) + 1] = NoRow
  BY <1>2, ListFacts
<1>5. \A c \in Ids : desk'[c] = desk[c] /\ cast'[c] = cast[c]
  BY <1>1, <1>2, <1>3, ListFacts DEF Ids
<1> QED
  BY <1>3, <1>4, <1>5

\* What discovery writes leaves a character its fate.
LEMMA WrittenPlaces ==
  ASSUME NEW r \in Runner, WriteObservations(r)
  PROVE  /\ Ids' = Ids
         /\ \A c \in Ids : DOMAIN cast'[c] = DOMAIN cast[c] /\ (Told(cast[c]) => cast'[c].into = cast[c].into)
<1>1. PICK t, read : t = run[r].row /\ read = CHOOSE c \in run[r].index : c.id = run[r].row
  OBVIOUS
<1>2. PICK new : new = Observed(read, run[r].todo[1], <<>>)
  OBVIOUS
<1>3. PICK old : old = cast[t]
  OBVIOUS
<1>4. PICK row : row = [old EXCEPT !.aliases = new.aliases, !.traits = new.traits,
                                   !.relations = new.relations, !.confidence = new.confidence]
  OBVIOUS
<1>5. DOMAIN row = DOMAIN old /\ ("into" \in DOMAIN old => row.into = old.into)
  BY <1>4
<1>6. cast' = cast \/ cast' = [cast EXCEPT ![t] = row]
  BY <1>1, <1>2, <1>3, <1>4 DEF WriteObservations
<1> QED
  BY <1>3, <1>5, <1>6 DEF Ids, Told

\* Every row keeps saying into whom it was merged.
LEMMA AddedTold ==
  ASSUME NEW row, Seats, AllAreTold, Added(row), Told(row)
  PROVE  AllAreTold'
<1>1. PICK new : new = [row EXCEPT !.id = Len(cast) + 1]
  OBVIOUS
<1>2. cast' = Append(cast, new) /\ Told(new)
  BY <1>1 DEF Added, Told
<1>3. IsList(cast) /\ Ids = 1..Len(cast)
  BY ListFacts DEF Seats, Rows, Ids
<1>4. Ids' = Ids \cup {Len(cast) + 1} /\ cast'[Len(cast) + 1] = new /\ \A c \in Ids : cast'[c] = cast[c]
  BY <1>2, <1>3, ListFacts DEF Ids
<1> QED
  BY <1>2, <1>4 DEF AllAreTold

LEMMA MergedTold ==
  ASSUME NEW rows, NEW seats, NEW t, NEW s, Merged(rows, seats, t, s), \A c \in DOMAIN rows : Told(rows[c])
  PROVE  AllAreTold'
<1>1. DOMAIN cast' = DOMAIN rows
  BY DEF Merged
<1>2. PICK a, b, d : cast' = [rows EXCEPT ![t].aliases = a, ![t].traits = b, ![t].relations = d,
                                          ![s].into = t, ![s].locked = TRUE]
  BY Zenon DEF Merged
<1>3. \A c \in DOMAIN rows : DOMAIN cast'[c] = DOMAIN rows[c]
  BY <1>2
<1> QED
  BY <1>1, <1>3 DEF AllAreTold, Told, Ids

LEMMA ToldStep ==
  ASSUME Seats, AllAreTold, CastNext
  PROVE  AllAreTold'
<1>0. IsList(cast) /\ Ids = 1..Len(cast) /\ Len(cast) \in Nat
  BY ListFacts DEF Seats, Rows, Ids
<1>1. CASE cast' = cast
  BY <1>1 DEF AllAreTold, Ids
<1>2. ASSUME NEW row, Added(row), Told(row) PROVE AllAreTold'
  BY <1>2, AddedTold
<1>3. ASSUME NEW cand, NEW a, NEW b,
             Added(CharacterOf(cand, <<>>)) \/ Added([CharacterOf(cand, <<>>) EXCEPT !.confidence = a])
             \/ Added([CharacterOf(cand, <<>>) EXCEPT !.aliases = a])
             \/ Added(Typed(a)) \/ Added([Typed(a) EXCEPT !.segment = b, !.confidence = cand])
      PROVE  AllAreTold'
  BY <1>2, <1>3 DEF CharacterOf, Typed, Told
<1>4. CASE DiscoverNext
  <2> SUFFICES ASSUME NEW r \in Runner,
                      \/ \E kind \in Kinds : Discover(r, kind)
                      \/ ReadIndex(r) \/ Decide(r) \/ ApplyMerge(r) \/ WriteObservations(r) \/ ApplyNew(r) \/ ApplyIssue(r)
               PROVE  AllAreTold'
    BY <1>4 DEF DiscoverNext
  <2>1. CASE WriteObservations(r)
    BY <2>1, WrittenPlaces DEF AllAreTold, Told
  <2>2. CASE ApplyNew(r)
    BY <2>2, <1>3, Zenon DEF ApplyNew
  <2>3. CASE (\E kind \in Kinds : Discover(r, kind)) \/ ReadIndex(r) \/ Decide(r) \/ ApplyMerge(r) \/ ApplyIssue(r)
    BY <2>3, <1>1, Zenon DEF Discover, ReadIndex, Decide, ApplyMerge, ApplyIssue, people
  <2> QED
    BY <2>1, <2>2, <2>3
<1>5. CASE AutoNext
  BY <1>1, <1>5, Zenon DEF AutoNext, BeginAuto, PrepareAuto, PlanAuto, SaveDecision, AutoAssign, people
<1>6. CASE UserNext
  <2>1. CASE \/ \E c \in Ids, n \in NewNames : RejectMerge(c, n)
             \/ \E c \in Ids, v \in VoiceIds \cup {0} : GiveVoice(c, v)
             \/ \E c \in Ids, v \in VoiceIds, hold, reuse \in BOOLEAN : AssignVoice(c, v, hold, reuse)
             \/ \E v \in VoiceIds : SetNarrator(v) \/ DeleteVoice(v)
    BY <2>1, <1>1, Zenon DEF RejectMerge, GiveVoice, AssignVoice, SetNarrator, DeleteVoice, people
  <2>2. CASE \E n \in NewNames : CreateCharacter(n)
    BY <2>2, <1>3, Zenon DEF CreateCharacter
  <2>3. CASE \E c \in Ids, n \in NewNames : Split(c, n)
    BY <2>3, <1>3, Zenon DEF Split
  <2>4. ASSUME NEW c \in Ids, NEW n, NEW canonical, NEW aliases, NEW hold, UpdateCharacter(c, n, canonical, aliases, hold)
        PROVE  AllAreTold'
    <3>1. PICK old, a : /\ old = cast[c]
                        /\ cast' = [cast EXCEPT ![c] = [old EXCEPT !.name = n, !.canonical = canonical, !.aliases = a,
                                                                   !.locked = hold]]
      BY <2>4 DEF UpdateCharacter
    <3>2. Ids' = Ids /\ \A x \in Ids : DOMAIN cast'[x] = DOMAIN cast[x]
      BY <3>1 DEF Ids
    <3> QED
      BY <3>2 DEF AllAreTold, Told
  <2>5. CASE \E c \in Ids, t \in Ids : Merge(t, c)
    BY <2>5, MergedTold DEF Merge, AllAreTold, Ids
  <2>6. ASSUME NEW i \in issues, ApplyConfirmCast(i) PROVE AllAreTold'
    BY <2>6, <1>1, <1>3, Zenon DEF ApplyConfirmCast
  <2>7. ASSUME NEW i \in issues, NEW t \in Ids, ApplyMergeCast(i, t) PROVE AllAreTold'
    <3>1. CASE ByName(i.name) # 0
      BY <2>7, <3>1, MergedTold DEF ApplyMergeCast, AllAreTold, Ids
    <3>2. CASE ByName(i.name) = 0
      <4>1. PICK row : /\ row = [CharacterOf(i.cand, <<>>) EXCEPT !.id = Len(cast) + 1]
                       /\ Merged(Append(cast, row), Append(desk, NoRow), t, Len(cast) + 1)
        BY <2>7, <3>2, Zenon DEF ApplyMergeCast
      <4>2. Told(row)
        BY <4>1 DEF CharacterOf, Told
      <4>3. \A c \in DOMAIN Append(cast, row) : Told(Append(cast, row)[c])
        BY <1>0, <4>2, ListFacts DEF AllAreTold, Ids
      <4> QED
        BY <4>1, <4>3, MergedTold
    <3> QED
      BY <3>1, <3>2
  <2> QED
    BY <1>6, <2>1, <2>2, <2>3, <2>4, <2>5, <2>6, <2>7, Zenon DEF UserNext
<1> QED
  BY <1>4, <1>5, <1>6 DEF CastNext

\* Discovery adds characters and leaves the places there are as they are.
LEMMA DiscoverPlaces ==
  ASSUME Seats, AllAreTold, DiscoverNext
  PROVE  /\ UNCHANGED <<auto, profiles>>
         /\ Ids \subseteq Ids'
         /\ \A c \in Ids : desk'[c] = desk[c] /\ cast'[c].into = cast[c].into
         /\ \A c \in Ids' : c \in Ids \/ desk'[c] = NoRow
<1> SUFFICES ASSUME NEW r \in Runner,
                    \/ \E kind \in Kinds : Discover(r, kind)
                    \/ ReadIndex(r) \/ Decide(r) \/ ApplyMerge(r) \/ WriteObservations(r) \/ ApplyNew(r) \/ ApplyIssue(r)
             PROVE  /\ UNCHANGED <<auto, profiles>>
                    /\ Ids \subseteq Ids'
                    /\ \A c \in Ids : desk'[c] = desk[c] /\ cast'[c].into = cast[c].into
                    /\ \A c \in Ids' : c \in Ids \/ desk'[c] = NoRow
  BY DEF DiscoverNext
<1>1. CASE (\E kind \in Kinds : Discover(r, kind)) \/ ReadIndex(r) \/ Decide(r) \/ ApplyMerge(r) \/ ApplyIssue(r)
  <2>1. UNCHANGED <<auto, profiles, cast, desk>>
    BY <1>1, Zenon DEF Discover, ReadIndex, Decide, ApplyMerge, ApplyIssue, people, booth
  <2> QED
    BY <2>1 DEF Ids
<1>2. CASE WriteObservations(r)
  <2>1. UNCHANGED <<auto, profiles, desk>>
    BY <1>2, Zenon DEF WriteObservations, booth
  <2> QED
    BY <1>2, <2>1, WrittenPlaces DEF AllAreTold
<1>3. CASE ApplyNew(r)
  <2>1. UNCHANGED <<auto, profiles>> /\ \E row : Added(row)
    BY <1>3, Zenon DEF ApplyNew
  <2> QED
    BY <2>1, AddedPlace
<1> QED
  BY <1>1, <1>2, <1>3

LEMMA DiscoverCasting ==
  ASSUME Seats, CastingInv, DiscoverNext
  PROVE  CastingInv'
<1>1. /\ UNCHANGED <<auto, profiles>>
      /\ Ids \subseteq Ids'
      /\ \A c \in Ids : desk'[c] = desk[c] /\ cast'[c].into = cast[c].into
      /\ \A c \in Ids' : c \in Ids \/ desk'[c] = NoRow
  BY DiscoverPlaces DEF CastingInv
<1>2. Voiced(NoRow)
  BY DEF Voiced, NoRow
<1>3. LockedAreVoiced'
  BY <1>1, <1>2 DEF CastingInv, LockedAreVoiced
<1>4. PlanIsGiven'
  BY <1>1 DEF CastingInv, PlanIsGiven, MayBeGiven
<1>5. KeptIsKnown => KeptIsKnown'
  BY <1>1 DEF KeptIsKnown
<1>6. KeptIsKnown /\ LockedAreKept => LockedAreKept'
  BY <1>1 DEF KeptIsKnown, LockedAreKept
<1>7. KeptIsKnown /\ AllHaveTurns => AllHaveTurns'
  BY <1>1 DEF KeptIsKnown, AllHaveTurns, HasTurn
<1>8. CastingHolds'
  BY <1>1, <1>5, <1>6, <1>7 DEF CastingInv, CastingHolds
<1> QED
  BY <1>3, <1>4, <1>8, ToldStep DEF CastingInv, CastNext

\* Looking a row up links it to a decision or locks it; its voice stays.
LEMMA LinkedIs ==
  ASSUME NEW c, Voiced(desk[c]), DOMAIN desk[c] = DOMAIN NoRow
  PROVE  Linked(c).voice = desk[c].voice /\ Voiced(Linked(c))
<1>1. PICK row : row = desk[c] /\ DOMAIN row = {"voice", "locked", "decided"}
  BY DEF NoRow
<1>2. CASE row.voice = 0 \/ row.decided
  BY <1>1, <1>2 DEF Linked
<1>3. CASE ~(row.voice = 0 \/ row.decided)
  <2>1. PICK a, b : Linked(c) = [row EXCEPT !.decided = a, !.locked = b] \/ Linked(c) = [row EXCEPT !.locked = b]
    BY <1>1, <1>3, Zenon DEF Linked
  <2>2. Linked(c).voice = row.voice
    BY <1>1, <2>1
  <2> QED
    BY <1>1, <1>3, <2>2 DEF Voiced
<1> QED
  BY <1>1, <1>2, <1>3

LEMMA BeginCasting ==
  ASSUME CastingInv, BeginAuto
  PROVE  CastingInv'
<1>1. UNCHANGED <<cast, desk>>
  BY Zenon DEF BeginAuto, people
<1>2. profiles' = profiles \/ profiles' = profiles \cup {Voices!Narrator(Voices!Eligible(Catalogue), "plain").id}
  BY Zenon DEF BeginAuto
<1>3. Voices!Narrator(Voices!Eligible(Catalogue), "plain").id # 0
  BY CastAssumption DEF VoiceIds
<1>4. LockedAreVoiced'
  BY <1>1, <1>2, <1>3 DEF CastingInv, LockedAreVoiced, Ids
<1>5. PICK n : auto' = [NoAuto EXCEPT !.at = IF Speakable THEN "prepare" ELSE "failed", !.calm = TRUE, !.narrator = n]
  BY Zenon DEF BeginAuto
<1>6. DOMAIN auto' = DOMAIN NoAuto /\ auto'.at \in {"prepare", "failed"}
  BY <1>5 DEF NoAuto
<1>7. PlanIsGiven' /\ CastingHolds'
  BY <1>6 DEF PlanIsGiven, CastingHolds
<1> QED
  BY <1>1, <1>4, <1>7 DEF CastingInv, AllAreTold, Ids

LEMMA PrepareCasting ==
  ASSUME Seats, CastingInv, PrepareAuto
  PROVE  CastingInv'
<1>1. UNCHANGED <<cast, profiles>> /\ desk' = [c \in Ids |-> Linked(c)] /\ Ids' = Ids
  BY Zenon DEF PrepareAuto, people, Ids
<1>2. \A c \in Ids : Voiced(desk'[c])
  BY <1>1, LinkedIs DEF CastingInv, LockedAreVoiced, Seats, Rows
<1>3. LockedAreVoiced'
  BY <1>1, <1>2 DEF CastingInv, LockedAreVoiced
<1>4. PICK opened : /\ opened = {c \in Ids : LosesLock(c)} /\ DOMAIN auto = DOMAIN NoAuto
                    /\ auto' = [auto EXCEPT !.at = "plan", !.locked = LockedIn(desk'), !.kept = desk, !.opened = opened]
  BY Zenon DEF PrepareAuto, CastingInv, PlanIsGiven
<1>5. /\ DOMAIN auto' = DOMAIN NoAuto /\ auto'.opened = opened
      /\ auto'.at = "plan" /\ auto'.locked = LockedIn(desk') /\ auto'.kept = desk
  BY <1>4 DEF NoAuto
<1>6. PlanIsGiven'
  BY <1>5 DEF PlanIsGiven
<1>7. LockedIn(desk') \subseteq Ids
      /\ \A c \in Ids : c \in LockedIn(desk') <=> desk'[c].voice # 0 /\ desk'[c].locked
  BY <1>1 DEF LockedIn
<1>10. DOMAIN desk = Ids
  BY ListFacts DEF Seats, Rows, Ids
<1>11. ASSUME NEW c \in Ids, desk[c].locked, c \notin opened PROVE desk'[c].locked
  <2>1. desk'[c] = Linked(c) /\ DOMAIN desk[c] = DOMAIN NoRow
    BY <1>1 DEF Seats, Rows
  <2>2. desk[c].voice = 0 \/ desk[c].decided \/ live[c] = "none" \/ live[c] = "locked"
    BY <1>4, <1>11, Zenon DEF LosesLock
  <2>3. PICK row : row = desk[c] /\ DOMAIN row = {"voice", "locked", "decided"}
    BY <2>1 DEF NoRow
  <2>4. PICK hold : /\ hold
                    /\ \/ Linked(c) = row
                       \/ Linked(c) = [row EXCEPT !.decided = TRUE, !.locked = hold]
                       \/ Linked(c) = [row EXCEPT !.locked = hold]
    <3>1. CASE live[c] = "none"
      BY <2>3, <3>1, Zenon DEF Linked
    <3>2. CASE live[c] # "none"
      BY <2>2, <2>3, <3>2, Zenon DEF Linked
    <3> QED
      BY <3>1, <3>2
  <2> QED
    BY <1>11, <2>1, <2>3, <2>4
<1>12. ASSUME NEW c \in Ids PROVE desk'[c].voice = desk[c].voice /\ (desk[c].locked => desk[c].voice # 0)
  BY <1>1, LinkedIs DEF CastingInv, LockedAreVoiced, Voiced, Seats, Rows
<1>8. KeptIsKnown' /\ LockedAreKept'
  <2>1. KeptIsKnown'
    BY <1>1, <1>5, <1>7, <1>10, <1>11, <1>12 DEF KeptIsKnown
  <2>2. LockedAreKept'
    BY <1>5, <1>7, <1>12 DEF LockedAreKept
  <2> QED
    BY <2>1, <2>2
<1>9. CastingHolds'
  BY <1>5, <1>8 DEF CastingHolds
<1> QED
  BY <1>1, <1>3, <1>6, <1>9 DEF CastingInv, AllAreTold

\* A voice that is given is one of the catalogue or the one outside it.
LEMMA PlanCasting ==
  ASSUME Seats, CastingInv, PlansAreWhole, PlanAuto
  PROVE  CastingInv'
<1>1. UNCHANGED <<cast, desk, profiles>> /\ Ids' = Ids
  BY Zenon DEF PlanAuto, people, booth, Ids
<1>2. LockedAreVoiced'
  BY <1>1 DEF CastingInv, LockedAreVoiced
<1>3. PICK plan : plan = Planned
  OBVIOUS
<1>4. /\ IsList(plan)
      /\ {plan[i].id : i \in DOMAIN plan} = Active \ auto.locked
      /\ \A i \in DOMAIN plan : plan[i].voice # 0
  BY <1>3, CastAssumption DEF PlansAreWhole, PlanAuto
<1>5. auto' = [auto EXCEPT !.plan = plan, !.at = IF plan = <<>> THEN "done" ELSE "save"] /\ DOMAIN auto = DOMAIN NoAuto
      /\ auto.at = "plan"
  BY <1>3, Zenon DEF PlanAuto, CastingInv, PlanIsGiven
<1>6. /\ DOMAIN auto' = DOMAIN NoAuto
      /\ auto'.plan = plan /\ auto'.at = IF plan = <<>> THEN "done" ELSE "save"
      /\ auto'.locked = auto.locked /\ auto'.kept = auto.kept /\ auto'.opened = auto.opened /\ auto'.calm = auto.calm
  BY <1>5 DEF NoAuto
<1>7. PlanIsGiven'
  BY <1>4, <1>6 DEF PlanIsGiven, MayBeGiven
<1>8. KeptIsKnown => KeptIsKnown'
  BY <1>1, <1>6 DEF KeptIsKnown
<1>9. LockedAreKept => LockedAreKept'
  BY <1>1, <1>6 DEF LockedAreKept
<1>10. KeptIsKnown /\ LockedAreKept => AllHaveTurns'
  <2> SUFFICES ASSUME KeptIsKnown, LockedAreKept, NEW c \in DOMAIN auto.kept, cast[c].into = 0, c \notin auto.locked
               PROVE  \E i \in DOMAIN plan : plan[i].id = c
    BY <1>1, <1>6 DEF AllHaveTurns, HasTurn, LockedAreKept
  <2>1. c \in Active
    BY DEF KeptIsKnown, Active
  <2> QED
    BY <1>4, <2>1
<1>11. CastingHolds'
  BY <1>5, <1>6, <1>8, <1>9, <1>10 DEF CastingInv, CastingHolds
<1> QED
  BY <1>1, <1>2, <1>7, <1>11 DEF CastingInv, AllAreTold

LEMMA SaveCasting ==
  ASSUME CastingInv, SaveDecision
  PROVE  CastingInv'
<1>1. UNCHANGED <<cast, desk>> /\ Ids' = Ids /\ auto.at = "save" /\ auto' = [auto EXCEPT !.at = "assign"]
  BY Zenon DEF SaveDecision, people, Ids
<1>2. profiles' = profiles \/ profiles' = profiles \cup {auto.plan[1].voice}
  BY Zenon DEF SaveDecision
<1>3. auto.plan[1].voice # 0
  <2>1. 1 \in DOMAIN auto.plan
    BY <1>1 DEF CastingInv, PlanIsGiven, IsList
  <2> QED
    BY <1>1, <2>1 DEF CastingInv, PlanIsGiven, MayBeGiven
<1>4. LockedAreVoiced'
  BY <1>1, <1>2, <1>3 DEF CastingInv, LockedAreVoiced
<1>5. DOMAIN auto' = DOMAIN NoAuto /\ auto'.at = "assign" /\ auto'.plan = auto.plan /\ auto'.locked = auto.locked
      /\ auto'.kept = auto.kept /\ auto'.opened = auto.opened /\ auto'.calm = auto.calm
  BY <1>1 DEF CastingInv, PlanIsGiven, NoAuto
<1>6. PlanIsGiven'
  BY <1>1, <1>5 DEF CastingInv, PlanIsGiven, MayBeGiven
<1>7. CastingHolds'
  BY <1>1, <1>5 DEF CastingInv, CastingHolds, KeptIsKnown, LockedAreKept, AllHaveTurns, HasTurn
<1> QED
  BY <1>1, <1>4, <1>6, <1>7 DEF CastingInv, AllAreTold

\* Whose turn it was has a voice, and the turns of the others are to come.
LEMMA AssignCasting ==
  ASSUME Seats, CastingInv, AutoAssign
  PROVE  CastingInv'
<1>1. UNCHANGED <<cast, profiles>> /\ Ids' = Ids /\ auto.at = "assign"
  BY Zenon DEF AutoAssign, people, Ids
<1>2. IsList(auto.plan) /\ auto.plan # <<>> /\ DOMAIN auto = DOMAIN NoAuto
      /\ \A i \in DOMAIN auto.plan : MayBeGiven(auto.plan[i])
  BY <1>1 DEF CastingInv, PlanIsGiven
<1>3. PICK plan, rest : plan = auto.plan /\ rest = Tail(plan)
  OBVIOUS
<1>4. /\ DOMAIN plan = 1..Len(plan) /\ Len(plan) \in Nat /\ 1 \in DOMAIN plan
      /\ DOMAIN rest = 1..(Len(plan) - 1)
      /\ \A i \in DOMAIN rest : i + 1 \in DOMAIN plan /\ rest[i] = plan[i + 1]
      /\ IsList(rest)
  BY <1>2, <1>3, RestOfList
<1>5. CASE plan[1].voice \notin profiles
  <2>1. desk' = desk /\ auto' = [auto EXCEPT !.at = "failed"]
    BY <1>3, <1>5 DEF AutoAssign
  <2>2. DOMAIN auto' = DOMAIN NoAuto /\ auto'.at = "failed"
    BY <1>2, <2>1 DEF NoAuto
  <2>3. PlanIsGiven' /\ CastingHolds' /\ LockedAreVoiced'
    BY <1>1, <2>1, <2>2 DEF CastingInv, PlanIsGiven, CastingHolds, LockedAreVoiced
  <2> QED
    BY <1>1, <2>3 DEF CastingInv, AllAreTold
<1>6. CASE plan[1].voice \in profiles
  <2>1. PICK next, row : next = plan[1].id /\ row = [voice |-> plan[1].voice, locked |-> FALSE, decided |-> TRUE]
    OBVIOUS
  <2>2. row.voice = plan[1].voice /\ ~row.locked /\ row.voice # 0
    BY <1>6, <2>1 DEF CastingInv, LockedAreVoiced
  <2>3. desk' = [desk EXCEPT ![next] = row]
    BY <1>3, <1>6, <2>1 DEF AutoAssign
  <2>4. auto' = [auto EXCEPT !.plan = rest, !.at = IF rest = <<>> THEN "done" ELSE "save"]
    BY <1>3, <1>6 DEF AutoAssign
  <2>5. /\ DOMAIN auto' = DOMAIN NoAuto
        /\ auto'.plan = rest /\ auto'.at = IF rest = <<>> THEN "done" ELSE "save"
        /\ auto'.locked = auto.locked /\ auto'.kept = auto.kept /\ auto'.opened = auto.opened /\ auto'.calm = auto.calm
    BY <1>2, <2>4 DEF NoAuto
  <2>6. DOMAIN desk = Ids /\ \A c \in Ids : desk'[c] = IF c = next THEN row ELSE desk[c]
    <3>1. IsList(cast) /\ IsList(desk) /\ Len(desk) = Len(cast)
      BY DEF Seats, Rows
    <3>2. DOMAIN desk = Ids
      BY <3>1, ListFacts DEF Ids
    <3> QED
      BY <2>3, <3>2
  <2>7. LockedAreVoiced'
    <3>1. Voiced(row)
      BY <2>2 DEF Voiced
    <3> QED
      BY <1>1, <2>6, <3>1 DEF CastingInv, LockedAreVoiced
  <2>8. PlanIsGiven'
    <3>1. \A i \in DOMAIN rest : MayBeGiven(rest[i])'
      BY <1>2, <1>3, <1>4, <2>5 DEF MayBeGiven
    <3> QED
      BY <1>4, <2>5, <3>1 DEF PlanIsGiven
  <2>9. next \notin auto.locked
    BY <1>2, <1>3, <1>4, <2>1 DEF MayBeGiven
  <2>10. KeptIsKnown => KeptIsKnown'
    BY <1>1, <2>5 DEF KeptIsKnown
  <2>11. KeptIsKnown /\ LockedAreKept => LockedAreKept'
    BY <2>5, <2>6, <2>9 DEF KeptIsKnown, LockedAreKept
  <2>12. KeptIsKnown /\ AllHaveTurns => AllHaveTurns'
    <3> SUFFICES ASSUME KeptIsKnown, AllHaveTurns, NEW c \in DOMAIN auto.kept, cast[c].into = 0, desk'[c].voice = 0
                 PROVE  \E i \in DOMAIN rest : rest[i].id = c
      BY <1>1, <2>5 DEF AllHaveTurns, HasTurn
    <3>1. c \in Ids /\ c # next /\ desk'[c] = desk[c]
      BY <2>2, <2>6 DEF KeptIsKnown
    <3>2. PICK i \in DOMAIN plan : plan[i].id = c
      BY <1>3, <3>1 DEF AllHaveTurns, HasTurn
    <3>3. i # 1 /\ i - 1 \in DOMAIN rest /\ rest[i - 1] = plan[i]
      BY <1>4, <2>1, <3>1, <3>2
    <3> QED
      BY <3>2, <3>3
  <2>13. CastingHolds'
    BY <1>1, <2>5, <2>10, <2>11, <2>12 DEF CastingInv, CastingHolds
  <2> QED
    BY <1>1, <2>7, <2>8, <2>13 DEF CastingInv, AllAreTold
<1> QED
  BY <1>5, <1>6

LEMMA AutoCasting ==
  ASSUME Seats, CastingInv, PlansAreWhole, AutoNext
  PROVE  CastingInv'
BY BeginCasting, PrepareCasting, PlanCasting, SaveCasting, AssignCasting DEF AutoNext

\* Whoever acts disturbs the casting.
LEMMA ActCasting ==
  ASSUME CastingInv, NEW what, Act(what), LockedAreVoiced', AllAreTold'
  PROVE  CastingInv'
<1>1. DOMAIN auto = DOMAIN NoAuto /\ auto' = [auto EXCEPT !.calm = FALSE]
  BY DEF Act, CastingInv, PlanIsGiven
<1>2. /\ DOMAIN auto' = DOMAIN NoAuto /\ ~auto'.calm
      /\ auto'.at = auto.at /\ auto'.plan = auto.plan /\ auto'.locked = auto.locked
  BY <1>1 DEF NoAuto
<1>3. PlanIsGiven' /\ CastingHolds'
  BY <1>2 DEF CastingInv, PlanIsGiven, MayBeGiven, CastingHolds
<1> QED
  BY <1>3 DEF CastingInv

LEMMA MergedVoiced ==
  ASSUME NEW rows, NEW seats, NEW t, NEW s, Merged(rows, seats, t, s),
         IsList(rows), IsList(seats), Len(seats) = Len(rows), t \in DOMAIN rows, s \in DOMAIN rows,
         \A c \in DOMAIN rows : Voiced(seats[c]), 0 \notin profiles, profiles' = profiles
  PROVE  LockedAreVoiced'
<1>1. DOMAIN rows = 1..Len(rows) /\ DOMAIN seats = 1..Len(rows) /\ Len(rows) \in Nat
  BY ListFacts
<1>2. desk' = [seats EXCEPT ![t] = IF @.voice = 0 THEN seats[s] ELSE @, ![s] = NoRow]
  BY DEF Merged
<1>3. \A c \in DOMAIN rows : desk'[c] \in {seats[c], seats[s], NoRow}
  BY <1>1, <1>2
<1>4. DOMAIN cast' = DOMAIN rows
  BY DEF Merged
<1>5. Voiced(NoRow)
  BY DEF Voiced, NoRow
<1> QED
  BY <1>3, <1>4, <1>5 DEF LockedAreVoiced, Ids

LEMMA AddedVoiced ==
  ASSUME NEW row, Seats, LockedAreVoiced, Added(row), profiles' = profiles
  PROVE  LockedAreVoiced'
<1>1. Voiced(NoRow)
  BY DEF Voiced, NoRow
<1> QED
  BY <1>1, AddedPlace DEF LockedAreVoiced

LEMMA PeopleCasting ==
  ASSUME Seats, CastingInv, UserNext
  PROVE  CastingInv'
<1>0. /\ IsList(cast) /\ IsList(desk) /\ Len(desk) = Len(cast) /\ DOMAIN desk = Ids /\ Ids = 1..Len(cast)
      /\ Len(cast) \in Nat /\ LockedAreVoiced
  <2>1. IsList(cast) /\ IsList(desk) /\ Len(desk) = Len(cast)
    BY DEF Seats, Rows
  <2> QED
    BY <2>1, ListFacts DEF Ids, CastingInv
<1>1. \E what : Act(what)
  BY Zenon DEF UserNext, CreateCharacter, UpdateCharacter, GiveVoice, AssignVoice, Merge, Split, RejectMerge,
               SetNarrator, DeleteVoice, ApplyConfirmCast, ApplyMergeCast
<1>2. SUFFICES LockedAreVoiced'
  BY <1>1, ActCasting, ToldStep DEF CastingInv, CastNext
<1>3. CASE \/ \E n \in NewNames : CreateCharacter(n)
           \/ \E c \in Ids, n \in NewNames : Split(c, n)
  <2>1. profiles' = profiles /\ \E row : Added(row)
    BY <1>3, Zenon DEF CreateCharacter, Split
  <2> QED
    BY <1>0, <2>1, AddedVoiced
<1>4. CASE \/ \E c \in Ids : \E n, canonical, aliases, hold : UpdateCharacter(c, n, canonical, aliases, hold)
           \/ \E c \in Ids, n \in NewNames : RejectMerge(c, n)
           \/ \E v \in VoiceIds : SetNarrator(v) \/ DeleteVoice(v)
  <2>1. desk' = desk /\ (cast' = cast \/ \E c, row : cast' = [cast EXCEPT ![c] = row])
    BY <1>4, Zenon DEF UpdateCharacter, RejectMerge, SetNarrator, DeleteVoice, people, booth
  <2>2. profiles' = profiles \/ \E v : profiles' = profiles \ {v}
    BY <1>4, Zenon DEF UpdateCharacter, RejectMerge, SetNarrator, DeleteVoice, booth
  <2>3. Ids' = Ids
    BY <2>1 DEF Ids
  <2> QED
    BY <1>0, <2>1, <2>2, <2>3 DEF LockedAreVoiced
<1>5. ASSUME NEW c \in Ids, NEW v,
             \/ GiveVoice(c, v)
             \/ \E hold, reuse \in BOOLEAN : AssignVoice(c, v, hold, reuse)
      PROVE  LockedAreVoiced'
  <2>1. UNCHANGED <<cast, profiles>>
    BY <1>5, Zenon DEF GiveVoice, AssignVoice, people
  <2>2. PICK row : desk' = [desk EXCEPT ![c] = row] /\ (row = NoRow \/ row.voice \in profiles)
    <3>1. PICK a, b : \/ desk' = [desk EXCEPT ![c] = NoRow]
                      \/ desk' = [desk EXCEPT ![c] = [voice |-> v, locked |-> a, decided |-> b]] /\ v \in profiles
      <4>1. CASE GiveVoice(c, v)
        BY <4>1 DEF GiveVoice
      <4>2. CASE \E hold, reuse \in BOOLEAN : AssignVoice(c, v, hold, reuse)
        BY <4>2, Zenon DEF AssignVoice
      <4> QED
        BY <1>5, <4>1, <4>2
    <3>2. PICK row : row = [voice |-> v, locked |-> a, decided |-> b]
      OBVIOUS
    <3>3. row.voice = v
      BY <3>2
    <3> QED
      BY <3>1, <3>2, <3>3
  <2>3. Voiced(row)
    BY <1>0, <2>2 DEF Voiced, NoRow, LockedAreVoiced
  <2>4. \A d \in Ids : Voiced(desk'[d])
    BY <1>0, <2>2, <2>3 DEF LockedAreVoiced
  <2> QED
    BY <1>0, <2>1, <2>4 DEF LockedAreVoiced, Ids
<1>6. ASSUME NEW c \in Ids, NEW t \in Ids, Merge(t, c) PROVE LockedAreVoiced'
  <2>1. Merged(cast, desk, t, c) /\ profiles' = profiles
    BY <1>6 DEF Merge
  <2> QED
    BY <1>0, <2>1, MergedVoiced DEF LockedAreVoiced, Ids
<1>7. ASSUME NEW i \in issues, ApplyConfirmCast(i) PROVE LockedAreVoiced'
  <2>1. profiles' = profiles /\ (UNCHANGED <<cast, desk>> \/ \E row : Added(row))
    BY <1>7, Zenon DEF ApplyConfirmCast
  <2>2. CASE UNCHANGED <<cast, desk>>
    BY <1>0, <2>1, <2>2 DEF LockedAreVoiced, Ids
  <2>3. CASE \E row : Added(row)
    BY <1>0, <2>1, <2>3, AddedVoiced
  <2> QED
    BY <2>1, <2>2, <2>3
<1>8. ASSUME NEW i \in issues, NEW t \in Ids, ApplyMergeCast(i, t) PROVE LockedAreVoiced'
  <2>0. profiles' = profiles
    BY <1>8 DEF ApplyMergeCast
  <2>1. CASE ByName(i.name) # 0
    <3>1. ByName(i.name) \in Ids
      BY <2>1, <1>0, ByNameIsSomebody
    <3>2. Merged(cast, desk, t, ByName(i.name))
      BY <1>8, <2>1 DEF ApplyMergeCast
    <3> QED
      BY <1>0, <2>0, <3>1, <3>2, MergedVoiced DEF LockedAreVoiced, Ids
  <2>2. CASE ByName(i.name) = 0
    <3>1. PICK row : Merged(Append(cast, row), Append(desk, NoRow), t, Len(cast) + 1)
      BY <1>8, <2>2 DEF ApplyMergeCast
    <3>2. IsList(Append(cast, row)) /\ IsList(Append(desk, NoRow)) /\ Len(Append(desk, NoRow)) = Len(Append(cast, row))
          /\ DOMAIN Append(cast, row) = Ids \cup {Len(cast) + 1}
      BY <1>0, ListFacts DEF Ids
    <3>3. Append(desk, NoRow)[Len(cast) + 1] = NoRow /\ \A c \in Ids : Append(desk, NoRow)[c] = desk[c]
      BY <1>0, ListFacts
    <3>4. Voiced(NoRow)
      BY DEF Voiced, NoRow
    <3>5. \A c \in DOMAIN Append(cast, row) : Voiced(Append(desk, NoRow)[c])
      BY <1>0, <3>2, <3>3, <3>4 DEF LockedAreVoiced
    <3>6. t \in DOMAIN Append(cast, row) /\ Len(cast) + 1 \in DOMAIN Append(cast, row)
      BY <3>2
    <3> QED
      BY <1>0, <2>0, <3>1, <3>2, <3>5, <3>6, MergedVoiced DEF LockedAreVoiced
  <2> QED
    BY <2>1, <2>2
<1> QED
  BY <1>3, <1>4, <1>5, <1>6, <1>7, <1>8 DEF UserNext

\* A casting that people leave alone ends with a voice for everybody who was in
\* the book when it prepared the rows and is nobody else's by now, and with the
\* locked voices as they were before, locked, but for those that were given by
\* hand after a decision that is still open; whatever discovery adds meanwhile,
\* as long as the solver leaves nobody out (auto_cast,
\* prepare_automatic_casting_assignments).
THEOREM EverybodyVoiced == CastSpec /\ []PlansAreWhole => []CastIsVoiced
<1>1. CastInit => Seats /\ CastingInv
  BY SeatsInit, CastingInit
<1>2. Seats /\ CastingInv /\ PlansAreWhole /\ [CastNext]_castVars => (Seats /\ CastingInv)'
  <2> SUFFICES ASSUME Seats, CastingInv, PlansAreWhole, [CastNext]_castVars
               PROVE  (Seats /\ CastingInv)'
    OBVIOUS
  <2>1. Seats'
    BY SeatsStep
  <2>2. CASE CastNext
    BY <2>1, <2>2, DiscoverCasting, AutoCasting, PeopleCasting DEF CastNext
  <2>3. CASE UNCHANGED castVars
    BY <2>1, <2>3 DEF castVars, people, booth, CastingInv, LockedAreVoiced, PlanIsGiven, MayBeGiven, CastingHolds,
                      KeptIsKnown, LockedAreKept, AllHaveTurns, HasTurn, AllAreTold, Ids
  <2> QED
    BY <2>2, <2>3
<1>3. Seats /\ CastingInv => CastIsVoiced
  <2> SUFFICES ASSUME CastingInv, auto.at = "done", auto.calm
               PROVE  /\ \A c \in Ids \cap DOMAIN auto.kept : cast[c].into = 0 => desk[c].voice # 0
                      /\ \A c \in DOMAIN auto.kept : (auto.kept[c].locked /\ c \notin auto.opened)
                                                     => desk[c].voice = auto.kept[c].voice /\ desk[c].locked
    BY DEF CastIsVoiced
  <2>1. KeptIsKnown /\ LockedAreKept /\ AllHaveTurns /\ auto.plan = <<>>
    BY DEF CastingInv, CastingHolds, PlanIsGiven
  <2>2. \A c : ~HasTurn(c)
    BY <2>1 DEF HasTurn
  <2>3. \A c \in DOMAIN auto.kept : cast[c].into = 0 => desk[c].voice # 0
    BY <2>1, <2>2 DEF AllHaveTurns
  <2>4. \A c \in DOMAIN auto.kept : (auto.kept[c].locked /\ c \notin auto.opened)
                                    => desk[c].voice = auto.kept[c].voice /\ desk[c].locked
    BY <2>1 DEF KeptIsKnown, LockedAreKept
  <2> QED
    BY <2>3, <2>4
<1> QED
  BY <1>1, <1>2, <1>3, PTL DEF CastSpec

=============================================================================

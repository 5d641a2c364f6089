--------------------------- MODULE OpCommitProofs ---------------------------
(***************************************************************************)
(* Proofs about OpCommit, for every number of connections, every delta     *)
(* algebra with InvertLaw, every history length, queue capacity and bound. *)
(***************************************************************************)
EXTENDS OpCommit, WellFoundedInduction, TLAPS

-----------------------------------------------------------------------------
(* ServerDoc: applying a change, and taking it back.                       *)

\* `apply` yields a well-formed document whose newest history entry is the
\* change with its inverse: trimming never drops the entry just pushed.
LEMMA ApplyResult ==
    ASSUME NEW d \in ServerDocs, NEW c \in Change,
           Valid(c, d.content), OtCompose(d.content, c) \in Doc
    PROVE  /\ Apply(d, c) \in ServerDocs
           /\ Apply(d, c).content = OtCompose(d.content, c)
           /\ Apply(d, c).revision = d.revision + 1
           /\ Apply(d, c).history # <<>>
           /\ Last(Apply(d, c).history).delta = c
           /\ Last(Apply(d, c).history).undo = OtInvert(c, d.content)
<1> DEFINE e == [revision |-> d.revision + 1, delta |-> c, undo |-> OtInvert(c, d.content)]
           h == Append(d.history, e)
<1>1. e \in Entry
  BY InvertLaw DEF ServerDocs, Entry
<1>2. h \in Seq(Entry) /\ Len(h) = Len(d.history) + 1 /\ h[Len(h)] = e
  BY <1>1 DEF ServerDocs
<1>3. /\ Trim(h) \in Seq(Entry)
      /\ Len(Trim(h)) >= 1
      /\ Trim(h)[Len(Trim(h))] = e
  <2> HIDE DEF h, e
  <2>1. CASE Len(h) > MaxHistory
    <3>1. Trim(h) = Tail(h) /\ Len(h) >= 2
      BY <2>1, <1>2, MaxHistoryAssumption DEF Trim, ServerDocs
    <3>2. Tail(h) \in Seq(Entry) /\ Len(Tail(h)) = Len(h) - 1
      BY <3>1, <1>2
    <3>3. Tail(h)[Len(h) - 1] = h[Len(h)]
      BY <3>1, <3>2, <1>2
    <3> QED BY <3>1, <3>2, <3>3, <1>2
  <2>2. CASE ~(Len(h) > MaxHistory)
    BY <2>2, <1>2 DEF Trim, ServerDocs
  <2> QED BY <2>1, <2>2
<1>4. Apply(d, c) = [content |-> OtCompose(d.content, c), revision |-> d.revision + 1,
                     history |-> Trim(h)]
  BY DEF Apply
<1>5. Trim(h) # <<>>
  BY <1>3
<1>6. Last(Trim(h)) = e
  BY <1>3 DEF Last
<1> QED
  <2> HIDE DEF h
  <2> QED BY <1>3, <1>4, <1>5, <1>6 DEF ServerDocs

\* Rolling back puts content and revision back by the newest entry's inverse.
LEMMA RollbackResult ==
    ASSUME NEW d \in ServerDocs, d.history # <<>>, d.revision >= 1,
           OtCompose(d.content, Last(d.history).undo) \in Doc
    PROVE  /\ RollbackLast(d) \in ServerDocs
           /\ RollbackLast(d).content = OtCompose(d.content, Last(d.history).undo)
           /\ RollbackLast(d).revision = d.revision - 1
<1>1. Front(d.history) \in Seq(Entry)
  BY DEF Front, ServerDocs
<1> QED BY <1>1 DEF RollbackLast, ServerDocs

\* The size check and a failed commit leave the document they started from.
LEMMA RollbackUndoesApply ==
    ASSUME NEW d \in ServerDocs, NEW c \in Change,
           Valid(c, d.content), OtCompose(d.content, c) \in Doc
    PROVE  /\ RollbackLast(Apply(d, c)) \in ServerDocs
           /\ RollbackLast(Apply(d, c)).content = d.content
           /\ RollbackLast(Apply(d, c)).revision = d.revision
<1>1. OtCompose(OtCompose(d.content, c), OtInvert(c, d.content)) = d.content
  BY InvertLaw DEF ServerDocs
<1>2. d.content \in Doc /\ d.revision \in Nat
  BY DEF ServerDocs
<1> QED BY <1>1, <1>2, ApplyResult, RollbackResult

-----------------------------------------------------------------------------
(* The inductive invariant.  Memory may differ from storage only while a   *)
(* call waits for its commit, and then by exactly the newest history entry *)
(* and its author; a published revision is already a row of the log.       *)

SameAsStored ==
    /\ doc.content = stored.content
    /\ doc.revision = stored.revision
    /\ writers = stored.writers

OneAhead ==
    /\ doc.revision = stored.revision + 1
    /\ doc.history # <<>>
    /\ doc.content = OtCompose(stored.content, Last(doc.history).delta)
    /\ Last(doc.history).delta \in Change
    /\ OtCompose(doc.content, Last(doc.history).undo) = stored.content
    /\ call.writers = stored.writers

CallInv ==
    /\ call = Idle => (doc # NotResident => SameAsStored)
    /\ call # Idle => doc # NotResident
    /\ call # Idle /\ call.stage \in {"lookup", "apply"} =>
          SameAsStored /\ WithinBounds(doc, call.since, call.delta)
    /\ call # Idle /\ call.stage = "commit" => OneAhead
    /\ call # Idle /\ call.stage = "publish" =>
          /\ SameAsStored
          /\ doc.revision \in DOMAIN ops
          /\ ops[doc.revision].op = call.op

StreamInv ==
    /\ (call = Idle \/ call.stage # "publish") =>
          \A c \in subs : position[c] = stored.revision
    /\ (call # Idle /\ call.stage = "publish") =>
          \A c \in subs : position[c] + 1 = stored.revision

IInv ==
    /\ TypeOK
    /\ LogHasNoHoles
    /\ SnapshotIsReplay
    /\ OpAppliedOnce
    /\ AckedIsDurable
    /\ CallInv
    /\ StreamInv

-----------------------------------------------------------------------------
(* Facts shared by the steps.                                              *)

\* A fan-out keeps the connection state well-typed and never adds a watcher.
LEMMA FanResult ==
    ASSUME TypeOK, NEW watchers \in SUBSET Conns, NEW count \in [Conns -> Nat],
           NEW self, Fan(watchers, count, self)
    PROVE  /\ subs' \subseteq watchers
           /\ \A c \in subs' : Fits(c, count[c])
           /\ queued' \in [Conns -> 0..Capacity]
           /\ status' \in [Conns -> Statuses]
<1> DEFINE overflow == {c \in watchers : ~Fits(c, count[c])}
<1>1. subs' \subseteq watchers /\ \A c \in subs' : Fits(c, count[c])
  BY DEF Fan
<1>2. queued' \in [Conns -> 0..Capacity]
  <2>1. queued' = [c \in Conns |->
          IF c \in overflow THEN Capacity
          ELSE IF c \in watchers THEN queued[c] + count[c] ELSE queued[c]]
    BY DEF Fan
  <2>2. ASSUME NEW c \in Conns
        PROVE  (IF c \in overflow THEN Capacity
                ELSE IF c \in watchers THEN queued[c] + count[c] ELSE queued[c]) \in 0..Capacity
    BY CapacityAssumption DEF TypeOK, Fits
  <2> QED BY <2>1, <2>2
<1>3. status' \in [Conns -> Statuses]
  <2>1. status' = [c \in Conns |->
          CASE c = self /\ (c \in overflow \/ status[c] = "killed") -> "closing"
            [] c \in overflow /\ c # self /\ status[c] = "open" -> "killed"
            [] OTHER -> status[c]]
    BY DEF Fan
  <2>2. ASSUME NEW c \in Conns
        PROVE  (CASE c = self /\ (c \in overflow \/ status[c] = "killed") -> "closing"
                  [] c \in overflow /\ c # self /\ status[c] = "open" -> "killed"
                  [] OTHER -> status[c]) \in Statuses
    <3> HIDE DEF overflow
    <3> QED BY DEF TypeOK, Statuses
  <2> QED BY <2>1, <2>2
<1> QED BY <1>1, <1>2, <1>3

\* What is resident after open_wave is what was resident, or the stored row.
LEMMA LoadedResult ==
    ASSUME IInv, call = Idle
    PROVE  /\ Loaded \in ServerDocs
           /\ Loaded # NotResident
           /\ Loaded.content = stored.content
           /\ Loaded.revision = stored.revision
           /\ LoadedWriters = stored.writers
<1>1. CASE doc = NotResident
  <2>1. FromSnapshot(stored.content, stored.revision) \in ServerDocs
    BY DEF IInv, TypeOK, FromSnapshot, ServerDocs
  <2> QED BY <1>1, <2>1, NotResidentAssumption DEF Loaded, LoadedWriters, FromSnapshot
<1>2. CASE doc # NotResident
  BY <1>2 DEF IInv, TypeOK, Loaded, LoadedWriters, CallInv, SameAsStored
<1> QED BY <1>1, <1>2

\* Whatever leaves the tables alone leaves their invariants alone.
LEMMA StorageKept ==
    ASSUME IInv, UNCHANGED storage
    PROVE  LogHasNoHoles' /\ SnapshotIsReplay' /\ OpAppliedOnce'
BY DEF IInv, storage, LogHasNoHoles, SnapshotIsReplay, OpAppliedOnce

\* An error reply ends the call and touches only the caller's queue.
LEMMA AnswerResult ==
    ASSUME TypeOK, call # Idle, Answer
    PROVE  /\ call' = Idle
           /\ queued' \in [Conns -> 0..Capacity]
           /\ status' \in [Conns -> Statuses]
           /\ UNCHANGED <<subs, watching, position, acked>>
<1>1. call \in Calls
  BY DEF TypeOK
<1>2. call.conn \in Conns
  BY <1>1 DEF Calls
<1>3. queued[call.conn] \in 0..Capacity
  BY <1>2 DEF TypeOK
<1>4. queued' \in [Conns -> 0..Capacity]
  <2>1. CASE queued[call.conn] < Capacity
    <3>1. queued' = [queued EXCEPT ![call.conn] = queued[call.conn] + 1]
      BY <2>1 DEF Answer
    <3>2. queued[call.conn] + 1 \in 0..Capacity
      BY <1>3, <2>1, CapacityAssumption
    <3>3. queued \in [Conns -> 0..Capacity]
      BY DEF TypeOK
    <3> QED BY <3>1, <3>2, <3>3
  <2>2. CASE ~(queued[call.conn] < Capacity)
    BY <2>2 DEF Answer, TypeOK
  <2> QED BY <2>1, <2>2
<1>5. status' \in [Conns -> Statuses]
  BY <1>2 DEF Answer, TypeOK, Statuses
<1> QED BY <1>4, <1>5 DEF Answer

-----------------------------------------------------------------------------
(* The invariant is inductive: one lemma per step of a submission.         *)

\* The empty database and the stopped server satisfy the invariant.
LEMMA InitEstablishes == Init => IInv
<1> SUFFICES ASSUME Init PROVE IInv
  OBVIOUS
<1>1. TypeOK
  <2>1. stored.revision = 0 /\ past \in [0..stored.revision -> Doc]
    BY EmptyDocAssumption DEF Init
  <2>2. 0 \in 0..Capacity
    BY CapacityAssumption
  <2>3. DOMAIN ops = {}
    BY DEF Init
  <2>4. /\ status \in [Conns -> Statuses] /\ queued \in [Conns -> 0..Capacity]
        /\ position \in [Conns -> Nat]
    BY <2>2 DEF Init, Statuses
  <2>5. stored \in [content : Doc, revision : Nat, writers : SUBSET Conns]
    BY EmptyDocAssumption DEF Init
  <2> QED BY <2>1, <2>3, <2>4, <2>5 DEF Init, TypeOK
<1>2. LogHasNoHoles /\ SnapshotIsReplay /\ OpAppliedOnce /\ AckedIsDurable
  BY DEF Init, LogHasNoHoles, SnapshotIsReplay, OpAppliedOnce, AckedIsDurable
<1>3. CallInv /\ StreamInv
  BY DEF Init, CallInv, StreamInv
<1> QED BY <1>1, <1>2, <1>3 DEF IInv

\* A submission takes the lock over a copy that equals storage (Submit).
LEMMA SubmitPreserves ==
    ASSUME IInv, NEW c \in Conns, NEW op \in Ids, NEW since \in Nat,
           NEW change \in Submits, Submit(c, op, since, change)
    PROVE  IInv'
<1> USE DEF IInv
<1>1. /\ Loaded \in ServerDocs /\ Loaded # NotResident
      /\ Loaded.content = stored.content /\ Loaded.revision = stored.revision
      /\ LoadedWriters = stored.writers
  BY LoadedResult DEF Submit, Runs
<1>2. UNCHANGED storage
  BY DEF Submit, storage
<1>3. call' \in Calls /\ call'.stage = "lookup" /\ call'.since = since /\ call'.delta = change
  BY <1>1, SubmitsAssumption DEF Submit, Calls, TypeOK
<1>4. call' # Idle
  BY <1>3, IdleAssumption
<1>5. TypeOK'
  <2>1. status' \in [Conns -> Statuses]
    BY DEF Submit, TypeOK, Statuses
  <2> QED BY <1>1, <1>2, <1>3, <2>1 DEF Submit, TypeOK, storage
<1>6. AckedIsDurable'
  BY <1>2 DEF Submit, AckedIsDurable, storage
<1>7. CallInv'
  <2>1. SameAsStored' /\ doc' # NotResident
    BY <1>1, <1>2 DEF Submit, SameAsStored, storage
  <2>2. WithinBounds(doc', call'.since, call'.delta)
    BY <1>3 DEF Submit
  <2> QED BY <1>3, <1>4, <2>1, <2>2 DEF CallInv
<1>8. StreamInv'
  <2>1. UNCHANGED <<stored, subs, position>>
    BY DEF Submit, storage
  <2>2. \A x \in subs : position[x] = stored.revision
    BY DEF Submit, Runs, StreamInv
  <2> QED BY <1>3, <1>4, <2>1, <2>2 DEF StreamInv
<1> QED BY <1>2, <1>5, <1>6, <1>7, <1>8, StorageKept

\* The idempotency lookup changes nothing but the stage (revision_for_op).
LEMMA LookupPreserves ==
    ASSUME IInv, LookupNew \/ LookupFails
    PROVE  IInv'
<1> USE DEF IInv
<1>1. call \in Calls /\ call # Idle /\ call.stage = "lookup"
  BY DEF LookupNew, LookupFails, TypeOK
<1>2. call' = [call EXCEPT !.stage = "apply"]
  BY DEF LookupNew, LookupFails
<1>3. UNCHANGED <<memory, frozen, storage, wires, acked>>
  BY DEF LookupNew, LookupFails
<1>4. /\ call' \in Calls /\ call' # Idle /\ call'.stage = "apply"
      /\ call'.since = call.since /\ call'.delta = call.delta
  BY <1>1, <1>2, IdleAssumption DEF Calls
<1>5. UNCHANGED storage /\ UNCHANGED <<doc, writers, subs, position, acked>>
  BY <1>3 DEF memory, wires
<1>6. TypeOK'
  BY <1>3, <1>4 DEF TypeOK, memory, storage, wires
<1>7. AckedIsDurable'
  BY <1>5 DEF AckedIsDurable, storage
<1>8. CallInv'
  <2>1. SameAsStored'
    BY <1>1, <1>5 DEF CallInv, SameAsStored, storage
  <2>2. WithinBounds(doc', call'.since, call'.delta)
    BY <1>1, <1>4, <1>5 DEF CallInv
  <2> QED BY <1>1, <1>4, <1>5, <2>1, <2>2 DEF CallInv
<1>9. StreamInv'
  BY <1>1, <1>4, <1>5 DEF StreamInv, storage
<1> QED BY <1>5, <1>6, <1>7, <1>8, <1>9, StorageKept

\* A repeated op is acknowledged at the revision the log has it (LookupRepeat).
LEMMA LookupRepeatPreserves ==
    ASSUME IInv, LookupRepeat
    PROVE  IInv'
<1> USE DEF IInv
<1>1. call \in Calls /\ call # Idle /\ call.stage = "lookup"
  BY DEF LookupRepeat, TypeOK
<1> DEFINE count == [c \in Conns |-> IF c = call.conn THEN 1 ELSE 0]
<1>2. PICK r \in AppliedAt(call.op) :
        /\ Fan(subs, count, call.conn)
        /\ acked' = IF call.conn \in subs /\ Fits(call.conn, 1)
                    THEN acked \cup {<<call.op, r>>} ELSE acked
  BY DEF LookupRepeat
<1>3. r \in DOMAIN ops /\ ops[r].op = call.op /\ r \in Nat /\ call.op \in Ids
  BY <1>1, <1>2 DEF AppliedAt, TypeOK, Calls
<1>4. /\ call' = Idle
      /\ UNCHANGED storage /\ UNCHANGED <<doc, writers, frozen, watching, position>>
  BY DEF LookupRepeat, memory
<1>5. /\ subs' \subseteq subs
      /\ queued' \in [Conns -> 0..Capacity]
      /\ status' \in [Conns -> Statuses]
  <2>1. subs \in SUBSET Conns /\ count \in [Conns -> Nat]
    BY DEF TypeOK
  <2> HIDE DEF count
  <2> QED BY <1>2, <2>1, FanResult
<1>6. TypeOK'
  BY <1>2, <1>3, <1>4, <1>5 DEF TypeOK, storage
<1>7. AckedIsDurable'
  BY <1>2, <1>3, <1>4 DEF AckedIsDurable, storage
<1>8. CallInv'
  BY <1>1, <1>4 DEF CallInv, SameAsStored, storage
<1>9. StreamInv'
  BY <1>1, <1>4, <1>5 DEF StreamInv, storage
<1> QED BY <1>4, <1>6, <1>7, <1>8, <1>9, StorageKept

\* Refusals answer and change nothing else; an oversized result is undone first.
LEMMA RefusalPreserves ==
    ASSUME IInv, Refuse \/ Reject \/ Outgrow
    PROVE  IInv'
<1> USE DEF IInv
<1>1. /\ call \in Calls /\ call # Idle /\ call.stage = "apply"
      /\ Answer /\ UNCHANGED <<writers, frozen, storage>>
  BY DEF Refuse, Reject, Outgrow, TypeOK, memory
<1>2. /\ SameAsStored /\ WithinBounds(doc, call.since, call.delta)
      /\ doc \in ServerDocs
  BY <1>1 DEF CallInv, TypeOK
<1>3. /\ doc' \in ServerDocs
      /\ doc'.content = doc.content /\ doc'.revision = doc.revision
  <2>1. CASE Refuse \/ Reject
    BY <1>2, <2>1 DEF Refuse, Reject, memory
  <2>2. CASE Outgrow
    <3>1. Applicable /\ doc' = RollbackLast(Apply(doc, Rebased))
      BY <2>2 DEF Outgrow
    <3>2. /\ Rebased \in Change /\ Valid(Rebased, doc.content)
          /\ OtCompose(doc.content, Rebased) \in Doc
      BY <1>2, <3>1 DEF Applicable, WithinBounds, Rebased
    <3> QED BY <1>2, <3>1, <3>2, RollbackUndoesApply
  <2> QED BY <2>1, <2>2
<1>4. /\ call' = Idle
      /\ queued' \in [Conns -> 0..Capacity]
      /\ status' \in [Conns -> Statuses]
      /\ UNCHANGED <<subs, watching, position, acked>>
  BY <1>1, AnswerResult
<1>5. UNCHANGED storage
  BY <1>1
<1>6. TypeOK'
  BY <1>1, <1>3, <1>4 DEF TypeOK, storage
<1>7. AckedIsDurable'
  BY <1>4, <1>5 DEF AckedIsDurable, storage
<1>8. CallInv'
  BY <1>1, <1>2, <1>3, <1>4 DEF CallInv, SameAsStored, storage
<1>9. StreamInv'
  BY <1>1, <1>4 DEF StreamInv, storage
<1> QED BY <1>5, <1>6, <1>7, <1>8, <1>9, StorageKept

\* Applying in memory puts the document exactly one entry ahead of storage.
LEMMA ApplyOpPreserves ==
    ASSUME IInv, ApplyOp
    PROVE  IInv'
<1> USE DEF IInv
<1>1. /\ call \in Calls /\ call # Idle /\ call.stage = "apply"
      /\ Applicable /\ doc' = Apply(doc, Rebased)
      /\ writers' = writers \cup {call.conn}
      /\ call' = [call EXCEPT !.stage = "commit", !.writers = writers]
  BY DEF ApplyOp, TypeOK
<1>2. UNCHANGED storage /\ UNCHANGED <<frozen, status, subs, watching, queued, position, acked>>
  BY DEF ApplyOp, wires
<1>3. /\ SameAsStored /\ WithinBounds(doc, call.since, call.delta)
      /\ doc \in ServerDocs
  BY <1>1 DEF CallInv, TypeOK
<1>4. /\ Rebased \in Change /\ Valid(Rebased, doc.content)
      /\ OtCompose(doc.content, Rebased) \in Doc
  BY <1>1, <1>3 DEF Applicable, WithinBounds, Rebased
<1>5. /\ doc' \in ServerDocs
      /\ doc'.content = OtCompose(doc.content, Rebased)
      /\ doc'.revision = doc.revision + 1
      /\ doc'.history # <<>>
      /\ Last(doc'.history).delta = Rebased
      /\ Last(doc'.history).undo = OtInvert(Rebased, doc.content)
  BY <1>1, <1>3, <1>4, ApplyResult
<1>6. /\ call' \in Calls /\ call' # Idle
      /\ call'.stage = "commit" /\ call'.writers = writers
  BY <1>1, IdleAssumption DEF Calls, TypeOK
<1>7. TypeOK'
  <2>1. writers' \subseteq Conns
    BY <1>1 DEF TypeOK, Calls
  <2> QED BY <1>2, <1>5, <1>6, <2>1 DEF TypeOK, storage
<1>8. AckedIsDurable'
  BY <1>2 DEF AckedIsDurable, storage
<1>9. CallInv'
  <2>1. OtCompose(OtCompose(doc.content, Rebased), OtInvert(Rebased, doc.content)) = doc.content
    BY <1>3, <1>4, InvertLaw DEF ServerDocs
  <2>2. OneAhead'
    BY <1>2, <1>3, <1>4, <1>5, <1>6, <2>1 DEF OneAhead, SameAsStored, storage
  <2>3. doc' # NotResident
    BY <1>5, NotResidentAssumption
  <2> QED BY <1>6, <2>2, <2>3 DEF CallInv
<1>10. StreamInv'
  BY <1>1, <1>2, <1>6 DEF StreamInv, storage
<1> QED BY <1>2, <1>7, <1>8, <1>9, <1>10, StorageKept

\* The commit extends the log by the one revision that was missing.
LEMMA CommitPreserves ==
    ASSUME IInv, Commit
    PROVE  IInv'
<1> USE DEF IInv
<1> DEFINE R == stored.revision
           last == Last(doc.history)
<1>1. /\ call \in Calls /\ call # Idle /\ call.stage = "commit"
      /\ CommitAllowed /\ call' = [call EXCEPT !.stage = "publish"]
  BY DEF Commit, TypeOK
<1>2. UNCHANGED <<doc, writers, frozen, status, subs, watching, queued, position, acked>>
  BY DEF Commit, memory, wires
<1>3. /\ OneAhead /\ doc \in ServerDocs /\ R \in Nat /\ doc.revision = R + 1
  BY <1>1 DEF CallInv, TypeOK, OneAhead
<1>4. /\ ops' = [r \in DOMAIN ops \cup {R + 1} |->
                   IF r = R + 1 THEN [op |-> call.op, delta |-> last.delta] ELSE ops[r]]
      /\ past' = [r \in DOMAIN past \cup {R + 1} |->
                   IF r = R + 1 THEN doc.content ELSE past[r]]
      /\ stored' = [content |-> doc.content, revision |-> R + 1, writers |-> writers]
  BY <1>3 DEF Commit
<1>5. DOMAIN ops = 1..R /\ DOMAIN past = 0..R
  BY DEF LogHasNoHoles, TypeOK
<1>6. DOMAIN ops' = 1..(R + 1) /\ DOMAIN past' = 0..(R + 1)
  <2>1. (1..R) \cup {R + 1} = 1..(R + 1) /\ (0..R) \cup {R + 1} = 0..(R + 1)
    BY <1>3
  <2> HIDE DEF R
  <2> QED BY <1>4, <1>5, <2>1
<1>7. /\ ops'[R + 1] = [op |-> call.op, delta |-> last.delta]
      /\ past'[R + 1] = doc.content
      /\ \A r \in 1..R : ops'[r] = ops[r]
      /\ \A r \in 0..R : past'[r] = past[r]
  <2> HIDE DEF R, last
  <2> QED BY <1>3, <1>4, <1>5
<1>8. /\ stored'.revision = R + 1 /\ stored'.content = doc.content
      /\ stored'.writers = writers
  BY <1>4
<1>9. /\ call' \in Calls /\ call' # Idle
      /\ call'.stage = "publish" /\ call'.op = call.op
  BY <1>1, IdleAssumption DEF Calls
<1>10. /\ call.op \in Ids /\ last.delta \in Change
       /\ doc.content = OtCompose(stored.content, last.delta)
  BY <1>1, <1>3 DEF Calls, OneAhead
<1> HIDE DEF R, last
<1>11. TypeOK'
  <2>1. DOMAIN ops' \subseteq Nat
    BY <1>3, <1>6
  <2>2. ASSUME NEW r \in DOMAIN ops'
        PROVE  ops'[r] \in [op : Ids, delta : Change]
    <3>1. CASE r = R + 1
      BY <1>7, <1>10, <3>1
    <3>2. CASE r # R + 1
      <4>1. r \in 1..R
        BY <1>3, <1>6, <3>2
      <4> QED BY <1>5, <1>7, <4>1 DEF TypeOK
    <3> QED BY <3>1, <3>2
  <2>3. past' \in [0..stored'.revision -> Doc]
    <3>1. ASSUME NEW r \in 0..(R + 1) PROVE past'[r] \in Doc
      <4>1. doc.content \in Doc
        BY <1>3 DEF ServerDocs
      <4>2. r \in 0..R => past[r] \in Doc
        BY <1>5 DEF TypeOK
      <4>3. r \in 0..R \/ r = R + 1
        BY <1>3
      <4> QED BY <1>7, <4>1, <4>2, <4>3
    <3>2. past' = [r \in 0..(R + 1) |-> past'[r]]
      BY <1>4, <1>5, <1>6
    <3> QED BY <1>8, <3>1, <3>2
  <2>4. stored' \in [content : Doc, revision : Nat, writers : SUBSET Conns]
    BY <1>3, <1>4 DEF TypeOK, ServerDocs
  <2> QED BY <1>2, <1>9, <2>1, <2>2, <2>3, <2>4 DEF TypeOK
<1>12. LogHasNoHoles'
  BY <1>6, <1>8 DEF LogHasNoHoles
<1>13. SnapshotIsReplay'
  <2>1. past[0] = EmptyDoc /\ past[R] = stored.content
    BY DEF SnapshotIsReplay, R
  <2>2. \A r \in 1..R : past[r] = OtCompose(past[r - 1], ops[r].delta)
    BY DEF SnapshotIsReplay, R
  <2>3. past'[0] = EmptyDoc
    BY <1>3, <1>7, <2>1
  <2>4. ASSUME NEW r \in 1..(R + 1)
        PROVE  past'[r] = OtCompose(past'[r - 1], ops'[r].delta)
    <3>1. CASE r = R + 1
      <4>1. r - 1 = R /\ past'[R] = stored.content
        BY <1>3, <1>7, <2>1, <3>1
      <4> QED BY <1>7, <1>10, <3>1, <4>1
    <3>2. CASE r # R + 1
      <4>1. r \in 1..R /\ r \in 0..R /\ r - 1 \in 0..R
        BY <1>3, <3>2
      <4> QED BY <1>7, <2>2, <4>1
    <3> QED BY <3>1, <3>2
  <2> QED BY <1>7, <1>8, <2>3, <2>4 DEF SnapshotIsReplay
<1>14. OpAppliedOnce'
  <2>1. call.op = NoId \/ \A r \in 1..R : ops[r].op # call.op
    BY <1>1, <1>5 DEF CommitAllowed, AppliedAt
  <2>2. \A r, s \in 1..R : ops[r].op = ops[s].op => r = s \/ ops[r].op = NoId
    BY <1>5 DEF OpAppliedOnce
  <2>3. ops'[R + 1].op = call.op
    BY <1>7
  <2>4. \A r \in 1..(R + 1) : r \in 1..R \/ r = R + 1
    BY <1>3
  <2> QED BY <1>6, <1>7, <2>1, <2>2, <2>3, <2>4 DEF OpAppliedOnce
<1>15. AckedIsDurable'
  <2>1. \A a \in acked : a[2] \in 1..R /\ ops[a[2]].op = a[1]
    BY <1>5 DEF AckedIsDurable
  <2>2. 1..R \subseteq 1..(R + 1)
    BY <1>3
  <2> QED BY <1>2, <1>6, <1>7, <2>1, <2>2 DEF AckedIsDurable
<1>16. CallInv'
  <2>1. SameAsStored' /\ doc' # NotResident
    BY <1>2, <1>3, <1>8, NotResidentAssumption DEF SameAsStored
  <2>2. doc'.revision \in DOMAIN ops' /\ ops'[doc'.revision].op = call'.op
    BY <1>2, <1>3, <1>6, <1>7, <1>9
  <2> QED BY <1>9, <2>1, <2>2 DEF CallInv
<1>17. StreamInv'
  BY <1>1, <1>2, <1>3, <1>8, <1>9 DEF StreamInv, R
<1> QED BY <1>11, <1>12, <1>13, <1>14, <1>15, <1>16, <1>17

\* A failed commit takes the document and its contributors back to storage.
LEMMA CommitFailsPreserves ==
    ASSUME IInv, CommitFails
    PROVE  IInv'
<1> USE DEF IInv
<1>1. /\ call \in Calls /\ call # Idle /\ call.stage = "commit"
      /\ doc' = RollbackLast(doc) /\ writers' = call.writers
      /\ Answer /\ UNCHANGED <<frozen, storage>>
  BY DEF CommitFails, TypeOK
<1>2. OneAhead /\ doc \in ServerDocs /\ stored.revision \in Nat /\ stored.content \in Doc
  BY <1>1 DEF CallInv, TypeOK
<1>3. /\ doc' \in ServerDocs
      /\ doc'.content = stored.content /\ doc'.revision = stored.revision
  BY <1>1, <1>2, RollbackResult DEF OneAhead
<1>4. /\ call' = Idle
      /\ queued' \in [Conns -> 0..Capacity]
      /\ status' \in [Conns -> Statuses]
      /\ UNCHANGED <<subs, watching, position, acked>>
  BY <1>1, AnswerResult
<1>5. UNCHANGED storage
  BY <1>1
<1>6. TypeOK'
  <2>1. writers' \subseteq Conns
    BY <1>1 DEF Calls
  <2> QED BY <1>1, <1>3, <1>4, <2>1 DEF TypeOK, storage
<1>7. AckedIsDurable'
  BY <1>4, <1>5 DEF AckedIsDurable, storage
<1>8. CallInv'
  BY <1>1, <1>2, <1>3, <1>4 DEF CallInv, SameAsStored, OneAhead, storage
<1>9. StreamInv'
  BY <1>1, <1>4 DEF StreamInv, storage
<1> QED BY <1>5, <1>6, <1>7, <1>8, <1>9, StorageKept

\* Publishing moves every remaining watcher to the committed revision.
LEMMA PublishPreserves ==
    ASSUME IInv, Publish
    PROVE  IInv'
<1> USE DEF IInv
<1> DEFINE count == [c \in Conns |-> 1]
<1>1. call \in Calls /\ call # Idle /\ call.stage = "publish"
  BY DEF Publish, TypeOK
<1>2. /\ Fan(subs, count, call.conn)
      /\ position' = [c \in Conns |->
              IF c \in subs /\ Fits(c, 1) THEN doc.revision ELSE position[c]]
      /\ acked' = IF call.conn \in subs /\ Fits(call.conn, 1)
                  THEN acked \cup {<<call.op, doc.revision>>} ELSE acked
      /\ call' = Idle
      /\ UNCHANGED storage /\ UNCHANGED <<doc, writers, frozen, watching>>
  BY DEF Publish, memory
<1>3. /\ SameAsStored /\ doc \in ServerDocs /\ doc.revision \in Nat
      /\ doc.revision = stored.revision
      /\ doc.revision \in DOMAIN ops /\ ops[doc.revision].op = call.op
      /\ call.op \in Ids
  BY <1>1 DEF CallInv, SameAsStored, TypeOK, ServerDocs, Calls
<1>4. /\ subs' \subseteq subs
      /\ \A c \in subs' : Fits(c, 1)
      /\ queued' \in [Conns -> 0..Capacity]
      /\ status' \in [Conns -> Statuses]
  <2>1. subs \in SUBSET Conns /\ count \in [Conns -> Nat] /\ \A c \in Conns : count[c] = 1
    BY DEF TypeOK
  <2> HIDE DEF count
  <2> QED BY <1>2, <2>1, FanResult
<1>5. TypeOK'
  <2>1. position' \in [Conns -> Nat]
    BY <1>2, <1>3 DEF TypeOK
  <2>2. acked' \subseteq Ids \X Nat
    BY <1>2, <1>3 DEF TypeOK
  <2> QED BY <1>2, <1>4, <2>1, <2>2 DEF TypeOK, storage
<1>6. AckedIsDurable'
  BY <1>2, <1>3 DEF AckedIsDurable, storage
<1>7. CallInv'
  BY <1>2, <1>3 DEF CallInv, SameAsStored, storage
<1>8. StreamInv'
  <2>1. subs \subseteq Conns
    BY DEF TypeOK
  <2> QED BY <1>2, <1>3, <1>4, <2>1 DEF StreamInv, storage
<1> QED BY <1>2, <1>5, <1>6, <1>7, <1>8, StorageKept

\* Opening subscribes the connection at the revision its snapshot shows.
LEMMA OpenPreserves ==
    ASSUME IInv, NEW c \in Conns, Open(c)
    PROVE  IInv'
<1> USE DEF IInv
<1> DEFINE count == [x \in Conns |-> IF x = c THEN 2 ELSE 1]
<1>1. /\ call = Idle /\ doc' = Loaded /\ writers' = LoadedWriters
      /\ Fan(subs \cup {c}, count, c)
      /\ position' = [position EXCEPT ![c] = Loaded.revision]
      /\ watching' = watching \cup {c}
      /\ UNCHANGED storage /\ UNCHANGED <<frozen, call, acked>>
  BY DEF Open, Runs
<1>2. /\ Loaded \in ServerDocs /\ Loaded.content = stored.content
      /\ Loaded.revision = stored.revision /\ LoadedWriters = stored.writers
      /\ stored.revision \in Nat
  BY <1>1, LoadedResult DEF TypeOK
<1>3. /\ subs' \subseteq subs \cup {c}
      /\ queued' \in [Conns -> 0..Capacity]
      /\ status' \in [Conns -> Statuses]
  <2>1. subs \cup {c} \in SUBSET Conns /\ count \in [Conns -> Nat]
    BY DEF TypeOK
  <2> HIDE DEF count
  <2> QED BY <1>1, <2>1, FanResult
<1>4. TypeOK'
  BY <1>1, <1>2, <1>3 DEF TypeOK, storage
<1>5. AckedIsDurable'
  BY <1>1 DEF AckedIsDurable, storage
<1>6. CallInv'
  BY <1>1, <1>2 DEF CallInv, SameAsStored, storage
<1>7. StreamInv'
  BY <1>1, <1>2, <1>3 DEF StreamInv, TypeOK, storage
<1> QED BY <1>1, <1>4, <1>5, <1>6, <1>7, StorageKept

\* Leaving evicts the wave or keeps the resident copy as it is.
LEMMA KeepIfWatchedResult ==
    ASSUME IInv, call = Idle, KeepIfWatched
    PROVE  /\ doc' \in ServerDocs \cup {NotResident} /\ writers' \subseteq Conns
           /\ doc' # NotResident =>
                /\ doc'.content = stored.content /\ doc'.revision = stored.revision
                /\ writers' = stored.writers
<1>1. stored.writers \subseteq Conns
  BY DEF IInv, TypeOK
<1> QED BY <1>1, LoadedResult DEF KeepIfWatched

\* Leaving and closing drop the connection, and watchers too slow for the
\* presence update; the others' streams are not touched.
LEMMA LeavePreserves ==
    ASSUME IInv, NEW c \in Conns, Leave(c)
    PROVE  IInv'
<1> USE DEF IInv
<1> DEFINE count == [x \in Conns |-> 1]
<1>1. /\ call = Idle /\ KeepIfWatched /\ Fan(subs \ {c}, count, c)
      /\ watching' = watching \ {c} /\ position' = [position EXCEPT ![c] = 0]
      /\ UNCHANGED storage /\ UNCHANGED <<frozen, call, acked>>
  BY DEF Leave, Runs
<1>2. /\ subs' \subseteq subs \ {c}
      /\ queued' \in [Conns -> 0..Capacity]
      /\ status' \in [Conns -> Statuses]
  <2>1. subs \ {c} \in SUBSET Conns /\ count \in [Conns -> Nat]
    BY DEF TypeOK
  <2> HIDE DEF count
  <2> QED BY <1>1, <2>1, FanResult
<1>3. TypeOK'
  BY <1>1, <1>2, KeepIfWatchedResult DEF TypeOK, storage
<1>4. AckedIsDurable'
  BY <1>1 DEF AckedIsDurable, storage
<1>5. CallInv'
  BY <1>1, KeepIfWatchedResult DEF CallInv, SameAsStored, storage
<1>6. StreamInv'
  BY <1>1, <1>2 DEF StreamInv, TypeOK, storage
<1> QED BY <1>1, <1>3, <1>4, <1>5, <1>6, StorageKept

\* A connection that ends takes its subscription with it (leave_wave, maybe_evict).
LEMMA ClosePreserves ==
    ASSUME IInv, NEW c \in Conns, Close(c)
    PROVE  IInv'
<1> USE DEF IInv
<1> DEFINE told == IF c \in watching THEN subs \ {c} ELSE {}
           full == {x \in told : ~Fits(x, 1)}
<1>1. /\ call = Idle /\ subs' = (subs \ {c}) \ full
      /\ queued' = [x \in Conns |-> IF x = c THEN 0
                      ELSE IF x \in told \ full THEN queued[x] + 1 ELSE queued[x]]
      /\ status' = [x \in Conns |->
              CASE x = c -> "closed"
                [] x \in full /\ status[x] = "open" -> "killed"
                [] OTHER -> status[x]]
      /\ IF c \in watching THEN KeepIfWatched ELSE UNCHANGED memory
      /\ watching' = watching \ {c} /\ position' = [position EXCEPT ![c] = 0]
      /\ UNCHANGED storage /\ UNCHANGED <<frozen, call, acked>>
  BY DEF Close
<1>2. /\ doc' \in ServerDocs \cup {NotResident} /\ writers' \subseteq Conns
      /\ doc' # NotResident =>
           /\ doc'.content = stored.content /\ doc'.revision = stored.revision
           /\ writers' = stored.writers
  BY <1>1, KeepIfWatchedResult DEF memory, TypeOK, CallInv, SameAsStored
<1>3. TypeOK'
  <2>1. queued' \in [Conns -> 0..Capacity]
    <3>1. ASSUME NEW x \in Conns
          PROVE  (IF x = c THEN 0
                  ELSE IF x \in told \ full THEN queued[x] + 1 ELSE queued[x]) \in 0..Capacity
      BY CapacityAssumption DEF TypeOK, Fits
    <3> QED BY <1>1, <3>1
  <2>2. status' \in [Conns -> Statuses]
    <3> HIDE DEF full
    <3>1. ASSUME NEW x \in Conns
          PROVE  (CASE x = c -> "closed"
                    [] x \in full /\ status[x] = "open" -> "killed"
                    [] OTHER -> status[x]) \in Statuses
      BY DEF TypeOK, Statuses
    <3> QED BY <1>1, <3>1
  <2>3. position' \in [Conns -> Nat] /\ subs' \subseteq Conns /\ watching' \subseteq Conns
    BY <1>1 DEF TypeOK
  <2> HIDE DEF full, told
  <2> QED BY <1>1, <1>2, <2>1, <2>2, <2>3 DEF TypeOK, storage
<1>4. AckedIsDurable'
  BY <1>1 DEF AckedIsDurable, storage
<1>5. CallInv'
  BY <1>1, <1>2 DEF CallInv, SameAsStored, storage
<1>6. StreamInv'
  <2>1. subs' \subseteq subs \ {c}
    BY <1>1
  <2> QED BY <1>1, <2>1 DEF StreamInv, TypeOK, storage
<1> QED BY <1>1, <1>3, <1>4, <1>5, <1>6, StorageKept

\* A mode change loads the wave if need be and broadcasts.
LEMMA SetModePreserves ==
    ASSUME IInv, NEW c \in Conns, SetMode(c)
    PROVE  IInv'
<1> USE DEF IInv
<1> DEFINE count == [x \in Conns |-> 1]
<1>1. /\ call = Idle /\ doc' = Loaded /\ writers' = LoadedWriters
      /\ frozen' = ~frozen /\ Fan(subs, count, c)
      /\ UNCHANGED storage /\ UNCHANGED <<call, watching, position, acked>>
  BY DEF SetMode, Runs
<1>2. /\ subs' \subseteq subs
      /\ queued' \in [Conns -> 0..Capacity]
      /\ status' \in [Conns -> Statuses]
  <2>1. subs \in SUBSET Conns /\ count \in [Conns -> Nat]
    BY DEF TypeOK
  <2> HIDE DEF count
  <2> QED BY <1>1, <2>1, FanResult
<1>3. TypeOK'
  <2>1. Loaded \in ServerDocs /\ LoadedWriters \subseteq Conns
    BY <1>1, LoadedResult DEF TypeOK
  <2>2. frozen' \in BOOLEAN
    BY <1>1
  <2> QED BY <1>1, <1>2, <2>1, <2>2 DEF TypeOK, storage
<1>4. AckedIsDurable'
  BY <1>1 DEF AckedIsDurable, storage
<1>5. CallInv'
  BY <1>1, LoadedResult DEF CallInv, SameAsStored, storage
<1>6. StreamInv'
  BY <1>1, <1>2 DEF StreamInv, storage
<1> QED BY <1>1, <1>3, <1>4, <1>5, <1>6, StorageKept

\* Connecting and delivering leave the documents alone.
LEMMA WirePreserves ==
    ASSUME IInv, NEW c \in Conns, Connect(c) \/ Deliver(c)
    PROVE  IInv'
<1> USE DEF IInv
<1>1. /\ UNCHANGED storage
      /\ UNCHANGED <<doc, writers, frozen, call, subs, watching, position, acked>>
  BY DEF Connect, Deliver, memory
<1>2. queued' \in [Conns -> 0..Capacity]
  <2>1. queued \in [Conns -> 0..Capacity]
    BY DEF TypeOK
  <2>2. CASE Connect(c)
    <3>1. queued' = [queued EXCEPT ![c] = 1] /\ 1 \in 0..Capacity
      BY <2>2, CapacityAssumption DEF Connect
    <3> QED BY <2>1, <3>1
  <2>3. CASE Deliver(c)
    <3>1. queued' = [queued EXCEPT ![c] = queued[c] - 1] /\ queued[c] > 0
      BY <2>3 DEF Deliver
    <3>2. queued[c] - 1 \in 0..Capacity
      BY <2>1, <3>1, CapacityAssumption
    <3> QED BY <2>1, <3>1, <3>2
  <2> QED BY <2>2, <2>3
<1>3. status' \in [Conns -> Statuses]
  BY DEF Connect, Deliver, TypeOK, Statuses
<1>4. TypeOK'
  BY <1>1, <1>2, <1>3 DEF TypeOK, storage
<1>5. AckedIsDurable'
  BY <1>1 DEF AckedIsDurable, storage
<1>6. CallInv'
  BY <1>1 DEF CallInv, SameAsStored, OneAhead, WithinBounds, storage
<1>7. StreamInv'
  BY <1>1 DEF StreamInv, storage
<1> QED BY <1>1, <1>4, <1>5, <1>6, <1>7, StorageKept

\* A crash loses memory and connections, and nothing that was committed.
LEMMA CrashPreserves ==
    ASSUME IInv, Crash
    PROVE  IInv'
<1> USE DEF IInv
<1>1. UNCHANGED storage /\ UNCHANGED <<frozen, acked>>
  BY DEF Crash
<1>2. TypeOK'
  BY <1>1, CapacityAssumption DEF Crash, TypeOK, Statuses, storage
<1>3. AckedIsDurable'
  BY <1>1 DEF AckedIsDurable, storage
<1>4. CallInv' /\ StreamInv'
  BY DEF Crash, CallInv, StreamInv
<1> QED BY <1>1, <1>2, <1>3, <1>4, StorageKept

\* Every step of the specification keeps the invariant.
LEMMA NextPreserves == IInv /\ [Next]_vars => IInv'
<1> SUFFICES ASSUME IInv, [Next]_vars PROVE IInv'
  OBVIOUS
<1>1. ASSUME NEW c \in Conns, NEW op \in Ids, NEW since \in 0..(MaxRevision + 1),
             NEW change \in Submits, Submit(c, op, since, change)
      PROVE  IInv'
  <2>1. since \in Nat
    BY MaxRevisionAssumption
  <2> QED BY <1>1, <2>1, SubmitPreserves
<1>2. CASE ApplyOpStep
  BY <1>2, LookupPreserves, LookupRepeatPreserves, RefusalPreserves, ApplyOpPreserves,
     CommitPreserves, CommitFailsPreserves, PublishPreserves DEF ApplyOpStep
<1>3. ASSUME NEW c \in Conns,
             Connect(c) \/ Open(c) \/ Leave(c) \/ Close(c) \/ Deliver(c) \/ SetMode(c)
      PROVE  IInv'
  BY <1>3, WirePreserves, OpenPreserves, LeavePreserves, ClosePreserves, SetModePreserves
<1>4. CASE Crash
  BY <1>4, CrashPreserves
<1>5. CASE UNCHANGED vars
  <2>1. /\ UNCHANGED <<doc, writers, frozen, call, status, subs, watching, queued>>
        /\ UNCHANGED <<stored, ops, past, position, acked>>
    BY <1>5 DEF vars
  <2> QED BY <2>1 DEF IInv, TypeOK, LogHasNoHoles, SnapshotIsReplay, OpAppliedOnce,
        AckedIsDurable, CallInv, SameAsStored, OneAhead, WithinBounds, StreamInv
<1> QED BY <1>1, <1>2, <1>3, <1>4, <1>5 DEF Next

-----------------------------------------------------------------------------
(* Theorems.                                                               *)

\* The inductive invariant holds in every reachable state of apply_op.
THEOREM Invariance == Spec => []IInv
<1> QED BY InitEstablishes, NextPreserves, PTL DEF Spec

\* Every variable keeps its type; no outbound queue outgrows OUTBOUND_CAPACITY.
THEOREM TypeCorrect == Spec => []TypeOK
<1>1. IInv => TypeOK
  BY DEF IInv
<1> QED BY <1>1, Invariance, PTL

\* commit_op and apply_op's rollback never leave a hole in the op log.
THEOREM NoHoles == Spec => []LogHasNoHoles
<1>1. IInv => LogHasNoHoles
  BY DEF IInv
<1> QED BY <1>1, Invariance, PTL

\* The snapshot commit_op stores is the replay of the ops it stored.
THEOREM SnapshotReplays == Spec => []SnapshotIsReplay
<1>1. IInv => SnapshotIsReplay
  BY DEF IInv
<1> QED BY <1>1, Invariance, PTL

\* The op log is whole and replays to the snapshot, whatever fails or crashes.
THEOREM LogReplays == Spec => []LogIsReplay
<1> QED BY NoHoles, SnapshotReplays, PTL DEF LogIsReplay

\* Whenever the wave lock is free, a resident blip equals its row.
THEOREM MemoryMatches == Spec => []MemoryMatchesStorage
<1>1. IInv => MemoryMatchesStorage
  BY DEF IInv, CallInv, SameAsStored, MemoryMatchesStorage
<1> QED BY <1>1, Invariance, PTL

\* A resubmitted op id is never applied a second time.
THEOREM AppliedOnce == Spec => []OpAppliedOnce
<1>1. IInv => OpAppliedOnce
  BY DEF IInv
<1> QED BY <1>1, Invariance, PTL

\* An Ack is sent only for a row that is in the ops table at that revision.
THEOREM AckDurable == Spec => []AckedIsDurable
<1>1. IInv => AckedIsDurable
  BY DEF IInv
<1> QED BY <1>1, Invariance, PTL

\* A subscriber's stream reaches the committed revision.
THEOREM SubscribersCurrent == Spec => []SubscriberIsCurrent
<1>1. IInv => SubscriberIsCurrent
  BY DEF IInv, StreamInv, SubscriberIsCurrent
<1> QED BY <1>1, Invariance, PTL

\* No step lets a watcher's stream skip or repeat a revision: the messages of
\* broadcast and of open_wave reach each remaining subscriber one by one.
THEOREM NoGaps == Spec => StreamHasNoGaps
<1> DEFINE Continues ==
        \A c \in subs \cap subs' :
            position'[c] = IF Published THEN position[c] + 1 ELSE position[c]
<1>1. ASSUME IInv, [Next]_vars
      PROVE  [Continues]_vars
  <2>1. CASE Publish
    <3>1. ASSUME NEW c \in subs \cap subs'
          PROVE  position'[c] = position[c] + 1
      <4>1. c \in Conns
        BY <1>1 DEF IInv, TypeOK
      <4>2. position[c] + 1 = doc.revision
        BY <1>1, <2>1 DEF Publish, IInv, StreamInv, CallInv, SameAsStored
      <4>3. Fits(c, 1)
        <5> DEFINE count == [x \in Conns |-> 1]
        <5>1. subs \in SUBSET Conns /\ count \in [Conns -> Nat] /\ count[c] = 1
          BY <1>1, <4>1 DEF IInv, TypeOK
        <5>2. Fan(subs, count, call.conn)
          BY <2>1 DEF Publish
        <5> HIDE DEF count
        <5> QED BY <1>1, <5>1, <5>2, FanResult DEF IInv
      <4> QED BY <2>1, <4>1, <4>2, <4>3 DEF Publish
    <3>2. Published
      BY <2>1 DEF Publish, Published
    <3> QED BY <3>1, <3>2
  <2>2. ASSUME NEW o \in Conns, Open(o)
        PROVE  Continues
    <3>1. Loaded.revision = stored.revision /\ \A c \in subs : position[c] = stored.revision
      BY <1>1, <2>2, LoadedResult DEF Open, Runs, IInv, StreamInv
    <3>2. ~Published
      BY <2>2 DEF Open, Runs, Published
    <3> QED BY <1>1, <2>2, <3>1, <3>2 DEF Open, IInv, TypeOK
  <2>3. ASSUME NEW o \in Conns, Close(o)
        PROVE  Continues
    <3>1. ~Published /\ o \notin subs' /\ position' = [position EXCEPT ![o] = 0]
      BY <2>3 DEF Close, Published
    <3> QED BY <1>1, <3>1 DEF IInv, TypeOK
  <2>4. CASE Crash
    BY <2>4 DEF Crash
  <2>5. ASSUME NEW o \in Conns, Connect(o) \/ Deliver(o) \/ SetMode(o)
        PROVE  Continues
    BY <2>5 DEF Connect, Deliver, SetMode, Runs, Published
  <2>6. ASSUME NEW o \in Conns, Leave(o)
        PROVE  Continues
    <3>1. ~Published /\ o \notin subs' /\ position' = [position EXCEPT ![o] = 0]
      BY <2>6 DEF Leave, Runs, Fan, Published
    <3> QED BY <1>1, <3>1 DEF IInv, TypeOK
  <2>7. ASSUME NEW o \in Conns, NEW op \in Ids, NEW since \in 0..(MaxRevision + 1),
               NEW change \in Submits, Submit(o, op, since, change)
        PROVE  Continues
    BY <2>7 DEF Submit, Runs, Published
  <2>8. CASE ApplyOpStep /\ ~Publish
    BY <2>8 DEF ApplyOpStep, LookupNew, LookupFails, LookupRepeat, Refuse, Reject,
       Outgrow, ApplyOp, Commit, CommitFails, Answer, wires, Published
  <2>9. CASE UNCHANGED vars
    BY <2>9
  <2> HIDE DEF Continues
  <2> QED BY <1>1, <2>1, <2>2, <2>3, <2>4, <2>5, <2>6, <2>7, <2>8, <2>9 DEF Next
<1> QED BY <1>1, Invariance, PTL DEF Spec, StreamHasNoGaps
-----------------------------------------------------------------------------
(* Nobody is dropped from a wave and left believing otherwise.             *)

\* A connection that is closed watches nothing; one that is open is a subscriber
\* of what it watches.
DyingInv ==
    /\ \A c \in watching : status[c] # "closed"
    /\ UnsubscribedIsDying

\* A fan-out never opens or closes a connection, and one it leaves open is still
\* a watcher (broadcast, disconnect).
LEMMA FanKills ==
    ASSUME TypeOK, NEW watchers \in SUBSET Conns, NEW count \in [Conns -> Nat],
           NEW self, Fan(watchers, count, self), NEW c \in Conns
    PROVE  /\ status'[c] = "open" => status[c] = "open" /\ (c \in watchers => c \in subs')
           /\ status'[c] = "closed" => status[c] = "closed"
<1> DEFINE overflow == {x \in watchers : ~Fits(x, count[x])}
<1>1. subs' = watchers \ overflow
  BY DEF Fan
<1>2. status'[c] = CASE c = self /\ (c \in overflow \/ status[c] = "killed") -> "closing"
                     [] c \in overflow /\ c # self /\ status[c] = "open" -> "killed"
                     [] OTHER -> status[c]
  BY DEF Fan
<1> HIDE DEF overflow
<1> QED BY <1>1, <1>2

\* A watcher whose message does not fit is killed, not forgotten: whoever watches
\* a wave without being subscribed to it is on its way out.
THEOREM UnsubscribedDie == Spec => []UnsubscribedIsDying
<1>1. Init => DyingInv
  BY DEF Init, DyingInv, UnsubscribedIsDying
<1>2. ASSUME IInv, DyingInv, [Next]_vars
      PROVE  DyingInv'
  <2> USE DEF DyingInv, UnsubscribedIsDying
  <2>0. TypeOK /\ subs \subseteq Conns /\ watching \subseteq Conns
        /\ status \in [Conns -> Statuses]
    BY <1>2 DEF IInv, TypeOK
  <2>1. CASE UNCHANGED vars
    BY <1>2, <2>1 DEF vars
  <2>2. CASE Publish \/ LookupRepeat
    <3> DEFINE all == [c \in Conns |-> 1]
               one == [c \in Conns |-> IF c = call.conn THEN 1 ELSE 0]
    <3>1. all \in [Conns -> Nat] /\ one \in [Conns -> Nat]
      OBVIOUS
    <3>2. (Fan(subs, all, call.conn) \/ Fan(subs, one, call.conn)) /\ watching' = watching
      BY <2>2 DEF Publish, LookupRepeat
    <3> HIDE DEF all, one
    <3> QED BY <1>2, <2>0, <3>1, <3>2, FanKills
  <2>3. CASE LookupNew \/ LookupFails \/ ApplyOp \/ Commit
    BY <1>2, <2>3 DEF LookupNew, LookupFails, ApplyOp, Commit, wires
  <2>4. CASE Refuse \/ Reject \/ Outgrow \/ CommitFails
    <3>1. subs' = subs /\ watching' = watching
          /\ (status' = status \/ status' = [status EXCEPT ![call.conn] = "closing"])
      BY <2>4 DEF Refuse, Reject, Outgrow, CommitFails, Answer
    <3> QED BY <1>2, <2>0, <3>1
  <2>5. ASSUME NEW o \in Conns, NEW op \in Ids, NEW since \in 0..(MaxRevision + 1),
               NEW change \in Submits, Submit(o, op, since, change)
        PROVE  DyingInv'
    <3>1. subs' = subs /\ watching' = watching
          /\ status' = [status EXCEPT ![o] = IF @ = "killed" THEN "closing" ELSE @]
      BY <2>5 DEF Submit
    <3> QED BY <1>2, <2>0, <3>1
  <2>6. ASSUME NEW o \in Conns, Connect(o)
        PROVE  DyingInv'
    BY <1>2, <2>0, <2>6 DEF Connect
  <2>7. ASSUME NEW o \in Conns, Open(o)
        PROVE  DyingInv'
    <3> DEFINE count == [x \in Conns |-> IF x = o THEN 2 ELSE 1]
    <3>1. count \in [Conns -> Nat] /\ Fan(subs \cup {o}, count, o)
      BY <2>7 DEF Open
    <3>2. watching' = watching \cup {o} /\ status[o] # "closed"
      BY <2>7 DEF Open, Runs
    <3> HIDE DEF count
    <3> QED BY <1>2, <2>0, <3>1, <3>2, FanKills
  <2>8. ASSUME NEW o \in Conns, Leave(o) \/ SetMode(o)
        PROVE  DyingInv'
    <3> DEFINE count == [x \in Conns |-> 1]
    <3>1. /\ count \in [Conns -> Nat]
          /\ \/ Fan(subs \ {o}, count, o) /\ watching' = watching \ {o}
             \/ Fan(subs, count, o) /\ watching' = watching
      BY <2>8 DEF Leave, SetMode
    <3> HIDE DEF count
    <3> QED BY <1>2, <2>0, <3>1, FanKills
  <2>9. ASSUME NEW o \in Conns, Close(o)
        PROVE  DyingInv'
    <3> DEFINE told == IF o \in watching THEN subs \ {o} ELSE {}
               full == {x \in told : ~Fits(x, 1)}
    <3>1. /\ watching' = watching \ {o}
          /\ subs' = (subs \ {o}) \ full
          /\ status' = [x \in Conns |->
                CASE x = o -> "closed"
                  [] x \in full /\ status[x] = "open" -> "killed"
                  [] OTHER -> status[x]]
      BY <2>9 DEF Close
    <3> HIDE DEF full
    <3>2. ASSUME NEW x \in watching'
          PROVE  status'[x] # "closed" /\ (x \notin subs' => status'[x] # "open")
      <4>1. x \in Conns /\ x \in watching /\ x # o
        BY <2>0, <3>1, <3>2
      <4>2. status'[x] = IF x \in full /\ status[x] = "open" THEN "killed" ELSE status[x]
        BY <3>1, <4>1
      <4> QED BY <1>2, <3>1, <4>1, <4>2
    <3> QED BY <3>2
  <2>10. ASSUME NEW o \in Conns, Deliver(o)
         PROVE  DyingInv'
    BY <1>2, <2>10 DEF Deliver
  <2>11. CASE Crash
    BY <2>11 DEF Crash
  <2> HIDE DEF DyingInv
  <2> QED BY <1>2, <2>1, <2>2, <2>3, <2>4, <2>5, <2>6, <2>7, <2>8, <2>9, <2>10, <2>11
          DEF Next, ApplyOpStep
<1> QED BY <1>1, <1>2, Invariance, PTL DEF Spec, DyingInv
-----------------------------------------------------------------------------
(* The pipeline implements the atomic log.                                 *)

\* commit_op is the abstract Append: the resident document is one change ahead
\* of the snapshot, and its revision is the first one without a row.
LEMMA CommitAppends ==
    ASSUME IInv, Commit
    PROVE  Log!Append
<1> DEFINE R == stored.revision
           last == Last(doc.history)
<1>1. /\ call \in Calls /\ call # Idle /\ call.stage = "commit" /\ CommitAllowed
      /\ R \in Nat
  BY DEF Commit, IInv, TypeOK
<1>2. /\ doc.revision = R + 1
      /\ doc.content = OtCompose(stored.content, last.delta)
      /\ last.delta \in Change
  BY <1>1 DEF IInv, CallInv, OneAhead
<1>3. DOMAIN ops = 1..R
  BY DEF IInv, LogHasNoHoles
<1>4. ops' = [r \in DOMAIN ops \cup {R + 1} |->
                IF r = R + 1 THEN [op |-> call.op, delta |-> last.delta] ELSE ops[r]]
  BY <1>2 DEF Commit
<1>5. stored'.revision = R + 1 /\ stored'.content = OtCompose(stored.content, last.delta)
  BY <1>2 DEF Commit
<1>6. call.op \in Ids /\ acked' = acked
  BY <1>1 DEF Commit, Calls
<1>7. call.op = NoId \/ \A r \in DOMAIN ops : ops[r].op # call.op
  BY <1>1 DEF CommitAllowed, AppliedAt
<1>8. ops' = [r \in 1..(R + 1) |->
                IF r = R + 1 THEN [op |-> call.op, delta |-> last.delta] ELSE ops[r]]
  <2>1. (1..R) \cup {R + 1} = 1..(R + 1)
    BY <1>1
  <2> HIDE DEF R, last
  <2> QED BY <1>3, <1>4, <2>1
<1> HIDE DEF last
<1> QED BY <1>2, <1>5, <1>6, <1>7, <1>8 DEF Log!Append

\* An acknowledgement, of a new op or of a repeated one, is the abstract one, or
\* nothing where the author no longer watches.
LEMMA AckAcknowledges ==
    ASSUME IInv, LookupRepeat \/ Publish
    PROVE  Log!Acknowledge \/ UNCHANGED <<ops, stored.revision, stored.content, acked>>
<1>1. UNCHANGED <<ops, stored>>
  BY DEF LookupRepeat, Publish, storage
<1>2. CASE LookupRepeat
  <2>1. PICK r \in AppliedAt(call.op) :
          acked' = IF call.conn \in subs /\ Fits(call.conn, 1)
                   THEN acked \cup {<<call.op, r>>} ELSE acked
    BY <1>2 DEF LookupRepeat
  <2>2. r \in DOMAIN ops /\ ops[r].op = call.op
    BY DEF AppliedAt
  <2> QED BY <1>1, <2>1, <2>2 DEF Log!Acknowledge
<1>3. CASE Publish
  <2>1. doc.revision \in DOMAIN ops /\ ops[doc.revision].op = call.op
    BY <1>3 DEF Publish, IInv, CallInv
  <2>2. acked' = IF call.conn \in subs /\ Fits(call.conn, 1)
                 THEN acked \cup {<<call.op, doc.revision>>} ELSE acked
    BY <1>3 DEF Publish
  <2> QED BY <1>1, <2>1, <2>2 DEF Log!Acknowledge
<1> QED BY <1>2, <1>3

\* apply_op and commit_op, with their stages, failures and crashes, implement the
\* log that changes by one whole op at a time and never back.
THEOREM CommitsAtomic == Spec => CommitsAreAtomic
<1>1. Init => Log!Init
  BY DEF Init, Log!Init
<1>2. ASSUME IInv, [Next]_vars
      PROVE  [Log!Next]_<<ops, stored.revision, stored.content, acked>>
  <2>1. CASE Commit
    BY <1>2, <2>1, CommitAppends DEF Log!Next
  <2>2. CASE LookupRepeat \/ Publish
    BY <1>2, <2>2, AckAcknowledges DEF Log!Next
  <2>3. CASE ApplyOpStep /\ ~Commit /\ ~LookupRepeat /\ ~Publish
    BY <2>3 DEF ApplyOpStep, LookupNew, LookupFails, Refuse, Reject, Outgrow, ApplyOp,
       CommitFails, Answer, storage
  <2>4. CASE \E c \in Conns, op \in Ids, since \in 0..(MaxRevision + 1), change \in Submits :
                Submit(c, op, since, change)
    BY <2>4 DEF Submit, storage
  <2>5. CASE \E c \in Conns :
                Connect(c) \/ Open(c) \/ Leave(c) \/ Close(c) \/ Deliver(c) \/ SetMode(c)
    BY <2>5 DEF Connect, Open, Leave, Close, Deliver, SetMode, storage
  <2>6. CASE Crash
    BY <2>6 DEF Crash, storage
  <2>7. CASE UNCHANGED vars
    BY <2>7 DEF vars
  <2> QED BY <1>2, <2>1, <2>2, <2>3, <2>4, <2>5, <2>6, <2>7 DEF Next, ApplyOpStep
<1> QED BY <1>1, <1>2, Invariance, PTL DEF Spec, CommitsAreAtomic, Log!Spec
-----------------------------------------------------------------------------
(* Numbers and folds.                                                      *)

\* Induction, for a set.
LEMMA AllNumbers ==
    ASSUME NEW S, 0 \in S, \A n \in Nat : n \in S => n + 1 \in S
    PROVE  \A n \in Nat : n \in S
<1> DEFINE Below == {p \in Nat \X Nat : p[1] < p[2]}
           Bad == {n \in Nat : n \notin S}
<1>1. IsWellFoundedOn(Below, Nat)
  BY NatLessThanWellFounded DEF OpToRel
<1> SUFFICES ASSUME Bad # {} PROVE FALSE
  OBVIOUS
<1> HIDE DEF Below
<1>2. PICK u \in Bad : \A n \in Bad : ~ (<<n, u>> \in Below)
  BY <1>1, WFMin
<1>3. u \in Nat /\ u # 0 /\ u - 1 \in Nat
  BY <1>2
<1>4. u - 1 \in Bad
  BY <1>2, <1>3
<1>5. <<u - 1, u>> \in Nat \X Nat /\ <<u - 1, u>>[1] = u - 1 /\ <<u - 1, u>>[2] = u
  BY <1>3
<1>6. <<u - 1, u>> \in Below
  BY <1>3, <1>5 DEF Below
<1> QED BY <1>2, <1>4, <1>6

\* A nonempty set of numbers up to m has a greatest one.
LEMMA MaxIsIn ==
    ASSUME NEW m \in Nat, NEW S, S \subseteq 1..m, S # {}
    PROVE  Max(S) \in S /\ \A y \in S : Max(S) >= y
<1> DEFINE Ms == {n \in Nat : \A T \in SUBSET (1..n) : T # {} => \E x \in T : \A y \in T : x >= y}
<1>1. 0 \in Ms
  <2>1. 1..0 = {}
    OBVIOUS
  <2> QED BY <2>1
<1>2. ASSUME NEW n \in Nat, n \in Ms PROVE n + 1 \in Ms
  <2> SUFFICES ASSUME NEW T \in SUBSET (1..(n + 1)), T # {}
               PROVE  \E x \in T : \A y \in T : x >= y
    OBVIOUS
  <2>1. CASE n + 1 \in T
    BY <2>1
  <2>2. CASE n + 1 \notin T
    <3>1. T \in SUBSET (1..n)
      BY <2>2
    <3> QED BY <1>2, <3>1
  <2> QED BY <2>1, <2>2
<1> HIDE DEF Ms
<1>3. m \in Ms
  BY <1>1, <1>2, AllNumbers
<1>4. \E x \in S : \A y \in S : x >= y
  BY <1>3 DEF Ms
<1> QED BY <1>4 DEF Max

\* Without its greatest element, a set of numbers up to m + 1 is one of numbers
\* up to m.
LEMMA MaxLeaves ==
    ASSUME NEW m \in Nat, NEW s \in SUBSET (1..(m + 1)), s # {}
    PROVE  /\ Max(s) \in 1..(m + 1) /\ s \ {Max(s)} \in SUBSET (1..m)
           /\ s \ {Max(s)} \in SUBSET (1..(m + 1))
<1>1. m + 1 \in Nat /\ s \subseteq 1..(m + 1)
  OBVIOUS
<1>2. Max(s) \in s /\ \A y \in s : Max(s) >= y
  BY <1>1, MaxIsIn
<1> DEFINE M == Max(s)
<1>3. M \in s /\ \A y \in s : M >= y
  BY <1>2
<1> HIDE DEF M
<1>4. ASSUME NEW y \in s, y # M PROVE y \in 1..m
  <2>1. y \in 1..(m + 1) /\ M \in 1..(m + 1) /\ M >= y
    BY <1>1, <1>3
  <2> QED BY <1>4, <2>1
<1>5. M \in 1..(m + 1) /\ s \ {M} \in SUBSET (1..m) /\ s \ {M} \in SUBSET (1..(m + 1))
  BY <1>1, <1>3, <1>4
<1> QED BY <1>5 DEF M

\* The greatest of the numbers up to m + 1, and what is left without it.
LEMMA MaxOfPrefix ==
    ASSUME NEW m \in Nat
    PROVE  Max(1..(m + 1)) = m + 1 /\ (1..(m + 1)) \ {m + 1} = 1..m /\ 1..(m + 1) # {}
<1> DEFINE S == 1..(m + 1)
<1>1. m + 1 \in Nat /\ m + 1 \in S /\ S \subseteq 1..(m + 1) /\ S \ {m + 1} = 1..m
  OBVIOUS
<1>2. \A y \in S : y \in Nat /\ y <= m + 1
  OBVIOUS
<1> HIDE DEF S
<1>3. Max(S) \in S /\ \A y \in S : Max(S) >= y
  BY <1>1, MaxIsIn
<1>4. Max(S) = m + 1
  BY <1>1, <1>2, <1>3
<1> QED BY <1>1, <1>4 DEF S

\* What Rebase does at one entry.
RebaseStep(x, entry, since) ==
    IF entry.revision > since THEN OtTransform(entry.delta, x) ELSE x

Rebases(g, h, n, since, x) ==
    g[0] = x /\ \A i \in 1..n : g[i] = RebaseStep(g[i - 1], h[i], since)

\* Rebase goes through the history from its start.
LEMMA RebaseGoes ==
    ASSUME NEW d, NEW n \in Nat, DOMAIN d.history = 1..n, NEW since, NEW x
    PROVE  \E g : Rebase(d, since, x) = g[n] /\ Rebases(g, d.history, n, since, x)
<1> DEFINE h == d.history
           Fix(f, m) == f = [s \in SUBSET (1..m) |->
                               IF s = {} THEN x
                               ELSE RebaseStep(f[s \ {Max(s)}], h[Max(s)], since)]
           Ms == {m \in Nat : \E f : Fix(f, m)}
<1>1. 0 \in Ms
  <2> DEFINE f == [s \in SUBSET (1..0) |-> x]
  <2>1. Fix(f, 0)
    OBVIOUS
  <2> QED BY <2>1
<1>2. ASSUME NEW m \in Nat, m \in Ms PROVE m + 1 \in Ms
  <2>1. PICK f : Fix(f, m)
    BY <1>2
  <2> DEFINE k == [s \in SUBSET (1..(m + 1)) |->
                     IF s = {} THEN x ELSE RebaseStep(f[s \ {Max(s)}], h[Max(s)], since)]
  <2>2. \A s \in SUBSET (1..m) : s \in SUBSET (1..(m + 1))
    OBVIOUS
  <2>3. \A s \in SUBSET (1..m) : k[s] = f[s]
    BY <2>1, <2>2
  <2>4. \A s \in SUBSET (1..(m + 1)) : s # {} => k[s \ {Max(s)}] = f[s \ {Max(s)}]
    BY <2>3, MaxLeaves
  <2>5. Fix(k, m + 1)
    BY <2>4
  <2> HIDE DEF k, Fix
  <2> QED BY <2>5
<1>3. n \in Ms
  <2> HIDE DEF Ms
  <2> QED BY <1>1, <1>2, AllNumbers
<1> DEFINE iter == CHOOSE f : Fix(f, n)
<1>4. Rebase(d, since, x) = iter[1..n]
  BY DEF Rebase, FoldLeft, MapThenFoldSet, RebaseStep
<1>5. Fix(iter, n)
  BY <1>3
<1> HIDE DEF iter
<1>6. \A s \in SUBSET (1..n) :
        iter[s] = IF s = {} THEN x ELSE RebaseStep(iter[s \ {Max(s)}], h[Max(s)], since)
  BY <1>5
<1> DEFINE g == [i \in 0..n |-> iter[1..i]]
<1>7. g[0] = x
  <2>1. 1..0 = {} /\ {} \in SUBSET (1..n) /\ 0 \in 0..n
    OBVIOUS
  <2>2. iter[{}] = x
    BY <1>6, <2>1
  <2>3. g[0] = iter[1..0]
    BY <2>1
  <2> QED BY <2>1, <2>2, <2>3
<1>8. ASSUME NEW i \in 1..n PROVE g[i] = RebaseStep(g[i - 1], h[i], since)
  <2>1. i - 1 \in Nat /\ (i - 1) + 1 = i /\ 1..i \in SUBSET (1..n)
    OBVIOUS
  <2>2. Max(1..i) = i /\ (1..i) \ {i} = 1..(i - 1) /\ 1..i # {}
    BY <2>1, MaxOfPrefix
  <2>3. iter[1..i] = RebaseStep(iter[1..(i - 1)], h[i], since)
    BY <1>6, <2>1, <2>2
  <2> QED BY <2>3
<1>9. g[n] = iter[1..n]
  OBVIOUS
<1> HIDE DEF g
<1>10. Rebases(g, h, n, since, x)
  BY <1>7, <1>8 DEF Rebases
<1> QED BY <1>4, <1>9, <1>10

\* A nonempty set of numbers from 1 to m has a least one.
LEMMA MinIsIn ==
    ASSUME NEW m \in Nat, NEW S, S \subseteq 1..m, S # {}
    PROVE  Min(S) \in S /\ \A y \in S : Min(S) =< y
<1> DEFINE T == {x \in 1..m : (m + 1) - x \in S}
<1>1. \A y \in S : y \in 1..m /\ (m + 1) - y \in 1..m /\ (m + 1) - ((m + 1) - y) = y
  OBVIOUS
<1>2. T \subseteq 1..m /\ T # {}
  BY <1>1
<1>3. \A x \in T : x \in 1..m /\ (m + 1) - x \in S
  OBVIOUS
<1>4. \A y \in S : (m + 1) - y \in T
  BY <1>1
<1> HIDE DEF T
<1>5. Max(T) \in T /\ \A y \in T : Max(T) >= y
  BY <1>2, MaxIsIn
<1> DEFINE M == Max(T)
<1>6. M \in T /\ \A y \in T : M >= y
  BY <1>5
<1> HIDE DEF M
<1>7. (m + 1) - M \in S /\ M \in 1..m
  BY <1>3, <1>6
<1>8. ASSUME NEW y \in S PROVE (m + 1) - M =< y
  <2>1. y \in 1..m /\ M >= (m + 1) - y
    BY <1>1, <1>4, <1>6
  <2> QED BY <1>7, <2>1
<1>9. \E x \in S : \A y \in S : x =< y
  BY <1>7, <1>8
<1> QED BY <1>9 DEF Min

\* Without its least element, a set of numbers from k to n is one of numbers from
\* k + 1 to n.
LEMMA MinLeaves ==
    ASSUME NEW n \in Nat, NEW k \in 1..n, NEW s \in SUBSET (k..n), s # {}
    PROVE  /\ Min(s) \in k..n /\ s \ {Min(s)} \in SUBSET ((k + 1)..n)
           /\ s \ {Min(s)} \in SUBSET (k..n)
<1>1. s \subseteq 1..n /\ s \subseteq k..n
  OBVIOUS
<1>2. Min(s) \in s /\ \A y \in s : Min(s) =< y
  BY <1>1, MinIsIn
<1> DEFINE M == Min(s)
<1>3. M \in s /\ \A y \in s : M =< y
  BY <1>2
<1> HIDE DEF M
<1>4. ASSUME NEW y \in s, y # M PROVE y \in (k + 1)..n
  <2>1. y \in k..n /\ M \in k..n /\ M =< y
    BY <1>1, <1>3
  <2> QED BY <1>4, <2>1
<1>5. M \in k..n /\ s \ {M} \in SUBSET ((k + 1)..n) /\ s \ {M} \in SUBSET (k..n)
  BY <1>1, <1>3, <1>4
<1> QED BY <1>5 DEF M

\* The least of the numbers from k to n, and what is left without it.
LEMMA MinOfSuffix ==
    ASSUME NEW n \in Nat, NEW k \in 1..n
    PROVE  Min(k..n) = k /\ (k..n) \ {k} = (k + 1)..n /\ k..n # {}
<1> DEFINE S == k..n
<1>1. k \in S /\ S \subseteq 1..n /\ S \ {k} = (k + 1)..n
  OBVIOUS
<1>2. \A y \in S : y \in Nat /\ y >= k
  OBVIOUS
<1> HIDE DEF S
<1>3. Min(S) \in S /\ \A y \in S : Min(S) =< y
  BY <1>1, MinIsIn
<1>4. Min(S) = k
  BY <1>1, <1>2, <1>3
<1> QED BY <1>1, <1>4 DEF S

\* What AtRevision does at one entry.
UndoStep(entry, x, r) ==
    IF entry.revision > r THEN OtCompose(x, entry.undo) ELSE x

Undoes(g, h, n, r, x) ==
    g[n] = x /\ \A i \in 1..n : g[i - 1] = UndoStep(h[i], g[i], r)

\* AtRevision goes through the history from its end.
LEMMA AtRevisionGoes ==
    ASSUME NEW d, NEW n \in Nat, DOMAIN d.history = 1..n, NEW r
    PROVE  \E g : AtRevision(d, r) = g[0] /\ Undoes(g, d.history, n, r, d.content)
<1> DEFINE h == d.history
           x == d.content
           Fix(f, m) == f = [s \in SUBSET ((n - m + 1)..n) |->
                               IF s = {} THEN x
                               ELSE UndoStep(h[Min(s)], f[s \ {Min(s)}], r)]
           Has(m) == \E f : Fix(f, m)
           Ms == {m \in Nat : m <= n => Has(m)}
<1>1. 0 \in Ms
  <2> DEFINE f == [s \in SUBSET ((n - 0 + 1)..n) |-> x]
  <2>1. (n - 0 + 1)..n = {}
    OBVIOUS
  <2>2. Fix(f, 0)
    BY <2>1
  <2> QED BY <2>2
<1>2. ASSUME NEW m \in Nat, m \in Ms PROVE m + 1 \in Ms
  <2> HIDE DEF Has
  <2> SUFFICES ASSUME m + 1 <= n PROVE Has(m + 1)
    OBVIOUS
  <2>6. Has(m)
    BY <1>2
  <2> USE DEF Has
  <2>1. PICK f : Fix(f, m)
    BY <2>6
  <2> DEFINE b == n - (m + 1) + 1
             k == [s \in SUBSET (b..n) |->
                     IF s = {} THEN x ELSE UndoStep(h[Min(s)], f[s \ {Min(s)}], r)]
  <2>0. b \in 1..n /\ b + 1 = n - m + 1
    OBVIOUS
  <2>2. \A s \in SUBSET ((n - m + 1)..n) : s \in SUBSET (b..n)
    OBVIOUS
  <2>3. \A s \in SUBSET ((n - m + 1)..n) : k[s] = f[s]
    BY <2>1, <2>2
  <2>4. \A s \in SUBSET (b..n) : s # {} => k[s \ {Min(s)}] = f[s \ {Min(s)}]
    <3> HIDE DEF k
    <3>1. \A s \in SUBSET (b..n) : s # {} => s \ {Min(s)} \in SUBSET ((b + 1)..n)
      <4> HIDE DEF b
      <4> QED BY <2>0, MinLeaves
    <3> HIDE DEF b
    <3> QED BY <2>0, <2>3, <3>1
  <2>5. Fix(k, m + 1)
    BY <2>4
  <2> HIDE DEF k, Fix
  <2> QED BY <2>5
<1>3. n \in Ms
  <2> HIDE DEF Ms
  <2> QED BY <1>1, <1>2, AllNumbers
<1> DEFINE iter == CHOOSE f : f = [s \in SUBSET (1..n) |->
                               IF s = {} THEN x
                               ELSE UndoStep(h[Min(s)], f[s \ {Min(s)}], r)]
<1>4. AtRevision(d, r) = iter[1..n]
  BY DEF AtRevision, FoldRight, MapThenFoldSet, UndoStep
<1>5. iter = [s \in SUBSET (1..n) |->
                IF s = {} THEN x ELSE UndoStep(h[Min(s)], iter[s \ {Min(s)}], r)]
  <2>0. Has(n)
    <3> HIDE DEF Has
    <3> QED BY <1>3
  <2>1. PICK f : Fix(f, n)
    BY <2>0
  <2>2. n - n + 1 = 1
    OBVIOUS
  <2>3. f = [s \in SUBSET (1..n) |->
               IF s = {} THEN x ELSE UndoStep(h[Min(s)], f[s \ {Min(s)}], r)]
    BY <2>1, <2>2
  <2> QED BY <2>3
<1> HIDE DEF iter
<1>6. \A s \in SUBSET (1..n) :
        iter[s] = IF s = {} THEN x ELSE UndoStep(h[Min(s)], iter[s \ {Min(s)}], r)
  BY <1>5
<1> DEFINE g == [i \in 0..n |-> iter[(i + 1)..n]]
<1>7. g[n] = x
  <2>1. (n + 1)..n = {} /\ {} \in SUBSET (1..n) /\ n \in 0..n
    OBVIOUS
  <2>2. iter[{}] = x
    BY <1>6, <2>1
  <2>3. g[n] = iter[(n + 1)..n]
    BY <2>1
  <2> QED BY <2>1, <2>2, <2>3
<1>8. ASSUME NEW i \in 1..n PROVE g[i - 1] = UndoStep(h[i], g[i], r)
  <2>1. i - 1 \in 0..n /\ (i - 1) + 1 = i /\ i..n \in SUBSET (1..n) /\ i \in 0..n
    OBVIOUS
  <2>2. Min(i..n) = i /\ (i..n) \ {i} = (i + 1)..n /\ i..n # {}
    BY MinOfSuffix
  <2>3. iter[i..n] = UndoStep(h[i], iter[(i + 1)..n], r)
    BY <1>6, <2>1, <2>2
  <2> QED BY <2>1, <2>3
<1>9. g[0] = iter[1..n]
  OBVIOUS
<1> HIDE DEF g
<1>10. Undoes(g, h, n, r, x)
  BY <1>7, <1>8 DEF Undoes
<1> QED BY <1>4, <1>9, <1>10

-----------------------------------------------------------------------------
(* The resident history against what was committed.                        *)

\* What the contents were, revision by revision, the one that waits for its
\* commit included.
Committed ==
    [r \in 0..doc.revision |-> IF r <= stored.revision THEN past[r] ELSE doc.content]

\* A history entry leads from one of the documents C to the next and back.
Links(entry, r, C) ==
    /\ entry.revision = r
    /\ entry.delta \in Change
    /\ Valid(entry.delta, C[r - 1])
    /\ C[r] = OtCompose(C[r - 1], entry.delta)
    /\ OtCompose(C[r], entry.undo) = C[r - 1]

\* The history is the last stretch of the documents C.
Backed(d, C) ==
    /\ Len(d.history) <= d.revision
    /\ \A i \in 1..Len(d.history) : Links(d.history[i], d.revision - Len(d.history) + i, C)

\* Needed beside IInv: the history is the last stretch of what was committed.
HistoryInv == doc # NotResident => Backed(doc, Committed)

\* The documents up to revision n are the same.
Agree(C, D, n) == \A r \in 0..n : C[r] = D[r]

\* Only the documents the history spans matter.
LEMMA BackedMoves ==
    ASSUME NEW d \in ServerDocs, NEW C, NEW D, Backed(d, C), Agree(C, D, d.revision)
    PROVE  Backed(d, D)
<1> DEFINE n == Len(d.history)
           R == d.revision
<1>1. n \in Nat /\ R \in Nat /\ n <= R
  BY DEF ServerDocs, Backed
<1>2. ASSUME NEW i \in 1..n PROVE Links(d.history[i], R - n + i, D)
  <2>1. Links(d.history[i], R - n + i, C)
    BY <1>2 DEF Backed
  <2> HIDE DEF n, R
  <2>2. R - n + i \in 0..R /\ (R - n + i) - 1 \in 0..R
    BY <1>1
  <2>3. C[R - n + i] = D[R - n + i] /\ C[(R - n + i) - 1] = D[(R - n + i) - 1]
    BY <2>2 DEF Agree, R
  <2> QED BY <2>1, <2>3 DEF Links
<1> QED BY <1>1, <1>2 DEF Backed

\* A document that was just read from storage has nothing to answer for.
LEMMA SnapshotBacked ==
    ASSUME NEW content, NEW revision \in Nat, NEW C
    PROVE  Backed(FromSnapshot(content, revision), C)
BY DEF Backed, FromSnapshot

\* The entry `apply` pushes leads to the next document and back, and trimming
\* takes nothing but the oldest.
LEMMA ApplyBacked ==
    ASSUME NEW d \in ServerDocs, NEW c \in Change, NEW C,
           Valid(c, d.content), OtCompose(d.content, c) \in Doc,
           Backed(d, C), C[d.revision] = d.content,
           C[d.revision + 1] = OtCompose(d.content, c)
    PROVE  Backed(Apply(d, c), C)
<1> DEFINE R == d.revision
           n == Len(d.history)
           e == [revision |-> R + 1, delta |-> c, undo |-> OtInvert(c, d.content)]
           h == Append(d.history, e)
           t == Trim(h)
<1>1. n \in Nat /\ R \in Nat /\ n <= R /\ d.history \in Seq(Entry) /\ d.content \in Doc
  BY DEF ServerDocs, Backed
<1>2. e \in Entry
  BY <1>1, InvertLaw DEF Entry
<1>3. OtCompose(OtCompose(d.content, c), OtInvert(c, d.content)) = d.content
  BY <1>1, InvertLaw
<1>4. Links(e, R + 1, C)
  <2>1. (R + 1) - 1 = R
    BY <1>1
  <2>2. C[R] = d.content /\ C[R + 1] = OtCompose(d.content, c)
    OBVIOUS
  <2>3. /\ e.revision = R + 1 /\ e.delta = c /\ e.undo = OtInvert(c, d.content)
    OBVIOUS
  <2> HIDE DEF e, R
  <2> QED BY <1>3, <2>1, <2>2, <2>3 DEF Links
<1>5. /\ h \in Seq(Entry) /\ Len(h) = n + 1 /\ h[n + 1] = e
      /\ \A i \in 1..n : h[i] = d.history[i]
  BY <1>1, <1>2
<1>6. \A i \in 1..n : Links(d.history[i], R - n + i, C)
  BY DEF Backed
<1>7. Apply(d, c).history = t /\ Apply(d, c).revision = R + 1
  BY DEF Apply
<1> HIDE DEF h, e, R, n
<1>8. \A i \in 1..(n + 1) : Links(h[i], (R + 1) - (n + 1) + i, C)
  <2> SUFFICES ASSUME NEW i \in 1..(n + 1) PROVE Links(h[i], (R + 1) - (n + 1) + i, C)
    OBVIOUS
  <2>1. CASE i = n + 1
    <3>1. (R + 1) - (n + 1) + (n + 1) = R + 1
      BY <1>1
    <3> QED BY <1>4, <1>5, <2>1, <3>1
  <2>2. CASE i # n + 1
    <3>1. i \in 1..n /\ (R + 1) - (n + 1) + i = R - n + i
      BY <1>1, <2>2
    <3> QED BY <1>5, <1>6, <3>1
  <2> QED BY <2>1, <2>2
<1>9. /\ Len(t) <= R + 1
      /\ \A i \in 1..Len(t) : Links(t[i], (R + 1) - Len(t) + i, C)
  <2>1. CASE Len(h) > MaxHistory
    <3>1. t = Tail(h) /\ n >= 1
      BY <1>1, <1>5, <2>1, MaxHistoryAssumption DEF Trim
    <3>2. Len(t) = n /\ \A i \in 1..n : t[i] = h[i + 1]
      BY <1>1, <1>5, <3>1
    <3>3. ASSUME NEW i \in 1..n PROVE Links(t[i], (R + 1) - n + i, C)
      <4>1. i + 1 \in 1..(n + 1) /\ (R + 1) - (n + 1) + (i + 1) = (R + 1) - n + i
        BY <1>1
      <4>2. Links(h[i + 1], (R + 1) - (n + 1) + (i + 1), C)
        BY <1>8, <4>1
      <4> QED BY <3>2, <4>1, <4>2
    <3>4. n <= R + 1
      BY <1>1
    <3> HIDE DEF t
    <3> QED BY <3>2, <3>3, <3>4
  <2>2. CASE ~(Len(h) > MaxHistory)
    <3>1. t = h
      BY <2>2 DEF Trim
    <3>2. Len(t) = n + 1 /\ n + 1 <= R + 1
      BY <1>1, <1>5, <3>1
    <3> HIDE DEF t
    <3> QED BY <1>8, <3>1, <3>2
  <2> QED BY <2>1, <2>2
<1> HIDE DEF t
<1> QED BY <1>7, <1>9 DEF Backed

\* Rolling back takes the newest entry and the document it led to.
LEMMA RollbackBacked ==
    ASSUME NEW d \in ServerDocs, NEW C, Backed(d, C)
    PROVE  Backed(RollbackLast(d), C)
<1> DEFINE R == d.revision
           n == Len(d.history)
           f == Front(d.history)
<1>1. n \in Nat /\ R \in Nat /\ n <= R /\ d.history \in Seq(Entry)
  BY DEF ServerDocs, Backed
<1>2. CASE d.history = <<>>
  BY <1>2 DEF RollbackLast
<1>3. CASE d.history # <<>>
  <2>1. RollbackLast(d).history = f /\ RollbackLast(d).revision = R - 1
    BY <1>3 DEF RollbackLast
  <2>2. n >= 1 /\ Len(f) = n - 1 /\ \A i \in 1..(n - 1) : f[i] = d.history[i]
    BY <1>1, <1>3 DEF Front
  <2>3. \A i \in 1..n : Links(d.history[i], R - n + i, C)
    BY DEF Backed
  <2> HIDE DEF R, n, f
  <2>4. ASSUME NEW i \in 1..(n - 1) PROVE Links(f[i], (R - 1) - (n - 1) + i, C)
    <3>1. i \in 1..n /\ (R - 1) - (n - 1) + i = R - n + i
      BY <1>1
    <3> QED BY <2>2, <2>3, <3>1
  <2>5. n - 1 <= R - 1
    BY <1>1
  <2> QED BY <2>1, <2>2, <2>4, <2>5 DEF Backed
<1> QED BY <1>2, <1>3

\* at_revision's window is the stretch the history spans.
LEMMA OldestIs ==
    ASSUME NEW d \in ServerDocs, NEW C, Backed(d, C)
    PROVE  OldestRetained(d) = d.revision - Len(d.history)
<1> DEFINE h == d.history
<1>1. h \in Seq(Entry) /\ Len(h) \in Nat /\ d.revision \in Nat
  BY DEF ServerDocs
<1>2. CASE h = <<>>
  BY <1>1, <1>2 DEF OldestRetained
<1>3. CASE h # <<>>
  <2>1. Len(h) >= 1 /\ Head(h) = h[1] /\ 1 \in 1..Len(h)
    BY <1>1, <1>3
  <2>2. h[1].revision = d.revision - Len(h) + 1
    BY <2>1 DEF Backed, Links
  <2>3. OldestRetained(d) = (d.revision - Len(h) + 1) - 1
    BY <1>3, <2>1, <2>2 DEF OldestRetained
  <2> HIDE DEF h
  <2>4. OldestRetained(d) = d.revision - Len(h)
    BY <1>1, <2>3
  <2> QED BY <2>4 DEF h
<1> QED BY <1>2, <1>3

\* at_revision walks back to the document that was there.
LEMMA WalksBack ==
    ASSUME NEW d \in ServerDocs, NEW C, Backed(d, C), C[d.revision] = d.content,
           NEW r \in OldestRetained(d)..d.revision
    PROVE  AtRevision(d, r) = C[r]
<1> DEFINE h == d.history
           n == Len(h)
           R == d.revision
           at(i) == R - n + i
           Want(i) == IF at(i) >= r THEN C[at(i)] ELSE C[r]
<1>1. n \in Nat /\ R \in Nat /\ n <= R /\ DOMAIN h = 1..n
  BY DEF ServerDocs, Backed
<1>2. r \in Int /\ r <= R /\ r >= R - n
  <2>1. OldestRetained(d) = R - n
    BY OldestIs
  <2> HIDE DEF R, n
  <2> QED BY <1>1, <2>1 DEF R
<1>3. PICK g : AtRevision(d, r) = g[0] /\ Undoes(g, h, n, r, d.content)
  BY <1>1, AtRevisionGoes
<1>4. \A i \in 1..n : Links(h[i], at(i), C)
  BY DEF Backed
<1>5. C[R] = d.content
  OBVIOUS
<1> HIDE DEF h, n, R
<1> DEFINE Js == {j \in Nat : j <= n => g[n - j] = Want(n - j)}
<1>6. 0 \in Js
  <2>1. n - 0 = n /\ at(n) = R
    BY <1>1
  <2>2. g[n] = C[R]
    BY <1>3, <1>5 DEF Undoes
  <2> QED BY <1>2, <2>1, <2>2
<1>7. ASSUME NEW j \in Nat, j \in Js PROVE j + 1 \in Js
  <2> HIDE DEF Want
  <2> SUFFICES ASSUME j + 1 <= n PROVE g[n - (j + 1)] = Want(n - (j + 1))
    OBVIOUS
  <2> DEFINE i == n - j
  <2>1. i \in 1..n /\ n - (j + 1) = i - 1
    BY <1>1
  <2>2. g[i] = Want(i)
    BY <1>1, <1>7
  <2>3. at(i - 1) = at(i) - 1 /\ at(i) \in Int
    BY <1>1, <2>1
  <2>4. g[i - 1] = UndoStep(h[i], Want(i), r)
    BY <1>3, <2>1, <2>2 DEF Undoes
  <2>5. /\ h[i].revision = at(i)
        /\ OtCompose(C[at(i)], h[i].undo) = C[at(i) - 1]
    BY <1>4, <2>1 DEF Links
  <2> HIDE DEF i
  <2>6. g[i - 1] = Want(i - 1)
    <3> HIDE DEF at
    <3>1. CASE at(i) > r
      <4>1. at(i) >= r /\ at(i) - 1 >= r
        BY <1>2, <2>3, <3>1
      <4>2. Want(i) = C[at(i)] /\ Want(i - 1) = C[at(i) - 1]
        BY <2>3, <4>1 DEF Want
      <4> QED BY <2>4, <2>5, <3>1, <4>2 DEF UndoStep
    <3>2. CASE ~(at(i) > r)
      <4>1. ~(at(i) - 1 >= r) /\ (at(i) >= r => at(i) = r)
        BY <1>2, <2>3, <3>2
      <4>2. Want(i) = C[r] /\ Want(i - 1) = C[r]
        BY <2>3, <4>1 DEF Want
      <4> QED BY <2>4, <2>5, <3>2, <4>2 DEF UndoStep
    <3> QED BY <3>1, <3>2
  <2> QED BY <2>1, <2>6
<1> HIDE DEF Js, Want
<1>8. n \in Js
  BY <1>1, <1>6, <1>7, AllNumbers
<1>9. n - n = 0 /\ at(0) = R - n
  BY <1>1
<1>10. g[0] = Want(0)
  BY <1>1, <1>8, <1>9 DEF Js
<1>11. Want(0) = C[r]
  <2>1. at(0) >= r => at(0) = r
    BY <1>1, <1>2, <1>9
  <2> HIDE DEF at
  <2> QED BY <2>1 DEF Want
<1> QED BY <1>3, <1>10, <1>11

\* `apply` accepts what was valid at a revision in the window.
LEMMA RebaseStaysValid ==
    ASSUME NEW Deltas, TransformLaw(Deltas), NEW d \in ServerDocs, NEW C,
           \A q \in 0..d.revision : C[q] \in Doc, Backed(d, C),
           NEW since \in OldestRetained(d)..d.revision, NEW x \in Deltas, Valid(x, C[since])
    PROVE  Valid(Rebase(d, since, x), C[d.revision])
<1> DEFINE h == d.history
           n == Len(h)
           R == d.revision
           at(i) == R - n + i
<1>1. n \in Nat /\ R \in Nat /\ n <= R /\ DOMAIN h = 1..n
  BY DEF ServerDocs, Backed
<1>2. since \in Int /\ since <= R /\ since >= R - n
  <2>1. OldestRetained(d) = R - n
    BY OldestIs
  <2> HIDE DEF R, n
  <2> QED BY <1>1, <2>1 DEF R
<1>3. PICK g : Rebase(d, since, x) = g[n] /\ Rebases(g, h, n, since, x)
  BY <1>1, RebaseGoes
<1>4. \A i \in 1..n : Links(h[i], at(i), C)
  BY DEF Backed
<1>5. \A q \in 0..R : C[q] \in Doc
  OBVIOUS
<1> HIDE DEF h, n, R
<1> DEFINE Ok(i) == /\ g[i] \in Deltas
                    /\ at(i) <= since => g[i] = x
                    /\ at(i) >= since => Valid(g[i], C[at(i)])
           Is == {i \in Nat : i <= n => Ok(i)}
<1>6. 0 \in Is
  <2>1. g[0] = x
    BY <1>3 DEF Rebases
  <2>2. at(0) >= since => at(0) = since
    BY <1>1, <1>2
  <2> HIDE DEF at
  <2> QED BY <2>1, <2>2
<1>7. ASSUME NEW i \in Nat, i \in Is PROVE i + 1 \in Is
  <2> HIDE DEF Ok
  <2> SUFFICES ASSUME i + 1 <= n PROVE Ok(i + 1)
    OBVIOUS
  <2>1. /\ i + 1 \in 1..n /\ (i + 1) - 1 = i /\ at(i + 1) = at(i) + 1 /\ at(i) \in 0..R
        /\ at(i + 1) - 1 = at(i)
    BY <1>1
  <2>2. Ok(i)
    BY <1>1, <1>7
  <2>3. g[i + 1] = RebaseStep(g[i], h[i + 1], since)
    BY <1>3, <2>1 DEF Rebases
  <2>4. Links(h[i + 1], at(i + 1), C)
    BY <1>4, <2>1
  <2>5. /\ h[i + 1].revision = at(i) + 1
        /\ h[i + 1].delta \in Change
        /\ Valid(h[i + 1].delta, C[at(i)])
        /\ C[at(i) + 1] = OtCompose(C[at(i)], h[i + 1].delta)
    <3> HIDE DEF at
    <3> QED BY <2>1, <2>4 DEF Links
  <2>6. C[at(i)] \in Doc
    BY <1>5, <2>1
  <2> HIDE DEF at
  <2>7. CASE at(i) >= since
    <3>1. at(i) + 1 > since /\ ~(at(i) + 1 <= since)
      BY <1>2, <2>1, <2>7
    <3>2. g[i] \in Deltas /\ Valid(g[i], C[at(i)])
      BY <2>2, <2>7 DEF Ok
    <3>3. g[i + 1] = OtTransform(h[i + 1].delta, g[i])
      BY <2>3, <2>5, <3>1 DEF RebaseStep
    <3>4. g[i + 1] \in Deltas /\ Valid(g[i + 1], OtCompose(C[at(i)], h[i + 1].delta))
      BY <2>5, <2>6, <3>2, <3>3 DEF TransformLaw
    <3> QED BY <2>1, <2>5, <3>1, <3>4 DEF Ok
  <2>8. CASE ~(at(i) >= since)
    <3>1. at(i) <= since /\ ~(at(i) + 1 > since) /\ (at(i) + 1 >= since => at(i) + 1 = since)
      BY <1>2, <2>1, <2>8
    <3>2. g[i + 1] = x
      BY <2>2, <2>3, <2>5, <3>1 DEF RebaseStep, Ok
    <3> QED BY <2>1, <3>1, <3>2 DEF Ok
  <2> QED BY <2>7, <2>8
<1> HIDE DEF Is, Ok
<1>8. n \in Is
  BY <1>1, <1>6, <1>7, AllNumbers
<1>9. Ok(n) /\ at(n) = R
  BY <1>1, <1>8 DEF Is
<1> HIDE DEF at
<1>10. Valid(g[n], C[R])
  BY <1>2, <1>9 DEF Ok
<1> QED BY <1>3, <1>10 DEF R

\* In storage's terms: a document as old as the row is backed by `past`.
LEMMA PastBacks ==
    ASSUME IInv, HistoryInv, doc # NotResident, doc.revision = stored.revision
    PROVE  /\ Backed(doc, past)
           /\ past[stored.revision] = stored.content
           /\ \A r \in 0..stored.revision : past[r] \in Doc
<1>1. doc \in ServerDocs /\ doc.revision \in Nat
  BY DEF IInv, TypeOK, ServerDocs
<1>2. Agree(Committed, past, doc.revision)
  BY <1>1 DEF Agree, Committed
<1>3. Backed(doc, Committed)
  BY DEF HistoryInv
<1>4. Backed(doc, past)
  BY <1>1, <1>2, <1>3, BackedMoves
<1> QED BY <1>4 DEF IInv, TypeOK, SnapshotIsReplay

\* A resident copy that is kept, read again or let go (open_wave, maybe_evict).
LEMMA ResidencyKeepsHistory ==
    ASSUME IInv, HistoryInv, UNCHANGED storage,
           doc' = doc \/ doc' = NotResident \/ doc' = Loaded
    PROVE  HistoryInv'
<1>1. UNCHANGED <<stored, past>>
  BY DEF storage
<1>2. CASE doc' = doc
  <2>1. Committed' = Committed
    BY <1>1, <1>2 DEF Committed
  <2> QED BY <1>2, <2>1 DEF HistoryInv, Backed, Links
<1>3. CASE doc' = NotResident
  BY <1>3 DEF HistoryInv
<1>4. CASE doc' = Loaded /\ doc' # doc
  <2>1. doc' = FromSnapshot(stored.content, stored.revision)
    BY <1>4 DEF Loaded
  <2>2. stored.revision \in Nat
    BY DEF IInv, TypeOK
  <2> DEFINE C == Committed'
  <2>3. Backed(FromSnapshot(stored.content, stored.revision), C)
    <3> HIDE DEF C
    <3> QED BY <2>2, SnapshotBacked
  <2> QED BY <2>1, <2>3 DEF HistoryInv, Backed, Links
<1> QED BY <1>2, <1>3, <1>4

\* ServerDoc::apply, kept or rolled back on the spot (Outgrow).
LEMMA ApplyKeepsHistory ==
    ASSUME IInv, HistoryInv, ApplyOp \/ Outgrow
    PROVE  HistoryInv'
<1>1. /\ call \in Calls /\ call # Idle /\ call.stage = "apply" /\ Applicable
      /\ UNCHANGED <<stored, past>>
  BY DEF ApplyOp, Outgrow, IInv, TypeOK, storage
<1>2. /\ SameAsStored /\ WithinBounds(doc, call.since, call.delta)
      /\ doc \in ServerDocs /\ doc # NotResident
  BY <1>1 DEF IInv, CallInv, TypeOK
<1>3. /\ Rebased \in Change /\ Valid(Rebased, doc.content)
      /\ OtCompose(doc.content, Rebased) \in Doc
  BY <1>1, <1>2 DEF Applicable, WithinBounds, Rebased
<1> DEFINE R == doc.revision
           a == Apply(doc, Rebased)
           C == [r \in 0..(R + 1) |-> IF r <= R THEN past[r] ELSE a.content]
<1>4. /\ R \in Nat /\ R = stored.revision /\ doc.content = stored.content
  BY <1>2 DEF SameAsStored, ServerDocs
<1>5. /\ Backed(doc, past) /\ past[R] = doc.content
  BY <1>2, <1>4, PastBacks
<1>6. /\ a \in ServerDocs /\ a.content = OtCompose(doc.content, Rebased)
      /\ a.revision = R + 1
  BY <1>2, <1>3, ApplyResult
<1> HIDE DEF R, a
<1>7. /\ Agree(past, C, R) /\ C[R] = past[R] /\ C[R + 1] = a.content
  BY <1>4 DEF Agree
<1> HIDE DEF C
<1>8. Backed(doc, C)
  BY <1>2, <1>5, <1>7, BackedMoves DEF R
<1>9. Backed(a, C)
  <2>1. C[doc.revision] = doc.content /\ C[doc.revision + 1] = OtCompose(doc.content, Rebased)
    BY <1>5, <1>6, <1>7 DEF R
  <2> QED BY <1>2, <1>3, <1>8, <2>1, ApplyBacked DEF a
<1>10. CASE ApplyOp
  <2>1. doc' = a
    BY <1>10 DEF ApplyOp, a
  <2>2. Committed' = C
    BY <1>1, <1>4, <1>6, <2>1 DEF Committed, C
  <2> QED BY <1>9, <2>1, <2>2 DEF HistoryInv, Backed, Links
<1>11. CASE Outgrow
  <2> DEFINE b == RollbackLast(a)
  <2>1. doc' = b
    BY <1>11 DEF Outgrow, a
  <2>2. b \in ServerDocs /\ b.revision = R
    BY <1>2, <1>3, RollbackUndoesApply DEF a, R
  <2>3. Backed(b, C)
    BY <1>6, <1>9, RollbackBacked
  <2> DEFINE D == Committed'
  <2>4. D = [r \in 0..R |-> IF r <= R THEN past[r] ELSE doc'.content]
    <3> HIDE DEF b
    <3> QED BY <1>1, <1>4, <2>1, <2>2 DEF Committed
  <2>5. Agree(C, D, R)
    <3> HIDE DEF D
    <3> QED BY <1>4, <2>4 DEF Agree, C
  <2> HIDE DEF D, b
  <2>6. Backed(b, D)
    BY <2>2, <2>3, <2>5, BackedMoves
  <2> QED BY <2>1, <2>6 DEF HistoryInv, Backed, Links, D
<1> QED BY <1>10, <1>11

\* commit_op: what was ahead of the row is now the row.
LEMMA CommitKeepsHistory ==
    ASSUME IInv, HistoryInv, Commit
    PROVE  HistoryInv'
<1>1. /\ call # Idle /\ call.stage = "commit" /\ doc' = doc
      /\ stored' = [content |-> doc.content, revision |-> doc.revision, writers |-> writers]
      /\ past' = [r \in DOMAIN past \cup {doc.revision} |->
                   IF r = doc.revision THEN doc.content ELSE past[r]]
  BY DEF Commit, memory
<1>2. /\ doc.revision = stored.revision + 1 /\ doc # NotResident
      /\ stored.revision \in Nat /\ DOMAIN past = 0..stored.revision
  BY <1>1 DEF IInv, CallInv, OneAhead, TypeOK
<1>3. Committed' = Committed
  <2>1. Committed' = [r \in 0..doc.revision |-> IF r <= doc.revision THEN past'[r] ELSE doc.content]
    BY <1>1 DEF Committed
  <2>2. ASSUME NEW r \in 0..doc.revision
        PROVE  (IF r <= doc.revision THEN past'[r] ELSE doc.content)
                = (IF r <= stored.revision THEN past[r] ELSE doc.content)
    <3>1. CASE r = doc.revision
      BY <1>1, <1>2, <3>1
    <3>2. CASE r # doc.revision
      BY <1>1, <1>2, <3>2
    <3> QED BY <3>1, <3>2
  <2> QED BY <2>1, <2>2 DEF Committed
<1> QED BY <1>1, <1>3 DEF HistoryInv, Backed, Links

\* A failed commit takes the entry back with the document it led to.
LEMMA CommitFailsKeepsHistory ==
    ASSUME IInv, HistoryInv, CommitFails
    PROVE  HistoryInv'
<1>1. /\ call # Idle /\ call.stage = "commit" /\ doc' = RollbackLast(doc)
      /\ UNCHANGED <<stored, past>>
  BY DEF CommitFails, storage
<1> DEFINE R == stored.revision
           b == RollbackLast(doc)
           C == Committed
           D == Committed'
<1>2. /\ doc \in ServerDocs /\ doc # NotResident /\ OneAhead /\ R \in Nat /\ stored.content \in Doc
  BY <1>1 DEF IInv, CallInv, TypeOK
<1>3. b \in ServerDocs /\ b.revision = R
  <2>1. /\ doc.revision = R + 1 /\ doc.history # <<>>
        /\ OtCompose(doc.content, Last(doc.history).undo) \in Doc
    BY <1>2 DEF OneAhead
  <2>2. doc.revision >= 1 /\ (R + 1) - 1 = R
    BY <1>2, <2>1
  <2> QED BY <1>2, <2>1, <2>2, RollbackResult
<1>4. C = [r \in 0..(R + 1) |-> IF r <= R THEN past[r] ELSE doc.content]
  BY <1>2 DEF Committed, OneAhead
<1>5. D = [r \in 0..R |-> IF r <= R THEN past[r] ELSE doc'.content]
  <2> HIDE DEF b
  <2>1. doc' = b
    BY <1>1 DEF b
  <2> QED BY <1>1, <1>3, <2>1 DEF Committed
<1>6. Backed(doc, C)
  BY <1>2 DEF HistoryInv
<1> HIDE DEF C, D, b, R
<1>7. Agree(C, D, R)
  BY <1>2, <1>4, <1>5 DEF Agree
<1>8. Backed(b, C)
  BY <1>2, <1>6, RollbackBacked DEF b
<1>9. Backed(b, D)
  BY <1>3, <1>7, <1>8, BackedMoves
<1> QED BY <1>1, <1>9 DEF HistoryInv, Backed, Links, D, b

\* The resident history always is the last stretch of what was committed, through
\* trimming, rollbacks, failed commits, evictions and restarts.
THEOREM HistoryIsCommitted == Spec => []HistoryInv
<1>1. Init => HistoryInv
  BY DEF Init, HistoryInv
<1>2. ASSUME IInv, HistoryInv, [Next]_vars
      PROVE  HistoryInv'
  <2>1. CASE ApplyOp \/ Outgrow
    BY <1>2, <2>1, ApplyKeepsHistory
  <2>2. CASE Commit
    BY <1>2, <2>2, CommitKeepsHistory
  <2>3. CASE CommitFails
    BY <1>2, <2>3, CommitFailsKeepsHistory
  <2>4. CASE LookupNew \/ LookupFails \/ LookupRepeat \/ Refuse \/ Reject \/ Publish
    <3>1. UNCHANGED storage /\ doc' = doc
      BY <2>4 DEF LookupNew, LookupFails, LookupRepeat, Refuse, Reject, Publish, memory
    <3> QED BY <1>2, <3>1, ResidencyKeepsHistory
  <2>5. ASSUME NEW c \in Conns, NEW op \in Ids, NEW since \in 0..(MaxRevision + 1),
               NEW change \in Submits, Submit(c, op, since, change)
        PROVE  HistoryInv'
    <3>1. UNCHANGED storage /\ doc' = Loaded
      BY <2>5 DEF Submit
    <3> QED BY <1>2, <3>1, ResidencyKeepsHistory
  <2>6. ASSUME NEW c \in Conns,
               Connect(c) \/ Open(c) \/ Leave(c) \/ Close(c) \/ Deliver(c) \/ SetMode(c)
        PROVE  HistoryInv'
    <3>1. UNCHANGED storage /\ (doc' = doc \/ doc' = NotResident \/ doc' = Loaded)
      BY <2>6 DEF Connect, Open, Leave, Close, Deliver, SetMode, KeepIfWatched, memory
    <3> QED BY <1>2, <3>1, ResidencyKeepsHistory
  <2>7. CASE Crash
    <3>1. UNCHANGED storage /\ doc' = NotResident
      BY <2>7 DEF Crash
    <3> QED BY <1>2, <3>1, ResidencyKeepsHistory
  <2>8. CASE UNCHANGED vars
    <3>1. UNCHANGED storage /\ doc' = doc
      BY <2>8 DEF vars, storage
    <3> QED BY <1>2, <3>1, ResidencyKeepsHistory
  <2> QED BY <1>2, <2>1, <2>2, <2>3, <2>4, <2>5, <2>6, <2>7, <2>8 DEF Next, ApplyOpStep
<1> QED BY <1>1, <1>2, Invariance, PTL DEF Spec

\* The history ServerDoc keeps serves what it is kept for, at every moment the
\* wave lock is free: at_revision gives the documents that were committed, and
\* `apply` accepts every edit that was valid at a revision still in the window.
THEOREM HistoryServesAlways ==
    ASSUME NEW CONSTANT Deltas, Submits \subseteq Deltas, TransformLaw(Deltas)
    PROVE  Spec => []HistoryServes
<1>1. ASSUME IInv, HistoryInv
      PROVE  HistoryServes
  <2> SUFFICES ASSUME call = Idle, doc # NotResident
               PROVE  /\ \A r \in OldestRetained(doc)..doc.revision : AtRevision(doc, r) = past[r]
                      /\ \A since \in OldestRetained(doc)..doc.revision, change \in Submits :
                            Valid(change, past[since]) =>
                                Valid(Rebase(doc, since, change), doc.content)
    BY DEF HistoryServes, HistoryReachesBack, StaleEditIsAccepted
  <2>1. /\ doc \in ServerDocs /\ doc.content = stored.content
        /\ doc.revision = stored.revision
    BY <1>1 DEF IInv, TypeOK, CallInv, SameAsStored
  <2>2. /\ Backed(doc, past) /\ past[doc.revision] = doc.content
        /\ \A r \in 0..doc.revision : past[r] \in Doc
    BY <1>1, <2>1, PastBacks
  <2>3. ASSUME NEW r \in OldestRetained(doc)..doc.revision
        PROVE  AtRevision(doc, r) = past[r]
    BY <2>1, <2>2, WalksBack
  <2>4. ASSUME NEW since \in OldestRetained(doc)..doc.revision, NEW change \in Submits,
               Valid(change, past[since])
        PROVE  Valid(Rebase(doc, since, change), doc.content)
    <3>1. change \in Deltas
      OBVIOUS
    <3>2. Valid(Rebase(doc, since, change), past[doc.revision])
      BY <2>1, <2>2, <2>4, <3>1, RebaseStaysValid
    <3> QED BY <2>2, <3>2
  <2> QED BY <2>3, <2>4
<1> QED BY <1>1, Invariance, HistoryIsCommitted, PTL
=============================================================================

------------------------------ MODULE OpCommit ------------------------------
(***************************************************************************)
(* How an edit becomes durable (AppState::apply_op and Db::commit_op): one *)
(* blip of one wave, its resident copy, its rows in the database, and the  *)
(* connections that watch it.                                              *)
(*                                                                         *)
(* The wave lock serialises submissions: `call` is the one that holds it.  *)
(* apply_op gives the lock up nowhere, but it waits twice, for the op-id   *)
(* lookup and for the commit; those are its stages.  Outbound queues are   *)
(* counted, not listed: what a queue holds matters only in that it can be  *)
(* full.                                                                   *)
(***************************************************************************)
EXTENDS ServerDoc, FiniteSets

CONSTANTS
    Conns,          \* connections (one user each)
    OpIds,          \* client op ids
    NoId,           \* a submission without an op id
    Submits,        \* the changes clients submit
    TooLarge(_),    \* a document over MAX_BLIP_UNITS or MAX_BLIP_RUNS
    Capacity,       \* OUTBOUND_CAPACITY
    MaxRevision,    \* bound: revisions committed
    NotResident, Idle

ASSUME SubmitsAssumption == Submits \subseteq Change
ASSUME CapacityAssumption == Capacity \in Nat \ {0}
ASSUME MaxRevisionAssumption == MaxRevision \in Nat
ASSUME DistinctValues == NoId \notin OpIds
ASSUME NotResidentAssumption == NotResident \notin ServerDocs
ASSUME EmptyDocFits == ~TooLarge(EmptyDoc)

VARIABLES
    doc,            \* the resident LiveBlip's document, or NotResident
    writers,        \* the resident blip's contributors
    frozen,         \* the wave's mode refuses edits
    stored,         \* the blips row: content, revision, contributors
    ops,            \* the ops table: revision -> op id and delta
    past,           \* history variable: the content committed at each revision
    call,           \* the submission holding the wave lock, or Idle
    status,         \* connection -> its life: see Statuses
    subs,           \* LiveWave.subscribers
    watching,       \* the connections whose Session.subscribed has the wave
    queued,         \* connection -> messages in its outbound queue
    position,       \* connection -> revision its stream of messages reaches
    acked           \* history variable: every acknowledgement sent

vars == <<doc, writers, frozen, stored, ops, past, call, status, subs, watching,
          queued, position, acked>>
memory == <<doc, writers>>
storage == <<stored, ops, past>>
wires == <<status, subs, watching, queued, position>>

Ids == OpIds \cup {NoId}
Calls == [stage : {"lookup", "apply", "commit", "publish"}, conn : Conns, op : Ids,
          since : Nat, delta : Change, writers : SUBSET Conns]
ASSUME IdleAssumption == Idle \notin Calls
Statuses == {"closed", "open", "killed", "closing", "panicked"}

TypeOK ==
    /\ doc \in ServerDocs \cup {NotResident}
    /\ writers \subseteq Conns
    /\ frozen \in BOOLEAN
    /\ stored \in [content : Doc, revision : Nat, writers : SUBSET Conns]
    /\ DOMAIN ops \subseteq Nat
    /\ \A r \in DOMAIN ops : ops[r] \in [op : Ids, delta : Change]
    /\ past \in [0..stored.revision -> Doc]
    /\ call \in Calls \cup {Idle}
    /\ status \in [Conns -> Statuses]
    /\ subs \subseteq Conns
    /\ watching \subseteq Conns
    /\ queued \in [Conns -> 0..Capacity]
    /\ position \in [Conns -> Nat]
    /\ acked \subseteq (Ids \X Nat)

Init ==
    /\ doc = NotResident
    /\ writers = {}
    /\ frozen = FALSE
    /\ stored = [content |-> EmptyDoc, revision |-> 0, writers |-> {}]
    /\ ops = [r \in {} |-> NoId]
    /\ past = [r \in {0} |-> EmptyDoc]
    /\ call = Idle
    /\ status = [c \in Conns |-> "closed"]
    /\ subs = {}
    /\ watching = {}
    /\ queued = [c \in Conns |-> 0]
    /\ position = [c \in Conns |-> 0]
    /\ acked = {}

-----------------------------------------------------------------------------
(* Residency, atomic here; module Residency opens it up.                   *)

\* open_wave: the resident copy, read from storage if there is none.
Loaded == IF doc = NotResident THEN FromSnapshot(stored.content, stored.revision) ELSE doc
LoadedWriters == IF doc = NotResident THEN stored.writers ELSE writers

(* Outbound queues.                                                        *)

Fits(c, n) == queued[c] + n <= Capacity

\* Mistakes: a message that does not fit is dropped and the watcher stays; the
\* watcher goes but its connection lives on.
FanDropsQuietly(watchers, count, self) ==
    /\ subs' = watchers
    /\ queued' = [c \in Conns |->
            IF c \in watchers /\ Fits(c, count[c]) THEN queued[c] + count[c] ELSE queued[c]]
    /\ UNCHANGED status
FanForgetsKill(watchers, count, self) ==
    LET overflow == {c \in watchers : ~Fits(c, count[c])}
    IN  /\ subs' = watchers \ overflow
        /\ queued' = [c \in Conns |->
                IF c \in overflow THEN Capacity
                ELSE IF c \in watchers THEN queued[c] + count[c] ELSE queued[c]]
        /\ UNCHANGED status

\* try_send of count[c] messages to each connection c of `watchers`.  A full
\* queue drops the subscriber and fires its kill switch; `self` is in the
\* middle of a command, any other connection may still have one waiting.
Fan(watchers, count, self) ==
    LET overflow == {c \in watchers : ~Fits(c, count[c])}
    IN  /\ subs' = watchers \ overflow
        /\ queued' = [c \in Conns |->
                IF c \in overflow THEN Capacity
                ELSE IF c \in watchers THEN queued[c] + count[c] ELSE queued[c]]
        /\ status' = [c \in Conns |->
                CASE c = self /\ (c \in overflow \/ status[c] = "killed") -> "closing"
                  [] c \in overflow /\ c # self /\ status[c] = "open" -> "killed"
                  [] OTHER -> status[c]]

\* Mistake: an error reply is queued without looking at the capacity.
AnswerUnbounded ==
    /\ queued' = [queued EXCEPT ![call.conn] = @ + 1]
    /\ UNCHANGED <<status, subs, watching, position, acked>>
    /\ call' = Idle

\* Session::send of an error: a full queue only fires the kill switch.
Answer ==
    LET c == call.conn
    IN  /\ IF queued[c] < Capacity
           THEN queued' = [queued EXCEPT ![c] = @ + 1] /\ UNCHANGED status
           ELSE status' = [status EXCEPT ![c] = "closing"] /\ UNCHANGED queued
        /\ UNCHANGED <<subs, watching, position, acked>>
        /\ call' = Idle

-----------------------------------------------------------------------------
(* apply_op, stage by stage.                                               *)

\* Bound: the change and its outcome stay in the universe under study.
WithinBounds(d, since, change) ==
    InWindow(d, since) =>
        LET rebased == Rebase(d, since, change)
        IN  /\ rebased \in Change
            /\ Valid(rebased, d.content) => OtCompose(d.content, rebased) \in Doc

AppliedAt(op) == {r \in DOMAIN ops : ops[r].op = op}

\* A killed connection can still run the one command it is waiting with.
Runs(c) == call = Idle /\ status[c] \in {"open", "killed"}

\* find_blip looks among the waves the session subscribed to, loading the wave
\* if need be; the command then takes the wave lock.
Submit(c, op, since, change) ==
    /\ Runs(c)
    /\ c \in watching
    /\ Loaded.revision < MaxRevision \/ (op \in OpIds /\ AppliedAt(op) # {})
    /\ WithinBounds(Loaded, since, change)
    /\ doc' = Loaded
    /\ writers' = LoadedWriters
    /\ status' = [status EXCEPT ![c] = IF @ = "killed" THEN "closing" ELSE @]
    /\ call' = [stage |-> "lookup", conn |-> c, op |-> op, since |-> since,
                delta |-> change, writers |-> LoadedWriters]
    /\ UNCHANGED <<frozen, storage, subs, watching, queued, position, acked>>

\* revision_for_op finds nothing: the work is new.
LookupNew ==
    /\ call # Idle /\ call.stage = "lookup"
    /\ call.op = NoId \/ AppliedAt(call.op) = {}
    /\ call' = [call EXCEPT !.stage = "apply"]
    /\ UNCHANGED <<memory, frozen, storage, wires, acked>>

\* The lookup itself fails: "applying anyway".
LookupFails ==
    /\ call # Idle /\ call.stage = "lookup" /\ call.op # NoId
    /\ call' = [call EXCEPT !.stage = "apply"]
    /\ UNCHANGED <<memory, frozen, storage, wires, acked>>

\* Mistake: a repeated op is acknowledged with the current revision.
LookupRepeatAcksLatest ==
    /\ call # Idle /\ call.stage = "lookup" /\ call.op # NoId /\ AppliedAt(call.op) # {}
    /\ Fan(subs, [c \in Conns |-> IF c = call.conn THEN 1 ELSE 0], call.conn)
    /\ acked' = IF call.conn \in subs /\ Fits(call.conn, 1)
                THEN acked \cup {<<call.op, doc.revision>>} ELSE acked
    /\ call' = Idle
    /\ UNCHANGED <<memory, frozen, storage, watching, position>>

\* The op is in the log already: acknowledge it with the revision it produced.
LookupRepeat ==
    /\ call # Idle /\ call.stage = "lookup" /\ call.op # NoId
    /\ \E r \in AppliedAt(call.op) :
        /\ Fan(subs, [c \in Conns |-> IF c = call.conn THEN 1 ELSE 0], call.conn)
        /\ acked' = IF call.conn \in subs /\ Fits(call.conn, 1)
                    THEN acked \cup {<<call.op, r>>} ELSE acked
    /\ call' = Idle
    /\ UNCHANGED <<memory, frozen, storage, watching, position>>

\* The mode check: the refusal names the blip.
Refuse ==
    /\ call # Idle /\ call.stage = "apply" /\ frozen
    /\ Answer
    /\ UNCHANGED <<memory, frozen, storage>>

Rebased == Rebase(doc, call.since, call.delta)
Applicable == InWindow(doc, call.since) /\ Valid(Rebased, doc.content)

\* ServerDoc::apply refuses: out of the window, past the end, split character.
Reject ==
    /\ call # Idle /\ call.stage = "apply" /\ ~frozen /\ ~Applicable
    /\ Answer
    /\ UNCHANGED <<memory, frozen, storage>>

\* The result is over the size limits: applied, rolled back, refused.
Outgrow ==
    /\ call # Idle /\ call.stage = "apply" /\ ~frozen /\ Applicable
    /\ TooLarge(Apply(doc, Rebased).content)
    /\ doc' = RollbackLast(Apply(doc, Rebased))
    /\ Answer
    /\ UNCHANGED <<writers, frozen, storage>>

\* Applied in memory, the author recorded; what is left is to make it durable.
ApplyOp ==
    /\ call # Idle /\ call.stage = "apply" /\ ~frozen /\ Applicable
    /\ ~TooLarge(Apply(doc, Rebased).content)
    /\ doc' = Apply(doc, Rebased)
    /\ writers' = writers \cup {call.conn}
    /\ call' = [call EXCEPT !.stage = "commit", !.writers = writers]
    /\ UNCHANGED <<frozen, storage, wires, acked>>

\* Mistake: without the unique index, the lookup is all there is.
CommitAllowedTwice == doc.revision \notin DOMAIN ops

\* The primary key (blip_id, revision) and the unique index on op ids.
CommitAllowed ==
    /\ doc.revision \notin DOMAIN ops
    /\ call.op = NoId \/ AppliedAt(call.op) = {}

\* Mistakes: INSERT OR IGNORE, so that a conflict loses the log row and keeps the
\* snapshot; the snapshot keeps the content it had.
CommitIgnoresConflict ==
    /\ call # Idle /\ call.stage = "commit"
    /\ ops' = IF CommitAllowed
              THEN [r \in DOMAIN ops \cup {doc.revision} |->
                      IF r = doc.revision THEN [op |-> call.op, delta |-> Last(doc.history).delta]
                      ELSE ops[r]]
              ELSE ops
    /\ stored' = [content |-> doc.content, revision |-> doc.revision, writers |-> writers]
    /\ past' = [r \in DOMAIN past \cup {doc.revision} |->
                 IF r = doc.revision THEN doc.content ELSE past[r]]
    /\ call' = [call EXCEPT !.stage = "publish"]
    /\ UNCHANGED <<memory, frozen, wires, acked>>
CommitKeepsOldContent ==
    /\ call # Idle /\ call.stage = "commit" /\ CommitAllowed
    /\ ops' = [r \in DOMAIN ops \cup {doc.revision} |->
                 IF r = doc.revision THEN [op |-> call.op, delta |-> Last(doc.history).delta]
                 ELSE ops[r]]
    /\ stored' = [stored EXCEPT !.revision = doc.revision, !.writers = writers]
    /\ past' = [r \in DOMAIN past \cup {doc.revision} |->
                 IF r = doc.revision THEN doc.content ELSE past[r]]
    /\ call' = [call EXCEPT !.stage = "publish"]
    /\ UNCHANGED <<memory, frozen, wires, acked>>

\* commit_op: the log row and the snapshot in one transaction.
Commit ==
    /\ call # Idle /\ call.stage = "commit" /\ CommitAllowed
    /\ ops' = [r \in DOMAIN ops \cup {doc.revision} |->
                 IF r = doc.revision THEN [op |-> call.op, delta |-> Last(doc.history).delta]
                 ELSE ops[r]]
    /\ stored' = [content |-> doc.content, revision |-> doc.revision, writers |-> writers]
    /\ past' = [r \in DOMAIN past \cup {doc.revision} |->
                 IF r = doc.revision THEN doc.content ELSE past[r]]
    /\ call' = [call EXCEPT !.stage = "publish"]
    /\ UNCHANGED <<memory, frozen, wires, acked>>

\* Mistake: the failed author stays among the contributors.
CommitFailsKeepsAuthor ==
    /\ call # Idle /\ call.stage = "commit"
    /\ doc' = RollbackLast(doc)
    /\ Answer
    /\ UNCHANGED <<writers, frozen, storage>>

\* The transaction fails, on a constraint or for any other reason: the memory
\* goes back to what storage holds and the client is told to reload.
CommitFails ==
    /\ call # Idle /\ call.stage = "commit"
    /\ doc' = RollbackLast(doc)
    /\ writers' = call.writers
    /\ Answer
    /\ UNCHANGED <<frozen, storage>>

\* The op goes to every other watcher and the acknowledgement to the author.
Publish ==
    /\ call # Idle /\ call.stage = "publish"
    /\ Fan(subs, [c \in Conns |-> 1], call.conn)
    /\ position' = [c \in Conns |->
            IF c \in subs /\ Fits(c, 1) THEN doc.revision ELSE position[c]]
    /\ acked' = IF call.conn \in subs /\ Fits(call.conn, 1)
                THEN acked \cup {<<call.op, doc.revision>>} ELSE acked
    /\ call' = Idle
    /\ UNCHANGED <<memory, frozen, storage, watching>>

-----------------------------------------------------------------------------
(* The rest of the wave's life.                                            *)

\* A socket is accepted and greeted; nothing is subscribed yet.
Connect(c) ==
    /\ status[c] = "closed"
    /\ status' = [status EXCEPT ![c] = "open"]
    /\ queued' = [queued EXCEPT ![c] = 1]
    /\ UNCHANGED <<memory, frozen, storage, call, subs, watching, position, acked>>

\* Mistake: the lock is let go before the op is published.
OpenBeforePublish(c) ==
    /\ status[c] = "open" /\ (call # Idle => call.stage = "publish")
    /\ doc' = Loaded
    /\ writers' = LoadedWriters
    /\ watching' = watching \cup {c}
    /\ Fan(subs \cup {c}, [x \in Conns |-> IF x = c THEN 2 ELSE 1], c)
    /\ position' = [position EXCEPT ![c] = Loaded.revision]
    /\ UNCHANGED <<frozen, storage, call, acked>>

\* ws::open_wave, the first time or again to resynchronise: subscribe, send
\* the WaveState snapshot, and presence to everybody.
Open(c) ==
    /\ Runs(c)
    /\ doc' = Loaded
    /\ writers' = LoadedWriters
    /\ watching' = watching \cup {c}
    /\ Fan(subs \cup {c}, [x \in Conns |-> IF x = c THEN 2 ELSE 1], c)
    /\ position' = [position EXCEPT ![c] = Loaded.revision]
    /\ UNCHANGED <<frozen, storage, call, acked>>

\* maybe_evict: a wave without subscribers leaves memory.
KeepIfWatched ==
    /\ doc' = IF subs' = {} THEN NotResident ELSE Loaded
    /\ writers' = IF subs' = {} THEN {} ELSE LoadedWriters

\* leave_wave on request: unsubscribe, tell the others, evict.
Leave(c) ==
    /\ Runs(c)
    /\ c \in watching
    /\ watching' = watching \ {c}
    /\ Fan(subs \ {c}, [x \in Conns |-> 1], c)
    /\ KeepIfWatched
    /\ position' = [position EXCEPT ![c] = 0]
    /\ UNCHANGED <<frozen, storage, call, acked>>

\* The connection ends, by the client or by its kill switch; leave_wave for a
\* wave it had subscribed to.
Close(c) ==
    /\ call = Idle
    /\ status[c] \notin {"closed", "panicked"}
    /\ watching' = watching \ {c}
    /\ LET told == IF c \in watching THEN subs \ {c} ELSE {}
           full == {x \in told : ~Fits(x, 1)}
       IN  /\ subs' = (subs \ {c}) \ full
           /\ queued' = [x \in Conns |-> IF x = c THEN 0
                            ELSE IF x \in told \ full THEN queued[x] + 1 ELSE queued[x]]
           /\ status' = [x \in Conns |->
                CASE x = c -> "closed"
                  [] x \in full /\ status[x] = "open" -> "killed"
                  [] OTHER -> status[x]]
    /\ IF c \in watching THEN KeepIfWatched ELSE UNCHANGED memory
    /\ position' = [position EXCEPT ![c] = 0]
    /\ UNCHANGED <<frozen, storage, call, acked>>

\* The writer task puts one message on the socket.
Deliver(c) ==
    /\ queued[c] > 0
    /\ queued' = [queued EXCEPT ![c] = @ - 1]
    /\ UNCHANGED <<memory, frozen, storage, call, status, subs, watching, position, acked>>

\* set_mode by the creator: stored, then enforced, then broadcast.
SetMode(c) ==
    /\ Runs(c)
    /\ c \in watching
    /\ doc' = Loaded
    /\ writers' = LoadedWriters
    /\ frozen' = ~frozen
    /\ Fan(subs, [x \in Conns |-> 1], c)
    /\ UNCHANGED <<storage, call, watching, position, acked>>

\* Mistake: the newest commit had not reached the file.
CrashLosesCommit ==
    /\ call # Idle /\ call.stage = "publish"
    /\ ops' = [r \in 1..(stored.revision - 1) |-> ops[r]]
    /\ past' = [r \in 0..(stored.revision - 1) |-> past[r]]
    /\ stored' = [content |-> past[stored.revision - 1], revision |-> stored.revision - 1,
                  writers |-> call.writers]
    /\ doc' = NotResident
    /\ writers' = {}
    /\ call' = Idle
    /\ subs' = {}
    /\ watching' = {}
    /\ status' = [c \in Conns |-> "closed"]
    /\ queued' = [c \in Conns |-> 0]
    /\ position' = [c \in Conns |-> 0]
    /\ UNCHANGED <<frozen, acked>>

\* The process dies: memory, connections and the call in progress are gone.
Crash ==
    /\ doc' = NotResident
    /\ writers' = {}
    /\ call' = Idle
    /\ subs' = {}
    /\ watching' = {}
    /\ status' = [c \in Conns |-> "closed"]
    /\ queued' = [c \in Conns |-> 0]
    /\ position' = [c \in Conns |-> 0]
    /\ UNCHANGED <<frozen, storage, acked>>

ApplyOpStep ==
    \/ LookupNew \/ LookupFails \/ LookupRepeat
    \/ Refuse \/ Reject \/ Outgrow \/ ApplyOp
    \/ Commit \/ CommitFails \/ Publish

Next ==
    \/ \E c \in Conns, op \in Ids, since \in 0..(MaxRevision + 1), change \in Submits :
            Submit(c, op, since, change)
    \/ ApplyOpStep
    \/ \E c \in Conns :
            Connect(c) \/ Open(c) \/ Leave(c) \/ Close(c) \/ Deliver(c) \/ SetMode(c)
    \/ Crash

Spec == Init /\ [][Next]_vars

-----------------------------------------------------------------------------
(* A command that panics.  Unwinding releases the wave lock where it is;   *)
(* evict_after_panic then has to take it again, behind whoever waits.      *)

Panic ==
    /\ call # Idle
    /\ status' = [status EXCEPT ![call.conn] = "panicked"]
    /\ call' = Idle
    /\ UNCHANGED <<memory, frozen, storage, subs, watching, queued, position, acked>>

EvictAfterPanic(c) ==
    /\ call = Idle
    /\ status[c] = "panicked"
    /\ status' = [x \in Conns |->
            CASE x = c -> "closing"
              [] x # c /\ x \in subs /\ status[x] = "open" -> "killed"
              [] OTHER -> status[x]]
    /\ subs' = {}
    /\ doc' = NotResident
    /\ writers' = {}
    /\ queued' = [queued EXCEPT ![c] = IF Fits(c, 1) THEN @ + 1 ELSE @]
    /\ UNCHANGED <<frozen, storage, call, watching, position, acked>>

PanicNext == Next \/ Panic \/ \E c \in Conns : EvictAfterPanic(c)

PanicSpec == Init /\ [][PanicNext]_vars

-----------------------------------------------------------------------------
(* Properties.                                                             *)

\* "The snapshot can never drift from the log": no revision of the op log is
\* missing, whatever commits failed and wherever the process died (apply_op's
\* rollback exists to prevent "a permanent hole in the op log").
LogHasNoHoles == DOMAIN ops = 1..stored.revision

\* Replaying the log from the empty document gives the stored snapshot, and
\* gave the committed one at every earlier revision (playback, commit_op).
SnapshotIsReplay ==
    /\ past[0] = EmptyDoc
    /\ \A r \in 1..stored.revision : past[r] = OtCompose(past[r - 1], ops[r].delta)
    /\ past[stored.revision] = stored.content

\* The log is whole and the snapshot is its replay.
LogIsReplay == LogHasNoHoles /\ SnapshotIsReplay

\* Between submissions the resident document is exactly what storage holds:
\* a failed commit or an oversized result leaves no trace in memory.
MemoryMatchesStorage ==
    (call = Idle /\ doc # NotResident) =>
        /\ doc.content = stored.content
        /\ doc.revision = stored.revision
        /\ writers = stored.writers

\* Walking the resident history backwards gives the documents that were
\* committed, after any mix of trimming, rollbacks and reloads (at_revision).
HistoryReachesBack ==
    (call = Idle /\ doc # NotResident) =>
        \A r \in OldestRetained(doc)..doc.revision : AtRevision(doc, r) = past[r]

\* No op id is committed twice, even when the idempotency lookup failed.
OpAppliedOnce ==
    \A r, s \in DOMAIN ops : ops[r].op = ops[s].op => r = s \/ ops[r].op = NoId

\* What was acknowledged is in the log, at the revision acknowledged, for good.
AckedIsDurable ==
    \A a \in acked : a[2] \in DOMAIN ops /\ ops[a[2]].op = a[1]

\* A watcher's stream of messages always reaches the committed revision, once
\* the submission in progress has been published: one that would miss a
\* message is no longer a watcher.
SubscriberIsCurrent ==
    (call = Idle \/ call.stage # "publish") =>
        \A c \in subs : position[c] = stored.revision

\* A watcher that stays receives every revision once and in order: the op it is
\* sent is the next one after what its stream reaches, never one its snapshot
\* already held and never one further on (broadcast, open_wave's WaveState).
Published == call # Idle /\ call.stage = "publish" /\ call' = Idle
StreamHasNoGaps ==
    [][\A c \in subs \cap subs' :
            position'[c] = IF Published THEN position[c] + 1 ELSE position[c]]_vars

\* "Silently dropping it would leave a client that still believes it is watching
\* the wave": a connection that is no longer a subscriber of a wave it opened has
\* had its kill switch fired (disconnect, evict_after_panic).
UnsubscribedIsDying == \A c \in watching \ subs : status[c] # "open"

\* A change that was valid at a revision the history still reaches is accepted
\* by `apply` now: rebasing never turns a legitimate edit into a resync.
StaleEditIsAccepted ==
    (call = Idle /\ doc # NotResident) =>
        \A since \in OldestRetained(doc)..doc.revision, change \in Submits :
            Valid(change, past[since]) => Valid(Rebase(doc, since, change), doc.content)

\* The history that ServerDoc keeps is good for what it is kept for: at_revision
\* walks back through it, and apply rebases across it.
HistoryServes == HistoryReachesBack /\ StaleEditIsAccepted

\* The pipeline implements OpLog: through every stage, rollback, eviction and
\* crash, the rows change only by the whole commit of one op that was not there
\* (commit_op), nothing committed is taken back, and an Ack is sent only for an op
\* that has that revision.
Log == INSTANCE OpLog WITH log <- ops, revision <- stored.revision,
                           snapshot <- stored.content, acks <- acked
CommitsAreAtomic == Log!Spec
=============================================================================

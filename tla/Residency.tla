----------------------------- MODULE Residency -----------------------------
(***************************************************************************)
(* One wave in and out of memory: the residency map, the copies tasks hold *)
(* by Arc, the wave lock of each copy and the residency lock               *)
(* (AppState::open_wave, maybe_evict, evict_after_panic and their callers).*)
(*                                                                         *)
(* What a task does between two awaits is one step.  A copy is described   *)
(* by the writes to storage it lacks: an edit through a copy that lacks    *)
(* one collides with it on the primary key of the ops table.               *)
(***************************************************************************)
EXTENDS TLC

CONSTANTS
    Sockets,    \* WebSocket connections: one task each
    Agents,     \* requests to the agent API: one task each
    Copies,     \* identities for LiveWave copies; one is reused once dropped
    None,
    Refusals,   \* TRUE: whoever opens the wave may not be one of its participants
    Overflows,  \* TRUE: an outbound queue may be full when it is written to
    Panics      \* TRUE: an edit or a reply may panic before it is stored

Tasks == Sockets \cup Agents

ASSUME NoneIsNothing == None \notin Copies \cup Sockets \cup Agents
ASSUME SocketsAreNotAgents == Sockets \cap Agents = {}

VARIABLES
    resident,   \* AppState.waves: the copy in the map, or None
    evicted,    \* copy -> LiveWave.evicted
    subs,       \* copy -> LiveWave.subscribers
    lacks,      \* copy -> kinds of writes in storage that the copy misses
    lock,       \* copy -> the task holding its wave lock, or None
    residency,  \* the task holding AppState.residency, or None
    at,         \* task -> what it does next
    goal,       \* task -> what it called open_wave for
    arc,        \* task -> the copy it holds, or None
    read,       \* task -> what the rows it read from storage miss by now
    watching,   \* connections whose Session.subscribed has the wave
    killed,     \* connections whose kill switch has fired
    refused     \* history: who opened the wave and may not view it

residencyVars == <<resident, evicted, subs, lacks, lock, residency, at, goal, arc, read,
                   watching, killed, refused>>

Writes == {"edit", "reply"}
Steps == {"idle", "get", "load", "insert", "lock", "apply", "commit", "reply",
          "evict", "evictLock", "panicked", "panicLock"}
Goals == {"open", "reopen", "find", "leave", "reply"}

ResidencyTypeOK ==
    /\ resident \in Copies \cup {None}
    /\ evicted \in [Copies -> BOOLEAN]
    /\ subs \in [Copies -> SUBSET Sockets]
    /\ lacks \in [Copies -> SUBSET Writes]
    /\ lock \in [Copies -> Tasks \cup {None}]
    /\ residency \in Tasks \cup {None}
    /\ at \in [Tasks -> Steps]
    /\ goal \in [Tasks -> Goals]
    /\ arc \in [Tasks -> Copies \cup {None}]
    /\ read \in [Tasks -> SUBSET Writes]
    /\ watching \subseteq Sockets
    /\ killed \subseteq Sockets
    /\ refused \subseteq Sockets

ResidencyInit ==
    /\ resident = None
    /\ evicted = [k \in Copies |-> TRUE]
    /\ subs = [k \in Copies |-> {}]
    /\ lacks = [k \in Copies |-> {}]
    /\ lock = [k \in Copies |-> None]
    /\ residency = None
    /\ at = [t \in Tasks |-> "idle"]
    /\ goal = [t \in Tasks |-> "open"]
    /\ arc = [t \in Tasks |-> None]
    /\ read = [t \in Tasks |-> {}]
    /\ watching = {}
    /\ killed = {}
    /\ refused = {}

-----------------------------------------------------------------------------
Goto(t, step) == at' = [at EXCEPT ![t] = step]

\* The task ends its command and drops its Arc.
Finish(t) ==
    /\ Goto(t, "idle")
    /\ goal' = [goal EXCEPT ![t] = "open"]
    /\ arc' = [arc EXCEPT ![t] = None]

\* A task takes a wave lock only to hold it across an await; a step that needs
\* it just for itself only has to find it free.
Unlocked(k) == lock[k] = None

\* Messages to the watchers of a copy: those that overflow are dropped and killed.
Tell(k, watchers) ==
    \E full \in (IF Overflows THEN SUBSET watchers ELSE {{}}) :
        /\ subs' = [subs EXCEPT ![k] = watchers \ full]
        /\ killed' = killed \cup full

\* Something was written through copy k: whatever was read before misses it.
InUse(k) == k = resident \/ \E t \in Tasks : arc[t] = k
Written(k, write) ==
    /\ lacks' = [x \in Copies |-> IF x # k /\ InUse(x) THEN lacks[x] \cup {write} ELSE lacks[x]]
    /\ read' = [t \in Tasks |-> IF at[t] = "insert" THEN read[t] \cup {write} ELSE read[t]]

(* A connection takes a command, an agent sends a request.                 *)

Start(t, purpose) ==
    /\ at[t] = "idle"
    /\ Goto(t, "get")
    /\ goal' = [goal EXCEPT ![t] = purpose]
    /\ UNCHANGED <<resident, evicted, subs, lacks, lock, residency, arc, read, refused>>

StartOpen(c) == c \notin killed /\ Start(c, "open") /\ UNCHANGED <<watching, killed>>
StartEdit(c) ==
    /\ c \notin killed /\ c \in watching
    /\ Start(c, "find")
    /\ UNCHANGED <<watching, killed>>
StartReply(a) == Start(a, "reply") /\ UNCHANGED <<watching, killed>>

\* leave_wave: on request, or because the connection ends.
StartLeave(c) ==
    /\ c \in watching
    /\ Start(c, "leave")
    /\ watching' = watching \ {c}
    /\ killed' = killed \ {c}

\* A killed connection that watches nothing ends; another may take its place.
End(c) ==
    /\ at[c] = "idle" /\ c \in killed \ watching
    /\ killed' = killed \ {c}
    /\ UNCHANGED <<resident, evicted, subs, lacks, lock, residency, at, goal, arc, read, watching, refused>>

-----------------------------------------------------------------------------
(* AppState::open_wave.                                                    *)

\* The hot path: no residency lock.
GetResident(t) ==
    /\ at[t] = "get" /\ resident # None
    /\ arc' = [arc EXCEPT ![t] = resident]
    /\ Goto(t, "lock")
    /\ UNCHANGED <<resident, evicted, subs, lacks, lock, residency, goal, read, watching, killed, refused>>

GetNothing(t) ==
    /\ at[t] = "get" /\ resident = None
    /\ Goto(t, "load")
    /\ UNCHANGED <<resident, evicted, subs, lacks, lock, residency, goal, arc, read,
                   watching, killed, refused>>

\* The re-check under the residency lock finds that another task loaded it.
LoadFinds(t) ==
    /\ at[t] = "load" /\ residency = None /\ resident # None
    /\ arc' = [arc EXCEPT ![t] = resident]
    /\ Goto(t, "lock")
    /\ UNCHANGED <<resident, evicted, subs, lacks, lock, residency, goal, read, watching, killed, refused>>

\* Otherwise the rows are read, with the residency lock held.
LoadReads(t) ==
    /\ at[t] = "load" /\ residency = None /\ resident = None
    /\ residency' = t
    /\ read' = [read EXCEPT ![t] = {}]
    /\ Goto(t, "insert")
    /\ UNCHANGED <<resident, evicted, subs, lacks, lock, goal, arc, watching, killed, refused>>

Insert(t, k) ==
    /\ at[t] = "insert"
    /\ ~InUse(k)
    /\ resident' = k
    /\ evicted' = [evicted EXCEPT ![k] = FALSE]
    /\ subs' = [subs EXCEPT ![k] = {}]
    /\ lacks' = [lacks EXCEPT ![k] = read[t]]
    /\ read' = [read EXCEPT ![t] = {}]
    /\ residency' = None
    /\ arc' = [arc EXCEPT ![t] = k]
    /\ Goto(t, "lock")
    /\ UNCHANGED <<lock, goal, watching, killed, refused>>

\* A read fails: the command ends with an error, but leave_wave and the agent API
\* go on to maybe_evict.
LoadFails(t) ==
    /\ at[t] = "insert"
    /\ residency' = None
    /\ read' = [read EXCEPT ![t] = {}]
    /\ IF goal[t] \in {"leave", "reply"} THEN Goto(t, "evict") /\ UNCHANGED <<goal, arc>>
       ELSE Finish(t)
    /\ UNCHANGED <<resident, evicted, subs, lacks, lock, watching, killed, refused>>

-----------------------------------------------------------------------------
(* What the wave was wanted for.                                           *)

Enters(t, purposes) == at[t] = "lock" /\ goal[t] \in purposes /\ Unlocked(arc[t])

\* ws::open_wave: the copy was evicted meanwhile; try once more.
Reopen(c) ==
    /\ Enters(c, {"open"}) /\ evicted[arc[c]]
    /\ goal' = [goal EXCEPT ![c] = "reopen"]
    /\ arc' = [arc EXCEPT ![c] = None]
    /\ Goto(c, "get")
    /\ UNCHANGED <<resident, evicted, subs, lacks, lock, residency, read, watching, killed, refused>>

\* The user may not view the wave, which is resident by now.
OpenRefused(c) ==
    /\ Refusals
    /\ Enters(c, {"open", "reopen"})
    /\ goal[c] = "open" => ~evicted[arc[c]]
    /\ Finish(c)
    /\ refused' = refused \cup {c}
    /\ UNCHANGED <<resident, evicted, subs, lacks, lock, residency, read, watching, killed>>

\* Subscribe, send the snapshot, tell the others.
Attach(c) ==
    /\ Enters(c, {"open", "reopen"})
    /\ goal[c] = "open" => ~evicted[arc[c]]
    /\ Tell(arc[c], subs[arc[c]] \cup {c})
    /\ watching' = watching \cup {c}
    /\ Finish(c)
    /\ UNCHANGED <<resident, evicted, lacks, lock, residency, read, refused>>

\* find_blip has seen the blip and let the lock go; the Arc stays.
Find(c) ==
    /\ Enters(c, {"find"})
    /\ Goto(c, "apply")
    /\ UNCHANGED <<resident, evicted, subs, lacks, lock, residency, goal, arc, read,
                   watching, killed, refused>>

\* Mistake: the lock is not waited for.
ApplyOpUnlocked(c) ==
    /\ at[c] = "apply"
    /\ lock' = [lock EXCEPT ![arc[c]] = c]
    /\ Goto(c, "commit")
    /\ UNCHANGED <<resident, evicted, subs, lacks, residency, goal, arc, read, watching, killed, refused>>

\* apply_op, up to the commit.
ApplyOp(c) ==
    /\ at[c] = "apply" /\ Unlocked(arc[c])
    /\ lock' = [lock EXCEPT ![arc[c]] = c]
    /\ Goto(c, "commit")
    /\ UNCHANGED <<resident, evicted, subs, lacks, residency, goal, arc, read, watching, killed, refused>>

\* Mistake: the map is consulted again, under its lock, with the wave lock held.
CommitWaitsForResidency(c) ==
    /\ at[c] = "commit" /\ residency = None
    /\ IF "edit" \in lacks[arc[c]]
       THEN UNCHANGED <<lacks, read, subs, killed>>
       ELSE Written(arc[c], "edit") /\ Tell(arc[c], subs[arc[c]])
    /\ lock' = [lock EXCEPT ![arc[c]] = None]
    /\ Finish(c)
    /\ UNCHANGED <<resident, evicted, residency, watching, refused>>

\* The commit succeeds and is published, or collides and is rolled back.
Commit(c) ==
    /\ at[c] = "commit"
    /\ IF "edit" \in lacks[arc[c]]
       THEN UNCHANGED <<lacks, read, subs, killed>>
       ELSE Written(arc[c], "edit") /\ Tell(arc[c], subs[arc[c]])
    /\ lock' = [lock EXCEPT ![arc[c]] = None]
    /\ Finish(c)
    /\ UNCHANGED <<resident, evicted, residency, watching, refused>>

\* create_reply: start again as long as the copy turns out to be evicted.
ReplyAgain(a) ==
    /\ Enters(a, {"reply"}) /\ evicted[arc[a]]
    /\ arc' = [arc EXCEPT ![a] = None]
    /\ Goto(a, "get")
    /\ UNCHANGED <<resident, evicted, subs, lacks, lock, residency, goal, read, watching, killed, refused>>

\* Mistake: the evicted copy is used as it is.
ReplyLocksAny(a) ==
    /\ Enters(a, {"reply"})
    /\ lock' = [lock EXCEPT ![arc[a]] = a]
    /\ Goto(a, "reply")
    /\ UNCHANGED <<resident, evicted, subs, lacks, residency, goal, arc, read, watching, killed, refused>>

ReplyLocks(a) ==
    /\ Enters(a, {"reply"}) /\ ~evicted[arc[a]]
    /\ lock' = [lock EXCEPT ![arc[a]] = a]
    /\ Goto(a, "reply")
    /\ UNCHANGED <<resident, evicted, subs, lacks, residency, goal, arc, read, watching, killed, refused>>

\* Mistake: the request ends there, and the wave it loaded stays.
ReplyKeepsTheWave(a) ==
    /\ at[a] = "reply"
    /\ \/ Written(arc[a], "reply") /\ Tell(arc[a], subs[arc[a]])
       \/ UNCHANGED <<lacks, read, subs, killed>>
    /\ lock' = [lock EXCEPT ![arc[a]] = None]
    /\ Finish(a)
    /\ UNCHANGED <<resident, evicted, residency, watching, refused>>

\* The blip and its receipt are stored, then announced; or the request is refused.
\* Then maybe_evict.
Reply(a) ==
    /\ at[a] = "reply"
    /\ \/ Written(arc[a], "reply") /\ Tell(arc[a], subs[arc[a]])
       \/ UNCHANGED <<lacks, read, subs, killed>>
    /\ lock' = [lock EXCEPT ![arc[a]] = None]
    /\ arc' = [arc EXCEPT ![a] = None]
    /\ Goto(a, "evict")
    /\ UNCHANGED <<resident, evicted, residency, goal, watching, refused>>

\* leave_wave: unsubscribe, tell the others, let go, then maybe_evict.
Leave(c) ==
    /\ Enters(c, {"leave"})
    /\ Tell(arc[c], subs[arc[c]] \ {c})
    /\ arc' = [arc EXCEPT ![c] = None]
    /\ Goto(c, "evict")
    /\ UNCHANGED <<resident, evicted, lacks, lock, residency, goal, read, watching, refused>>

-----------------------------------------------------------------------------
(* Eviction.  The residency lock is held while waiting for the wave lock.  *)

\* After a panic a connection ends and leaves the wave, a request is answered.
AfterPanic(t) ==
    IF t \in Agents THEN Finish(t) /\ UNCHANGED watching
    ELSE /\ Goto(t, "get")
         /\ goal' = [goal EXCEPT ![t] = "leave"]
         /\ arc' = [arc EXCEPT ![t] = None]
         /\ watching' = watching \ {t}

EvictNothing(t) ==
    /\ at[t] \in {"evict", "panicked"} /\ residency = None /\ resident = None
    /\ IF at[t] = "evict" THEN Finish(t) /\ UNCHANGED <<watching, killed>>
       ELSE AfterPanic(t) /\ killed' = killed \ {t}
    /\ UNCHANGED <<resident, evicted, subs, lacks, lock, residency, read, refused>>

EvictGets(t) ==
    /\ at[t] \in {"evict", "panicked"} /\ residency = None /\ resident # None
    /\ residency' = t
    /\ arc' = [arc EXCEPT ![t] = resident]
    /\ Goto(t, IF at[t] = "evict" THEN "evictLock" ELSE "panicLock")
    /\ UNCHANGED <<resident, evicted, subs, lacks, lock, goal, read, watching, killed, refused>>

\* Mistake: the copy leaves the map without its tombstone.
MaybeEvictUnmarked(t) ==
    /\ at[t] = "evictLock" /\ Unlocked(arc[t])
    /\ resident' = IF subs[arc[t]] = {} THEN None ELSE resident
    /\ residency' = None
    /\ Finish(t)
    /\ UNCHANGED <<evicted, subs, lacks, lock, read, watching, killed, refused>>

MaybeEvict(t) ==
    /\ at[t] = "evictLock" /\ Unlocked(arc[t])
    /\ IF subs[arc[t]] = {}
       THEN evicted' = [evicted EXCEPT ![arc[t]] = TRUE] /\ resident' = None
       ELSE UNCHANGED <<evicted, resident>>
    /\ residency' = None
    /\ Finish(t)
    /\ UNCHANGED <<subs, lacks, lock, read, watching, killed, refused>>

\* A panic unwinds out of apply_op or create_reply and releases the wave lock.
Panic(t) ==
    /\ Panics /\ at[t] \in {"commit", "reply"}
    /\ lock' = [lock EXCEPT ![arc[t]] = None]
    /\ arc' = [arc EXCEPT ![t] = None]
    /\ Goto(t, "panicked")
    /\ UNCHANGED <<resident, evicted, subs, lacks, residency, goal, read, watching, killed, refused>>

\* evict_after_panic, whoever is watching.
EvictAfterPanic(t) ==
    /\ at[t] = "panicLock" /\ Unlocked(arc[t])
    /\ killed' = (killed \cup subs[arc[t]]) \ {t}
    /\ subs' = [subs EXCEPT ![arc[t]] = {}]
    /\ evicted' = [evicted EXCEPT ![arc[t]] = TRUE]
    /\ resident' = None
    /\ residency' = None
    /\ AfterPanic(t)
    /\ UNCHANGED <<lacks, lock, read, refused>>

OpenWave(t) ==
    GetResident(t) \/ GetNothing(t) \/ LoadFinds(t) \/ LoadReads(t) \/ LoadFails(t)
        \/ \E k \in Copies : Insert(t, k)
Evict(t) == EvictNothing(t) \/ EvictGets(t) \/ MaybeEvict(t) \/ EvictAfterPanic(t)
Command(c) ==
    \/ OpenWave(c) \/ Evict(c)
    \/ Reopen(c) \/ OpenRefused(c) \/ Attach(c) \/ Find(c) \/ ApplyOp(c) \/ Commit(c) \/ Leave(c)
Request(a) == OpenWave(a) \/ Evict(a) \/ ReplyAgain(a) \/ ReplyLocks(a) \/ Reply(a)

ResidencyNext ==
    \/ \E c \in Sockets : StartOpen(c) \/ StartEdit(c) \/ StartLeave(c) \/ End(c) \/ Command(c)
    \/ \E a \in Agents : StartReply(a) \/ Request(a)
    \/ \E t \in Tasks : Panic(t)

\* Every task runs, and tokio's mutexes hand themselves over first come, first
\* served, so nobody waiting for one is passed over for ever.
ResidencyFairness ==
    /\ \A c \in Sockets : SF_residencyVars(Command(c))
    /\ \A a \in Agents : SF_residencyVars(Request(a))

ResidencySpec == ResidencyInit /\ [][ResidencyNext]_residencyVars /\ ResidencyFairness

-----------------------------------------------------------------------------
(* Properties.                                                             *)

\* The tombstone and the map agree: the copy in the map is the one copy that is
\* not marked, so a task that finds its copy unmarked has the resident one.
OneLiveCopy == \A k \in Copies : ~evicted[k] <=> k = resident

\* A reply that the agent API has stored is in the copy everybody is served from:
\* create_reply writes through the resident copy only, and that copy stays
\* resident until the reply is stored and announced.
ResidentHasEveryReply == resident # None => "reply" \notin lacks[resident]

\* Both locks exclude: only the task that holds the residency lock loads or
\* evicts, and only the task that holds a copy's lock is writing through it.
LocksExclude ==
    \A t \in Tasks :
        /\ at[t] \in {"insert", "evictLock", "panicLock"} <=> residency = t
        /\ \A k \in Copies :
                lock[k] = t <=> at[t] \in {"commit", "reply"} /\ arc[t] = k

\* "Drop a wave from memory once nobody is watching it": when all is quiet and no
\* connection has the wave open, no copy of it is resident, as long as everybody who
\* opened it was let in.
UnwatchedIsNotResident ==
    refused = {} /\ watching = {} /\ (\A t \in Tasks : at[t] = "idle") => resident = None

\* No command of a connection waits for ever on the two locks: eviction, which
\* holds one while it waits for the other, cannot close a cycle.
EveryCommandEnds == \A c \in Sockets : at[c] # "idle" ~> at[c] = "idle"
=============================================================================

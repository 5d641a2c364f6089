------------------------------- MODULE Collab -------------------------------
(***************************************************************************)
(* Browsers editing one blip together: the BlipDoc of every client, the    *)
(* two directions of its WebSocket, and the server's document.             *)
(*                                                                         *)
(* A submission is one step here, committed or refused; module OpCommit    *)
(* takes it apart.  The browser gives every submission a fresh op id, so   *)
(* the server's idempotency lookup finds nothing and is left out.          *)
(***************************************************************************)
EXTENDS BlipDoc, FiniteSets

CONSTANTS
    Clients,
    Edits(_, _),    \* Edits(client, document): what its user may do next
    Reaches(_, _),  \* Reaches(work, document): baseLength() <= length
    Copies(_, _),   \* Copies(client, document): characters of its typing
    Typed(_),       \* Typed(change): characters the change inserts
    Removes(_),     \* Removes(change): the change deletes text
    Budgets,        \* bounds, one of which a behaviour keeps to: edits of all users
                    \* together, refusals and lost connections, whether users delete
    EditsWhileGreeting  \* FALSE: nobody types between socket open and Welcome

ASSUME BoundsAssumption == Budgets \subseteq [edits : Nat, trouble : Nat, deletes : BOOLEAN]

VARIABLES
    server,     \* the blip's ServerDoc
    client,     \* client -> its BlipDoc
    link,       \* client -> its connection, as the browser sees it: see Links
    subs,       \* clients whose connection is subscribed to the wave
    up,         \* client -> messages on the way to the server
    down,       \* client -> messages on the way to the browser
    zombies,    \* clients whose dead connection the server has not noticed yet
    stale,      \* client -> commands the server may still read from it
    doomed,     \* clients whose outstanding op was refused by name
    opCounter,  \* client -> newOpId() calls
    edits,      \* edits made so far
    typed,      \* history variable: client -> characters its user typed
    dropped,    \* history variable: clients told that a change was discarded
    trouble,    \* refusals and lost connections so far
    bounds      \* the bounds of this behaviour

browser == <<client, opCounter, doomed>>
budget == <<edits, typed, bounds>>
dead == <<zombies, stale>>
vars == <<server, client, link, subs, up, down, zombies, stale, doomed, opCounter,
          edits, typed, dropped, trouble, bounds>>

\* down: no socket; greeting: socket open, Welcome not seen; shell: the page was
\* cleared by Welcome and waits for WaveState; ready: the wave is on screen.
Links == {"down", "greeting", "shell", "ready"}

OpenCommand == [type |-> "open"]
SubmitCommand(b) ==
    [type |-> "submit", revision |-> b.revision, delta |-> b.outstanding, opId |-> b.opId]

Welcome == [type |-> "welcome"]
WaveState == [type |-> "waveState", content |-> server.content, revision |-> server.revision]
Op(revision, delta) == [type |-> "op", revision |-> revision, delta |-> delta]
Ack(revision, opId) == [type |-> "ack", revision |-> revision, opId |-> opId]
Refusal == [type |-> "refusal"]
Resync == [type |-> "resync"]

Init ==
    /\ server = FromSnapshot(EmptyDoc, 0)
    /\ client = [c \in Clients |-> NewBlipDoc(EmptyDoc, 0)]
    /\ link = [c \in Clients |-> "ready"]
    /\ subs = Clients
    /\ up = [c \in Clients |-> <<>>]
    /\ down = [c \in Clients |-> <<>>]
    /\ zombies = {}
    /\ stale = [c \in Clients |-> <<>>]
    /\ doomed = {}
    /\ opCounter = [c \in Clients |-> 0]
    /\ edits = 0
    /\ typed = [c \in Clients |-> 0]
    /\ dropped = {}
    /\ trouble = 0
    /\ bounds \in Budgets

-----------------------------------------------------------------------------
(* The browser.                                                            *)

\* conn.send: nothing is queued for a socket that is not open.
Send(c, message) ==
    up' = IF link[c] = "down" THEN up ELSE [up EXCEPT ![c] = Append(@, message)]

\* A new BlipDoc, whose op is sent when it was not already in flight.
Update(c, b) ==
    /\ client' = [client EXCEPT ![c] = b]
    /\ IF b.opId # NoOp /\ b.opId # client[c].opId
       THEN /\ opCounter' = [opCounter EXCEPT ![c] = @ + 1]
            /\ Send(c, SubmitCommand(b))
       ELSE UNCHANGED <<opCounter, up>>

NewOpId(c) == opCounter[c] + 1

\* onLocalEdit, from an editor that is on the page.
Type(c, change) ==
    /\ link[c] # "shell"
    /\ link[c] = "greeting" => EditsWhileGreeting
    /\ edits < bounds.edits /\ (Removes(change) => bounds.deletes)
    /\ edits' = edits + 1
    /\ typed' = [typed EXCEPT ![c] = @ + Typed(change)]
    /\ Update(c, ApplyLocal(client[c], change, NewOpId(c)))
    /\ UNCHANGED <<server, link, subs, down, dead, doomed, dropped, trouble, bounds>>

Receives(c, type) == down[c] # <<>> /\ Head(down[c]).type = type
Consume(c) == down' = [down EXCEPT ![c] = Tail(@)]

\* The greeting redraws the shell; the wave in the URL is open already.
OnWelcome(c) ==
    /\ Receives(c, "welcome")
    /\ Consume(c)
    /\ link' = [link EXCEPT ![c] = "shell"]
    /\ UNCHANGED <<server, browser, subs, up, dead, budget, dropped, trouble>>

OnOp(c) ==
    /\ Receives(c, "op")
    /\ Consume(c)
    /\ client' = [client EXCEPT ![c] =
            ApplyRemote(@, Head(down[c]).delta, Head(down[c]).revision)]
    /\ UNCHANGED <<server, link, subs, up, dead, doomed, opCounter, budget, dropped, trouble>>

\* The handler looks at the revision only, not at which op is acknowledged.
OnAck(c) ==
    /\ Receives(c, "ack")
    /\ Consume(c)
    /\ Update(c, Acknowledge(client[c], Head(down[c]).revision, NewOpId(c)))
    /\ UNCHANGED <<server, link, subs, dead, doomed, budget, dropped, trouble>>

\* Mistake: only the op in flight is rescued.
RescuedForgetsBuffer(c) ==
    IF c \in doomed THEN NoChange ELSE client[c].outstanding

\* A snapshot: unacknowledged work is rescued and replayed on top of it, unless
\* it was refused by name or no longer fits.
Rescued(c) ==
    IF c \in doomed THEN NoChange ELSE PendingWork(client[c])

OnWaveState(c) ==
    LET work == Rescued(c)
        fresh == NewBlipDoc(Head(down[c]).content, Head(down[c]).revision)
        replays == work \notin {NoChange, EmptyChange} /\ Reaches(work, fresh.doc)
    IN  /\ Receives(c, "waveState")
        /\ Consume(c)
        /\ link' = [link EXCEPT ![c] = "ready"]
        /\ doomed' = doomed \ {c}
        /\ IF replays THEN Update(c, ApplyLocal(fresh, work, NewOpId(c)))
           ELSE Update(c, fresh)
        /\ dropped' = IF c \in doomed \/ (work \notin {NoChange, EmptyChange} /\ ~replays)
                      THEN dropped \cup {c} ELSE dropped
        /\ UNCHANGED <<server, subs, dead, budget, trouble>>

\* A refusal that names the blip dooms the op and reopens the wave.
OnRefusal(c) ==
    /\ Receives(c, "refusal")
    /\ Consume(c)
    /\ IF PendingWork(client[c]) # NoChange
       THEN doomed' = doomed \cup {c} /\ Send(c, OpenCommand)
       ELSE UNCHANGED <<doomed, up>>
    /\ UNCHANGED <<server, client, link, subs, dead, opCounter, budget, dropped, trouble>>

\* A resync reopens the wave and keeps the op.
OnResync(c) ==
    /\ Receives(c, "resync")
    /\ Consume(c)
    /\ Send(c, OpenCommand)
    /\ UNCHANGED <<server, browser, link, subs, dead, budget, dropped, trouble>>

Receive(c) ==
    OnWelcome(c) \/ OnOp(c) \/ OnAck(c) \/ OnWaveState(c) \/ OnRefusal(c) \/ OnResync(c)

-----------------------------------------------------------------------------
(* The server.                                                             *)

\* open: subscribe and send the snapshot.
ServeOpen(c) ==
    /\ up[c] # <<>> /\ Head(up[c]).type = "open"
    /\ up' = [up EXCEPT ![c] = Tail(@)]
    /\ subs' = subs \cup {c}
    /\ down' = [down EXCEPT ![c] = Append(@, WaveState)]
    /\ UNCHANGED <<server, browser, link, dead, budget, dropped, trouble>>

Rebased(message) == Rebase(server, message.revision, message.delta)
Acceptable(message) ==
    InWindow(server, message.revision) /\ Valid(Rebased(message), server.content)

\* Mistake: the author is answered by the fan-out as well.
BroadcastAcksTwice(message, author) ==
    down' = [c \in Clients |->
        CASE c \in subs /\ c # author ->
                Append(down[c], Op(server.revision + 1, Rebased(message)))
          [] c \in subs /\ c = author ->
                down[c] \o <<Ack(server.revision + 1, message.opId),
                             Ack(server.revision + 1, message.opId)>>
          [] OTHER -> down[c]]

\* The op to every subscriber but the connection it came from, which gets the
\* acknowledgement if it is still there.
Broadcast(message, author) ==
    down' = [c \in Clients |->
        CASE c \in subs /\ c # author ->
                Append(down[c], Op(server.revision + 1, Rebased(message)))
          [] c \in subs /\ c = author ->
                Append(down[c], Ack(server.revision + 1, message.opId))
          [] OTHER -> down[c]]

\* submit, read from the live socket and committed.
ServeSubmit(c) ==
    /\ up[c] # <<>> /\ Head(up[c]).type = "submit" /\ Acceptable(Head(up[c]))
    /\ up' = [up EXCEPT ![c] = Tail(@)]
    /\ server' = Apply(server, Rebased(Head(up[c])))
    /\ Broadcast(Head(up[c]), c)
    /\ UNCHANGED <<browser, link, subs, dead, budget, dropped, trouble>>

\* A command read from a socket that is already dead: a submission is committed and
\* never acknowledged; an open changes nothing, the snapshot goes to nobody.
ServeStale(c) ==
    /\ stale[c] # <<>>
    /\ stale' = [stale EXCEPT ![c] = Tail(@)]
    /\ IF Head(stale[c]).type = "submit" /\ Acceptable(Head(stale[c]))
       THEN /\ server' = Apply(server, Rebased(Head(stale[c])))
            /\ down' = [x \in Clients |-> IF x \in subs
                 THEN Append(down[x], Op(server.revision + 1, Rebased(Head(stale[c]))))
                 ELSE down[x]]
       ELSE UNCHANGED <<server, down>>
    /\ UNCHANGED <<browser, link, subs, up, zombies, budget, dropped, trouble>>

\* apply refuses: too old for the window, or no longer applicable.
RefuseStaleRevision(c) ==
    /\ up[c] # <<>> /\ Head(up[c]).type = "submit" /\ ~Acceptable(Head(up[c]))
    /\ up' = [up EXCEPT ![c] = Tail(@)]
    /\ down' = [down EXCEPT ![c] = Append(@, Resync)]
    /\ UNCHANGED <<server, browser, link, subs, dead, budget, dropped, trouble>>

\* The mode forbids the edit (refusal), or the commit failed (resync).
RefuseSubmit(c) ==
    /\ up[c] # <<>> /\ Head(up[c]).type = "submit"
    /\ trouble < bounds.trouble
    /\ trouble' = trouble + 1
    /\ up' = [up EXCEPT ![c] = Tail(@)]
    /\ \E reply \in {Refusal, Resync} : down' = [down EXCEPT ![c] = Append(@, reply)]
    /\ UNCHANGED <<server, browser, link, subs, dead, budget, dropped>>

Serve(c) == ServeOpen(c) \/ ServeSubmit(c) \/ ServeStale(c) \/ RefuseStaleRevision(c)

-----------------------------------------------------------------------------
(* The connection.                                                         *)

\* The socket breaks, and the browser notices first.  What it had sent may
\* still be read.  Bound: one dead connection of a client at a time.
Disconnect(c) ==
    /\ link[c] # "down" /\ c \notin zombies
    /\ trouble < bounds.trouble
    /\ trouble' = trouble + 1
    /\ link' = [link EXCEPT ![c] = "down"]
    /\ subs' = subs \ {c}
    /\ zombies' = zombies \cup {c}
    /\ stale' = [stale EXCEPT ![c] = up[c]]
    /\ up' = [up EXCEPT ![c] = <<>>]
    /\ down' = [down EXCEPT ![c] = <<>>]
    /\ UNCHANGED <<server, browser, budget, dropped>>

\* The server notices too; with the last watcher gone maybe_evict drops the wave
\* from memory, and its rebasing history with it.
Hangup(c) ==
    /\ c \in zombies
    /\ zombies' = zombies \ {c}
    /\ stale' = [stale EXCEPT ![c] = <<>>]
    /\ server' = IF subs = {} /\ zombies' = {}
                 THEN FromSnapshot(server.content, server.revision) ELSE server
    /\ UNCHANGED <<browser, link, subs, up, down, budget, dropped, trouble>>

\* Mistake: the new socket is not told which wave is open.
ReconnectForgetsOpen(c) ==
    /\ link[c] = "down"
    /\ link' = [link EXCEPT ![c] = "greeting"]
    /\ down' = [down EXCEPT ![c] = <<Welcome>>]
    /\ UNCHANGED <<server, browser, subs, up, dead, budget, dropped, trouble>>

\* A new socket: the wave is reopened first, and the server greets.
Reconnect(c) ==
    /\ link[c] = "down"
    /\ link' = [link EXCEPT ![c] = "greeting"]
    /\ up' = [up EXCEPT ![c] = <<OpenCommand>>]
    /\ down' = [down EXCEPT ![c] = <<Welcome>>]
    /\ UNCHANGED <<server, browser, subs, dead, budget, dropped, trouble>>

Next ==
    \E c \in Clients :
        \/ \E change \in Edits(c, client[c].doc) : Type(c, change)
        \/ Receive(c) \/ Serve(c) \/ RefuseSubmit(c)
        \/ Disconnect(c) \/ Hangup(c) \/ Reconnect(c)

\* The browser's event loop and the server's tasks read what is waiting for them,
\* whatever they answer; the server notices a dead socket; the reconnect timer
\* fires.  Each conjunct names the variable by which such a step shows.
BrowserReads(c) == down[c] # <<>> /\ Consume(c)
ServerReads(c) == up[c] # <<>> /\ up' = [up EXCEPT ![c] = Tail(@)]
ServerNotices(c) == c \in zombies /\ zombies' = zombies \ {c}
TimerFires(c) == link[c] = "down" /\ link' = [link EXCEPT ![c] = "greeting"]
Fairness ==
    \A c \in Clients :
        /\ WF_down(BrowserReads(c)) /\ WF_up(ServerReads(c))
        /\ WF_zombies(ServerNotices(c)) /\ WF_link(TimerFires(c))

Spec == Init /\ [][Next]_vars /\ Fairness

-----------------------------------------------------------------------------
(* Properties.                                                             *)

TypeOK ==
    /\ server.revision \in Nat
    /\ \A c \in Clients :
        /\ client[c].revision \in Nat /\ client[c].opId \in Nat
        /\ client[c].outstanding = NoChange <=> client[c].opId = NoOp
        /\ client[c].buffer # NoChange => client[c].outstanding # NoChange
    /\ link \in [Clients -> Links]
    /\ subs \cup zombies \cup doomed \cup dropped \subseteq Clients
    /\ \A c \in Clients : \A i \in DOMAIN down[c] :
        down[c][i].type \in {"welcome", "waveState", "op", "ack", "refusal", "resync"}
    /\ \A c \in Clients : \A i \in DOMAIN up[c] : up[c][i].type \in {"open", "submit"}

\* What a client will hold once it has read the ops and acknowledgements that
\* are on their way to it.
Settled(c) ==
    FoldLeft(LAMBDA b, m : IF m.type = "op" THEN ApplyRemote(b, m.delta, m.revision)
                           ELSE Acknowledge(b, m.revision, NewOpId(c)),
             client[c], down[c])

Applied(content, change) == IF change = NoChange THEN content ELSE OtCompose(content, change)

\* In step: the client is watching and nothing but ops and acks is on its way.
InStep(c) ==
    /\ link[c] = "ready" /\ c \in subs
    /\ \A i \in DOMAIN up[c] : up[c][i].type = "submit"
    /\ \A i \in DOMAIN down[c] : down[c][i].type \in {"op", "ack"}

\* Both halves of the protocol agree on every interleaving: what a client shows,
\* once it has read what is on its way, is the server's document with the
\* client's own unconfirmed edits on top (BlipDoc, ServerDoc::apply).
ClientTracksServer ==
    \A c \in Clients : InStep(c) =>
        LET b == Settled(c)
        IN  /\ b.doc = Applied(Applied(server.content, b.outstanding), b.buffer)
            /\ b.revision = server.revision

\* A client with nothing in flight either way shows the server's document.
Quiet(c) == InStep(c) /\ up[c] = <<>> /\ down[c] = <<>> /\ Synchronised(client[c])
Converges == \A c \in Clients : Quiet(c) => client[c].doc = server.content

\* Only one op of a client is ever in flight, and the acknowledgement that
\* reaches it is for the op it holds as outstanding (the handler does not check).
AckIsForOutstanding ==
    \A c \in Clients : \A i \in DOMAIN down[c] :
        down[c][i].type = "ack" =>
            /\ down[c][i].opId = client[c].opId
            /\ \A j \in DOMAIN down[c] : down[c][j].type = "ack" => i = j
            /\ up[c] = <<>>

\* An op of a connected client is refused for its revision only when more ops than
\* the history holds have overtaken it, and never for its length.
SubmitsAreAccepted ==
    \A c \in Clients : \A i \in DOMAIN up[c] :
        up[c][i].type = "submit" /\ server.revision - up[c][i].revision <= MaxHistory
            => Acceptable(up[c][i])

\* "Replays what you wrote while it was gone - exactly once, even if the original
\* op had actually been applied": no user's typing is in the document twice.
TypedAtMostOnce == \A c \in Clients : Copies(c, server.content) <= typed[c]

\* "A restart costs a reconnection rather than anybody's typing": once everything
\* is quiet, all a user typed is in the document, unless the user was told or
\* somebody deletes.
NoTypingVanishes ==
    ~bounds.deletes /\ (\A c \in Clients : Quiet(c) /\ stale[c] = <<>>) =>
        \A c \in Clients \ dropped : Copies(c, server.content) >= typed[c]

\* Every edit is eventually confirmed: no client waits for ever for an Ack,
\* through refusals, resyncs and lost connections.
EveryEditIsConfirmed ==
    \A c \in Clients : client[c].outstanding # NoChange ~> Synchronised(client[c])

\* What a client submits is accepted, and the Ack it reads is for what it submitted.
SubmitsAreAnswered == SubmitsAreAccepted /\ AckIsForOutstanding
=============================================================================

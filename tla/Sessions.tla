------------------------------ MODULE Sessions ------------------------------
(***************************************************************************)
(* The sockets of one account, the sessions they were opened with, and the *)
(* ways a session ends: logout, revocation by another session (signing out *)
(* everywhere or changing the password), and expiry.  Every map of the     *)
(* server is keyed by the account, so accounts do not meet here.           *)
(*                                                                         *)
(* A socket is authenticated by its upgrade request, registered by a task  *)
(* of its own, and only then looks at its session again; an HTTP request   *)
(* deletes the session row, and only then looks for sockets to close.  The *)
(* process ends by a drain that waits for the sockets, up to a deadline.   *)
(***************************************************************************)
EXTENDS Integers, FiniteSets

CONSTANTS
    Tokens,         \* session tokens: 256 random bits, so never issued twice
    Conns,          \* sockets
    Requests,       \* HTTP requests that end sessions
    NoToken,        \* the token of a socket that was never opened
    MaxConns,       \* MAX_CONNECTIONS_PER_USER
    Cancels         \* TRUE: a caller may go away while its request runs

ASSUME SessionsAssumption ==
    /\ NoToken \notin Tokens
    /\ MaxConns \in Nat \ {0}
    /\ Cancels \in BOOLEAN

VARIABLES
    sessions,       \* the rows of the sessions table
    issued,         \* tokens issued so far
    expired,        \* tokens whose expires_at has passed
    stage,          \* where each socket's task is
    token,          \* the token each socket was authenticated with
    kill,           \* the stored permit of each socket's Notify
    registered,     \* conns and user_conns
    active,         \* the gauge ws_connections_active
    request,        \* each HTTP request: its kind, stage and token
    shutdown,       \* the watch channel
    exit            \* "running", or how the drain ended

connVars == <<stage, token, kill, registered, active>>
vars == <<sessions, issued, expired, connVars, request, shutdown, exit>>

Stages == {"none", "upgrading", "registered", "greeting", "serving", "busy",
           "leaving", "flushing", "closed"}
Kinds == {"logout", "others"}
Idle == [kind |-> "logout", at |-> "idle", token |-> NoToken]

TypeOK ==
    /\ sessions \in SUBSET Tokens
    /\ issued \in SUBSET Tokens
    /\ expired \in SUBSET Tokens
    /\ stage \in [Conns -> Stages]
    /\ token \in [Conns -> Tokens \cup {NoToken}]
    /\ kill \in [Conns -> BOOLEAN]
    /\ registered \in SUBSET Conns
    /\ active \in Nat
    /\ request \in [Requests -> [kind : Kinds, at : {"idle", "authenticated", "stored"},
                                 token : Tokens \cup {NoToken}]]
    /\ shutdown \in BOOLEAN
    /\ exit \in {"running", "clean", "forced"}

Init ==
    /\ sessions = {} /\ issued = {} /\ expired = {}
    /\ stage = [c \in Conns |-> "none"]
    /\ token = [c \in Conns |-> NoToken]
    /\ kill = [c \in Conns |-> FALSE]
    /\ registered = {} /\ active = 0
    /\ request = [r \in Requests |-> Idle]
    /\ shutdown = FALSE /\ exit = "running"

\* user_for_session and session_expiry: a row that has not expired.
Valid(t) == t \in sessions \ expired

-----------------------------------------------------------------------------
(* Sessions.                                                               *)

\* create_session: the rows that have expired are swept on the way.
CreateSession(t) == sessions' = (sessions \ expired) \cup {t}

\* issue_session, behind sign-in, registration and the identity provider.
IssueSession(t) ==
    /\ t \notin issued
    /\ issued' = issued \cup {t}
    /\ CreateSession(t)
    /\ UNCHANGED <<expired, connVars, request, shutdown, exit>>

Expire(t) ==
    /\ t \in issued \ expired
    /\ expired' = expired \cup {t}
    /\ UNCHANGED <<sessions, issued, connVars, request, shutdown, exit>>

\* The Identity extractor lets a request in.
Authenticate(r, kind, t) ==
    /\ ~shutdown
    /\ request[r].at = "idle"
    /\ Valid(t)
    /\ request' = [request EXCEPT ![r] = [kind |-> kind, at |-> "authenticated", token |-> t]]
    /\ UNCHANGED <<sessions, issued, expired, connVars, shutdown, exit>>

\* What each kind of request ends: its own session, or every other one.
Ends(kind, t) == IF kind = "logout" THEN {t} ELSE Tokens \ {t}

\* delete_session, revoke_other_sessions and change_password.
Revoke(r) ==
    /\ request[r].at = "authenticated"
    /\ sessions' = sessions \ Ends(request[r].kind, request[r].token)
    /\ request' = [request EXCEPT ![r].at = "stored"]
    /\ UNCHANGED <<issued, expired, connVars, shutdown, exit>>

\* The statement fails, or the current password was wrong: an error answer.
RevokeFails(r) ==
    /\ request[r].at = "authenticated"
    /\ request' = [request EXCEPT ![r] = Idle]
    /\ UNCHANGED <<sessions, issued, expired, connVars, shutdown, exit>>

\* disconnect_session and disconnect_other_sessions.  A caller that is gone
\* has its handler dropped where it waits for the database, whose statement
\* runs to its end all the same: then nobody is told.
Disconnect(r) ==
    /\ request[r].at = "stored"
    /\ LET told == [c \in Conns |-> kill[c] \/ (c \in registered
                        /\ token[c] \in Ends(request[r].kind, request[r].token))]
       IN  kill' \in {told} \cup (IF Cancels THEN {kill} ELSE {})
    /\ request' = [request EXCEPT ![r] = Idle]
    /\ UNCHANGED <<sessions, issued, expired, stage, token, registered, active, shutdown, exit>>

-----------------------------------------------------------------------------
(* A socket's task.                                                        *)

GoTo(c, s) == stage' = [stage EXCEPT ![c] = s]
sessionVars == <<sessions, issued, expired, request, shutdown, exit>>

Upgrade(c, t) ==
    /\ ~shutdown
    /\ stage[c] = "none"
    /\ Valid(t)
    /\ GoTo(c, "upgrading")
    /\ token' = [token EXCEPT ![c] = t]
    /\ UNCHANGED <<sessionVars, kill, registered, active>>

\* register_conn: counting and claiming a slot are one step.
Register(c) ==
    /\ stage[c] = "upgrading"
    /\ Cardinality(registered) < MaxConns
    /\ GoTo(c, "registered")
    /\ registered' = registered \cup {c}
    /\ active' = active + 1
    /\ UNCHANGED <<sessionVars, token, kill>>

RefuseConn(c) ==
    /\ stage[c] = "upgrading"
    /\ Cardinality(registered) >= MaxConns
    /\ GoTo(c, "closed")
    /\ UNCHANGED <<sessionVars, token, kill, registered, active>>

\* Mistake: the session read by the upgrade is trusted.
RecheckTrustsUpgrade(c) ==
    /\ stage[c] = "registered"
    /\ GoTo(c, "greeting")
    /\ UNCHANGED <<sessionVars, token, kill, registered, active>>

\* session_expiry, read again now that a logout can find this socket.  The
\* timer set from it fires when the token expires.
Recheck(c) ==
    /\ stage[c] = "registered"
    /\ Valid(token[c])
    /\ GoTo(c, "greeting")
    /\ UNCHANGED <<sessionVars, token, kill, registered, active>>

\* The session is gone, or could not be read.
RecheckFails(c) ==
    /\ stage[c] = "registered"
    /\ GoTo(c, "leaving")
    /\ UNCHANGED <<sessionVars, token, kill, registered, active>>

\* Both selects are biased: neither an inbox nor a frame is taken while the
\* permit is there or the timer has fired.
Interrupted(c) == kill[c] \/ token[c] \in expired

Welcome(c) ==
    /\ stage[c] = "greeting"
    /\ ~Interrupted(c)
    /\ GoTo(c, "serving")
    /\ UNCHANGED <<sessionVars, token, kill, registered, active>>

\* Killed or expired before the greeting, or the inbox could not be read.
GreetingEnds(c) ==
    /\ stage[c] = "greeting"
    /\ GoTo(c, "leaving")
    /\ UNCHANGED <<sessionVars, token, kill, registered, active>>

Receive(c) ==
    /\ stage[c] = "serving"
    /\ ~Interrupted(c) /\ ~shutdown
    /\ GoTo(c, "busy")
    /\ UNCHANGED <<sessionVars, token, kill, registered, active>>

\* dispatch returns; or it panics, and the connection is dropped.
CommandEnds(c) ==
    /\ stage[c] = "busy"
    /\ stage' \in {[stage EXCEPT ![c] = s] : s \in {"serving", "leaving"}}
    /\ UNCHANGED <<sessionVars, token, kill, registered, active>>

\* Mistake: the loop does not look at the watch channel.
StopIgnoresShutdown(c) ==
    /\ stage[c] = "serving"
    /\ Interrupted(c)
    /\ GoTo(c, "leaving")
    /\ UNCHANGED <<sessionVars, token, kill, registered, active>>

\* Mistake: the loop does not wait for the permit.
StopIgnoresKill(c) ==
    /\ stage[c] = "serving"
    /\ token[c] \in expired \/ shutdown
    /\ GoTo(c, "leaving")
    /\ UNCHANGED <<sessionVars, token, kill, registered, active>>

\* Killed, expired or shutting down.
Stop(c) ==
    /\ stage[c] = "serving"
    /\ Interrupted(c) \/ shutdown
    /\ GoTo(c, "leaving")
    /\ UNCHANGED <<sessionVars, token, kill, registered, active>>

\* The far end closed, or was not heard of for IDLE_TIMEOUT.
Hangup(c) ==
    /\ stage[c] = "serving"
    /\ GoTo(c, "leaving")
    /\ UNCHANGED <<sessionVars, token, kill, registered, active>>

\* A queue overflowed in try_send, or the writer could not send.
Overflow(c) ==
    /\ c \in registered
    /\ kill' = [kill EXCEPT ![c] = TRUE]
    /\ UNCHANGED <<sessionVars, stage, token, registered, active>>

\* Mistake: the slot is not given back.
UnregisterKeepsSlot(c) ==
    /\ stage[c] = "leaving"
    /\ GoTo(c, "flushing")
    /\ UNCHANGED <<sessionVars, token, kill, registered, active>>

\* Every wave is left and the connection unregistered; the writer goes on.
Unregister(c) ==
    /\ stage[c] = "leaving"
    /\ GoTo(c, "flushing")
    /\ registered' = registered \ {c}
    /\ UNCHANGED <<sessionVars, token, kill, active>>

\* Mistake: the gauge goes down for the reader and for the writer.
CloseCountsTwice(c) ==
    /\ stage[c] = "flushing"
    /\ GoTo(c, "closed")
    /\ active' = active - 2
    /\ UNCHANGED <<sessionVars, token, kill, registered>>

\* The writer has flushed its queue, or had its second and is aborted.
Close(c) ==
    /\ stage[c] = "flushing"
    /\ GoTo(c, "closed")
    /\ active' = active - 1
    /\ UNCHANGED <<sessionVars, token, kill, registered>>

-----------------------------------------------------------------------------
(* The end of the process.                                                 *)

BeginShutdown ==
    /\ ~shutdown
    /\ shutdown' = TRUE
    /\ UNCHANGED <<sessions, issued, expired, connVars, request, exit>>

\* Mistake: registrations are counted, and not the writers.
DrainCountsRegistered ==
    /\ shutdown /\ exit = "running"
    /\ \A r \in Requests : request[r].at = "idle"
    /\ registered = {}
    /\ exit' = "clean"
    /\ UNCHANGED <<sessions, issued, expired, connVars, request, shutdown>>

\* axum finishes the requests in flight; then the sockets are waited for.
Drain ==
    /\ shutdown /\ exit = "running"
    /\ \A r \in Requests : request[r].at = "idle"
    /\ active = 0
    /\ exit' = "clean"
    /\ UNCHANGED <<sessions, issued, expired, connVars, request, shutdown>>

\* SHUTDOWN_GRACE is over.
Deadline ==
    /\ shutdown /\ exit = "running"
    /\ \A r \in Requests : request[r].at = "idle"
    /\ active # 0
    /\ exit' = "forced"
    /\ UNCHANGED <<sessions, issued, expired, connVars, request, shutdown>>

-----------------------------------------------------------------------------
SocketStep(c) ==
    \/ Register(c) \/ RefuseConn(c) \/ Recheck(c) \/ RecheckFails(c) \/ Welcome(c)
    \/ GreetingEnds(c) \/ CommandEnds(c) \/ Stop(c) \/ Unregister(c) \/ Close(c)

RequestStep(r) == Revoke(r) \/ RevokeFails(r) \/ Disconnect(r)

Next ==
    /\ exit = "running"
    /\ \/ \E t \in Tokens : IssueSession(t) \/ Expire(t)
       \/ \E r \in Requests : RequestStep(r)
       \/ \E r \in Requests, kind \in Kinds, t \in Tokens : Authenticate(r, kind, t)
       \/ \E c \in Conns : SocketStep(c) \/ Receive(c) \/ Hangup(c) \/ Overflow(c)
       \/ \E c \in Conns, t \in Tokens : Upgrade(c, t)
       \/ BeginShutdown \/ Drain \/ Deadline

(* The runtime runs every task that is ready, a handler that waits for the *)
(* database gets its answer, and a command ends.  Nothing makes a client   *)
(* connect or speak, a session expire, or the process shut down.           *)
Fairness ==
    /\ \A c \in Conns : WF_vars(exit = "running" /\ SocketStep(c))
    /\ \A r \in Requests : WF_vars(exit = "running" /\ RequestStep(r))
    /\ WF_vars(exit = "running" /\ Drain)

Spec == Init /\ [][Next]_vars /\ Fairness

-----------------------------------------------------------------------------
(* Properties.                                                             *)

Watching == {"greeting", "serving", "busy"}

\* README.md:637: a logout, a password change and a revocation close the
\* sockets they affect.  A socket that is served with a session that is gone
\* is on its way out: it has been told to stop, its timer has fired, or the
\* request that ended the session is about to tell it (state.rs:838, ws.rs:208).
EndedSessionClosesItsSockets ==
    \A c \in Conns : (stage[c] \in Watching /\ ~Valid(token[c])) =>
        \/ Interrupted(c)
        \/ \E r \in Requests : request[r].at = "stored"
                               /\ token[c] \in Ends(request[r].kind, request[r].token)

\* A burst of upgrades never takes more than MAX_CONNECTIONS_PER_USER slots,
\* every slot is given back, and the gauge the drain reads counts every task
\* that is still registered or still writing (state.rs:808, ws.rs:187).
SlotsAreAccountedFor ==
    /\ Cardinality(registered) <= MaxConns
    /\ registered = {c \in Conns : stage[c] \in Watching \cup {"registered", "leaving"}}
    /\ active = Cardinality(registered) + Cardinality({c \in Conns : stage[c] = "flushing"})

\* state.rs:776: a clean exit cuts off nothing that was queued for a client.
CleanExitLosesNothing ==
    exit = "clean" => \A c \in Conns : stage[c] \in {"none", "upgrading", "closed"}

\* A socket of a session that is gone is closed in the end, whatever its task
\* was doing when the session went, unless the process ends first.
EndedSocketsClose ==
    \A c \in Conns :
        (stage[c] \in Watching /\ ~Valid(token[c]))
            ~> (stage[c] = "closed" \/ exit # "running")

\* main.rs:124: after the signal the sockets wind down by themselves and the
\* drain ends the process; the deadline is only for a task that hangs.
ShutdownEnds == shutdown ~> exit # "running"

\* What is counted is what there is: the slots of register_conn while the server
\* runs, and the gauge that tells drain_connections that all is written.
CountsAreTrue == TypeOK /\ SlotsAreAccountedFor /\ CleanExitLosesNothing

\* What has to end ends: the sockets of an ended session, and after the signal
\* the process.
SocketsEnd == EndedSocketsClose /\ ShutdownEnds
=============================================================================

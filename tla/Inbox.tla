------------------------------- MODULE Inbox -------------------------------
(***************************************************************************)
(* The inbox rows of one wave: what storage says of it to each user        *)
(* (wave_summary), and how the row gets to the browsers.                   *)
(*                                                                         *)
(* Three parties read the summary and send it some time later, none of     *)
(* them under a lock: the debounced push to all participants, the handlers *)
(* of markRead and setFlags, which answer the connection that asked, and   *)
(* the greeting of a new connection.  A connection delivers in the order   *)
(* of the sends, so a send is what the browser shows.                      *)
(*                                                                         *)
(* Private replies are left out: the wave is its conversation.             *)
(***************************************************************************)
EXTENDS Naturals, FiniteSets

CONSTANTS
    Users, Conns,
    Owner,       \* whose connection it is
    Msgs,        \* the messages of the wave
    Remarks,     \* those that are remarks of a comment thread
    Flags,       \* what a user may set: archived, muted
    Pushes,      \* the pushes in progress at once: the bound on them
    MaxTicks     \* bound: writes

ASSUME InboxAssumption ==
    /\ Owner \in [Conns -> Users] /\ Remarks \subseteq Msgs /\ MaxTicks \in Nat
    /\ Users # {} /\ IsFiniteSet(Conns) /\ IsFiniteSet(Msgs)

VARIABLES
    members,  \* participants of the conversation
    rev,      \* the revision of each message, counted from one; 0 before it is written
    deleted,  \* messages marked deleted
    marks,    \* the revision up to which each user has read each message
    flags,    \* wave_flags
    tick,     \* how many writes there were
    news,     \* the number of the last write that others are told of
    due,      \* handlers between their write and schedule_inbox_update
    leaving,  \* users removed in storage who have not been told yet, and when
    pending,  \* inbox_pending holds the wave
    asleep,   \* a push waits for the end of the debounce
    push,     \* the pushes under way
    link,     \* each connection: off, registered, loaded, open
    cmd,      \* what each connection's handler is doing
    shown,    \* what each browser shows, and how old that is
    missed,   \* history: users whose row could not be read
    recalled  \* history: users whose archived wave was written in

store == <<members, rev, deleted, marks, flags>>
vars == <<store, tick, news, due, leaving, pending, asleep, push, link, cmd, shown, missed, recalled>>

Gone == [gone |-> TRUE]
Idle == [pc |-> "idle"]
Blank == [row |-> Gone, at |-> 0, late |-> FALSE, other |-> 0]

Live == {m \in Msgs : rev[m] > 0} \ deleted

\* A message is unread without a mark, or with one older than its revision.
Unread(u) == {m \in Live : marks[u][m] < rev[m]}

\* Who gets a row at all.
\* Mistake: the caller has looked at the participants.
AnyoneMaySee(u) == TRUE
MaySee(u) == u \in members

\* wave_summary and the row of inbox, one read transaction.
Summary(u) ==
    IF MaySee(u)
    THEN [roster |-> members, count |-> Cardinality(Live \ Remarks),
          unread |-> Cardinality(Unread(u)), flags |-> flags[u]]
    ELSE Gone

\* What was read, and when.
Reading(u) == [at |-> tick, row |-> Summary(u)]

\* A browser puts a row in its list, or takes it out.  It is late when a newer
\* one was shown before it.
Shows(old, new) ==
    [old EXCEPT !.row = new.row, !.late = new.at < old.at,
                !.at = IF new.at < old.at THEN old.at ELSE new.at]

\* user_conns: a connection is there from its registration.
Registered(u) == {c \in Conns : Owner[c] = u /\ link[c] # "off"}

SendTo(conns, new) ==
    shown' = [c \in Conns |-> IF c \in conns THEN Shows(shown[c], new) ELSE shown[c]]

Init ==
    /\ members = Users
    /\ rev = [m \in Msgs |-> 0] /\ deleted = {}
    /\ marks = [u \in Users |-> [m \in Msgs |-> 0]]
    /\ flags = [u \in Users |-> {}]
    /\ tick = 0 /\ news = 0 /\ due = 0 /\ leaving = {}
    /\ pending = FALSE /\ asleep = FALSE
    /\ push = [p \in Pushes |-> Idle]
    /\ link = [c \in Conns |-> "off"] /\ cmd = [c \in Conns |-> Idle]
    /\ shown = [c \in Conns |-> Blank]
    /\ missed = {} /\ recalled = {}

----------------------------------------------------------------------------
(* Writes that everyone in the wave is told of.  The handler is between     *)
(* its write and schedule_inbox_update when it counts as due.               *)

Room == tick + Cardinality({c \in Conns : cmd[c].pc = "write"}) < MaxTicks

Changed ==
    /\ Room
    /\ tick' = tick + 1 /\ news' = tick + 1

\* A message is posted or edited.
Say(m) ==
    /\ m \notin deleted /\ Changed
    /\ rev' = [rev EXCEPT ![m] = @ + 1]
    /\ recalled' = recalled \cup {u \in Users : "archived" \in flags[u]}
    /\ due' = due + 1
    /\ UNCHANGED <<members, deleted, marks, flags, leaving, pending, asleep, push, link, cmd, shown,
                   missed>>

DeleteBlip(m) ==
    /\ m \in Live /\ Changed
    /\ deleted' = deleted \cup {m}
    /\ due' = due + 1
    /\ UNCHANGED <<members, rev, marks, flags, leaving, pending, asleep, push, link, cmd, shown,
                   missed, recalled>>

AddParticipant(u) ==
    /\ u \notin members /\ Changed
    /\ members' = members \cup {u}
    /\ due' = due + 1
    /\ UNCHANGED <<rev, deleted, marks, flags, leaving, pending, asleep, push, link, cmd, shown,
                   missed, recalled>>

\* The last participant stays.
RemoveParticipant(u) ==
    /\ u \in members /\ members # {u} /\ leaving = {} /\ Changed
    /\ members' = members \ {u}
    /\ leaving' = {[user |-> u, at |-> tick + 1]}
    /\ UNCHANGED <<rev, deleted, marks, flags, due, pending, asleep, push, link, cmd, shown,
                   missed, recalled>>

\* The rest of remove_participant, with the lock of the wave still held: the
\* user's connections are told that the wave is gone.
\* Mistake: it is left to the push, which no longer counts them in.
LeftToThePush(x) == {}
ToBeTold(x) == Registered(x.user)

TellRemoved ==
    /\ \E x \in leaving : SendTo(ToBeTold(x), [at |-> x.at, row |-> Gone])
    /\ leaving' = {} /\ due' = due + 1
    /\ UNCHANGED <<store, tick, news, pending, asleep, push, link, cmd, missed, recalled>>

----------------------------------------------------------------------------
(* The debounced push.                                                     *)

\* schedule_inbox_update: one sleeping task is enough.
Schedule ==
    /\ due > 0
    /\ due' = due - 1
    /\ pending' = TRUE /\ asleep' = (asleep \/ ~pending)
    /\ UNCHANGED <<store, tick, news, leaving, push, link, cmd, shown, missed, recalled>>

\* The task wakes: from here on another may be scheduled.
\* Mistake: the wave stays in inbox_pending.
PendingForGood == TRUE
PendingAfterWake == FALSE

Wake(p) ==
    /\ asleep /\ push[p].pc = "idle"
    /\ asleep' = FALSE /\ pending' = PendingAfterWake
    /\ push' = [push EXCEPT ![p] = [pc |-> "wake"]]
    /\ UNCHANGED <<store, tick, news, due, leaving, link, cmd, shown, missed, recalled>>

\* push_inbox_update: the participants, read from storage.
List(p) ==
    /\ push[p].pc = "wake"
    /\ push' = [push EXCEPT ![p] = [pc |-> "walk", left |-> members]]
    /\ UNCHANGED <<store, tick, news, due, leaving, pending, asleep, link, cmd, shown, missed, recalled>>

\* On to the next participant, if there is one.
Rest(left) == IF left = {} THEN Idle ELSE [pc |-> "walk", left |-> left]

\* The next participant: the row is read if there is someone to send it to.
Walk(p, u) ==
    /\ push[p].pc = "walk" /\ u \in push[p].left
    /\ push' = [push EXCEPT ![p] =
                  IF Registered(u) = {} THEN Rest(@.left \ {u})
                  ELSE [pc |-> "send", left |-> @.left \ {u}, user |-> u, new |-> Reading(u)]]
    /\ UNCHANGED <<store, tick, news, due, leaving, pending, asleep, link, cmd, shown, missed, recalled>>

\* InboxUpdated, or WaveRemoved when there is no row.
SendRow(p) ==
    /\ push[p].pc = "send"
    /\ SendTo(Registered(push[p].user), push[p].new)
    /\ push' = [push EXCEPT ![p] = Rest(@.left)]
    /\ UNCHANGED <<store, tick, news, due, leaving, pending, asleep, link, cmd, missed, recalled>>

\* A read of the participants or of a row fails, which is logged.
PushFails(p) ==
    /\ missed = {}
    /\ \/ /\ push[p].pc = "wake"
          /\ push' = [push EXCEPT ![p] = Idle] /\ missed' = Users
       \/ /\ push[p].pc = "walk"
          /\ \E u \in push[p].left :
               /\ push' = [push EXCEPT ![p] = Rest(@.left \ {u})] /\ missed' = {u}
    /\ UNCHANGED <<store, tick, news, due, leaving, pending, asleep, link, cmd, shown, recalled>>

----------------------------------------------------------------------------
(* Connections.                                                            *)

\* Rows are pushed to a connection from here on, before its greeting is read.
Register(c) ==
    /\ link[c] = "off" /\ cmd[c].pc = "idle"
    /\ link' = [link EXCEPT ![c] = "registered"]
    /\ cmd' = [cmd EXCEPT ![c] = [pc |-> "load"]]
    /\ UNCHANGED <<store, tick, news, due, leaving, pending, asleep, push, shown, missed, recalled>>

LoadInbox(c) ==
    /\ cmd[c].pc = "load"
    /\ cmd' = [cmd EXCEPT ![c] = [pc |-> "greet", new |-> Reading(Owner[c])]]
    /\ UNCHANGED <<store, tick, news, due, leaving, pending, asleep, push, link, shown, missed, recalled>>

\* The welcome replaces the whole list.
Welcome(c) ==
    /\ cmd[c].pc = "greet"
    /\ SendTo({c}, cmd[c].new)
    /\ link' = [link EXCEPT ![c] = "open"] /\ cmd' = [cmd EXCEPT ![c] = Idle]
    /\ UNCHANGED <<store, tick, news, due, leaving, pending, asleep, push, missed, recalled>>

\* The socket is closed, the inbox cannot be loaded, or the queue is full.  What
\* the browser shows until it is greeted again is not followed.
Disconnect(c) ==
    /\ link[c] # "off"
    /\ link' = [link EXCEPT ![c] = "off"] /\ cmd' = [cmd EXCEPT ![c] = Idle]
    /\ shown' = [shown EXCEPT ![c] = Blank]
    /\ UNCHANGED <<store, tick, news, due, leaving, pending, asleep, push, missed, recalled>>

\* A command on the user's own view of the wave: require_participant.
Ask(c, reads, f) ==
    /\ Room /\ link[c] = "open" /\ cmd[c].pc = "idle"
    /\ Owner[c] \in members
    /\ cmd' = [cmd EXCEPT ![c] = [pc |-> "write", reads |-> reads, flags |-> f]]
    /\ UNCHANGED <<store, tick, news, due, leaving, pending, asleep, push, link, shown, missed, recalled>>

\* mark_wave_read: every message of a wavelet the user is in now, at its revision.
\* Mistake: the revision that its next edit will have.
NextRevision == [m \in Msgs |-> rev[m] + 1]
CurrentRevision == rev

MarkWaveRead(u) ==
    /\ marks' = [marks EXCEPT ![u] = IF u \in members THEN CurrentRevision ELSE @]
    /\ UNCHANGED <<flags, recalled>>

SetFlags(u, f) ==
    /\ flags' = [flags EXCEPT ![u] = f] /\ recalled' = recalled \ {u}
    /\ UNCHANGED marks

\* The user's other connections are not told.
WriteOwn(c) ==
    /\ cmd[c].pc = "write"
    /\ tick' = tick + 1
    /\ IF cmd[c].reads THEN MarkWaveRead(Owner[c]) ELSE SetFlags(Owner[c], cmd[c].flags)
    /\ cmd' = [cmd EXCEPT ![c] = [pc |-> "row"]]
    /\ shown' = [d \in Conns |-> IF d # c /\ Owner[d] = Owner[c]
                                 THEN [shown[d] EXCEPT !.other = tick + 1] ELSE shown[d]]
    /\ UNCHANGED <<members, rev, deleted, news, due, leaving, pending, asleep, push, link, missed>>

\* send_inbox_row: the row is read, unless there is none or it fails, and sent.
ReadRow(c) ==
    /\ cmd[c].pc = "row"
    /\ \/ /\ cmd' = [cmd EXCEPT ![c] = IF MaySee(Owner[c])
                                       THEN [pc |-> "answer", new |-> Reading(Owner[c])]
                                       ELSE Idle]
          /\ UNCHANGED missed
       \/ /\ missed = {} /\ missed' = {Owner[c]}
          /\ cmd' = [cmd EXCEPT ![c] = Idle]
    /\ UNCHANGED <<store, tick, news, due, leaving, pending, asleep, push, link, shown, recalled>>

SendInboxRow(c) ==
    /\ cmd[c].pc = "answer"
    /\ SendTo({c}, cmd[c].new)
    /\ cmd' = [cmd EXCEPT ![c] = Idle]
    /\ UNCHANGED <<store, tick, news, due, leaving, pending, asleep, push, link, missed, recalled>>

PushStep(p) ==
    Wake(p) \/ List(p) \/ SendRow(p) \/ \E u \in Users : Walk(p, u)

ConnStep(c) == LoadInbox(c) \/ Welcome(c) \/ WriteOwn(c) \/ ReadRow(c) \/ SendInboxRow(c)

Next ==
    \/ \E m \in Msgs : Say(m) \/ DeleteBlip(m)
    \/ \E u \in Users : AddParticipant(u) \/ RemoveParticipant(u)
    \/ TellRemoved \/ Schedule
    \/ \E p \in Pushes : PushStep(p) \/ PushFails(p)
    \/ \E c \in Conns :
         \/ Register(c) \/ Disconnect(c) \/ ConnStep(c)
         \/ Ask(c, TRUE, {}) \/ \E f \in SUBSET Flags : Ask(c, FALSE, f)

\* Handlers finish, sleeping tasks wake and pushes go on.
Spec ==
    /\ Init /\ [][Next]_vars
    /\ WF_vars(TellRemoved) /\ WF_vars(Schedule)
    /\ \A p \in Pushes : WF_vars(PushStep(p))
    /\ \A c \in Conns : WF_vars(ConnStep(c))

----------------------------------------------------------------------------
(* Properties.                                                             *)

Row == [roster : SUBSET Users, count : 0..Cardinality(Msgs), unread : 0..Cardinality(Msgs),
        flags : SUBSET Flags] \cup {Gone}

\* Every variable has the type of the state it stands for; no mark is ahead of
\* its message.
TypeOK ==
    /\ members \subseteq Users /\ members # {}
    /\ rev \in [Msgs -> 0..MaxTicks] /\ deleted \subseteq Msgs
    /\ flags \in [Users -> SUBSET Flags]
    /\ \A u \in Users, m \in Msgs : marks[u][m] \in 0..rev[m]
    /\ tick \in 0..MaxTicks /\ news \in 0..tick /\ due \in 0..MaxTicks
    /\ pending \in BOOLEAN /\ asleep \in BOOLEAN /\ missed \subseteq Users /\ recalled \subseteq Users
    /\ \A p \in Pushes : push[p].pc \in {"idle", "wake", "walk", "send"}
    /\ \A c \in Conns :
         /\ link[c] \in {"off", "registered", "open"}
         /\ shown[c].row \in Row /\ shown[c].at \in 0..tick

\* No row of a wave reaches a user who was not in it when the row was read: a
\* push that has listed the participants looks again.
RowsAreForParticipants ==
    \A c \in Conns : shown[c].row = Gone \/ Owner[c] \in shown[c].row.roster

Quiet ==
    /\ due = 0 /\ leaving = {} /\ ~pending /\ ~asleep
    /\ \A p \in Pushes : push[p].pc = "idle"
    /\ \A c \in Conns : cmd[c].pc = "idle"

\* When all has been sent, a browser shows the wave as storage has it, unless a
\* read failed, a row overtook a newer one, or the change was the user's own, made
\* on another of their connections.  In particular no change falls between the
\* debounced pushes, or between a connection's registration and its greeting, and
\* a removed user's list does not keep the wave.
QuietRowIsCurrent ==
    Quiet => \A c \in Conns :
      \/ link[c] # "open" \/ Owner[c] \in missed
      \/ shown[c].late \/ shown[c].at < shown[c].other
      \/ shown[c].row = Summary(Owner[c])

\* A change reaches every participant who stays connected: a row read after it
\* is sent, however the change falls with respect to a push under way.
ChangesArrive ==
    \A c \in Conns, n \in 1..MaxTicks :
      news = n /\ link[c] = "open" /\ Owner[c] \in members
        ~> \/ shown[c].at >= n \/ link[c] # "open"
           \/ Owner[c] \notin members \/ Owner[c] \in missed

\* A wave that was archived comes back when it is written in (README.md:343).
WritingUnarchives ==
    \A u \in Users : u \in recalled ~> "archived" \notin flags[u]

\* What the browsers list of a wave: rows for participants only, and current once
\* every handler and push has ended.
RowsAreRight == TypeOK /\ RowsAreForParticipants /\ QuietRowIsCurrent
=============================================================================

---------------------------- MODULE InboxProofs ----------------------------
(***************************************************************************)
(* Proofs about Inbox, for every set of users, connections, messages and   *)
(* flags, any number of pushes at once and any number of writes.           *)
(***************************************************************************)
EXTENDS Inbox, FiniteSetTheorems, TLAPS

-----------------------------------------------------------------------------
(* The inductive invariant.                                                *)

\* What is read of the wave for u: when, and for someone who was in it.
IsReading(u, x) ==
    /\ x.at \in 0..tick /\ x.row \in Row
    /\ x.row = Gone \/ u \in x.row.roster

\* The shapes of the handlers and pushes.
Shapes ==
    /\ members \subseteq Users /\ members # {}
    /\ rev \in [Msgs -> 0..tick] /\ deleted \subseteq Msgs
    /\ flags \in [Users -> SUBSET Flags] /\ marks \in [Users -> [Msgs -> Nat]]
    /\ \A u \in Users, m \in Msgs : marks[u][m] \in 0..rev[m]
    /\ tick \in Nat /\ news \in 0..tick
    /\ missed \subseteq Users /\ recalled \subseteq Users
    /\ link \in [Conns -> {"off", "registered", "open"}]
    /\ pending \in BOOLEAN /\ asleep = pending
    /\ push = [p \in Pushes |-> push[p]] /\ cmd = [c \in Conns |-> cmd[c]]
    /\ shown \in [Conns -> [row : Row, at : 0..tick, late : BOOLEAN, other : 0..tick]]

\* The writes that are under way fit the bound, and so does the count of the
\* handlers that have written and not scheduled a push yet.
Counts ==
    /\ tick + Cardinality({c \in Conns : cmd[c].pc = "write"}) \in 0..MaxTicks
    /\ due \in 0..tick /\ (leaving # {} => due < tick)
    /\ leaving = {} \/ \E u \in Users, n \in 1..tick : leaving = {[user |-> u, at |-> n]}

\* What pushes and handlers have read.
IsPush(x) ==
    /\ x.pc \in {"idle", "wake", "walk", "send"}
    /\ x.pc \in {"walk", "send"} => x.left \subseteq Users
    /\ x.pc = "send" => x.user \in Users /\ IsReading(x.user, x.new)
IsCmd(u, x) ==
    /\ x.pc \in {"idle", "load", "greet", "write", "row", "answer"}
    /\ x.pc \in {"greet", "answer"} => IsReading(u, x.new)
    /\ x.pc = "write" => x.flags \subseteq Flags

\* A handler runs on a connection that is there, and greets it first; what the
\* connection has been sent is for its owner.
Linked(c) ==
    /\ cmd[c].pc # "idle" => link[c] # "off"
    /\ link[c] = "registered" => cmd[c].pc \in {"load", "greet"}
    /\ shown[c].row = Gone \/ Owner[c] \in shown[c].row.roster

\* What storage says of the wave to each user.
Summaries == [u \in Users |-> Summary(u)]

\* The writes that matter to a user's row: pub, the last that others made or were
\* told of while the user was in the wave, and own, the last the user made.  A row
\* that was read after both is the row of today.
TrueRow(pub, own, u, x) == x.at >= pub[u] /\ x.at >= own[u] => x.row = Summaries[u]

RowsAreTrue(pub, own) ==
    /\ \A p \in Pushes : push[p].pc = "send" => TrueRow(pub, own, push[p].user, push[p].new)
    /\ \A c \in Conns :
         /\ cmd[c].pc \in {"greet", "answer"} => TrueRow(pub, own, Owner[c], cmd[c].new)
         /\ link[c] = "open" /\ ~shown[c].late => TrueRow(pub, own, Owner[c], shown[c])
    /\ \A x \in leaving : x.at >= pub[x.user] /\ x.at >= own[x.user] => Summaries[x.user] = Gone

\* A row that was read after the write n is on its way to u.
Coming(u, n) ==
    \/ u \in members /\ (due > 0 \/ leaving # {} \/ pending \/ \E p \in Pushes : push[p].pc = "wake")
    \/ \E x \in leaving : x.user = u /\ x.at >= n
    \/ \E p \in Pushes : push[p].pc \in {"walk", "send"} /\ u \in push[p].left
    \/ \E p \in Pushes : push[p].pc = "send" /\ push[p].user = u /\ push[p].new.at >= n

\* The browser shows a row that was read after n, or its greeting was.
Reached(c, n) ==
    \/ shown[c].at >= n \/ cmd[c].pc = "load"
    \/ cmd[c].pc = "greet" /\ cmd[c].new.at >= n

\* The user's own last write shows, or will by the answer to it, unless it was made
\* on another connection or the user has left since.
OwnShows(c, pub, own) ==
    LET u == Owner[c]
    IN \/ Reached(c, own[u]) \/ shown[c].other >= own[u] \/ own[u] < pub[u]
       \/ cmd[c].pc = "row" \/ (cmd[c].pc = "answer" /\ cmd[c].new.at >= own[u])

RowsCome(pub, own) ==
    \A c \in Conns :
      link[c] # "off" /\ Owner[c] \notin missed =>
        /\ Reached(c, pub[Owner[c]]) \/ Coming(Owner[c], pub[Owner[c]])
        /\ OwnShows(c, pub, own)

\* Whoever is not in the wave has left it after their own last write.
Dated(pub, own) ==
    /\ pub \in [Users -> 0..tick] /\ own \in [Users -> 0..tick]
    /\ \A u \in Users : u \in members \/ own[u] < pub[u]

Base ==
    /\ Shapes /\ Counts
    /\ \A p \in Pushes : IsPush(push[p])
    /\ \A c \in Conns : IsCmd(Owner[c], cmd[c]) /\ Linked(c)
Current(pub, own) == Dated(pub, own) /\ RowsAreTrue(pub, own) /\ RowsCome(pub, own)

IInv == Base /\ \E pub, own \in [Users -> 0..tick] : Current(pub, own)

-----------------------------------------------------------------------------
(* Rows, and how browsers take them.                                       *)

Shown == [row : Row, at : 0..tick, late : BOOLEAN, other : 0..tick]

\* The row of a participant names the participants; nobody else has one.
LEMMA SummaryIs ==
    ASSUME Shapes, NEW u \in Users
    PROVE  /\ Summaries[u] = Summary(u) /\ Summaries[u] \in Row
           /\ u \notin members => Summaries[u] = Gone
           /\ Summaries[u] = Gone \/ u \in Summaries[u].roster
<1> DEFINE a == Cardinality(Live \ Remarks)
           b == Cardinality(Unread(u))
<1>1. Summaries[u] = Summary(u)
  BY DEF Summaries
<1>2. CASE u \notin members
  <2>1. Summary(u) = Gone
    BY <1>2 DEF Summary, MaySee
  <2> QED BY <1>1, <1>2, <2>1 DEF Row
<1>3. CASE u \in members
  <2>1. Live \ Remarks \subseteq Msgs /\ Unread(u) \subseteq Msgs
    BY DEF Live, Unread
  <2>2. a \in 0..Cardinality(Msgs) /\ b \in 0..Cardinality(Msgs)
    <3>1. IsFiniteSet(Msgs) /\ Cardinality(Msgs) \in Nat
      BY InboxAssumption, FS_CardinalityType
    <3>2. \A S \in SUBSET Msgs : IsFiniteSet(S) /\ Cardinality(S) <= Cardinality(Msgs)
      BY <3>1, FS_Subset
    <3>3. \A S \in SUBSET Msgs : Cardinality(S) \in Nat
      BY <3>2, FS_CardinalityType
    <3> QED BY <2>1, <3>1, <3>2, <3>3
  <2>3. Summary(u) = [roster |-> members, count |-> a, unread |-> b, flags |-> flags[u]]
    BY <1>3 DEF Summary, MaySee
  <2> HIDE DEF a, b
  <2>4. Summary(u) \in Row /\ Summary(u).roster = members
    BY <2>2, <2>3 DEF Row, Shapes
  <2> QED BY <1>1, <1>3, <2>4
<1> QED BY <1>2, <1>3

LEMMA ReadingIs ==
    ASSUME Shapes, NEW u \in Users
    PROVE  /\ Reading(u).at = tick /\ Reading(u).row = Summaries[u]
           /\ IsReading(u, Reading(u))
<1>1. Reading(u).at = tick /\ Reading(u).row = Summaries[u]
  BY SummaryIs DEF Reading
<1>2. tick \in 0..tick
  BY DEF Shapes
<1> QED BY <1>1, <1>2, SummaryIs DEF IsReading

\* What storage says changes only with what is stored.
LEMMA SameSummaries ==
    ASSUME UNCHANGED store
    PROVE  Summaries' = Summaries
BY DEF store, Summaries, Summary, MaySee, Live, Unread

\* A browser takes a row: it is late if it shows a newer one.
Takes(old, z, new) ==
    /\ z.row = new.row /\ z.other = old.other
    /\ z.at >= old.at /\ z.at >= new.at /\ (z.late \/ z.at = new.at)

LEMMA ShowsIs ==
    ASSUME Shapes, NEW old \in Shown, NEW new, new.at \in 0..tick, new.row \in Row
    PROVE  Shows(old, new) \in Shown /\ Takes(old, Shows(old, new), new)
<1> DEFINE at == IF new.at < old.at THEN old.at ELSE new.at
           late == new.at < old.at
           z == Shows(old, new)
<1>1. at \in 0..tick /\ at >= old.at /\ at >= new.at /\ (late \/ at = new.at) /\ late \in BOOLEAN
  BY DEF Shown, Shapes
<1>2. z = [old EXCEPT !.row = new.row, !.late = late, !.at = at]
  BY DEF Shows
<1> HIDE DEF at, late, z
<1>3. z = [row |-> new.row, at |-> at, late |-> late, other |-> old.other]
  BY <1>2 DEF Shown
<1>4. z \in Shown
  BY <1>1, <1>3 DEF Shown
<1>5. Takes(old, z, new)
  BY <1>1, <1>3 DEF Takes
<1> QED BY <1>4, <1>5 DEF z

LEMMA SendIs ==
    ASSUME Shapes, NEW conns, NEW new, new.at \in 0..tick, new.row \in Row, SendTo(conns, new)
    PROVE  /\ shown' \in [Conns -> Shown]
           /\ \A c \in Conns : IF c \in conns THEN Takes(shown[c], shown'[c], new) ELSE shown'[c] = shown[c]
<1>1. shown \in [Conns -> Shown]
  BY DEF Shapes, Shown
<1>2. \A c \in Conns : Shows(shown[c], new) \in Shown /\ Takes(shown[c], Shows(shown[c], new), new)
  BY <1>1, ShowsIs
<1> QED BY <1>1, <1>2 DEF SendTo

-----------------------------------------------------------------------------
(* The debounced push.                                                     *)

\* A step of a push, or of the task that waits, changes neither what is stored nor
\* the handlers.
LEMMA PushBase ==
    ASSUME Base, UNCHANGED <<store, tick, news, link, cmd, recalled>>, Counts', missed' \subseteq Users,
           pending' \in BOOLEAN, asleep' = pending', push' = [p \in Pushes |-> push'[p]],
           \A p \in Pushes : IsPush(push'[p]),
           shown' \in [Conns -> Shown],
           \A c \in Conns : shown'[c].row = Gone \/ Owner[c] \in shown'[c].row.roster
    PROVE  Base'
<1>1. Shapes'
  BY DEF Base, Shapes, store, Shown
<1>2. \A p \in Pushes : IsPush(push[p])'
  BY DEF IsPush, IsReading
<1>3. \A c \in Conns : (IsCmd(Owner[c], cmd[c]) /\ Linked(c))'
  BY DEF Base, IsCmd, IsReading, Linked
<1> QED BY <1>1, <1>2, <1>3 DEF Base

LEMMA RestIs ==
    ASSUME NEW left \in SUBSET Users
    PROVE  /\ IsPush(Rest(left))
           /\ left # {} => Rest(left).pc = "walk" /\ Rest(left).left = left
           /\ Rest(left).pc # "send" /\ Rest(left).pc # "wake"
           /\ Rest(left).pc = "walk" => Rest(left).left = left
<1>1. CASE left = {}
  <2>1. Rest(left).pc = "idle"
    BY <1>1 DEF Rest, Idle
  <2> QED BY <1>1, <2>1 DEF IsPush
<1>2. CASE left # {}
  <2>1. Rest(left).pc = "walk" /\ Rest(left).left = left
    BY <1>2 DEF Rest
  <2> QED BY <1>2, <2>1 DEF IsPush
<1> QED BY <1>1, <1>2

LEMMA SameCounts ==
    ASSUME Base, UNCHANGED <<tick, due, leaving, cmd>>
    PROVE  Counts'
BY DEF Base, Counts

LEMMA ScheduleBase ==
    ASSUME Base, Schedule
    PROVE  Base'
<1>1. Counts'
  BY DEF Schedule, Base, Counts, Shapes
<1>2. shown' \in [Conns -> Shown] /\ pending' \in BOOLEAN /\ asleep' = pending' /\ missed' \subseteq Users
      /\ push' = [p \in Pushes |-> push'[p]]
  BY DEF Schedule, Base, Shapes, Shown
<1>3. \A c \in Conns : shown'[c].row = Gone \/ Owner[c] \in shown'[c].row.roster
  BY DEF Schedule, Base, Linked
<1>4. \A p \in Pushes : IsPush(push'[p])
  BY DEF Schedule, Base
<1> QED BY <1>1, <1>2, <1>3, <1>4, PushBase DEF Schedule

LEMMA WakeBase ==
    ASSUME Base, NEW p \in Pushes, Wake(p)
    PROVE  Base'
<1> DEFINE x == [pc |-> "wake"]
<1>0. x.pc = "wake" /\ IsPush(x)
  BY DEF IsPush
<1> HIDE DEF x
<1>1. Counts'
  BY SameCounts DEF Wake
<1>2. shown' \in [Conns -> Shown] /\ pending' \in BOOLEAN /\ asleep' = pending' /\ missed' \subseteq Users
  BY DEF Wake, Base, Shapes, Shown, PendingAfterWake
<1>3. \A c \in Conns : shown'[c].row = Gone \/ Owner[c] \in shown'[c].row.roster
  BY DEF Wake, Base, Linked
<1>4. push' = [push EXCEPT ![p] = x]
  BY DEF Wake, x
<1>5. push' = [q \in Pushes |-> push'[q]] /\ \A q \in Pushes : IsPush(push'[q])
  BY <1>0, <1>4 DEF Base, Shapes
<1> QED BY <1>1, <1>2, <1>3, <1>5, PushBase DEF Wake

LEMMA ListBase ==
    ASSUME Base, NEW p \in Pushes, List(p)
    PROVE  Base'
<1> DEFINE x == [pc |-> "walk", left |-> members]
<1>0. IsPush(x)
  BY DEF IsPush, Base, Shapes
<1> HIDE DEF x
<1>1. Counts'
  BY SameCounts DEF List
<1>2. shown' \in [Conns -> Shown] /\ pending' \in BOOLEAN /\ asleep' = pending' /\ missed' \subseteq Users
  BY DEF List, Base, Shapes, Shown
<1>3. \A c \in Conns : shown'[c].row = Gone \/ Owner[c] \in shown'[c].row.roster
  BY DEF List, Base, Linked
<1>4. push' = [push EXCEPT ![p] = x]
  BY DEF List, x
<1>5. push' = [q \in Pushes |-> push'[q]] /\ \A q \in Pushes : IsPush(push'[q])
  BY <1>0, <1>4 DEF Base, Shapes
<1> QED BY <1>1, <1>2, <1>3, <1>5, PushBase DEF List

\* The next participant of a push, and what is read for them.
WalkTo(p, u) ==
    IF Registered(u) = {} THEN Rest(push[p].left \ {u})
    ELSE [pc |-> "send", left |-> push[p].left \ {u}, user |-> u, new |-> Reading(u)]

LEMMA WalkIs ==
    ASSUME Base, NEW p \in Pushes, NEW u \in Users, Walk(p, u)
    PROVE  /\ push' = [push EXCEPT ![p] = WalkTo(p, u)] /\ IsPush(WalkTo(p, u))
           /\ u \in push[p].left /\ push[p].pc = "walk" /\ WalkTo(p, u).pc # "wake"
           /\ push[p].left \ {u} # {} => /\ WalkTo(p, u).pc \in {"walk", "send"}
                                         /\ WalkTo(p, u).left = push[p].left \ {u}
           /\ Registered(u) # {} => /\ WalkTo(p, u).pc = "send" /\ WalkTo(p, u).user = u
                                    /\ WalkTo(p, u).new.at = tick
           /\ WalkTo(p, u).pc = "send" => /\ WalkTo(p, u).user = u
                                          /\ WalkTo(p, u).new.row = Summaries[u]
<1> DEFINE left == push[p].left \ {u}
           x == [pc |-> "send", left |-> left, user |-> u, new |-> Reading(u)]
<1>1. push[p].pc = "walk" /\ u \in push[p].left /\ push' = [push EXCEPT ![p] = WalkTo(p, u)]
  BY DEF Walk, WalkTo, Base, Shapes
<1>2. left \in SUBSET Users
  BY <1>1 DEF Base, IsPush
<1>3. /\ Reading(u).at = tick /\ Reading(u).row = Summaries[u] /\ IsReading(u, Reading(u))
  BY ReadingIs DEF Base
<1>4. WalkTo(p, u) = IF Registered(u) = {} THEN Rest(left) ELSE x
  BY DEF WalkTo
<1> HIDE DEF left
<1>5. x.pc = "send" /\ x.left = left /\ x.user = u /\ x.new = Reading(u)
  OBVIOUS
<1> HIDE DEF x
<1>6. IsPush(x)
  BY <1>2, <1>3, <1>5 DEF IsPush
<1>7. CASE Registered(u) = {}
  BY <1>1, <1>2, <1>4, <1>7, RestIs DEF left
<1>8. CASE Registered(u) # {}
  BY <1>1, <1>3, <1>4, <1>5, <1>6, <1>8 DEF left
<1> QED BY <1>7, <1>8

LEMMA WalkBase ==
    ASSUME Base, NEW p \in Pushes, NEW u \in Users, Walk(p, u)
    PROVE  Base'
<1>1. Counts'
  BY SameCounts DEF Walk
<1>2. shown' \in [Conns -> Shown] /\ pending' \in BOOLEAN /\ asleep' = pending' /\ missed' \subseteq Users
  BY DEF Walk, Base, Shapes, Shown
<1>3. \A c \in Conns : shown'[c].row = Gone \/ Owner[c] \in shown'[c].row.roster
  BY DEF Walk, Base, Linked
<1>4. push' = [push EXCEPT ![p] = WalkTo(p, u)] /\ IsPush(WalkTo(p, u))
  BY WalkIs
<1>5. push' = [q \in Pushes |-> push'[q]] /\ \A q \in Pushes : IsPush(push'[q])
  BY <1>4 DEF Base, Shapes
<1> QED BY <1>1, <1>2, <1>3, <1>5, PushBase DEF Walk

\* A row goes out.
LEMMA SendRowIs ==
    ASSUME Base, NEW p \in Pushes, SendRow(p)
    PROVE  /\ push[p].pc = "send" /\ push[p].user \in Users /\ IsReading(push[p].user, push[p].new)
           /\ push' = [push EXCEPT ![p] = Rest(push[p].left)] /\ push[p].left \in SUBSET Users
           /\ shown' \in [Conns -> Shown]
           /\ \A c \in Conns : IF c \in Registered(push[p].user)
                               THEN Takes(shown[c], shown'[c], push[p].new) ELSE shown'[c] = shown[c]
<1>1. /\ push[p].pc = "send" /\ push[p].user \in Users /\ IsReading(push[p].user, push[p].new)
      /\ push[p].left \in SUBSET Users /\ Shapes
  BY DEF SendRow, Base, IsPush
<1>2. push[p].new.at \in 0..tick /\ push[p].new.row \in Row
  BY <1>1 DEF IsReading
<1>3. SendTo(Registered(push[p].user), push[p].new)
  BY DEF SendRow
<1>4. push' = [push EXCEPT ![p] = Rest(push[p].left)]
  BY DEF SendRow, Base, Shapes
<1> QED BY <1>1, <1>2, <1>3, <1>4, SendIs

LEMMA SendRowBase ==
    ASSUME Base, NEW p \in Pushes, SendRow(p)
    PROVE  Base'
<1>1. Counts'
  BY SameCounts DEF SendRow
<1>2. pending' \in BOOLEAN /\ asleep' = pending' /\ missed' \subseteq Users
  BY DEF SendRow, Base, Shapes
<1>3. ASSUME NEW c \in Conns PROVE shown'[c].row = Gone \/ Owner[c] \in shown'[c].row.roster
  <2>1. CASE c \in Registered(push[p].user)
    BY <2>1, SendRowIs DEF Takes, IsReading, Registered
  <2>2. CASE c \notin Registered(push[p].user)
    BY <2>2, SendRowIs DEF Base, Linked
  <2> QED BY <2>1, <2>2
<1>4. push' = [q \in Pushes |-> push'[q]] /\ \A q \in Pushes : IsPush(push'[q])
  BY SendRowIs, RestIs DEF Base, Shapes
<1>5. shown' \in [Conns -> Shown]
  BY SendRowIs
<1> QED BY <1>1, <1>2, <1>3, <1>4, <1>5, PushBase DEF SendRow

LEMMA PushFailsIs ==
    ASSUME Base, NEW p \in Pushes, PushFails(p)
    PROVE  /\ missed = {}
           /\ \/ push[p].pc = "wake" /\ push' = [push EXCEPT ![p] = Idle] /\ missed' = Users
              \/ \E u \in Users : /\ push[p].pc = "walk" /\ missed' = {u}
                                  /\ push' = [push EXCEPT ![p] = Rest(push[p].left \ {u})]
<1>1. push[p].pc = "walk" => push[p].left \subseteq Users
  BY DEF Base, IsPush
<1> QED BY <1>1 DEF PushFails, Base, Shapes

LEMMA PushFailsBase ==
    ASSUME Base, NEW p \in Pushes, PushFails(p)
    PROVE  Base'
<1>1. Counts'
  BY SameCounts DEF PushFails
<1>2. shown' \in [Conns -> Shown] /\ pending' \in BOOLEAN /\ asleep' = pending'
  BY DEF PushFails, Base, Shapes, Shown
<1>3. \A c \in Conns : shown'[c].row = Gone \/ Owner[c] \in shown'[c].row.roster
  BY DEF PushFails, Base, Linked
<1>4. missed' \subseteq Users
  BY PushFailsIs
<1>5. IsPush(Idle)
  BY DEF Idle, IsPush
<1>6. \A u \in Users : push[p].pc = "walk" => IsPush(Rest(push[p].left \ {u}))
  <2>1. push[p].pc = "walk" => push[p].left \subseteq Users
    BY DEF Base, IsPush
  <2>2. \A u : push[p].pc = "walk" => push[p].left \ {u} \in SUBSET Users
    BY <2>1
  <2> QED BY <2>2, RestIs
<1>7. push' = [q \in Pushes |-> push'[q]] /\ \A q \in Pushes : IsPush(push'[q])
  <2>1. \E x : push' = [push EXCEPT ![p] = x] /\ IsPush(x)
    BY <1>5, <1>6, PushFailsIs
  <2> QED BY <2>1 DEF Base, Shapes
<1> QED BY <1>1, <1>2, <1>3, <1>4, <1>7, PushBase DEF PushFails

\* Nothing is stored, and whoever a row was coming to still has one coming.
LEMMA PushCurrent ==
    ASSUME Base, NEW pub, NEW own, Current(pub, own),
           UNCHANGED <<store, tick, link, cmd, leaving, shown>>, missed \subseteq missed',
           \A p \in Pushes : push'[p].pc = "send" => TrueRow(pub, own, push'[p].user, push'[p].new),
           \A u \in Users : Coming(u, pub[u]) /\ u \notin missed' =>
              \/ Coming(u, pub[u])'
              \/ \A c \in Conns : Owner[c] = u => link[c] = "off"
    PROVE  Current(pub, own)'
<1>1. Summaries' = Summaries
  BY SameSummaries
<1>2. Dated(pub, own)'
  BY DEF Current, Dated, store
<1>3. RowsAreTrue(pub, own)'
  BY <1>1 DEF Current, RowsAreTrue, TrueRow
<1>4. RowsCome(pub, own)'
  <2> SUFFICES ASSUME NEW c \in Conns, link[c] # "off", Owner[c] \notin missed'
               PROVE  /\ Reached(c, pub[Owner[c]])' \/ Coming(Owner[c], pub[Owner[c]])'
                      /\ OwnShows(c, pub, own)'
    BY DEF RowsCome
  <2>1. /\ Reached(c, pub[Owner[c]]) \/ Coming(Owner[c], pub[Owner[c]])
        /\ OwnShows(c, pub, own)
    BY DEF Current, RowsCome
  <2>2. Reached(c, pub[Owner[c]]) => Reached(c, pub[Owner[c]])'
    BY DEF Reached
  <2>3. OwnShows(c, pub, own)'
    BY <2>1 DEF OwnShows, Reached
  <2>4. Owner[c] \in Users
    BY InboxAssumption
  <2> QED BY <2>1, <2>2, <2>3, <2>4
<1> QED BY <1>2, <1>3, <1>4 DEF Current

LEMMA WakeCurrent ==
    ASSUME Base, NEW pub, NEW own, Current(pub, own), NEW p \in Pushes, Wake(p)
    PROVE  Current(pub, own)'
<1>1. push'[p].pc = "wake" /\ push[p].pc = "idle" /\ \A q \in Pushes \ {p} : push'[q] = push[q]
  BY DEF Wake, Base, Shapes
<1>2. \A q \in Pushes : push'[q].pc = "send" => TrueRow(pub, own, push'[q].user, push'[q].new)
  BY <1>1 DEF Current, RowsAreTrue
<1>3. ASSUME NEW u \in Users, Coming(u, pub[u]) PROVE Coming(u, pub[u])'
  BY <1>1, <1>3 DEF Coming, Wake, store
<1> QED BY <1>2, <1>3, PushCurrent DEF Wake

LEMMA ListCurrent ==
    ASSUME Base, NEW pub, NEW own, Current(pub, own), NEW p \in Pushes, List(p)
    PROVE  Current(pub, own)'
<1>1. /\ push'[p].pc = "walk" /\ push'[p].left = members /\ push[p].pc = "wake"
      /\ \A q \in Pushes \ {p} : push'[q] = push[q]
  BY DEF List, Base, Shapes
<1>2. \A q \in Pushes : push'[q].pc = "send" => TrueRow(pub, own, push'[q].user, push'[q].new)
  BY <1>1 DEF Current, RowsAreTrue
<1>3. ASSUME NEW u \in Users, Coming(u, pub[u]) PROVE Coming(u, pub[u])'
  BY <1>1, <1>3 DEF Coming, List, store
<1> QED BY <1>2, <1>3, PushCurrent DEF List

LEMMA WalkCurrent ==
    ASSUME Base, NEW pub, NEW own, Current(pub, own), NEW p \in Pushes, NEW v \in Users, Walk(p, v)
    PROVE  Current(pub, own)'
<1> DEFINE x == WalkTo(p, v)
<1>1. /\ push'[p] = x /\ push[p].pc = "walk" /\ v \in push[p].left
      /\ \A q \in Pushes \ {p} : push'[q] = push[q]
  BY WalkIs DEF Base, Shapes
<1>2. /\ push[p].left \ {v} # {} => x.pc \in {"walk", "send"} /\ x.left = push[p].left \ {v}
      /\ Registered(v) # {} => x.pc = "send" /\ x.user = v /\ x.new.at = tick
      /\ x.pc = "send" => x.user = v /\ x.new.row = Summaries[v]
  BY WalkIs
<1> HIDE DEF x
<1>3. \A q \in Pushes : push'[q].pc = "send" => TrueRow(pub, own, push'[q].user, push'[q].new)
  BY <1>1, <1>2 DEF Current, RowsAreTrue, TrueRow
<1>4. ASSUME NEW u \in Users, Coming(u, pub[u])
      PROVE  Coming(u, pub[u])' \/ \A c \in Conns : Owner[c] = u => link[c] = "off"
  <2>1. /\ members' = members /\ due' = due /\ leaving' = leaving /\ pending' = pending
    BY DEF Walk, store
  <2>2. CASE u # v
    <3>1. u \in push[p].left => u \in push[p].left \ {v} /\ push[p].left \ {v} # {}
      BY <2>2
    <3> QED BY <1>1, <1>2, <1>4, <2>1, <3>1 DEF Coming
  <2>3. CASE u = v /\ Registered(v) # {}
    <3>1. tick >= pub[u]
      BY DEF Current, Dated, Base, Shapes
    <3> QED BY <1>1, <1>2, <2>3, <3>1 DEF Coming
  <2>4. CASE u = v /\ Registered(v) = {}
    BY <2>4 DEF Registered
  <2> QED BY <2>2, <2>3, <2>4
<1> QED BY <1>3, <1>4, PushCurrent DEF Walk

LEMMA PushFailsCurrent ==
    ASSUME Base, NEW pub, NEW own, Current(pub, own), NEW p \in Pushes, PushFails(p)
    PROVE  Current(pub, own)'
<1>0. /\ missed = {} /\ UNCHANGED <<store, tick, link, cmd, leaving, shown, due, pending>>
  BY DEF PushFails
<1>1. CASE push[p].pc = "wake" /\ push' = [push EXCEPT ![p] = Idle] /\ missed' = Users
  <2>1. push'[p].pc = "idle" /\ \A q \in Pushes \ {p} : push'[q] = push[q]
    BY <1>1 DEF Base, Shapes, Idle
  <2>2. \A q \in Pushes : push'[q].pc = "send" => TrueRow(pub, own, push'[q].user, push'[q].new)
    BY <2>1 DEF Current, RowsAreTrue
  <2> QED BY <1>0, <1>1, <2>2, PushCurrent
<1>2. ASSUME NEW v \in Users, push[p].pc = "walk", missed' = {v},
             push' = [push EXCEPT ![p] = Rest(push[p].left \ {v})]
      PROVE  Current(pub, own)'
  <2> DEFINE left == push[p].left \ {v}
             x == Rest(left)
  <2>1. left \in SUBSET Users
    BY <1>2 DEF Base, IsPush
  <2>2. /\ push'[p] = x /\ x.pc # "send" /\ x.pc # "wake"
        /\ left # {} => x.pc = "walk" /\ x.left = left
        /\ \A q \in Pushes \ {p} : push'[q] = push[q]
    BY <1>2, <2>1, RestIs DEF Base, Shapes
  <2> HIDE DEF x
  <2>3. \A q \in Pushes : push'[q].pc = "send" => TrueRow(pub, own, push'[q].user, push'[q].new)
    BY <2>2 DEF Current, RowsAreTrue
  <2>4. ASSUME NEW u \in Users, Coming(u, pub[u]), u \notin missed' PROVE Coming(u, pub[u])'
    <3>1. u \in push[p].left => u \in left /\ left # {}
      BY <1>2, <2>4
    <3> QED BY <1>0, <1>2, <2>2, <2>4, <3>1 DEF Coming, store
  <2> QED BY <1>0, <1>2, <2>3, <2>4, PushCurrent
<1> QED BY <1>1, <1>2, PushFailsIs

LEMMA ScheduleCurrent ==
    ASSUME Base, NEW pub, NEW own, Current(pub, own), Schedule
    PROVE  Current(pub, own)'
<1>1. \A q \in Pushes : push'[q].pc = "send" => TrueRow(pub, own, push'[q].user, push'[q].new)
  BY DEF Current, RowsAreTrue, Schedule
<1>2. ASSUME NEW u \in Users, Coming(u, pub[u]) PROVE Coming(u, pub[u])'
  BY <1>2 DEF Coming, Schedule, store
<1> QED BY <1>1, <1>2, PushCurrent DEF Schedule

-----------------------------------------------------------------------------
(* A row is sent.                                                          *)

\* It reaches these connections; a handler that sends one is done.
LEMMA SendCurrent ==
    ASSUME Base, NEW pub, NEW own, Current(pub, own), UNCHANGED <<store, tick, missed>>,
           NEW conns, NEW new, new.at \in 0..tick,
           \A c \in Conns : IF c \in conns THEN Takes(shown[c], shown'[c], new) ELSE shown'[c] = shown[c],
           \A c \in Conns : c \in conns => TrueRow(pub, own, Owner[c], new),
           \A c \in Conns : shown'[c].at \in Nat,
           leaving' \subseteq leaving,
           \A p \in Pushes : push'[p].pc = "send" => TrueRow(pub, own, push'[p].user, push'[p].new),
           \A c \in Conns : (link'[c] = link[c]) \/ (c \in conns /\ link[c] # "off"),
           \A c \in Conns : \/ cmd'[c] = cmd[c]
                            \/ /\ cmd'[c].pc = "idle" /\ c \in conns
                               /\ cmd[c].pc \in {"greet", "answer"} /\ cmd[c].new = new,
           \A u \in Users : Coming(u, pub[u]) =>
              \/ Coming(u, pub[u])'
              \/ \A c \in Conns : Owner[c] = u /\ link[c] # "off" => c \in conns /\ new.at >= pub[u]
    PROVE  Current(pub, own)'
<1>1. Summaries' = Summaries
  BY SameSummaries
<1>2. Dated(pub, own)'
  BY DEF Current, Dated, store
<1>3. RowsAreTrue(pub, own)'
  <2>1. ASSUME NEW c \in Conns, cmd'[c].pc \in {"greet", "answer"}
        PROVE  TrueRow(pub, own, Owner[c], cmd'[c].new)
    BY <2>1 DEF Current, RowsAreTrue
  <2>2. ASSUME NEW c \in Conns, link'[c] = "open", ~shown'[c].late
        PROVE  TrueRow(pub, own, Owner[c], shown'[c])
    <3>1. CASE c \in conns
      BY <2>2, <3>1 DEF Takes, TrueRow
    <3>2. CASE c \notin conns
      BY <2>2, <3>2 DEF Current, RowsAreTrue
    <3> QED BY <3>1, <3>2
  <2> QED BY <1>1, <2>1, <2>2 DEF Current, RowsAreTrue, TrueRow
<1>4. RowsCome(pub, own)'
  <2> SUFFICES ASSUME NEW c \in Conns, link'[c] # "off", Owner[c] \notin missed
               PROVE  /\ Reached(c, pub[Owner[c]])' \/ Coming(Owner[c], pub[Owner[c]])'
                      /\ OwnShows(c, pub, own)'
    BY DEF RowsCome
  <2>0. link[c] # "off"
    OBVIOUS
  <2>1. /\ Reached(c, pub[Owner[c]]) \/ Coming(Owner[c], pub[Owner[c]])
        /\ OwnShows(c, pub, own)
    BY <2>0 DEF Current, RowsCome
  <2>2. Owner[c] \in Users
    BY InboxAssumption
  <2>3. /\ pub[Owner[c]] \in Nat /\ own[Owner[c]] \in Nat /\ new.at \in Nat
        /\ shown[c].at \in Nat /\ shown'[c].at \in Nat
    BY <2>2 DEF Current, Dated, Base, Shapes
  <2>4. /\ shown'[c].at >= shown[c].at /\ shown'[c].other = shown[c].other
        /\ c \in conns => shown'[c].at >= new.at
    BY <2>3 DEF Takes
  <2>5. ASSUME NEW n \in Nat, Reached(c, n) PROVE Reached(c, n)'
    BY <2>3, <2>4, <2>5 DEF Reached
  <2>6. OwnShows(c, pub, own)'
    <3>1. CASE Reached(c, own[Owner[c]])
      BY <2>3, <2>5, <3>1 DEF OwnShows
    <3>2. CASE cmd[c].pc = "answer" /\ cmd[c].new.at >= own[Owner[c]]
      BY <2>3, <2>4, <3>2 DEF OwnShows, Reached
    <3>3. CASE cmd[c].pc = "row"
      BY <3>3 DEF OwnShows
    <3>4. CASE shown[c].other >= own[Owner[c]] \/ own[Owner[c]] < pub[Owner[c]]
      BY <2>4, <3>4 DEF OwnShows
    <3> QED BY <2>1, <3>1, <3>2, <3>3, <3>4 DEF OwnShows
  <2>7. (\A d \in Conns : Owner[d] = Owner[c] /\ link[d] # "off" => d \in conns /\ new.at >= pub[Owner[c]])
          => Reached(c, pub[Owner[c]])'
    BY <2>0, <2>3, <2>4 DEF Reached
  <2> QED BY <2>1, <2>2, <2>3, <2>5, <2>6, <2>7
<1> QED BY <1>2, <1>3, <1>4 DEF Current

LEMMA SendRowCurrent ==
    ASSUME Base, NEW pub, NEW own, Current(pub, own), NEW p \in Pushes, SendRow(p)
    PROVE  Current(pub, own)'
<1> DEFINE u == push[p].user
           x == Rest(push[p].left)
<1>1. /\ push[p].pc = "send" /\ u \in Users /\ IsReading(u, push[p].new) /\ push[p].left \in SUBSET Users
      /\ shown' \in [Conns -> Shown]
      /\ \A c \in Conns : IF c \in Registered(u) THEN Takes(shown[c], shown'[c], push[p].new)
                          ELSE shown'[c] = shown[c]
  BY SendRowIs
<1>2. /\ push'[p] = x /\ x.pc # "send" /\ x.pc # "wake" /\ \A q \in Pushes \ {p} : push'[q] = push[q]
      /\ push[p].left # {} => x.pc = "walk" /\ x.left = push[p].left
  BY <1>1, SendRowIs, RestIs DEF Base, Shapes
<1> HIDE DEF x
<1>3. \A c \in Conns : c \in Registered(u) => TrueRow(pub, own, Owner[c], push[p].new)
  BY <1>1 DEF Current, RowsAreTrue, Registered
<1>4. \A q \in Pushes : push'[q].pc = "send" => TrueRow(pub, own, push'[q].user, push'[q].new)
  BY <1>2 DEF Current, RowsAreTrue
<1>5. ASSUME NEW v \in Users, Coming(v, pub[v])
      PROVE  \/ Coming(v, pub[v])'
             \/ \A c \in Conns : Owner[c] = v /\ link[c] # "off" =>
                  c \in Registered(u) /\ push[p].new.at >= pub[v]
  <2>1. members' = members /\ due' = due /\ leaving' = leaving /\ pending' = pending
    BY DEF SendRow, store
  <2>2. CASE v = u /\ push[p].new.at >= pub[v]
    BY <2>2 DEF Registered
  <2>3. CASE ~(v = u /\ push[p].new.at >= pub[v])
    <3>1. v \in push[p].left => x.pc = "walk" /\ v \in x.left
      BY <1>2
    <3> QED BY <1>1, <1>2, <1>5, <2>1, <2>3, <3>1 DEF Coming
  <2> QED BY <2>2, <2>3
<1>6. push[p].new.at \in 0..tick /\ \A c \in Conns : shown'[c].at \in Nat
  BY <1>1 DEF IsReading, Shown
<1> HIDE DEF u
<1> QED BY <1>1, <1>3, <1>4, <1>5, <1>6, SendCurrent DEF SendRow

\* Who was removed is told.
Told(x, new) ==
    /\ leaving = {x} /\ x.user \in Users /\ x.at \in 1..tick
    /\ new.at = x.at /\ new.row = Gone /\ shown' \in [Conns -> Shown]
    /\ \A c \in Conns : IF c \in Registered(x.user) THEN Takes(shown[c], shown'[c], new)
                        ELSE shown'[c] = shown[c]

LEMMA TellRemovedIs ==
    ASSUME Base, TellRemoved
    PROVE  \E x, new : Told(x, new)
<1>1. PICK x \in leaving : SendTo(ToBeTold(x), [at |-> x.at, row |-> Gone])
  BY DEF TellRemoved
<1>2. leaving = {x} /\ x.user \in Users /\ x.at \in 1..tick
  BY <1>1 DEF Base, Counts
<1> DEFINE new == [at |-> x.at, row |-> Gone]
<1>3. new.at = x.at /\ new.row = Gone
  OBVIOUS
<1>4. SendTo(Registered(x.user), new)
  BY <1>1 DEF ToBeTold
<1> HIDE DEF new
<1>5. new.at \in 0..tick /\ new.row \in Row /\ Shapes
  BY <1>2, <1>3 DEF Row, Base
<1>6. /\ shown' \in [Conns -> Shown]
      /\ \A c \in Conns : IF c \in Registered(x.user) THEN Takes(shown[c], shown'[c], new)
                          ELSE shown'[c] = shown[c]
  BY <1>4, <1>5, SendIs
<1> QED BY <1>2, <1>3, <1>6 DEF Told

LEMMA TellRemovedBase ==
    ASSUME Base, TellRemoved
    PROVE  Base'
<1>0. PICK x, new : Told(x, new)
  BY TellRemovedIs
<1>1. Counts'
  BY DEF TellRemoved, Base, Counts, Shapes
<1>2. pending' \in BOOLEAN /\ asleep' = pending' /\ missed' \subseteq Users /\ push' = [p \in Pushes |-> push'[p]]
  BY DEF TellRemoved, Base, Shapes
<1>3. \A c \in Conns : shown'[c].row = Gone \/ Owner[c] \in shown'[c].row.roster
  BY <1>0 DEF Told, Takes, Base, Linked
<1>4. \A p \in Pushes : IsPush(push'[p])
  BY DEF TellRemoved, Base
<1> QED BY <1>0, <1>1, <1>2, <1>3, <1>4, PushBase DEF Told, TellRemoved

LEMMA TellRemovedCurrent ==
    ASSUME Base, NEW pub, NEW own, Current(pub, own), TellRemoved
    PROVE  Current(pub, own)'
<1>0. PICK x, new : Told(x, new)
  BY TellRemovedIs
<1>1. UNCHANGED <<store, tick, missed, push, link, cmd, pending>> /\ leaving' = {} /\ due' = due + 1
  BY DEF TellRemoved
<1>2. \A c \in Conns : c \in Registered(x.user) => TrueRow(pub, own, Owner[c], new)
  BY <1>0 DEF Told, Current, RowsAreTrue, Registered, TrueRow
<1>3. \A p \in Pushes : push'[p].pc = "send" => TrueRow(pub, own, push'[p].user, push'[p].new)
  BY <1>1 DEF Current, RowsAreTrue
<1>4. ASSUME NEW u \in Users, Coming(u, pub[u])
      PROVE  \/ Coming(u, pub[u])'
             \/ \A c \in Conns : Owner[c] = u /\ link[c] # "off" =>
                  c \in Registered(x.user) /\ new.at >= pub[u]
  <2>1. CASE u = x.user /\ x.at >= pub[u]
    BY <1>0, <2>1 DEF Told, Registered
  <2>2. CASE ~(u = x.user /\ x.at >= pub[u])
    <3>1. due' > 0 /\ members' = members
      BY <1>1 DEF Base, Counts, Shapes, store
    <3> QED BY <1>0, <1>1, <1>4, <2>2, <3>1 DEF Told, Coming
  <2> QED BY <2>1, <2>2
<1>5. new.at \in 0..tick /\ \A c \in Conns : shown'[c].at \in Nat
  BY <1>0 DEF Told, Shown, Base, Shapes
<1> QED BY <1>0, <1>1, <1>2, <1>3, <1>4, <1>5, SendCurrent DEF Told

-----------------------------------------------------------------------------
(* Connections and their handlers.                                         *)

LEMMA WritersAre ==
    ASSUME NEW S, S \subseteq Conns, NEW T, T \subseteq S
    PROVE  /\ IsFiniteSet(S) /\ Cardinality(S) \in Nat
           /\ IsFiniteSet(T) /\ Cardinality(T) \in Nat /\ Cardinality(T) <= Cardinality(S)
<1>1. IsFiniteSet(S) /\ Cardinality(S) \in Nat
  BY InboxAssumption, FS_Subset, FS_CardinalityType
<1> QED BY <1>1, FS_Subset, FS_CardinalityType

LEMMA FewerWriting ==
    ASSUME Base, UNCHANGED <<tick, due, leaving>>,
           \A c \in Conns : cmd'[c].pc = "write" => cmd[c].pc = "write"
    PROVE  Counts'
<1> DEFINE S == {c \in Conns : cmd[c].pc = "write"}
           T == {c \in Conns : cmd'[c].pc = "write"}
<1>1. T \subseteq S /\ S \subseteq Conns
  OBVIOUS
<1>2. Cardinality(T) \in Nat /\ Cardinality(S) \in Nat /\ Cardinality(T) <= Cardinality(S)
  BY <1>1, WritersAre
<1>3. tick + Cardinality(S) \in 0..MaxTicks /\ tick \in Nat
  BY DEF Base, Counts, Shapes
<1>4. tick' + Cardinality(T) \in 0..MaxTicks
  BY <1>2, <1>3, InboxAssumption
<1> QED BY <1>4 DEF Base, Counts

\* A handler's step that stores nothing.
LEMMA HandlerBase ==
    ASSUME Base, UNCHANGED <<store, tick, news, pending, asleep, push, recalled>>, Counts',
           missed' \subseteq Users, link' \in [Conns -> {"off", "registered", "open"}],
           cmd' = [c \in Conns |-> cmd'[c]], shown' \in [Conns -> Shown],
           \A c \in Conns :
             /\ IsCmd(Owner[c], cmd'[c])
             /\ cmd'[c].pc # "idle" => link'[c] # "off"
             /\ link'[c] = "registered" => cmd'[c].pc \in {"load", "greet"}
             /\ shown'[c].row = Gone \/ Owner[c] \in shown'[c].row.roster
    PROVE  Base'
<1>1. Shapes'
  BY DEF Base, Shapes, store, Shown
<1>2. \A p \in Pushes : IsPush(push[p])'
  BY DEF Base, IsPush, IsReading
<1>3. \A c \in Conns : (IsCmd(Owner[c], cmd[c]) /\ Linked(c))'
  BY DEF IsCmd, IsReading, Linked
<1> QED BY <1>1, <1>2, <1>3 DEF Base

\* One handler moves on.
LEMMA OneHandlerBase ==
    ASSUME Base, UNCHANGED <<store, tick, news, pending, asleep, push, recalled>>, Counts',
           missed' \subseteq Users, NEW c \in Conns, NEW x, IsCmd(Owner[c], x),
           cmd' = [cmd EXCEPT ![c] = x],
           NEW y \in {"off", "registered", "open"}, link' = [link EXCEPT ![c] = y],
           x.pc # "idle" => y # "off", y = "registered" => x.pc \in {"load", "greet"},
           shown' \in [Conns -> Shown],
           \A d \in Conns : shown'[d].row = Gone \/ Owner[d] \in shown'[d].row.roster
    PROVE  Base'
<1>1. /\ cmd'[c] = x /\ \A d \in Conns \ {c} : cmd'[d] = cmd[d]
      /\ cmd' = [d \in Conns |-> cmd'[d]]
  BY DEF Base, Shapes
<1>2. /\ link'[c] = y /\ \A d \in Conns \ {c} : link'[d] = link[d]
      /\ link' \in [Conns -> {"off", "registered", "open"}]
  BY DEF Base, Shapes
<1>3. ASSUME NEW d \in Conns
      PROVE  /\ IsCmd(Owner[d], cmd'[d])
             /\ cmd'[d].pc # "idle" => link'[d] # "off"
             /\ link'[d] = "registered" => cmd'[d].pc \in {"load", "greet"}
  <2>1. CASE d = c
    BY <1>1, <1>2, <2>1
  <2>2. CASE d # c
    BY <1>1, <1>2, <2>2 DEF Base, Linked
  <2> QED BY <2>1, <2>2
<1> QED BY <1>1, <1>2, <1>3, HandlerBase

LEMMA OneHandlerCurrent ==
    ASSUME Base, NEW pub, NEW own, Current(pub, own), NEW c \in Conns,
           UNCHANGED <<store, tick, push, leaving, due, pending>>, missed \subseteq missed',
           \A d \in Conns \ {c} : cmd'[d] = cmd[d] /\ link'[d] = link[d] /\ shown'[d] = shown[d],
           cmd'[c].pc \in {"greet", "answer"} => TrueRow(pub, own, Owner[c], cmd'[c].new),
           link'[c] = "open" => link[c] = "open" /\ shown'[c] = shown[c],
           link'[c] # "off" /\ Owner[c] \notin missed' =>
              /\ Reached(c, pub[Owner[c]])' \/ Coming(Owner[c], pub[Owner[c]])
              /\ OwnShows(c, pub, own)'
    PROVE  Current(pub, own)'
<1>1. Summaries' = Summaries
  BY SameSummaries
<1>2. Dated(pub, own)'
  BY DEF Current, Dated, store
<1>3. RowsAreTrue(pub, own)'
  <2>1. \A d \in Conns : /\ cmd'[d].pc \in {"greet", "answer"} => TrueRow(pub, own, Owner[d], cmd'[d].new)
                         /\ link'[d] = "open" /\ ~shown'[d].late => TrueRow(pub, own, Owner[d], shown'[d])
    BY DEF Current, RowsAreTrue
  <2> QED BY <1>1, <2>1 DEF Current, RowsAreTrue, TrueRow
<1>4. \A u \in Users : Coming(u, pub[u]) => Coming(u, pub[u])'
  BY DEF Coming, store
<1>5. RowsCome(pub, own)'
  <2> SUFFICES ASSUME NEW d \in Conns, link'[d] # "off", Owner[d] \notin missed'
               PROVE  /\ Reached(d, pub[Owner[d]])' \/ Coming(Owner[d], pub[Owner[d]])'
                      /\ OwnShows(d, pub, own)'
    BY DEF RowsCome
  <2>0. Owner[d] \in Users
    BY InboxAssumption
  <2>1. CASE d = c
    BY <1>4, <2>0, <2>1
  <2>2. CASE d # c
    <3>1. /\ Reached(d, pub[Owner[d]]) \/ Coming(Owner[d], pub[Owner[d]])
          /\ OwnShows(d, pub, own)
      BY <2>2 DEF Current, RowsCome
    <3>2. OwnShows(d, pub, own)' /\ (Reached(d, pub[Owner[d]]) => Reached(d, pub[Owner[d]])')
      BY <2>2, <3>1 DEF OwnShows, Reached
    <3> QED BY <1>4, <2>0, <3>1, <3>2
  <2> QED BY <2>1, <2>2
<1> QED BY <1>2, <1>3, <1>5 DEF Current

\* A connection is there, waits for its greeting, or goes.
LEMMA RegisterGood ==
    ASSUME Base, NEW c \in Conns, Register(c)
    PROVE  Base' /\ \A pub, own : Current(pub, own) => Current(pub, own)'
<1> DEFINE x == [pc |-> "load"]
<1>1. /\ cmd' = [cmd EXCEPT ![c] = x] /\ link' = [link EXCEPT ![c] = "registered"] /\ link[c] = "off"
      /\ UNCHANGED <<store, tick, news, due, leaving, pending, asleep, push, shown, missed, recalled>>
  BY DEF Register
<1>2. x.pc = "load" /\ IsCmd(Owner[c], x)
  BY DEF IsCmd
<1> HIDE DEF x
<1>3. /\ cmd'[c] = x /\ link'[c] = "registered"
      /\ \A d \in Conns \ {c} : cmd'[d] = cmd[d] /\ link'[d] = link[d]
  BY <1>1 DEF Base, Shapes
<1>4. Counts'
  BY <1>1, <1>2, <1>3, FewerWriting
<1>5. /\ missed' \subseteq Users /\ shown' \in [Conns -> Shown]
      /\ \A d \in Conns : shown'[d].row = Gone \/ Owner[d] \in shown'[d].row.roster
  BY <1>1 DEF Base, Shapes, Shown, Linked
<1>6. Base'
  BY <1>1, <1>2, <1>4, <1>5, OneHandlerBase
<1>7. ASSUME NEW pub, NEW own, Current(pub, own) PROVE Current(pub, own)'
  <2>1. Reached(c, pub[Owner[c]])' /\ OwnShows(c, pub, own)'
    BY <1>2, <1>3 DEF Reached, OwnShows
  <2> QED BY <1>1, <1>2, <1>3, <1>7, <2>1, OneHandlerCurrent
<1> QED BY <1>6, <1>7

LEMMA LoadInboxGood ==
    ASSUME Base, NEW c \in Conns, LoadInbox(c)
    PROVE  Base' /\ \A pub, own : Current(pub, own) => Current(pub, own)'
<1> DEFINE x == [pc |-> "greet", new |-> Reading(Owner[c])]
<1>0. Owner[c] \in Users
  BY InboxAssumption
<1>1. /\ cmd' = [cmd EXCEPT ![c] = x] /\ cmd[c].pc = "load"
      /\ UNCHANGED <<store, tick, news, due, leaving, pending, asleep, push, link, shown, missed, recalled>>
  BY DEF LoadInbox
<1>2. x.pc = "greet" /\ x.new = Reading(Owner[c])
  OBVIOUS
<1> HIDE DEF x
<1>3. x.new.at = tick /\ x.new.row = Summaries[Owner[c]] /\ IsReading(Owner[c], x.new)
  BY <1>0, <1>2, ReadingIs DEF Base
<1>4. IsCmd(Owner[c], x)
  BY <1>2, <1>3 DEF IsCmd
<1>5. cmd'[c] = x /\ \A d \in Conns \ {c} : cmd'[d] = cmd[d]
  BY <1>1 DEF Base, Shapes
<1>6. Counts'
  BY <1>1, <1>2, <1>5, FewerWriting
<1>7. /\ missed' \subseteq Users /\ shown' \in [Conns -> Shown]
      /\ \A d \in Conns : shown'[d].row = Gone \/ Owner[d] \in shown'[d].row.roster
      /\ link' = [link EXCEPT ![c] = link[c]] /\ link[c] \in {"off", "registered", "open"} /\ link[c] # "off"
  BY <1>1 DEF Base, Shapes, Shown, Linked
<1>8. Base'
  BY <1>1, <1>2, <1>4, <1>6, <1>7, OneHandlerBase
<1>9. ASSUME NEW pub, NEW own, Current(pub, own) PROVE Current(pub, own)'
  <2>1. tick >= pub[Owner[c]] /\ tick >= own[Owner[c]]
    BY <1>0, <1>9 DEF Current, Dated, Base, Shapes
  <2>2. Reached(c, pub[Owner[c]])' /\ OwnShows(c, pub, own)'
    BY <1>2, <1>3, <1>5, <2>1 DEF Reached, OwnShows
  <2>3. TrueRow(pub, own, Owner[c], x.new)
    BY <1>3 DEF TrueRow
  <2> QED BY <1>1, <1>5, <1>9, <2>2, <2>3, OneHandlerCurrent
<1> QED BY <1>8, <1>9

LEMMA DisconnectGood ==
    ASSUME Base, NEW c \in Conns, Disconnect(c)
    PROVE  Base' /\ \A pub, own : Current(pub, own) => Current(pub, own)'
<1>1. /\ cmd' = [cmd EXCEPT ![c] = Idle] /\ link' = [link EXCEPT ![c] = "off"]
      /\ shown' = [shown EXCEPT ![c] = Blank]
      /\ UNCHANGED <<store, tick, news, due, leaving, pending, asleep, push, missed, recalled>>
  BY DEF Disconnect
<1>2. Idle.pc = "idle" /\ IsCmd(Owner[c], Idle)
  BY DEF IsCmd, Idle
<1>3. /\ cmd'[c] = Idle /\ link'[c] = "off" /\ shown'[c] = Blank
      /\ \A d \in Conns \ {c} : cmd'[d] = cmd[d] /\ link'[d] = link[d] /\ shown'[d] = shown[d]
  BY <1>1 DEF Base, Shapes
<1>4. Counts'
  BY <1>1, <1>2, <1>3, FewerWriting
<1>5. Blank \in Shown /\ Blank.row = Gone
  BY DEF Blank, Shown, Row, Base, Shapes
<1>6. /\ missed' \subseteq Users /\ shown' \in [Conns -> Shown]
      /\ \A d \in Conns : shown'[d].row = Gone \/ Owner[d] \in shown'[d].row.roster
  BY <1>1, <1>3, <1>5 DEF Base, Shapes, Shown, Linked
<1>7. Base'
  BY <1>1, <1>2, <1>4, <1>6, OneHandlerBase
<1>8. ASSUME NEW pub, NEW own, Current(pub, own) PROVE Current(pub, own)'
  BY <1>1, <1>2, <1>3, <1>8, OneHandlerCurrent
<1> QED BY <1>7, <1>8

\* A command waits to be written: there is room for its write.
LEMMA AskGood ==
    ASSUME Base, NEW c \in Conns, NEW reads, NEW f \in SUBSET Flags, Ask(c, reads, f)
    PROVE  Base' /\ \A pub, own : Current(pub, own) => Current(pub, own)'
<1> DEFINE x == [pc |-> "write", reads |-> reads, flags |-> f]
<1>1. /\ cmd' = [cmd EXCEPT ![c] = x] /\ cmd[c].pc = "idle" /\ link[c] = "open" /\ Room
      /\ UNCHANGED <<store, tick, news, due, leaving, pending, asleep, push, link, shown, missed, recalled>>
  BY DEF Ask
<1>2. x.pc = "write" /\ IsCmd(Owner[c], x)
  BY DEF IsCmd
<1> HIDE DEF x
<1>3. cmd'[c] = x /\ \A d \in Conns \ {c} : cmd'[d] = cmd[d]
  BY <1>1 DEF Base, Shapes
<1>4. Counts'
  <2> DEFINE S == {d \in Conns : cmd[d].pc = "write"}
             T == {d \in Conns : cmd'[d].pc = "write"}
  <2>1. T = S \cup {c} /\ c \notin S /\ S \subseteq Conns
    BY <1>1, <1>2, <1>3
  <2>2. IsFiniteSet(S) /\ Cardinality(S) \in Nat
    BY <2>1, WritersAre
  <2>3. Cardinality(T) = Cardinality(S) + 1
    BY <2>1, <2>2, FS_AddElement
  <2>4. tick + Cardinality(S) < MaxTicks /\ tick \in Nat
    BY <1>1 DEF Room, Base, Shapes
  <2>5. tick' + Cardinality(T) \in 0..MaxTicks
    BY <1>1, <2>2, <2>3, <2>4, InboxAssumption
  <2> QED BY <1>1, <2>5 DEF Base, Counts
<1>5. /\ missed' \subseteq Users /\ shown' \in [Conns -> Shown]
      /\ \A d \in Conns : shown'[d].row = Gone \/ Owner[d] \in shown'[d].row.roster
      /\ link' = [link EXCEPT ![c] = "open"]
  BY <1>1 DEF Base, Shapes, Shown, Linked
<1>6. Base'
  BY <1>1, <1>2, <1>4, <1>5, OneHandlerBase
<1>7. ASSUME NEW pub, NEW own, Current(pub, own) PROVE Current(pub, own)'
  <2>1. Owner[c] \notin missed =>
          /\ Reached(c, pub[Owner[c]]) \/ Coming(Owner[c], pub[Owner[c]])
          /\ OwnShows(c, pub, own)
    BY <1>1, <1>7 DEF Current, RowsCome
  <2>2. Owner[c] \notin missed' =>
          /\ Reached(c, pub[Owner[c]])' \/ Coming(Owner[c], pub[Owner[c]])
          /\ OwnShows(c, pub, own)'
    BY <1>1, <2>1 DEF Reached, OwnShows
  <2> QED BY <1>1, <1>2, <1>3, <1>7, <2>2, OneHandlerCurrent
<1> QED BY <1>6, <1>7

\* The row is read for the answer, unless there is none or the read fails.
LEMMA ReadRowGood ==
    ASSUME Base, NEW c \in Conns, ReadRow(c)
    PROVE  Base' /\ \A pub, own : Current(pub, own) => Current(pub, own)'
<1> DEFINE y == [pc |-> "answer", new |-> Reading(Owner[c])]
<1>0. Owner[c] \in Users
  BY InboxAssumption
<1>1. /\ cmd[c].pc = "row"
      /\ UNCHANGED <<store, tick, news, due, leaving, pending, asleep, push, link, shown, recalled>>
      /\ \/ Owner[c] \in members /\ cmd' = [cmd EXCEPT ![c] = y] /\ missed' = missed
         \/ Owner[c] \notin members /\ cmd' = [cmd EXCEPT ![c] = Idle] /\ missed' = missed
         \/ missed = {} /\ missed' = {Owner[c]} /\ cmd' = [cmd EXCEPT ![c] = Idle]
  BY DEF ReadRow, MaySee
<1>2. y.pc = "answer" /\ y.new = Reading(Owner[c]) /\ Idle.pc = "idle"
  BY DEF Idle
<1> HIDE DEF y
<1>3. y.new.at = tick /\ y.new.row = Summaries[Owner[c]] /\ IsReading(Owner[c], y.new)
  BY <1>0, <1>2, ReadingIs DEF Base
<1>4. IsCmd(Owner[c], y) /\ IsCmd(Owner[c], Idle)
  BY <1>2, <1>3 DEF IsCmd
<1>5. PICK x : /\ cmd' = [cmd EXCEPT ![c] = x] /\ IsCmd(Owner[c], x)
               /\ \/ Owner[c] \in members /\ x = y /\ missed' = missed
                  \/ Owner[c] \notin members /\ x = Idle /\ missed' = missed
                  \/ missed = {} /\ missed' = {Owner[c]} /\ x = Idle
  BY <1>1, <1>4
<1>6. cmd'[c] = x /\ \A d \in Conns \ {c} : cmd'[d] = cmd[d]
  BY <1>5 DEF Base, Shapes
<1>7. x.pc \in {"answer", "idle"} /\ missed \subseteq missed' /\ missed' \subseteq Users
  BY <1>0, <1>2, <1>5 DEF Base, Shapes
<1>8. Counts'
  BY <1>1, <1>6, <1>7, FewerWriting
<1>9. /\ shown' \in [Conns -> Shown]
      /\ \A d \in Conns : shown'[d].row = Gone \/ Owner[d] \in shown'[d].row.roster
      /\ link' = [link EXCEPT ![c] = link[c]] /\ link[c] = "open"
  BY <1>1 DEF Base, Shapes, Shown, Linked
<1>10. Base'
  BY <1>1, <1>5, <1>7, <1>8, <1>9, OneHandlerBase
<1>11. ASSUME NEW pub, NEW own, Current(pub, own) PROVE Current(pub, own)'
  <2>1. tick >= own[Owner[c]] /\ (Owner[c] \in members \/ own[Owner[c]] < pub[Owner[c]])
    BY <1>0, <1>11 DEF Current, Dated, Base, Shapes
  <2>2. Owner[c] \notin missed => Reached(c, pub[Owner[c]]) \/ Coming(Owner[c], pub[Owner[c]])
    BY <1>9, <1>11 DEF Current, RowsCome
  <2>3. Reached(c, pub[Owner[c]]) => Reached(c, pub[Owner[c]])'
    BY <1>1 DEF Reached
  <2>4. Owner[c] \notin missed' => OwnShows(c, pub, own)'
    BY <1>2, <1>3, <1>5, <1>6, <2>1 DEF OwnShows
  <2>5. TrueRow(pub, own, Owner[c], y.new)
    BY <1>3 DEF TrueRow
  <2>6. cmd'[c].pc \in {"greet", "answer"} => TrueRow(pub, own, Owner[c], cmd'[c].new)
    BY <1>2, <1>5, <1>6, <2>5
  <2>7. Owner[c] \notin missed' => Owner[c] \notin missed
    BY <1>7
  <2> QED BY <1>1, <1>6, <1>7, <1>9, <1>11, <2>2, <2>3, <2>4, <2>6, <2>7, OneHandlerCurrent
<1> QED BY <1>10, <1>11

\* A handler sends what it has read to its connection: a greeting, or an answer.
LEMMA ReplyGood ==
    ASSUME Base, NEW c \in Conns, Welcome(c) \/ SendInboxRow(c)
    PROVE  Base' /\ \A pub, own : Current(pub, own) => Current(pub, own)'
<1> DEFINE new == cmd[c].new
<1>0. Owner[c] \in Users
  BY InboxAssumption
<1>1. /\ cmd[c].pc \in {"greet", "answer"} /\ SendTo({c}, new) /\ cmd' = [cmd EXCEPT ![c] = Idle]
      /\ link' = [link EXCEPT ![c] = "open"] /\ link[c] # "off"
      /\ UNCHANGED <<store, tick, news, due, leaving, pending, asleep, push, missed, recalled>>
  BY DEF Welcome, SendInboxRow, Base, Shapes, Linked
<1>2. Idle.pc = "idle" /\ IsCmd(Owner[c], Idle)
  BY DEF Idle, IsCmd
<1>3. IsReading(Owner[c], new) /\ new.at \in 0..tick /\ new.row \in Row
  BY <1>1 DEF Base, IsCmd, IsReading
<1>4. /\ shown' \in [Conns -> Shown]
      /\ \A d \in Conns : IF d \in {c} THEN Takes(shown[d], shown'[d], new) ELSE shown'[d] = shown[d]
  BY <1>1, <1>3, SendIs DEF Base
<1> HIDE DEF new
<1>5. /\ cmd'[c] = Idle /\ link'[c] = "open"
      /\ \A d \in Conns \ {c} : cmd'[d] = cmd[d] /\ link'[d] = link[d]
  BY <1>1 DEF Base, Shapes
<1>6. Counts'
  BY <1>1, <1>2, <1>5, FewerWriting
<1>7. /\ missed' \subseteq Users
      /\ \A d \in Conns : shown'[d].row = Gone \/ Owner[d] \in shown'[d].row.roster
  BY <1>1, <1>3, <1>4 DEF Base, Shapes, Linked, Takes, IsReading
<1>8. Base'
  BY <1>1, <1>2, <1>4, <1>6, <1>7, OneHandlerBase
<1>9. ASSUME NEW pub, NEW own, Current(pub, own) PROVE Current(pub, own)'
  <2>1. \A d \in Conns : d \in {c} => TrueRow(pub, own, Owner[d], new)
    BY <1>1, <1>9 DEF Current, RowsAreTrue, new
  <2>2. \A p \in Pushes : push'[p].pc = "send" => TrueRow(pub, own, push'[p].user, push'[p].new)
    BY <1>1, <1>9 DEF Current, RowsAreTrue
  <2>3. \A u \in Users : Coming(u, pub[u]) => Coming(u, pub[u])'
    BY <1>1 DEF Coming, store
  <2>4. \A d \in Conns : shown'[d].at \in Nat
    BY <1>4 DEF Shown
  <2>5. \A d \in Conns : \/ cmd'[d] = cmd[d]
                         \/ /\ cmd'[d].pc = "idle" /\ d \in {c}
                            /\ cmd[d].pc \in {"greet", "answer"} /\ cmd[d].new = new
    BY <1>1, <1>2, <1>5 DEF new
  <2> QED BY <1>1, <1>3, <1>4, <1>5, <1>9, <2>1, <2>2, <2>3, <2>4, <2>5, SendCurrent
<1> QED BY <1>8, <1>9

-----------------------------------------------------------------------------
(* Writes.                                                                 *)

\* What was read before a write is older than it.
LEMMA OlderIs ==
    ASSUME Base, tick' = tick + 1
    PROVE  /\ \A x : IsPush(x) => IsPush(x)'
           /\ \A u, x : IsCmd(u, x) => IsCmd(u, x)'
           /\ tick \in Nat /\ tick' \in Nat /\ \A n \in 0..tick : n \in 0..tick' /\ n < tick'
<1>1. tick \in Nat /\ tick' \in Nat /\ \A n \in 0..tick : n \in 0..tick' /\ n < tick'
  BY DEF Base, Shapes
<1>2. \A u, x : IsReading(u, x) => IsReading(u, x)'
  BY <1>1 DEF IsReading
<1>3. \A x : IsPush(x) => IsPush(x)'
  BY <1>2 DEF IsPush
<1>4. \A u, x : IsCmd(u, x) => IsCmd(u, x)'
  BY <1>2 DEF IsCmd
<1> QED BY <1>1, <1>3, <1>4

\* The user's own write changes the user's row, if they have one, and no other.
LEMMA OwnSummaries ==
    ASSUME Base, NEW c \in Conns, WriteOwn(c)
    PROVE  /\ \A v \in Users : v # Owner[c] \/ Owner[c] \notin members => Summaries'[v] = Summaries[v]
           /\ marks' \in [Users -> [Msgs -> Nat]] /\ flags' \in [Users -> SUBSET Flags]
           /\ \A v \in Users, m \in Msgs : marks'[v][m] \in 0..rev[m]
<1> DEFINE u == Owner[c]
<1>0. u \in Users
  BY InboxAssumption
<1>1. /\ \/ marks' = [marks EXCEPT ![u] = IF u \in members THEN rev ELSE marks[u]] /\ flags' = flags
         \/ flags' = [flags EXCEPT ![u] = cmd[c].flags] /\ marks' = marks
      /\ cmd[c].pc = "write" /\ members' = members /\ rev' = rev /\ deleted' = deleted
  BY <1>0 DEF WriteOwn, MarkWaveRead, SetFlags, CurrentRevision, Base, Shapes
<1>2. cmd[c].flags \subseteq Flags
  BY <1>1 DEF Base, IsCmd
<1>3. rev \in [Msgs -> Nat] /\ \A m \in Msgs : rev[m] \in 0..rev[m]
  BY DEF Base, Shapes
<1>4. marks' \in [Users -> [Msgs -> Nat]]
  BY <1>0, <1>1, <1>3 DEF Base, Shapes
<1>5. flags' \in [Users -> SUBSET Flags]
  BY <1>0, <1>1, <1>2 DEF Base, Shapes
<1>6. \A v \in Users \ {u} : marks'[v] = marks[v] /\ flags'[v] = flags[v]
  BY <1>1 DEF Base, Shapes
<1>7. marks'[u] = marks[u] \/ marks'[u] = rev
  BY <1>0, <1>1 DEF Base, Shapes
<1>8. ASSUME NEW v \in Users, NEW m \in Msgs PROVE marks'[v][m] \in 0..rev[m]
  <2>1. CASE v # u
    BY <1>6, <2>1 DEF Base, Shapes
  <2>2. CASE v = u
    BY <1>3, <1>7, <2>2 DEF Base, Shapes
  <2> QED BY <2>1, <2>2
<1>9. ASSUME NEW v \in Users, v # u \/ u \notin members PROVE Summaries'[v] = Summaries[v]
  <2>1. Summaries[v] = Summary(v) /\ Summaries'[v] = Summary(v)'
    BY DEF Summaries
  <2>2. CASE v \notin members
    BY <1>1, <2>1, <2>2 DEF Summary, MaySee
  <2>3. CASE v \in members
    <3>1. Live' = Live
      BY <1>1 DEF Live
    <3>2. Unread(v)' = Unread(v)
      BY <1>1, <1>6, <1>9, <2>3, <3>1 DEF Unread
    <3>3. flags'[v] = flags[v]
      BY <1>6, <1>9, <2>3
    <3> QED BY <1>1, <2>1, <3>1, <3>2, <3>3 DEF Summary, MaySee
  <2> QED BY <2>2, <2>3
<1> QED BY <1>4, <1>5, <1>8, <1>9

LEMMA WriteOwnBase ==
    ASSUME Base, NEW c \in Conns, WriteOwn(c)
    PROVE  Base'
<1> DEFINE x == [pc |-> "row"]
<1>1. /\ cmd[c].pc = "write" /\ tick' = tick + 1 /\ cmd' = [cmd EXCEPT ![c] = x]
      /\ shown' = [d \in Conns |-> IF d # c /\ Owner[d] = Owner[c]
                                   THEN [shown[d] EXCEPT !.other = tick + 1] ELSE shown[d]]
      /\ UNCHANGED <<members, rev, deleted, news, due, leaving, pending, asleep, push, link, missed>>
  BY DEF WriteOwn
<1>2. x.pc = "row" /\ IsCmd(Owner[c], x)'
  BY DEF IsCmd
<1> HIDE DEF x
<1>3. cmd'[c] = x /\ (\A d \in Conns \ {c} : cmd'[d] = cmd[d]) /\ cmd' = [d \in Conns |-> cmd'[d]]
  BY <1>1 DEF Base, Shapes
<1>4. Counts'
  <2> DEFINE S == {d \in Conns : cmd[d].pc = "write"}
             T == {d \in Conns : cmd'[d].pc = "write"}
  <2>1. T = S \ {c} /\ c \in S /\ S \subseteq Conns
    BY <1>1, <1>2, <1>3
  <2>2. IsFiniteSet(S) /\ Cardinality(S) \in Nat /\ Cardinality(T) \in Nat
    BY <2>1, WritersAre
  <2>3. Cardinality(T) = Cardinality(S) - 1
    BY <2>1, <2>2, FS_RemoveElement
  <2>4. tick + Cardinality(S) \in 0..MaxTicks /\ tick \in Nat
    BY DEF Base, Counts, Shapes
  <2>5. tick' + Cardinality(T) \in 0..MaxTicks
    BY <1>1, <2>2, <2>3, <2>4, InboxAssumption
  <2>6. due' \in 0..tick' /\ (leaving' # {} => due' < tick')
    BY <1>1, <2>4 DEF Base, Counts
  <2>7. leaving' = {} \/ \E u \in Users, n \in 1..tick' : leaving' = {[user |-> u, at |-> n]}
    <3>1. \A n \in 1..tick : n \in 1..tick'
      BY <1>1, <2>4
    <3> QED BY <1>1, <3>1 DEF Base, Counts
  <2> QED BY <2>5, <2>6, <2>7 DEF Counts
<1>5. ASSUME NEW d \in Conns
      PROVE  /\ shown'[d] \in [row : Row, at : 0..tick', late : BOOLEAN, other : 0..tick']
             /\ shown'[d].row = shown[d].row
  <2>1. shown[d] \in [row : Row, at : 0..tick, late : BOOLEAN, other : 0..tick] /\ tick \in Nat
    BY DEF Base, Shapes
  <2>2. shown'[d] = shown[d] \/ shown'[d] = [shown[d] EXCEPT !.other = tick + 1]
    BY <1>1
  <2> QED BY <1>1, <2>1, <2>2
<1>6. shown' \in [Conns -> [row : Row, at : 0..tick', late : BOOLEAN, other : 0..tick']]
  BY <1>1, <1>5
<1>7. recalled' \subseteq Users
  BY DEF WriteOwn, MarkWaveRead, SetFlags, Base, Shapes
<1>8. rev' \in [Msgs -> 0..tick'] /\ news' \in 0..tick' /\ tick' \in Nat
  BY <1>1, OlderIs DEF Base, Shapes
<1>9. Shapes'
  BY <1>1, <1>3, <1>6, <1>7, <1>8, OwnSummaries DEF Base, Shapes
<1>10. \A p \in Pushes : IsPush(push[p])'
  BY <1>1, OlderIs DEF Base
<1>11. ASSUME NEW d \in Conns PROVE (IsCmd(Owner[d], cmd[d]) /\ Linked(d))'
  <2>1. CASE d = c
    BY <1>1, <1>2, <1>3, <1>5, <2>1 DEF Base, Linked
  <2>2. CASE d # c
    BY <1>1, <1>3, <1>5, <2>2, OlderIs DEF Base, Linked
  <2> QED BY <2>1, <2>2
<1> QED BY <1>4, <1>9, <1>10, <1>11 DEF Base

\* The rows of the users that a write does not date stay as they are.
Dates(pub, own, Q, O) ==
    \A u \in Users : \/ Q[u] = tick + 1 \/ O[u] = tick + 1
                     \/ Q[u] = pub[u] /\ O[u] = own[u] /\ Summaries'[u] = Summaries[u]

\* What the browsers list does not change with a write.
SameRows ==
    \A c \in Conns : /\ link'[c] = link[c] /\ shown'[c].row = shown[c].row
                     /\ shown'[c].at = shown[c].at /\ shown'[c].late = shown[c].late

\* At most the user that a write removes is to be told.
Removes ==
    \/ leaving' \subseteq leaving
    \/ leaving = {} /\ \E u \in Users : u \notin members' /\ leaving' = {[user |-> u, at |-> tick + 1]}

\* After a write, rows are true that were true before it and that it does not
\* change, or that are older than it.
LEMMA WriteRows ==
    ASSUME Base, NEW pub, NEW own, Current(pub, own), NEW Q, NEW O, tick' = tick + 1,
           push' = push, Removes, SameRows, Dates(pub, own, Q, O),
           \A c \in Conns : cmd'[c].pc \in {"greet", "answer"} => cmd'[c] = cmd[c],
           \A u \in Users : u \notin members' => Summaries'[u] = Gone
    PROVE  RowsAreTrue(Q, O)'
<1>0. tick \in Nat
  BY DEF Base, Shapes
<1>1. ASSUME NEW u \in Users, NEW x, x.at \in 0..tick, TrueRow(pub, own, u, x),
             x.at >= Q[u], x.at >= O[u]
      PROVE  x.row = Summaries'[u]
  BY <1>0, <1>1 DEF TrueRow, Dates
<1>2. ASSUME NEW p \in Pushes, push[p].pc = "send",
             push[p].new.at >= Q[push[p].user], push[p].new.at >= O[push[p].user]
      PROVE  push[p].new.row = Summaries'[push[p].user]
  <2>1. push[p].user \in Users /\ push[p].new.at \in 0..tick
    BY <1>2 DEF Base, IsPush, IsReading
  <2>2. TrueRow(pub, own, push[p].user, push[p].new)
    BY <1>2 DEF Current, RowsAreTrue
  <2> QED BY <1>1, <1>2, <2>1, <2>2
<1>3. ASSUME NEW c \in Conns, cmd'[c].pc \in {"greet", "answer"},
             cmd'[c].new.at >= Q[Owner[c]], cmd'[c].new.at >= O[Owner[c]]
      PROVE  cmd'[c].new.row = Summaries'[Owner[c]]
  <2>1. Owner[c] \in Users /\ cmd'[c] = cmd[c] /\ cmd[c].new.at \in 0..tick
    BY <1>3, InboxAssumption DEF Base, IsCmd, IsReading
  <2>2. TrueRow(pub, own, Owner[c], cmd[c].new)
    BY <1>3, <2>1 DEF Current, RowsAreTrue
  <2> QED BY <1>1, <1>3, <2>1, <2>2
<1>4. ASSUME NEW c \in Conns, link'[c] = "open", ~shown'[c].late,
             shown'[c].at >= Q[Owner[c]], shown'[c].at >= O[Owner[c]]
      PROVE  shown'[c].row = Summaries'[Owner[c]]
  <2>1. Owner[c] \in Users /\ shown[c].at \in 0..tick
    BY InboxAssumption DEF Base, Shapes
  <2>2. TrueRow(pub, own, Owner[c], shown[c])
    BY <1>4 DEF Current, RowsAreTrue, SameRows
  <2> QED BY <1>1, <1>4, <2>1, <2>2 DEF SameRows
<1>5. ASSUME NEW x \in leaving', x.at >= Q[x.user], x.at >= O[x.user]
      PROVE  Summaries'[x.user] = Gone
  <2>1. CASE x \in leaving
    <3>1. x.user \in Users /\ x.at \in 0..tick
      BY <2>1 DEF Base, Counts
    <3>2. x.at >= pub[x.user] /\ x.at >= own[x.user] => Summaries[x.user] = Gone
      BY <2>1 DEF Current, RowsAreTrue
    <3> QED BY <1>0, <1>5, <3>1, <3>2 DEF Dates
  <2>2. CASE x \notin leaving
    BY <1>5, <2>2 DEF Removes
  <2> QED BY <2>1, <2>2
<1> QED BY <1>2, <1>3, <1>4, <1>5 DEF RowsAreTrue, TrueRow

LEMMA WriteOwnCurrent ==
    ASSUME Base, NEW pub, NEW own, Current(pub, own), NEW c \in Conns, WriteOwn(c), NEW O,
           O = IF Owner[c] \in members THEN [own EXCEPT ![Owner[c]] = tick + 1] ELSE own
    PROVE  Current(pub, O)'
<1> DEFINE u == Owner[c]
<1>0. u \in Users /\ pub \in [Users -> 0..tick] /\ own \in [Users -> 0..tick]
  BY InboxAssumption DEF Current, Dated
<1>1. /\ cmd[c].pc = "write" /\ tick' = tick + 1 /\ cmd' = [cmd EXCEPT ![c] = [pc |-> "row"]]
      /\ shown' = [d \in Conns |-> IF d # c /\ Owner[d] = Owner[c]
                                   THEN [shown[d] EXCEPT !.other = tick + 1] ELSE shown[d]]
      /\ UNCHANGED <<members, rev, deleted, news, due, leaving, pending, asleep, push, link, missed>>
  BY DEF WriteOwn
<1>2. cmd'[c].pc = "row" /\ \A d \in Conns \ {c} : cmd'[d] = cmd[d]
  BY <1>1 DEF Base, Shapes
<1>3. \A d \in Conns : /\ shown'[d].row = shown[d].row /\ shown'[d].at = shown[d].at
                       /\ shown'[d].late = shown[d].late
                       /\ d # c /\ Owner[d] = u => shown'[d].other = tick + 1
                       /\ d = c \/ Owner[d] # u => shown'[d] = shown[d]
  BY <1>1 DEF Base, Shapes
<1>4. /\ \A v \in Users \ {u} : O[v] = own[v]
      /\ u \in members => O[u] = tick + 1
      /\ u \notin members => O[u] = own[u]
      /\ tick \in Nat
  BY <1>0 DEF Base, Shapes
<1>5. Dated(pub, O)'
  <2>1. pub \in [Users -> 0..tick'] /\ O \in [Users -> 0..tick']
    BY <1>0, <1>1, <1>4
  <2>2. \A v \in Users : v \in members \/ O[v] < pub[v]
    BY <1>4 DEF Current, Dated
  <2> QED BY <1>1, <2>1, <2>2 DEF Dated
<1>6. RowsAreTrue(pub, O)'
  <2>1. \A v \in Users : v # u \/ u \notin members => Summaries'[v] = Summaries[v]
    BY OwnSummaries
  <2>2. \A v \in Users : v \notin members => Summaries[v] = Gone
    BY SummaryIs DEF Base
  <2>3. \A v \in Users : v \notin members' => Summaries'[v] = Gone
    BY <1>1, <2>1, <2>2
  <2>4. Dates(pub, own, pub, O)
    BY <1>4, <2>1 DEF Dates
  <2>5. \A d \in Conns : cmd'[d].pc \in {"greet", "answer"} => cmd'[d] = cmd[d]
    BY <1>2
  <2>6. SameRows
    BY <1>1, <1>3 DEF SameRows
  <2>7. Removes /\ push' = push /\ tick' = tick + 1
    BY <1>1 DEF Removes
  <2> QED BY <2>3, <2>4, <2>5, <2>6, <2>7, WriteRows
<1>7. RowsCome(pub, O)'
  <2> SUFFICES ASSUME NEW d \in Conns, link[d] # "off", Owner[d] \notin missed
               PROVE  /\ Reached(d, pub[Owner[d]])' \/ Coming(Owner[d], pub[Owner[d]])'
                      /\ OwnShows(d, pub, O)'
    BY <1>1 DEF RowsCome
  <2>1. /\ Reached(d, pub[Owner[d]]) \/ Coming(Owner[d], pub[Owner[d]])
        /\ OwnShows(d, pub, own) /\ Owner[d] \in Users
    BY InboxAssumption DEF Current, RowsCome
  <2>2. Coming(Owner[d], pub[Owner[d]]) => Coming(Owner[d], pub[Owner[d]])'
    BY <1>1 DEF Coming
  <2>3. Reached(d, pub[Owner[d]]) => Reached(d, pub[Owner[d]])'
    BY <1>1, <1>2, <1>3 DEF Reached
  <2>4. OwnShows(d, pub, O)'
    <3>1. CASE d = c
      BY <1>2, <3>1 DEF OwnShows
    <3>2. CASE d # c /\ Owner[d] # u
      BY <1>2, <1>3, <1>4, <2>1, <3>2 DEF OwnShows, Reached
    <3>3. CASE d # c /\ Owner[d] = u
      <4>1. O[u] \in 0..(tick + 1)
        BY <1>0, <1>4
      <4>2. shown'[d].other >= O[u]
        BY <1>3, <1>4, <3>3, <4>1
      <4> QED BY <3>3, <4>2 DEF OwnShows
    <3> QED BY <3>1, <3>2, <3>3
  <2> QED BY <2>1, <2>2, <2>3, <2>4
<1> QED BY <1>5, <1>6, <1>7 DEF Current

\* A write that everyone in the wave is told of, by a push or by the handler that
\* removes a participant.
Tells ==
    \/ members \subseteq members' /\ due' = due + 1 /\ leaving' = leaving
    \/ /\ leaving = {} /\ due' = due
       /\ \E u \in Users : members' = members \ {u} /\ leaving' = {[user |-> u, at |-> tick + 1]}

PublicWrite ==
    /\ Changed /\ Tells
    /\ members' \subseteq Users /\ members' # {}
    /\ rev' \in [Msgs -> 0..tick'] /\ \A m \in Msgs : rev[m] <= rev'[m]
    /\ deleted' \subseteq Msgs /\ recalled' \subseteq Users
    /\ UNCHANGED <<marks, flags, pending, asleep, push, link, cmd, shown, missed>>

LEMMA SameRevisions ==
    ASSUME Base, Changed, rev' = rev
    PROVE  rev' \in [Msgs -> 0..tick'] /\ \A m \in Msgs : rev[m] <= rev'[m]
BY DEF Base, Shapes, Changed

LEMMA SayIs ==
    ASSUME Base, NEW m \in Msgs, Say(m)
    PROVE  PublicWrite
<1>1. tick \in Nat /\ rev \in [Msgs -> 0..tick] /\ tick' = tick + 1 /\ rev' = [rev EXCEPT ![m] = rev[m] + 1]
  BY DEF Base, Shapes, Say, Changed
<1>2. rev' \in [Msgs -> 0..tick'] /\ \A n \in Msgs : rev[n] <= rev'[n]
  BY <1>1
<1>3. Tells
  BY DEF Say, Tells
<1>4. recalled' \subseteq Users /\ deleted' \subseteq Msgs /\ members' \subseteq Users /\ members' # {}
  BY DEF Say, Base, Shapes
<1> QED BY <1>2, <1>3, <1>4 DEF Say, PublicWrite

LEMMA DeleteBlipIs ==
    ASSUME Base, NEW m \in Msgs, DeleteBlip(m)
    PROVE  PublicWrite
<1>1. Tells
  BY DEF DeleteBlip, Tells
<1>2. recalled' \subseteq Users /\ deleted' \subseteq Msgs /\ members' \subseteq Users /\ members' # {}
  BY DEF DeleteBlip, Base, Shapes
<1>3. Changed /\ rev' = rev
  BY DEF DeleteBlip
<1> QED BY <1>1, <1>2, <1>3, SameRevisions DEF DeleteBlip, PublicWrite

LEMMA AddParticipantIs ==
    ASSUME Base, NEW u \in Users, AddParticipant(u)
    PROVE  PublicWrite
<1>1. Tells
  BY DEF AddParticipant, Tells
<1>2. recalled' \subseteq Users /\ deleted' \subseteq Msgs /\ members' \subseteq Users /\ members' # {}
  BY DEF AddParticipant, Base, Shapes
<1>3. Changed /\ rev' = rev
  BY DEF AddParticipant
<1> QED BY <1>1, <1>2, <1>3, SameRevisions DEF AddParticipant, PublicWrite

LEMMA RemoveParticipantIs ==
    ASSUME Base, NEW u \in Users, RemoveParticipant(u)
    PROVE  PublicWrite
<1>1. Tells
  BY DEF RemoveParticipant, Tells
<1>2. recalled' \subseteq Users /\ deleted' \subseteq Msgs /\ members' \subseteq Users /\ members' # {}
  BY DEF RemoveParticipant, Base, Shapes
<1>3. Changed /\ rev' = rev
  BY DEF RemoveParticipant
<1> QED BY <1>1, <1>2, <1>3, SameRevisions DEF RemoveParticipant, PublicWrite

LEMMA PublicBase ==
    ASSUME Base, PublicWrite
    PROVE  Base'
<1>1. tick' = tick + 1 /\ news' = tick + 1 /\ tick \in Nat
  BY DEF PublicWrite, Changed, Base, Shapes
<1>2. Counts'
  <2> DEFINE S == {c \in Conns : cmd[c].pc = "write"}
  <2>1. Cardinality(S) \in Nat
    BY WritersAre
  <2>2. tick + Cardinality(S) < MaxTicks
    BY DEF PublicWrite, Changed, Room
  <2>3. cmd' = cmd
    BY DEF PublicWrite
  <2> DEFINE T == {c \in Conns : cmd'[c].pc = "write"}
  <2>4. T = S
    BY <2>3
  <2> HIDE DEF S, T
  <2>5. tick' + Cardinality(T) \in 0..MaxTicks
    BY <1>1, <2>1, <2>2, <2>4, InboxAssumption
  <2>6. due' \in 0..tick' /\ (leaving' # {} => due' < tick')
    BY <1>1 DEF PublicWrite, Tells, Base, Counts
  <2>7. leaving' = {} \/ \E u \in Users, n \in 1..tick' : leaving' = {[user |-> u, at |-> n]}
    <3>1. (\A n \in 1..tick : n \in 1..tick') /\ tick + 1 \in 1..tick'
      BY <1>1
    <3> QED BY <3>1 DEF PublicWrite, Tells, Base, Counts
  <2> QED BY <2>5, <2>6, <2>7 DEF Counts, T
<1>3. \A u \in Users, m \in Msgs : marks'[u][m] \in 0..rev'[m]
  <2>1. ASSUME NEW u \in Users, NEW m \in Msgs PROVE marks'[u][m] \in 0..rev'[m]
    <3>1. marks[u][m] \in 0..rev[m] /\ rev[m] \in Nat /\ rev'[m] \in Nat /\ rev[m] <= rev'[m]
      BY <1>1 DEF Base, Shapes, PublicWrite
    <3>2. marks'[u][m] = marks[u][m]
      BY DEF PublicWrite
    <3> QED BY <3>1, <3>2
  <2> QED BY <2>1
<1>4. shown' \in [Conns -> [row : Row, at : 0..tick', late : BOOLEAN, other : 0..tick']]
  <2>1. \A n \in 0..tick : n \in 0..tick'
    BY <1>1
  <2>2. shown \in [Conns -> [row : Row, at : 0..tick, late : BOOLEAN, other : 0..tick]] /\ shown' = shown
    BY DEF Base, Shapes, PublicWrite
  <2> QED BY <2>1, <2>2
<1>5. news' \in 0..tick' /\ tick' \in Nat
  BY <1>1
<1>6. Shapes'
  BY <1>3, <1>4, <1>5 DEF Base, Shapes, PublicWrite
<1>7. \A p \in Pushes : IsPush(push[p])'
  BY <1>1, OlderIs DEF Base, PublicWrite
<1>8. \A d \in Conns : (IsCmd(Owner[d], cmd[d]) /\ Linked(d))'
  BY <1>1, OlderIs DEF Base, PublicWrite, Linked
<1> QED BY <1>2, <1>6, <1>7, <1>8 DEF Base

\* Such a write dates the rows of those who are in the wave before or after it.
LEMMA PublicCurrent ==
    ASSUME Base, NEW pub, NEW own, Current(pub, own), PublicWrite, NEW Q,
           Q = [u \in Users |-> IF u \in members \cup members' THEN tick + 1 ELSE pub[u]]
    PROVE  Current(Q, own)'
<1>1. /\ tick' = tick + 1 /\ tick \in Nat /\ pub \in [Users -> 0..tick] /\ own \in [Users -> 0..tick]
      /\ UNCHANGED <<pending, push, link, cmd, shown, missed>>
  BY DEF PublicWrite, Changed, Base, Shapes, Current, Dated
<1>2. \A u \in Users : /\ u \in members \/ u \in members' => Q[u] = tick + 1
                       /\ u \notin members /\ u \notin members' => Q[u] = pub[u]
                       /\ pub[u] \in 0..tick /\ own[u] \in 0..tick
  BY <1>1
<1>3. \A u \in Users : u \notin members => Summaries[u] = Gone
  BY SummaryIs DEF Base
<1>4. \A u \in Users : u \notin members' => Summaries'[u] = Gone
  BY DEF Summaries, Summary, MaySee
<1>5. Dated(Q, own)'
  <2>1. Q \in [Users -> 0..tick'] /\ own \in [Users -> 0..tick']
    BY <1>1
  <2>2. \A u \in Users : u \in members' \/ own[u] < Q[u]
    BY <1>1, <1>2 DEF Current, Dated
  <2> QED BY <2>1, <2>2 DEF Dated
<1>6. RowsAreTrue(Q, own)'
  <2>1. Dates(pub, own, Q, own)
    BY <1>2, <1>3, <1>4 DEF Dates
  <2>2. SameRows
    BY <1>1 DEF SameRows
  <2>3. Removes
    BY DEF Removes, PublicWrite, Tells
  <2>4. \A c \in Conns : cmd'[c].pc \in {"greet", "answer"} => cmd'[c] = cmd[c]
    BY <1>1
  <2>5. push' = push /\ tick' = tick + 1
    BY <1>1
  <2> QED BY <1>4, <2>1, <2>2, <2>3, <2>4, <2>5, WriteRows
<1>7. RowsCome(Q, own)'
  <2> SUFFICES ASSUME NEW d \in Conns, link[d] # "off", Owner[d] \notin missed
               PROVE  /\ Reached(d, Q[Owner[d]])' \/ Coming(Owner[d], Q[Owner[d]])'
                      /\ OwnShows(d, Q, own)'
    BY <1>1 DEF RowsCome
  <2> DEFINE u == Owner[d]
  <2>1. u \in Users /\ (Reached(d, pub[u]) \/ Coming(u, pub[u])) /\ OwnShows(d, pub, own)
    BY InboxAssumption DEF Current, RowsCome
  <2>2. Reached(d, Q[u])' \/ Coming(u, Q[u])'
    <3>1. CASE u \in members'
      <4>1. due \in Nat
        BY <1>1 DEF Base, Counts
      <4>2. due' = due + 1 \/ leaving' # {}
        BY DEF PublicWrite, Tells
      <4>3. due' > 0 \/ leaving' # {}
        BY <4>1, <4>2
      <4> QED BY <3>1, <4>3 DEF Coming
    <3>2. CASE u \in members /\ u \notin members'
      <4>1. leaving' = {[user |-> u, at |-> tick + 1]}
        BY <3>2 DEF PublicWrite, Tells
      <4>2. Q[u] = tick + 1 /\ tick + 1 >= Q[u]
        BY <1>1, <1>2, <2>1, <3>2
      <4> QED BY <4>1, <4>2 DEF Coming
    <3>3. CASE u \notin members /\ u \notin members'
      <4>1. Q[u] = pub[u]
        BY <1>2, <2>1, <3>3
      <4>2. Reached(d, pub[u]) => Reached(d, pub[u])'
        BY <1>1 DEF Reached
      <4>3. leaving' = leaving \/ leaving = {}
        BY DEF PublicWrite, Tells
      <4>4. Coming(u, pub[u]) => Coming(u, pub[u])'
        BY <1>1, <3>3, <4>3 DEF Coming
      <4> QED BY <2>1, <4>1, <4>2, <4>4
    <3> QED BY <3>1, <3>2, <3>3
  <2>3. OwnShows(d, Q, own)'
    <3>1. own[u] < pub[u] => own[u] < Q[u]
      BY <1>1, <1>2, <2>1
    <3> QED BY <1>1, <2>1, <3>1 DEF OwnShows, Reached
  <2> QED BY <2>2, <2>3
<1> QED BY <1>5, <1>6, <1>7 DEF Current

-----------------------------------------------------------------------------
(* The theorem.                                                            *)

LEMMA InitHolds ==
    ASSUME Init
    PROVE  IInv
<1> DEFINE zero == [u \in Users |-> 0]
           S == {c \in Conns : cmd[c].pc = "write"}
<1>1. /\ \A p \in Pushes : push[p].pc = "idle"
      /\ \A c \in Conns : /\ link[c] = "off" /\ cmd[c].pc = "idle"
                          /\ shown[c] = Blank
  BY DEF Init, Idle
<1>2. Blank \in [row : Row, at : 0..0, late : BOOLEAN, other : 0..0] /\ Blank.row = Gone
  BY DEF Blank, Row
<1>3. Shapes
  <2>1. tick = 0 /\ 0 \in 0..0 /\ 0 \in Nat
    BY DEF Init
  <2>2. /\ rev \in [Msgs -> 0..tick] /\ marks \in [Users -> [Msgs -> Nat]]
        /\ \A u \in Users, m \in Msgs : marks[u][m] \in 0..rev[m]
    BY <2>1 DEF Init
  <2>3. shown \in [Conns -> [row : Row, at : 0..tick, late : BOOLEAN, other : 0..tick]]
    BY <1>2, <2>1 DEF Init
  <2>4. /\ members \subseteq Users /\ members # {} /\ deleted \subseteq Msgs
        /\ flags \in [Users -> SUBSET Flags] /\ missed \subseteq Users /\ recalled \subseteq Users
    BY InboxAssumption DEF Init
  <2>5. /\ link \in [Conns -> {"off", "registered", "open"}]
        /\ push = [p \in Pushes |-> push[p]] /\ cmd = [c \in Conns |-> cmd[c]]
    BY DEF Init
  <2>6. pending \in BOOLEAN /\ asleep = pending
    BY DEF Init
  <2>7. tick \in Nat /\ news \in 0..tick
    BY <2>1 DEF Init
  <2> QED BY <2>2, <2>3, <2>4, <2>5, <2>6, <2>7 DEF Shapes
<1>4. Counts
  <2>1. S = {} /\ tick = 0 /\ due = 0 /\ leaving = {}
    BY <1>1 DEF Init
  <2>2. Cardinality(S) = 0
    BY <2>1, FS_EmptySet
  <2> HIDE DEF S
  <2>3. tick + Cardinality(S) \in 0..MaxTicks
    BY <2>1, <2>2, InboxAssumption
  <2> QED BY <2>1, <2>3 DEF Counts, S
<1>5. Base
  BY <1>1, <1>2, <1>3, <1>4 DEF Base, IsPush, IsCmd, Linked
<1>6. zero \in [Users -> 0..tick]
  BY DEF Init
<1>7. Dated(zero, zero)
  BY <1>6 DEF Dated, Init
<1>8. RowsAreTrue(zero, zero)
  BY <1>1 DEF RowsAreTrue, Init
<1>9. RowsCome(zero, zero)
  BY <1>1 DEF RowsCome
<1> QED BY <1>5, <1>6, <1>7, <1>8, <1>9 DEF IInv, Current

\* A step that dates the rows anew, or leaves their dates as they are.
LEMMA Witnessed ==
    ASSUME Base', NEW Q, NEW O, Current(Q, O)'
    PROVE  IInv'
BY DEF IInv, Current, Dated

LEMMA SameAll ==
    ASSUME UNCHANGED vars, IInv
    PROVE  IInv'
<1>1. Base'
  BY DEF vars, store, IInv, Base, Shapes, Counts, IsPush, IsCmd, IsReading, Linked
<1>2. Summaries' = Summaries
  BY SameSummaries DEF vars
<1>3. PICK pub \in [Users -> 0..tick], own \in [Users -> 0..tick] : Current(pub, own)
  BY DEF IInv
<1>4. Dated(pub, own)'
  BY <1>3 DEF vars, store, Current, Dated
<1>5. RowsAreTrue(pub, own)'
  BY <1>2, <1>3 DEF vars, Current, RowsAreTrue, TrueRow
<1>6. RowsCome(pub, own)'
  BY <1>3 DEF vars, store, Current, RowsCome, Reached, Coming, OwnShows
<1> QED BY <1>1, <1>4, <1>5, <1>6, Witnessed DEF Current

LEMMA StepKeeps ==
    ASSUME IInv, [Next]_vars
    PROVE  IInv'
<1>0. Base
  BY DEF IInv
<1>1. PICK pub \in [Users -> 0..tick], own \in [Users -> 0..tick] : Current(pub, own)
  BY DEF IInv
<1>2. CASE PublicWrite
  <2>1. PICK Q : Q = [u \in Users |-> IF u \in members \cup members' THEN tick + 1 ELSE pub[u]]
    OBVIOUS
  <2>2. Current(Q, own)'
    BY <1>0, <1>1, <1>2, <2>1, PublicCurrent
  <2> QED BY <1>0, <1>2, <2>2, PublicBase, Witnessed
<1>3. CASE \E c \in Conns : WriteOwn(c)
  <2>1. PICK c \in Conns : WriteOwn(c)
    BY <1>3
  <2>2. PICK O : O = IF Owner[c] \in members THEN [own EXCEPT ![Owner[c]] = tick + 1] ELSE own
    OBVIOUS
  <2>3. Current(pub, O)'
    BY <1>0, <1>1, <2>1, <2>2, WriteOwnCurrent
  <2> QED BY <1>0, <2>1, <2>3, WriteOwnBase, Witnessed
<1>4. ASSUME Base', Current(pub, own)' PROVE IInv'
  BY <1>4, Witnessed
<1>5. ASSUME NEW m \in Msgs, Say(m) \/ DeleteBlip(m) PROVE IInv'
  BY <1>0, <1>2, <1>5, SayIs, DeleteBlipIs
<1>6. ASSUME NEW u \in Users, AddParticipant(u) \/ RemoveParticipant(u) PROVE IInv'
  BY <1>0, <1>2, <1>6, AddParticipantIs, RemoveParticipantIs
<1>7. CASE TellRemoved
  BY <1>0, <1>1, <1>4, <1>7, TellRemovedBase, TellRemovedCurrent
<1>8. CASE Schedule
  BY <1>0, <1>1, <1>4, <1>8, ScheduleBase, ScheduleCurrent
<1>9. ASSUME NEW p \in Pushes, PushStep(p) \/ PushFails(p) PROVE IInv'
  <2>1. CASE Wake(p)
    BY <1>0, <1>1, <1>4, <2>1, WakeBase, WakeCurrent
  <2>2. CASE List(p)
    BY <1>0, <1>1, <1>4, <2>2, ListBase, ListCurrent
  <2>3. CASE SendRow(p)
    BY <1>0, <1>1, <1>4, <2>3, SendRowBase, SendRowCurrent
  <2>4. ASSUME NEW u \in Users, Walk(p, u) PROVE IInv'
    BY <1>0, <1>1, <1>4, <2>4, WalkBase, WalkCurrent
  <2>5. CASE PushFails(p)
    BY <1>0, <1>1, <1>4, <2>5, PushFailsBase, PushFailsCurrent
  <2> QED BY <1>9, <2>1, <2>2, <2>3, <2>4, <2>5 DEF PushStep
<1>10. ASSUME NEW c \in Conns,
              \/ Register(c) \/ Disconnect(c) \/ ConnStep(c)
              \/ Ask(c, TRUE, {}) \/ \E f \in SUBSET Flags : Ask(c, FALSE, f)
       PROVE  IInv'
  <2>1. CASE Register(c)
    BY <1>0, <1>1, <1>4, <2>1, RegisterGood
  <2>2. CASE Disconnect(c)
    BY <1>0, <1>1, <1>4, <2>2, DisconnectGood
  <2>3. CASE LoadInbox(c)
    BY <1>0, <1>1, <1>4, <2>3, LoadInboxGood
  <2>4. CASE Welcome(c) \/ SendInboxRow(c)
    BY <1>0, <1>1, <1>4, <2>4, ReplyGood
  <2>5. CASE WriteOwn(c)
    BY <1>3, <2>5
  <2>6. CASE ReadRow(c)
    BY <1>0, <1>1, <1>4, <2>6, ReadRowGood
  <2>7. ASSUME NEW reads, NEW f \in SUBSET Flags, Ask(c, reads, f) PROVE IInv'
    BY <1>0, <1>1, <1>4, <2>7, AskGood
  <2>8. CASE Ask(c, TRUE, {})
    <3>1. {} \in SUBSET Flags
      OBVIOUS
    <3> QED BY <2>7, <2>8, <3>1
  <2>9. CASE \E f \in SUBSET Flags : Ask(c, FALSE, f)
    BY <2>7, <2>9
  <2> QED BY <1>10, <2>1, <2>2, <2>3, <2>4, <2>5, <2>6, <2>8, <2>9 DEF ConnStep
<1>11. CASE UNCHANGED vars
  BY <1>11, SameAll
<1> QED BY <1>5, <1>6, <1>7, <1>8, <1>9, <1>10, <1>11 DEF Next

\* With every handler and push at rest no row is on its way, so what a browser
\* shows was read after the last write that dates it.
LEMMA QuietIsCurrent ==
    ASSUME IInv
    PROVE  QuietRowIsCurrent
<1>1. PICK pub \in [Users -> 0..tick], own \in [Users -> 0..tick] : Current(pub, own)
  BY DEF IInv
<1> SUFFICES ASSUME Quiet, NEW c \in Conns, link[c] = "open", Owner[c] \notin missed,
                    ~shown[c].late, ~(shown[c].at < shown[c].other)
             PROVE  shown[c].row = Summary(Owner[c])
  BY DEF QuietRowIsCurrent
<1> DEFINE u == Owner[c]
<1>2. u \in Users /\ cmd[c].pc = "idle"
  BY InboxAssumption DEF Quiet
<1>3. shown[c].at \in Nat /\ shown[c].other \in Nat /\ pub[u] \in Nat /\ own[u] \in Nat
  BY <1>1, <1>2 DEF IInv, Base, Shapes
<1>4. ~Coming(u, pub[u])
  BY DEF Quiet, Coming
<1>5. (Reached(c, pub[u]) \/ Coming(u, pub[u])) /\ OwnShows(c, pub, own)
  BY <1>1 DEF Current, RowsCome
<1>6. shown[c].at >= pub[u]
  BY <1>2, <1>4, <1>5 DEF Reached
<1>7. shown[c].at >= own[u]
  BY <1>2, <1>3, <1>5, <1>6 DEF OwnShows, Reached
<1>8. TrueRow(pub, own, u, shown[c])
  BY <1>1 DEF Current, RowsAreTrue
<1> QED BY <1>2, <1>6, <1>7, <1>8, SummaryIs DEF TrueRow, IInv, Base

LEMMA TypesFollow ==
    ASSUME IInv
    PROVE  TypeOK /\ RowsAreForParticipants
<1> DEFINE S == {c \in Conns : cmd[c].pc = "write"}
<1>1. Base
  BY DEF IInv
<1>2. Cardinality(S) \in Nat
  BY WritersAre
<1>3. tick + Cardinality(S) \in 0..MaxTicks /\ tick \in Nat /\ due \in 0..tick
  BY <1>1 DEF Base, Counts, Shapes
<1> HIDE DEF S
<1>4. tick \in 0..MaxTicks /\ due \in 0..MaxTicks /\ \A n \in 0..tick : n \in 0..MaxTicks
  BY <1>2, <1>3, InboxAssumption
<1>5. rev \in [Msgs -> 0..MaxTicks]
  BY <1>1, <1>4 DEF Base, Shapes
<1>6. \A p \in Pushes : push[p].pc \in {"idle", "wake", "walk", "send"}
  BY <1>1 DEF Base, IsPush
<1>7. \A c \in Conns : /\ link[c] \in {"off", "registered", "open"}
                       /\ shown[c].row \in Row /\ shown[c].at \in 0..tick
  BY <1>1 DEF Base, Shapes
<1>8. asleep \in BOOLEAN /\ pending \in BOOLEAN
  BY <1>1 DEF Base, Shapes
<1>9. TypeOK
  BY <1>1, <1>4, <1>5, <1>6, <1>7, <1>8 DEF Base, Shapes, TypeOK
<1>10. RowsAreForParticipants
  BY <1>1 DEF Base, Linked, RowsAreForParticipants
<1> QED BY <1>9, <1>10

\* What the browsers list of a wave is for its participants only, and what storage
\* has once every handler and push has ended (schedule_inbox_update,
\* push_inbox_update, send_inbox_row and the greeting, none of which holds a lock
\* between the read of a row and its sending).
THEOREM RowsAreRightAlways == Spec => []RowsAreRight
<1>1. Init => IInv
  BY InitHolds
<1>2. IInv /\ [Next]_vars => IInv'
  BY StepKeeps
<1>3. IInv => RowsAreRight
  BY TypesFollow, QuietIsCurrent DEF RowsAreRight
<1> QED BY <1>1, <1>2, <1>3, PTL DEF Spec
=============================================================================

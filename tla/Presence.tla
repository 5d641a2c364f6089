------------------------------ MODULE Presence ------------------------------
(***************************************************************************)
(* Who is here now: the list each watcher of a wave is sent of the others, *)
(* with the message each of them has the caret in, as far as it may know,  *)
(* and the carets themselves.  Conversation and one private reply; the     *)
(* commands hold the lock of the wave, so each is one step.                *)
(***************************************************************************)
EXTENDS Naturals, FiniteSets, Functions

CONSTANTS
    People,       \* accounts
    Tabs,         \* connections
    TabOf,        \* whose connection it is
    Home,         \* the wavelet of each message
    MaxChanges    \* bound: changes of membership and deletions

Aside == "private"
Conversation == "conversation"
Nowhere == "nowhere"

ASSUME PresenceAssumption ==
    /\ TabOf \in [Tabs -> People] /\ MaxChanges \in Nat
    /\ Range(Home) \subseteq {Conversation, Aside} /\ Nowhere \notin DOMAIN Home

VARIABLES
    circle,     \* participants of the two wavelets
    standing,   \* messages that are not deleted
    editing,    \* the subscribers of the wave, and where the caret of each is
    attached,   \* session.subscribed: connections that have the wave open
    shown,      \* the list each client shows
    carets,     \* the carets each client draws: whose, and in which message
    turns       \* changes so far

presence == <<circle, standing, editing, attached, shown, carets, turns>>

Present == DOMAIN editing
MaySeePost(p, b) == b \in standing /\ p \in circle[Home[b]]

\* teardownWave.
NobodyShown == [p \in {} |-> Nowhere]

PresenceInit ==
    /\ circle = [w \in {Conversation, Aside} |-> People]
    /\ standing = DOMAIN Home
    /\ editing = [t \in {} |-> Nowhere] /\ attached = {}
    /\ shown = [t \in Tabs |-> NobodyShown]
    /\ carets = [t \in Tabs |-> {}] /\ turns = 0

\* Only a message that the reader may see is named.
\* Mistake: any message that is there.
ScopedToNothing(reader, b) == b \in standing
Scoped(reader, b) == b # Nowhere /\ MaySeePost(reader, b)

\* presence_for: those of the watchers who share a wavelet with the reader, each
\* once; of several connections of one account, any.
PresenceFor(reader, watch, chosen) ==
    [p \in {q \in {TabOf[t] : t \in DOMAIN watch} :
              \E w \in DOMAIN circle : {q, reader} \subseteq circle[w]} |->
        IF Scoped(reader, watch[chosen[p]]) THEN watch[chosen[p]] ELSE Nowhere]

\* broadcast_presence to the watchers, whose clients drop the carets of others.
\* (What a client without a subscription still shows is not followed: it is built
\* anew from the WaveState and the list that a later open sends.)
BroadcastPresence(watch, drawn) ==
    \E chosen \in {f \in [{TabOf[t] : t \in DOMAIN watch} -> DOMAIN watch] :
                     \A p \in DOMAIN f : TabOf[f[p]] = p} :
      /\ shown' = [t \in Tabs |-> IF t \in DOMAIN watch
                                  THEN PresenceFor(TabOf[t], watch, chosen) ELSE NobodyShown]
      /\ carets' = [t \in Tabs |-> {x \in drawn[t] : x.person \in DOMAIN shown'[t]}]

\* open_wave.
Arrive(t) ==
    LET watch == [x \in Present \cup {t} |-> IF x = t THEN Nowhere ELSE editing[x]]
    IN /\ \E w \in DOMAIN circle : TabOf[t] \in circle[w]
       /\ editing' = watch /\ attached' = attached \cup {t}
       /\ BroadcastPresence(watch, [carets EXCEPT ![t] = {}])
       /\ UNCHANGED <<circle, standing, turns>>

\* leave_wave: the others are told.
\* Mistake: they are not.
NobodyIsTold(watch) == UNCHANGED <<shown, carets>>
OthersAreTold(watch) == BroadcastPresence(watch, carets)

\* A connection leaves, of its own accord or because its socket ends.
LeaveWave(t) ==
    LET watch == Restrict(editing, Present \ {t})
    IN /\ t \in attached
       /\ attached' = attached \ {t} /\ editing' = watch
       /\ OthersAreTold(watch)
       /\ UNCHANGED <<circle, standing, turns>>

\* cursor: the caret is broadcast to the wavelet of the message, drawn by the
\* clients that know of its owner, and the list is sent again.
Cursor(t, b) ==
    LET watch == [x \in Present |-> IF x = t THEN b ELSE editing[x]]
        reached == {x \in Present \ {t} : /\ MaySeePost(TabOf[x], b)
                                           /\ TabOf[t] \in DOMAIN shown[x]}
        drawn == [x \in Tabs |->
                    IF x \in reached
                    THEN {y \in carets[x] : y.person # TabOf[t]}
                         \cup {[person |-> TabOf[t], post |-> b]}
                    ELSE carets[x]]
    IN /\ t \in attached /\ MaySeePost(TabOf[t], b)
       /\ editing' = watch
       /\ BroadcastPresence(watch, drawn)
       /\ UNCHANGED <<circle, standing, attached, turns>>

\* The queue of a watcher is full, or a panic drops the copy with its watchers:
\* their sockets will end, and nobody is told yet.
Drop(gone) ==
    /\ gone # {} /\ editing' = Restrict(editing, Present \ gone)
    /\ UNCHANGED <<circle, standing, attached, shown, carets, turns>>

\* add_participant and remove_participant: no list is sent.  Whoever can see nothing
\* of the wave any more loses its subscription.
ChangeCircle(w, p, joins) ==
    LET new == [circle EXCEPT ![w] = IF joins THEN @ \cup {p} ELSE @ \ {p},
                              ![Aside] = IF ~joins THEN @ \ {p} ELSE
                                         IF w = Aside THEN @ \cup {p} ELSE @]
        out == {t \in Present : \A x \in DOMAIN new : TabOf[t] \notin new[x]}
    IN /\ turns < MaxChanges /\ turns' = turns + 1
       /\ (p \in circle[w]) # joins
       /\ joins /\ w = Aside => p \in circle[Conversation]
       /\ ~joins => Cardinality(circle[w]) > 1
       /\ circle' = new
       /\ editing' = Restrict(editing, Present \ out)
       /\ UNCHANGED <<standing, attached, shown, carets>>

\* delete_blip.
RemovePost(b) ==
    /\ turns < MaxChanges /\ turns' = turns + 1
    /\ b \in standing /\ standing' = standing \ {b}
    /\ UNCHANGED <<circle, editing, attached, shown, carets>>

PresenceNext ==
    \/ \E t \in Tabs : Arrive(t) \/ LeaveWave(t) \/ Drop(Present \cap {t})
    \/ \E t \in Tabs, b \in DOMAIN Home : Cursor(t, b)
    \/ Drop(Present)
    \/ \E w \in DOMAIN circle, p \in People, joins \in BOOLEAN : ChangeCircle(w, p, joins)
    \/ \E b \in DOMAIN Home : RemovePost(b)

PresenceSpec == PresenceInit /\ [][PresenceNext]_presence

-----------------------------------------------------------------------------
(* Properties.                                                             *)

\* Two watchers know of each other, however they came, lost a socket and came
\* back; and whoever a watcher is shown still has the wave open.
HereNowIsTrue ==
    \A t \in Present :
      /\ \A x \in Present : TabOf[x] \in DOMAIN shown[t]
      /\ DOMAIN shown[t] \subseteq {TabOf[x] : x \in attached}

\* No list and no caret tells a client of a message its user may not see: "who is
\* talking privately, and when" stays private, also right after a removal.
KeepsSecrets ==
    \A t \in Tabs :
      /\ \A p \in DOMAIN shown'[t] :
           LET b == shown'[t][p]
           IN (b # Nowhere /\ shown'[t] # shown[t]) => MaySeePost(TabOf[t], b)
      /\ \A x \in carets'[t] \ carets[t] : MaySeePost(TabOf[t], x.post)

\* What the clients are told of each other is true, and no more than they may know.
PresenceIsTrue == [][HereNowIsTrue' /\ KeepsSecrets]_presence
=============================================================================

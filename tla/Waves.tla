------------------------------- MODULE Waves -------------------------------
(***************************************************************************)
(* The rules of one wave: its mode, its conversation and private replies,  *)
(* their participants, the messages and comment threads, as the command    *)
(* handlers of ws.rs change them, in the resident copy of state.rs and in  *)
(* the tables of db.rs.                                                    *)
(*                                                                         *)
(* A handler finds the resident copy (find_wavelet, find_blip,             *)
(* find_comment, which load it when it is not resident) and then waits for *)
(* the lock of that copy; under the lock it checks, writes to storage,     *)
(* changes the copy and tells the watchers.  Find is the first half, each  *)
(* command the second.  What the client of a watcher holds of the wave is  *)
(* screen; messages to one connection are applied in the order they were   *)
(* sent, so a delivery is applied when it is sent.                         *)
(***************************************************************************)
EXTENDS Naturals, FiniteSets, Functions, FiniteSetsExt

CONSTANTS
    Users,       \* the accounts
    Conns,       \* the connections
    UserOf,      \* whose connection it is
    Privates,    \* the private replies that may be started: the bound on them
    Threads,     \* the comment ids the clients mint
    Modes,       \* the modes a client asks for, among AllModes
    Titles,      \* the titles a client asks for
    MaxBlips,    \* bound: the messages ever written, and the new titles (Room)
    Dangling,    \* may a client answer a remark, or delete a message that a
                 \* private reply hangs off?
    LateLocks    \* may the copy be evicted while a handler waits for its lock?

AllModes == {"document", "chat", "announcement", "notepad", "frozen"}

Root == "root"          \* the wavelet of kind Conversation
Wavelets == {Root} \cup Privates
NoBlip == 0
Blips == 1..MaxBlips
NoThread == "none"
NoUser == "nobody"
FirstTitle == "first"   \* the title a wave is created with

ASSUME WavesAssumption ==
    /\ UserOf \in [Conns -> Users]
    /\ Root \notin Privates /\ NoThread \notin Threads /\ NoUser \notin Users
    /\ Modes \subseteq AllModes /\ MaxBlips \in Nat \ {0} /\ LateLocks \in BOOLEAN
    /\ Dangling \in BOOLEAN /\ IsFiniteSet(Conns) /\ IsFiniteSet(Privates)

VARIABLES
    db,          \* the wave as storage has it, deleted rows left out
    resident,    \* is a copy in the residency map?
    live,        \* that copy
    orphan,      \* the evicted copy some handler still waits for
    held,        \* the copy the running handler of a connection has found
    subs,        \* the connections watching the resident copy
    subscribed,  \* session.subscribed: the connections that have the wave open
    screen,      \* what the client of a connection holds of the wave
    minted,      \* how many message ids have been minted
    changed      \* the wavelets a watcher joined or left since its snapshot

vars == <<db, resident, live, orphan, held, subs, subscribed, screen, minted, changed>>

----------------------------------------------------------------------------
(* The wave.                                                               *)

\* A wave: its creator and mode, and for each wavelet the participants, the
\* title and the message a private reply hangs off (a private reply without
\* one does not exist yet).
Blank ==
    [creator |-> NoUser, mode |-> "document",
     members |-> [w \in Wavelets |-> {}],
     title |-> [w \in Wavelets |-> FirstTitle],
     anchor |-> [p \in Privates |-> NoBlip],
     blips |-> [b \in {} |-> 0], threads |-> [t \in {} |-> 0]]

\* No wave on the client's screen.
Dark == [shown |-> {}, mode |-> "document", title |-> [w \in {} |-> 0],
         members |-> [w \in {} |-> {}], blips |-> [b \in {} |-> 0],
         threads |-> [t \in {} |-> 0]]

Created == db.creator # NoUser

\* Blip::new, with the thread of a remark.
NewBlip(w, u, parent, thread, seq) ==
    [wavelet |-> w, author |-> u, parent |-> parent, thread |-> thread, seq |-> seq]

\* The ordering position of a new message: after every message of the
\* wavelet that is resident.
\* Mistake: the position leaves a gap.
NextSeqSkips(k, w) ==
    LET seqs == {k.blips[b].seq : b \in {x \in DOMAIN k.blips : k.blips[x].wavelet = w}}
    IN IF seqs = {} THEN 0 ELSE Max(seqs) + 2
\* Mistake: the messages are counted, as if none had been deleted.
NextSeqCounts(k, w) == Cardinality({b \in DOMAIN k.blips : k.blips[b].wavelet = w})
NextSeq(k, w) ==
    LET seqs == {k.blips[b].seq : b \in {x \in DOMAIN k.blips : k.blips[x].wavelet = w}}
    IN IF seqs = {} THEN 0 ELSE Max(seqs) + 1

MayAccess(k, u, w) == u \in k.members[w]
Visible(k, u) == {w \in Wavelets : MayAccess(k, u, w)}
MayView(k, u) == Visible(k, u) # {}

----------------------------------------------------------------------------
(* What a mode allows.                                                     *)

AllowsNewMessage(mode, isCreator) ==
    mode \in {"document", "chat"} \/ (mode = "announcement" /\ isCreator)
AllowsReplies(mode) == mode \in {"document", "announcement"}
AllowsDelete(mode) == mode \in {"document", "chat", "announcement"}
AllowsRetitle(mode, isCreator) ==
    mode \in {"document", "chat", "notepad"} \/ (mode = "announcement" /\ isCreator)
AllowsComments(mode) == mode = "notepad"

\* Mistake: a thread may be settled in every mode.
AllowsResolveAlways(mode) == TRUE
AllowsResolve(mode) == mode # "frozen"
AllowsPrivateReply(mode) == mode \in {"document", "chat", "announcement"}

\* LiveWave::permit: may this user do this in the wave's mode?
Permit(k, u, action) ==
    LET isCreator == k.creator = u
    IN CASE action = "NewMessage"     -> AllowsNewMessage(k.mode, isCreator)
         [] action = "Reply"          -> AllowsReplies(k.mode)
         [] action = "Delete"         -> AllowsDelete(k.mode)
         [] action = "Retitle"        -> AllowsRetitle(k.mode, isCreator)
         [] action = "PrivateReply"   -> AllowsPrivateReply(k.mode)
         [] action = "Comment"        -> AllowsComments(k.mode)
         [] action = "ResolveComment" -> AllowsResolve(k.mode)
         [] action = "SetMode"        -> isCreator

----------------------------------------------------------------------------
(* What the client sees and how it follows.                                *)

\* LiveWave::view: the wave as this user may see it.
View(k, u) ==
    LET seen == Visible(k, u)
        blips == {b \in DOMAIN k.blips : k.blips[b].wavelet \in seen}
    IN [shown |-> seen, mode |-> k.mode,
        title |-> Restrict(k.title, seen),
        members |-> Restrict(k.members, seen),
        blips |-> Restrict(k.blips, blips),
        threads |-> Restrict(k.threads,
                       {t \in DOMAIN k.threads : k.threads[t].wavelet \in seen})]

\* LiveWave::broadcast about the wavelets ws to these watchers: each hears about
\* the ones it is a participant of in the copy k.
\* Mistake: the message goes to every watcher of the wave.
ToldEveryone(k, u, ws) == ws
Told(k, u, ws) == ws \cap Visible(k, u)
Broadcast(k, watchers, ws, Follow(_, _)) ==
    [c \in Conns |-> IF c \in watchers /\ Told(k, UserOf[c], ws) # {}
                     THEN Follow(screen[c], Told(k, UserOf[c], ws)) ELSE screen[c]]

\* The handlers of app.js: the screen s after each message.
OnBlipAdded(s, w, b, blip) ==
    IF w \notin s.shown \/ b \in DOMAIN s.blips THEN s
    ELSE [s EXCEPT !.blips = [x \in DOMAIN s.blips \cup {b} |->
                                IF x = b THEN blip ELSE s.blips[x]]]
OnCommentAdded(s, w, t, thread, b, blip) ==
    IF w \notin s.shown THEN s
    ELSE [OnBlipAdded(s, w, b, blip) EXCEPT
            !.threads = [x \in DOMAIN s.threads \cup {t} |->
                           IF x = t THEN thread ELSE s.threads[x]]]
\* Mistake: a thread that was settled stays settled.
OnCommentResolvedOnce(s, t, resolved) ==
    IF t \notin DOMAIN s.threads THEN s
    ELSE [s EXCEPT !.threads[t].resolved = TRUE]
OnCommentResolved(s, t, resolved) ==
    IF t \notin DOMAIN s.threads THEN s
    ELSE [s EXCEPT !.threads[t].resolved = resolved]
OnBlipsRemoved(s, gone) ==
    [s EXCEPT !.blips = Restrict(s.blips, DOMAIN s.blips \ gone)]
OnModeChanged(s, mode) == [s EXCEPT !.mode = mode]
OnTitleChanged(s, w, title) ==
    IF w \notin s.shown THEN s ELSE [s EXCEPT !.title[w] = title]
OnParticipantAdded(s, w, u) ==
    IF w \notin s.shown THEN s ELSE [s EXCEPT !.members[w] = @ \cup {u}]
OnParticipantRemoved(s, ws, u) ==
    [s EXCEPT !.members = [w \in s.shown |-> s.members[w] \ (IF w \in ws THEN {u} ELSE {})]]
OnWaveletAdded(s, k, w) ==
    IF s.shown = {} \/ w \in s.shown THEN s
    ELSE [shown |-> s.shown \cup {w}, mode |-> s.mode,
          title |-> [x \in s.shown \cup {w} |-> IF x = w THEN k.title[w] ELSE s.title[x]],
          members |-> [x \in s.shown \cup {w} |->
                         IF x = w THEN k.members[w] ELSE s.members[x]],
          blips |-> [b \in DOMAIN s.blips \cup
                          {b \in DOMAIN k.blips : k.blips[b].wavelet = w} |->
                       IF b \in DOMAIN s.blips THEN s.blips[b] ELSE k.blips[b]],
          threads |-> s.threads]

\* The threads a client draws: those whose message is on the screen.
Drawn(s) == Restrict(s.threads, {t \in DOMAIN s.threads : s.threads[t].blip \in DOMAIN s.blips})

----------------------------------------------------------------------------
(* Finding the wave and letting go of it.                                  *)

\* A wave in storage, no copy of it in memory, nobody watching.
Init ==
    /\ db = Blank /\ live = Blank /\ orphan = Blank
    /\ resident = FALSE /\ minted = 0
    /\ held = [c \in Conns |-> "none"]
    /\ subs = {} /\ subscribed = {}
    /\ screen = [c \in Conns |-> Dark]
    /\ changed = [c \in Conns |-> {}]

\* Db::wave, wavelets_of_wave, blips_of_wave and comments_of_wave: a copy read from
\* storage is what is in storage, which leaves deleted rows out.
Loaded == db

\* AppState::open_wave: the copy of the residency map, or a new one.
OpenedWave == IF resident THEN live ELSE Loaded

\* The copy the handler of c works on, and who watches that copy: an evicted
\* one has lost its watchers.
Found(c) == IF held[c] = "live" THEN live ELSE orphan
Watchers(c) == IF held[c] = "live" THEN subs ELSE {}

\* The handler of c is done and leaves its copy as k.
Finish(c, k) ==
    /\ held' = [held EXCEPT ![c] = "none"]
    /\ live' = IF held[c] = "live" THEN k ELSE live
    /\ orphan' = IF held[c] = "live" THEN orphan
                 ELSE IF \E d \in Conns \ {c} : held[d] = "orphan" THEN k ELSE Blank

\* create_wave_with_blip: the wave, its conversation, the participants and the
\* first message, in one transaction.
WaveRows(u, mode, invited) ==
    [Blank EXCEPT !.creator = u, !.mode = mode,
                  !.members[Root] = invited \cup {u},
                  !.blips = [b \in {1} |-> NewBlip(Root, u, NoBlip, NoThread, 0)]]

\* create_wave, then open_wave for the creator.
CreateWave(c, mode, invited) ==
    LET u == UserOf[c]
        wave == WaveRows(u, mode, invited)
    IN /\ ~Created
       /\ db' = wave /\ live' = wave /\ resident' = TRUE /\ minted' = 1
       /\ subs' = {c} /\ subscribed' = {c}
       /\ screen' = [screen EXCEPT ![c] = View(wave, u)]
       /\ UNCHANGED <<orphan, held, changed>>

\* open_wave: the copy of the residency map, or a new one read from storage,
\* and on it the snapshot for this connection.
Open(c) ==
    LET k == OpenedWave
        u == UserOf[c]
    IN /\ Created /\ held[c] = "none" /\ MayView(k, u)
       /\ live' = k /\ resident' = TRUE
       /\ subs' = subs \cup {c} /\ subscribed' = subscribed \cup {c}
       /\ screen' = [screen EXCEPT ![c] = View(k, u)]
       /\ changed' = [changed EXCEPT ![c] = {}]
       /\ UNCHANGED <<db, orphan, held, minted>>

\* leave_wave.
Close(c) ==
    /\ c \in subscribed /\ held[c] = "none"
    /\ subscribed' = subscribed \ {c} /\ subs' = subs \ {c}
    /\ screen' = [screen EXCEPT ![c] = Dark]
    /\ changed' = [changed EXCEPT ![c] = {}]
    /\ UNCHANGED <<db, resident, live, orphan, held, minted>>

\* The outbound queue of a watcher is full: it is no longer told of anything
\* and its socket will be closed, though a handler of its may be running; the
\* client will come back to a new snapshot.
Overflow(c) ==
    /\ c \in subs
    /\ subs' = subs \ {c}
    /\ screen' = [screen EXCEPT ![c] = Dark]
    /\ changed' = [changed EXCEPT ![c] = {}]
    /\ UNCHANGED <<db, resident, live, orphan, held, subscribed, minted>>

\* The reader of a socket finds the wave: find_wavelet, find_blip,
\* find_comment, or the open_wave of set_mode.  Until the copy is evicted it does
\* not matter who else has found it, as each handler checks under the lock.
Find(c) ==
    /\ c \in subscribed /\ held[c] = "none"
    /\ LateLocks \/ \A d \in Conns : held[d] = "none"
    /\ live' = OpenedWave /\ resident' = TRUE
    /\ held' = [held EXCEPT ![c] = "live"]
    /\ UNCHANGED <<db, orphan, subs, subscribed, screen, minted, changed>>

\* The handlers that hold the copy when it leaves the residency map keep it.
Strand(holders) ==
    /\ holders = {} \/ (LateLocks /\ \A c \in Conns : held[c] # "orphan")
    /\ resident' = FALSE /\ live' = Blank
    /\ orphan' = IF holders = {} THEN orphan ELSE live
    /\ held' = [c \in Conns |-> IF c \in holders THEN "orphan"
                                ELSE IF held[c] = "live" THEN "none" ELSE held[c]]

\* maybe_evict: nobody watches the copy.
MaybeEvict ==
    /\ resident /\ subs = {}
    /\ Strand({c \in Conns : held[c] = "live"})
    /\ UNCHANGED <<db, subs, subscribed, screen, minted, changed>>

\* evict_after_panic: the handler of c panics before its write, the copy is
\* dropped with its watchers and c's socket ends.
EvictAfterPanic(c) ==
    /\ held[c] = "live"
    /\ Strand({d \in Conns \ {c} : held[d] = "live"})
    /\ subs' = {} /\ subscribed' = subscribed \ {c}
    /\ screen' = [d \in Conns |-> Dark]
    /\ changed' = [d \in Conns |-> {}]
    /\ UNCHANGED <<db, minted>>

\* A handler whose checks refuse the command, or whose write fails.
Refuse(c) ==
    /\ held[c] # "none"
    /\ Finish(c, Found(c))
    /\ UNCHANGED <<db, resident, subs, subscribed, screen, minted, changed>>

----------------------------------------------------------------------------
(* The commands, under the lock of the copy that was found.                *)

\* Bound: messages written and wavelets with a new title, together.
Room == minted + Cardinality({w \in Wavelets : db.title[w] # FirstTitle}) < MaxBlips

\* The message b becomes a row, or an entry of a copy.
WithBlip(k, b, blip) ==
    [k EXCEPT !.blips = [x \in DOMAIN k.blips \cup {b} |->
                           IF x = b THEN blip ELSE k.blips[x]]]
WithThread(k, t, thread) ==
    [k EXCEPT !.threads = [x \in DOMAIN k.threads \cup {t} |->
                             IF x = t THEN thread ELSE k.threads[x]]]

\* create_blip: prepare_blip, the write, publish_blip.
CreateBlip(c, w, parent) ==
    LET k == Found(c)
        u == UserOf[c]
        b == minted + 1
        blip == NewBlip(w, u, parent, NoThread, NextSeq(k, w))
    IN /\ held[c] # "none" /\ Room
       /\ MayAccess(k, u, w)
       /\ Permit(k, u, IF parent = NoBlip THEN "NewMessage" ELSE "Reply")
       /\ parent # NoBlip => /\ parent \in DOMAIN k.blips
                             /\ k.blips[parent].wavelet = w
                             /\ Dangling \/ k.blips[parent].thread = NoThread
       /\ minted' = b
       /\ db' = WithBlip(db, b, blip)
       /\ Finish(c, WithBlip(k, b, blip))
       /\ screen' = Broadcast(k, Watchers(c), {w},
                              LAMBDA s, ws : OnBlipAdded(s, w, b, blip))
       /\ UNCHANGED <<resident, subs, subscribed, changed>>

\* The row of a thread and the row of its first remark.
CommentRows(w, b, t, u, seq) ==
    [thread |-> [wavelet |-> w, blip |-> b, resolved |-> FALSE],
     remark |-> NewBlip(w, u, b, t, seq)]

CreateComment(c, w, b, t) ==
    LET k == Found(c)
        u == UserOf[c]
        new == CommentRows(w, b, t, u, NextSeq(k, w))
        id == minted + 1
    IN /\ held[c] # "none" /\ Room
       /\ MayAccess(k, u, w) /\ Permit(k, u, "Comment")
       /\ t \notin DOMAIN k.threads /\ t \notin DOMAIN db.threads
       /\ b \in DOMAIN k.blips /\ k.blips[b].wavelet = w /\ k.blips[b].thread = NoThread
       /\ minted' = id
       /\ db' = WithBlip(WithThread(db, t, new.thread), id, new.remark)
       /\ Finish(c, WithBlip(WithThread(k, t, new.thread), id, new.remark))
       /\ screen' = Broadcast(k, Watchers(c), {w},
                              LAMBDA s, ws : OnCommentAdded(s, w, t, new.thread, id, new.remark))
       /\ UNCHANGED <<resident, subs, subscribed, changed>>

ReplyToComment(c, t) ==
    LET k == Found(c)
        u == UserOf[c]
        thread == k.threads[t]
        id == minted + 1
        remark == NewBlip(thread.wavelet, u, thread.blip, t, NextSeq(k, thread.wavelet))
    IN /\ held[c] # "none" /\ Room
       /\ t \in DOMAIN k.threads
       /\ MayAccess(k, u, thread.wavelet) /\ Permit(k, u, "Comment")
       /\ ~thread.resolved
       /\ minted' = id
       /\ db' = WithBlip(db, id, remark)
       /\ Finish(c, WithBlip(k, id, remark))
       /\ screen' = Broadcast(k, Watchers(c), {thread.wavelet},
                              LAMBDA s, ws : OnBlipAdded(s, thread.wavelet, id, remark))
       /\ UNCHANGED <<resident, subs, subscribed, changed>>

\* set_comment_resolved: an UPDATE of the row, if there is one.
SetCommentResolved(k, t, resolved) ==
    IF t \in DOMAIN k.threads THEN [k EXCEPT !.threads[t].resolved = resolved] ELSE k

ResolveComment(c, t, resolved) ==
    LET k == Found(c)
        u == UserOf[c]
    IN /\ held[c] # "none"
       /\ t \in DOMAIN k.threads
       /\ MayAccess(k, u, k.threads[t].wavelet) /\ Permit(k, u, "ResolveComment")
       /\ k.threads[t].resolved # resolved
       /\ db' = SetCommentResolved(db, t, resolved)
       /\ Finish(c, [k EXCEPT !.threads[t].resolved = resolved])
       /\ screen' = Broadcast(k, Watchers(c), {k.threads[t].wavelet},
                              LAMBDA s, ws : OnCommentResolved(s, t, resolved))
       /\ UNCHANGED <<resident, subs, subscribed, minted, changed>>

\* delete_blip in storage: the threads on the message, their remarks, itself.
DeleteRows(k, b) ==
    LET gone == {t \in DOMAIN k.threads : k.threads[t].blip = b}
    IN [k EXCEPT !.blips = Restrict(k.blips, {x \in DOMAIN k.blips :
                                                x # b /\ k.blips[x].thread \notin gone}),
                 !.threads = Restrict(k.threads, DOMAIN k.threads \ gone)]

\* The remarks of these threads in the resident copy.
\* Mistake: the remarks on the message stay in the resident copy.
RemarksAreForgotten(k, threads) == {}
Remarks(k, threads) == {x \in DOMAIN k.blips : k.blips[x].thread \in threads}

\* The message has replies that are not remarks.
\* Mistake: a reply by the author of the message does not count.
HasRepliesOfOthers(k, b) ==
    \E x \in DOMAIN k.blips : /\ k.blips[x].parent = b /\ k.blips[x].thread = NoThread
                              /\ k.blips[x].author # k.blips[b].author
HasReplies(k, b) ==
    \E x \in DOMAIN k.blips : k.blips[x].parent = b /\ k.blips[x].thread = NoThread

DeleteBlip(c, b) ==
    LET k == Found(c)
        u == UserOf[c]
        w == k.blips[b].wavelet
        threads == {t \in DOMAIN k.threads : k.threads[t].blip = b}
        remarks == Remarks(k, threads)
    IN /\ held[c] # "none" /\ b \in DOMAIN k.blips
       /\ MayAccess(k, u, w)
       /\ k.blips[b].thread = NoThread /\ k.blips[b].author = u
       /\ Permit(k, u, "Delete")
       /\ ~HasReplies(k, b)
       /\ Dangling \/ \A p \in Privates : k.anchor[p] \notin {b} \cup remarks
       /\ db' = DeleteRows(db, b)
       /\ Finish(c, [k EXCEPT !.blips = Restrict(k.blips, DOMAIN k.blips \ ({b} \cup remarks)),
                              !.threads = Restrict(k.threads, DOMAIN k.threads \ threads)])
       /\ screen' = Broadcast(k, Watchers(c), {w},
                              LAMBDA s, ws : OnBlipsRemoved(s, {b} \cup remarks))
       /\ UNCHANGED <<resident, subs, subscribed, minted, changed>>

SetTitle(c, w, title) ==
    LET k == Found(c)
        u == UserOf[c]
    IN /\ held[c] # "none" /\ Room
       /\ MayAccess(k, u, w) /\ Permit(k, u, "Retitle")
       /\ db' = [db EXCEPT !.title[w] = title]
       /\ Finish(c, [k EXCEPT !.title[w] = title])
       /\ screen' = Broadcast(k, Watchers(c), {w}, LAMBDA s, ws : OnTitleChanged(s, w, title))
       /\ UNCHANGED <<resident, subs, subscribed, minted, changed>>

SetMode(c, mode) ==
    LET k == Found(c)
        u == UserOf[c]
    IN /\ held[c] # "none"
       /\ MayView(k, u) /\ Permit(k, u, "SetMode") /\ k.mode # mode
       /\ db' = [db EXCEPT !.mode = mode]
       /\ Finish(c, [k EXCEPT !.mode = mode])
       /\ screen' = Broadcast(k, Watchers(c), Wavelets, LAMBDA s, ws : OnModeChanged(s, mode))
       /\ UNCHANGED <<resident, subs, subscribed, minted, changed>>

\* The connections of a watcher that joined or left w.
Joined(watchers, w, v) ==
    [c \in Conns |-> IF c \in watchers /\ UserOf[c] = v THEN changed[c] \cup {w} ELSE changed[c]]

AddParticipant(c, w, v) ==
    LET k == Found(c)
        u == UserOf[c]
        new == [k EXCEPT !.members[w] = @ \cup {v}]
    IN /\ held[c] # "none"
       /\ MayAccess(k, u, w)
       /\ w \in Privates => v \in k.members[Root]
       /\ v \notin k.members[w]
       /\ db' = [db EXCEPT !.members[w] = @ \cup {v}]
       /\ Finish(c, new)
       /\ screen' = Broadcast(new, Watchers(c), {w}, LAMBDA s, ws : OnParticipantAdded(s, w, v))
       /\ changed' = Joined(Watchers(c), w, v)
       /\ UNCHANGED <<resident, subs, subscribed, minted>>

\* remove_participant in storage: from the wavelet and, when that is the
\* conversation, from the private replies of its wave.
\* Mistake: the private replies keep the participant.
RemoveRowsOfOne(k, w, v) == [k EXCEPT !.members[w] = @ \ {v}]
RemoveRows(k, w, v) ==
    [k EXCEPT !.members = [x \in Wavelets |->
        IF x = w \/ (w = Root /\ x \in Privates) THEN k.members[x] \ {v} ELSE k.members[x]]]

\* The private replies a removal from w takes with it in the resident copy.
Cascaded(k, w, v) == {p \in Privates : w = Root /\ v \in k.members[p]}

\* The connections of someone who can no longer see any of the wave.
\* Mistake: whoever leaves the wave keeps its watch.
OutNobody(k, v) == {}
Out(k, v) == {d \in Conns : UserOf[d] = v /\ ~MayView(k, v)}

RemoveParticipant(c, w, v) ==
    LET k == Found(c)
        u == UserOf[c]
        cascaded == Cascaded(k, w, v)
        new == [k EXCEPT !.members = [x \in Wavelets |->
                   IF x \in {w} \cup cascaded THEN k.members[x] \ {v} ELSE k.members[x]]]
        told == Broadcast(new, Watchers(c), {w} \cup cascaded,
                          LAMBDA s, ws : OnParticipantRemoved(s, ws, v))
        out == Out(new, v)
    IN /\ held[c] # "none"
       /\ MayAccess(k, u, w) /\ (v = u \/ k.creator = u)
       /\ v \in k.members[w] /\ Cardinality(k.members[w]) > 1
       /\ db' = RemoveRows(db, w, v)
       /\ Finish(c, new)
       /\ subs' = subs \ (out \cap Watchers(c))
       /\ screen' = [d \in Conns |-> IF d \in out THEN Dark ELSE told[d]]
       /\ changed' = Joined(Watchers(c) \ out, w, v)
       /\ UNCHANGED <<resident, subscribed, minted>>

\* A wavelet nobody has started yet.
Unused(p) == db.anchor[p] = NoBlip

\* create_private_reply: the wavelet p, its participants and its first message.
WithPrivate(k, p, anchor, u, invited, title, id) ==
    [WithBlip(k, id, NewBlip(p, u, NoBlip, NoThread, 0)) EXCEPT
       !.members[p] = invited \cup {u}, !.anchor[p] = anchor, !.title[p] = title]

PrivateReply(c, w, anchor, invited, p) ==
    LET k == Found(c)
        u == UserOf[c]
        id == minted + 1
        Start(wave) == WithPrivate(wave, p, anchor, u, invited, k.title[Root], id)
    IN /\ held[c] # "none" /\ Room /\ Unused(p)
       /\ MayAccess(k, u, w) /\ Permit(k, u, "PrivateReply")
       /\ anchor \in DOMAIN k.blips /\ k.blips[anchor].wavelet = w
       /\ invited \subseteq k.members[w]
       /\ minted' = id
       /\ db' = Start(db)
       /\ Finish(c, Start(k))
       /\ screen' = Broadcast(Start(k), Watchers(c), {p},
                              LAMBDA s, ws : OnWaveletAdded(s, Start(k), p))
       /\ UNCHANGED <<resident, subs, subscribed, changed>>

Command(c) ==
    \/ \E w \in Wavelets, parent \in {NoBlip} \cup Blips : CreateBlip(c, w, parent)
    \/ \E w \in Wavelets, b \in Blips, t \in Threads : CreateComment(c, w, b, t)
    \/ \E t \in Threads : ReplyToComment(c, t)
    \/ \E t \in Threads, resolved \in BOOLEAN : ResolveComment(c, t, resolved)
    \/ \E b \in Blips : DeleteBlip(c, b)
    \/ \E w \in Wavelets, title \in Titles : SetTitle(c, w, title)
    \/ \E mode \in Modes : SetMode(c, mode)
    \/ \E w \in Wavelets, v \in Users : AddParticipant(c, w, v)
    \/ \E w \in Wavelets, v \in Users : RemoveParticipant(c, w, v)
    \/ \E w \in Wavelets, b \in Blips, invited \in SUBSET Users, p \in Privates :
          PrivateReply(c, w, b, invited, p)

Next ==
    \/ MaybeEvict
    \/ \E c \in Conns :
         \/ \E mode \in Modes, invited \in SUBSET Users : CreateWave(c, mode, invited)
         \/ Open(c) \/ Close(c) \/ Overflow(c)
         \/ Find(c) \/ EvictAfterPanic(c) \/ Refuse(c)
         \/ Command(c)

Spec == Init /\ [][Next]_vars

----------------------------------------------------------------------------
(* Properties.                                                             *)

Blip == [wavelet : Wavelets, author : Users, parent : {NoBlip} \cup Blips,
         thread : {NoThread} \cup Threads, seq : 0..MaxBlips]
Thread == [wavelet : Wavelets, blip : Blips, resolved : BOOLEAN]

IsWave(k) ==
    /\ DOMAIN k = {"creator", "mode", "members", "title", "anchor", "blips", "threads"}
    /\ k.creator \in Users \cup {NoUser} /\ k.mode \in AllModes
    /\ k.members \in [Wavelets -> SUBSET Users] /\ k.title \in [Wavelets -> Titles \cup {FirstTitle}]
    /\ k.anchor \in [Privates -> {NoBlip} \cup Blips]
    /\ DOMAIN k.blips \subseteq Blips /\ \A b \in DOMAIN k.blips : k.blips[b] \in Blip
    /\ DOMAIN k.threads \subseteq Threads /\ \A t \in DOMAIN k.threads : k.threads[t] \in Thread

\* Every variable has the type of the state it stands for; a message's place
\* among its siblings (next_seq) never passes the number of messages written.
TypeOK ==
    /\ IsWave(db) /\ IsWave(live) /\ IsWave(orphan)
    /\ resident \in BOOLEAN /\ minted \in 0..MaxBlips
    /\ held \in [Conns -> {"none", "live", "orphan"}]
    /\ subs \subseteq Conns /\ subscribed \subseteq Conns
    /\ changed \in [Conns -> SUBSET Wavelets]
    /\ \A c \in Conns : screen[c].shown \subseteq Wavelets

\* Whatever the handlers do, and whichever of their writes fail, the copy that
\* open_wave hands out says of the wave what storage would say: the modes and
\* participants a command is checked against are the stored ones.
CacheIsStorage == resident => live = db

\* Membership of a private reply is inside the membership of the conversation,
\* through private replies of private replies and after every removal, in
\* whichever order people are added, removed and invited.
PrivateInsideConversation == \A p \in Privates : db.members[p] \subseteq db.members[Root]

\* Whoever watches the copy can still see some of the wave: leaving it takes
\* the watch of all of the user's connections along.
WatchersMayView == \A c \in subs : resident /\ MayView(live, UserOf[c])

\* A watcher's client, which only has its snapshot and what it was told since,
\* shows what the server would send it now: the mode, and of every wavelet it
\* neither joined nor left meanwhile the people, the title, the messages in
\* their places and the open and settled threads.
WatcherIsCurrent ==
    \A c \in subs :
      LET s == screen[c]
          v == View(live, UserOf[c])
          same == v.shown \ changed[c]
          In(f) == {x \in DOMAIN f : f[x].wavelet \in same}
      IN /\ s.mode = v.mode /\ same \subseteq s.shown
         /\ \A w \in same : s.members[w] = v.members[w] /\ s.title[w] = v.title[w]
         /\ Restrict(s.blips, In(s.blips)) = Restrict(v.blips, In(v.blips))
         /\ Restrict(Drawn(s), In(Drawn(s))) = Restrict(v.threads, In(v.threads))

\* Nothing in storage hangs in the air: a reply and a private reply have the
\* message they answer, in the same wavelet for a reply; a thread has the
\* message it is about and a remark to show; a remark has its thread.
NothingIsOrphaned ==
    /\ \A b \in DOMAIN db.blips :
         LET blip == db.blips[b]
         IN /\ blip.parent # NoBlip => /\ blip.parent \in DOMAIN db.blips
                                       /\ db.blips[blip.parent].wavelet = blip.wavelet
            /\ blip.thread # NoThread => blip.thread \in DOMAIN db.threads
    /\ \A p \in Privates : db.anchor[p] # NoBlip => db.anchor[p] \in DOMAIN db.blips
    /\ \A t \in DOMAIN db.threads :
         /\ db.threads[t].blip \in DOMAIN db.blips
         /\ \E b \in DOMAIN db.blips : db.blips[b].thread = t

\* No two messages of a wavelet have the same place, deletions and remarks
\* included, so every client draws them in one order.
PlacesAreDistinct ==
    \A a, b \in DOMAIN db.blips :
      db.blips[a].wavelet = db.blips[b].wavelet /\ db.blips[a].seq = db.blips[b].seq => a = b

\* A client learns nothing of a wavelet its user is not in: no step puts it,
\* or a message of it, on such a screen.
NothingLeaks ==
    \A c \in Conns, w \in Wavelets :
      UserOf[c] \notin db.members[w] \cup db'.members[w] =>
         LET Of(s) == {b \in DOMAIN s.blips : s.blips[b].wavelet = w}
         IN /\ w \in screen'[c].shown => w \in screen[c].shown
            /\ Of(screen'[c]) \subseteq Of(screen[c])

\* While a wave stays frozen its content stays: no message, thread, title or
\* private reply comes, goes or changes in storage.
FrozenStaysFrozen ==
    db.mode = "frozen" /\ db'.mode = "frozen" =>
      /\ db'.blips = db.blips /\ db'.threads = db.threads
      /\ db'.title = db.title /\ db'.anchor = db.anchor

\* No command, checked against a copy that may have changed since it was sent,
\* steps over the rules of the wave: who may see, and what may still change.
RulesAreKept == [][NothingLeaks /\ FrozenStaysFrozen]_vars

\* The rows of a wave make sense together after every command: private replies
\* inside the conversation, nothing without what it hangs off, one order.
RowsAreSound ==
    TypeOK /\ PrivateInsideConversation /\ NothingIsOrphaned /\ PlacesAreDistinct

\* Whoever watches may, and sees the wave as it is.
WatchersAreServed == WatchersMayView /\ WatcherIsCurrent
=============================================================================

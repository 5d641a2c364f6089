------------------------------ MODULE Context ------------------------------
(***************************************************************************)
(* An agent reads a conversation page by page (agent_context), while       *)
(* people write and delete messages.  A page ends at a number of messages  *)
(* or when its text is used up; the cursor of the next one is the place    *)
(* of the last message.                                                    *)
(***************************************************************************)
EXTENDS Integers, Sequences, SequencesExt, FiniteSetsExt

CONSTANTS
    Ids,          \* message ids, in the order storage compares them
    Bodies,       \* texts, as the widths of their characters
    Limits,       \* limit of a request
    TextBudgets   \* textUnits of a request

ASSUME ContextAssumption ==
    /\ Ids \subseteq Nat /\ Bodies \subseteq Seq({1, 2})
    /\ Limits \subseteq Nat \ {0} /\ TextBudgets \subseteq Nat \ {0, 1}

VARIABLES
    posts,    \* the messages that are not deleted
    spent,    \* ids used so far
    walk,     \* the client's walk: how it asks, its cursor, what it was sent
    page      \* the page it got last

paging == <<posts, spent, walk, page>>

NoWalk == [on |-> FALSE]
Start == <<-1, 0>>

ContextInit == posts = {} /\ spent = {} /\ walk = NoWalk /\ page = <<>>

Key(p) == <<p.seq, p.id>>

\* (seq, id) > (?2, ?3).
IsAfter(x, y) == x[1] > y[1] \/ (x[1] = y[1] /\ x[2] > y[2])

\* The message goes after every message that is there; ids are random.
WritePost(id, body) ==
    /\ id \notin spent
    /\ spent' = spent \cup {id}
    /\ posts' = posts \cup {[id |-> id, body |-> body, seq |-> 1 + Max({-1} \cup {p.seq : p \in posts})]}
    /\ UNCHANGED <<walk, page>>

\* A walk is about the messages that are there from its start to its end.
DeletePost(id) ==
    /\ \E p \in posts : p.id = id
    /\ posts' = {p \in posts : p.id # id}
    /\ walk' = IF walk.on THEN [walk EXCEPT !.standing = @ \ {id}] ELSE walk
    /\ UNCHANGED <<spent, page>>

\* pages of the client: a walk begins.
Pages(limit, units) ==
    /\ ~walk.on
    /\ walk' = [on |-> TRUE, done |-> FALSE, limit |-> limit, units |-> units, after |-> Start,
                standing |-> {p.id : p \in posts}, seen |-> <<>>]
    /\ UNCHANGED <<posts, spent, page>>

\* One row more than the page can hold is asked for, to know whether there is one.
\* Mistake: no more than it can hold.
CandidatesOfPage(limit) == limit
Candidates(limit) == limit + 1

\* bounded_text: as many whole characters as fit.
WidthOf(body, n) == FoldLeft(LAMBDA x, y : x + y, 0, SubSeq(body, 1, n))
BoundedText(body, budget) == Max({n \in 0..Len(body) : WidthOf(body, n) <= budget})

\* Is there text left for another message?
\* Mistake: for a narrow character there is.
LeftForNarrow(remaining) == remaining >= 1
LeftForAny(remaining) == remaining >= 2

\* The cursor of the next page: the place of the last message of this one.
NextCursor(found, taken) == Key(found[taken])

\* agent_context.
ReadPage ==
    LET rows == SetToSortSeq({p \in posts : IsAfter(Key(p), walk.after)},
                             LAMBDA p, q : IsAfter(Key(q), Key(p)))
        found == SubSeq(rows, 1, Min({Len(rows), Candidates(walk.limit)}))
        remaining[i \in 0..Len(found)] ==
            IF i = 0 THEN walk.units
            ELSE remaining[i - 1]
                 - WidthOf(found[i].body, BoundedText(found[i].body, remaining[i - 1]))
        fits == {n \in 0..Min({Len(found), walk.limit}) :
                   \A i \in 0..(n - 1) : LeftForAny(remaining[i])}
        taken == Max(fits)
    IN /\ walk.on /\ ~walk.done
       /\ page' = [i \in 1..taken |->
                     [id |-> found[i].id, body |-> found[i].body,
                      kept |-> BoundedText(found[i].body, remaining[i - 1])]]
       /\ walk' = [walk EXCEPT !.seen = @ \o [i \in 1..taken |-> found[i].id],
                               !.done = taken = Len(found),
                               !.after = IF taken < Len(found) THEN NextCursor(found, taken) ELSE @]
       /\ UNCHANGED <<posts, spent>>

ContextNext ==
    \/ \E id \in Ids : DeletePost(id) \/ \E body \in Bodies : WritePost(id, body)
    \/ \E limit \in Limits, units \in TextBudgets : Pages(limit, units)
    \/ ReadPage

----------------------------------------------------------------------------
(* Properties.                                                             *)

\* Whatever is written and deleted between two pages, a walk that has come to its
\* end has shown every message that was there all along, and none twice.
WalkShowsEveryPostOnce ==
    walk.on => /\ IsInjective(walk.seen)
               /\ walk.done => walk.standing \subseteq ToSet(walk.seen)

\* Only the last message of a page is cut short, and only where its next character
\* had no room: one that is shown whole is not followed by the end of another.
OnlyTheLastIsCut ==
    \A i \in DOMAIN page : page[i].kept < Len(page[i].body) =>
      /\ i = Len(page)
      /\ MapThenSumSet(LAMBDA j : WidthOf(page[j].body, page[j].kept), DOMAIN page)
           + page[i].body[page[i].kept + 1] > walk.units

\* The pages of agent_context, walked by the client while messages come and go,
\* show the conversation: each message once, and whole but for the end of a page.
PagesAreFaithful == WalkShowsEveryPostOnce /\ OnlyTheLastIsCut
=============================================================================

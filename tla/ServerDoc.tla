----------------------------- MODULE ServerDoc -----------------------------
(***************************************************************************)
(* gal-ot's ServerDoc: the authoritative document, its revision and the    *)
(* bounded history that late ops are rebased over.  A ServerDoc is a       *)
(* record; its methods are operators.                                      *)
(*                                                                         *)
(* The delta algebra is a parameter, so that what is proved about the      *)
(* server holds for any algebra that satisfies InvertLaw; module Delta is  *)
(* the algebra of the code and satisfies it (see DeltaLaws).               *)
(***************************************************************************)
EXTENDS Integers, Sequences, SequencesExt

CONSTANTS
    Doc,                \* documents
    Change,             \* changes
    EmptyDoc,           \* Delta::new()
    OtCompose(_, _),      \* OtCompose(document, change)
    OtTransform(_, _),    \* OtTransform(committed, incoming): committed has priority
    OtInvert(_, _),       \* OtInvert(change, document)
    Valid(_, _),        \* Valid(change, document): validate() accepts
    MaxHistory          \* MAX_HISTORY

ASSUME EmptyDocAssumption == EmptyDoc \in Doc
ASSUME MaxHistoryAssumption == MaxHistory \in Nat \ {0}

\* The one law of the algebra the server leans on by itself: the inverse taken
\* against the document a change is applied to puts that document back.
ASSUME InvertLaw ==
    \A d \in Doc, c \in Change :
        Valid(c, d) => /\ OtInvert(c, d) \in Change
                       /\ OtCompose(OtCompose(d, c), OtInvert(c, d)) = d

\* The law that rebasing leans on: a change stays valid when it is transformed
\* over another that was valid for the same document.  Deltas is whatever
\* transforming can yield; for the code's algebra, every delta
\* (DeltaLaws!TransformConverges).
TransformLaw(Deltas) ==
    \A d \in Doc, c \in Change, x \in Deltas :
        Valid(c, d) /\ Valid(x, d) =>
            OtTransform(c, x) \in Deltas /\ Valid(OtTransform(c, x), OtCompose(d, c))

Entry == [revision : Nat, delta : Change, undo : Change]
ServerDocs == [content : Doc, revision : Nat, history : Seq(Entry)]

FromSnapshot(content, revision) ==
    [content |-> content, revision |-> revision, history |-> <<>>]

OldestRetained(doc) ==
    IF doc.history = <<>> THEN doc.revision ELSE Head(doc.history).revision - 1

\* Mistake: the oldest revision that can be rebased is refused.
InWindowStrict(doc, since) == since <= doc.revision /\ since > OldestRetained(doc)

\* RevisionInFuture and RevisionTooOld are the two ways out of this window.
InWindow(doc, since) == since <= doc.revision /\ since >= OldestRetained(doc)

\* Mistake: the first op committed after `since` is taken for seen.
RebaseSkipsOne(doc, since, change) ==
    FoldLeft(LAMBDA rebased, entry :
                IF entry.revision > since + 1 THEN OtTransform(entry.delta, rebased) ELSE rebased,
             change, doc.history)

\* The incoming change rewritten over everything committed after `since`.
Rebase(doc, since, change) ==
    FoldLeft(LAMBDA rebased, entry :
                IF entry.revision > since THEN OtTransform(entry.delta, rebased) ELSE rebased,
             change, doc.history)

\* pop_front while the history is longer than MAX_HISTORY.
Trim(history) ==
    IF Len(history) > MaxHistory THEN Tail(history) ELSE history

\* `apply` once the revision is in the window and the rebased change is valid.
Apply(doc, rebased) ==
    [content |-> OtCompose(doc.content, rebased),
     revision |-> doc.revision + 1,
     history |-> Trim(Append(doc.history,
        [revision |-> doc.revision + 1,
         delta |-> rebased,
         undo |-> OtInvert(rebased, doc.content)]))]

RollbackLast(doc) ==
    IF doc.history = <<>> THEN doc
    ELSE [content |-> OtCompose(doc.content, Last(doc.history).undo),
          revision |-> doc.revision - 1,
          history |-> Front(doc.history)]

\* Mistake: the op that made the revision is undone too.
AtRevisionTooFar(doc, revision) ==
    FoldRight(LAMBDA entry, content :
                IF entry.revision >= revision THEN OtCompose(content, entry.undo) ELSE content,
              doc.history, doc.content)

\* at_revision, for a revision from OldestRetained to the current one.
AtRevision(doc, revision) ==
    FoldRight(LAMBDA entry, content :
                IF entry.revision > revision THEN OtCompose(content, entry.undo) ELSE content,
              doc.history, doc.content)
=============================================================================

----------------------------- MODULE DeltaLaws -----------------------------
(***************************************************************************)
(* What the delta algebra promises, checked on every document of up to     *)
(* MaxChars characters and every pair of concurrent changes to it drawn    *)
(* from Changes.  The reference is a document as a plain sequence of       *)
(* units, each with a total formatting function; it shares no code with    *)
(* the op iterators, the canonical form or the attribute maps of Delta.    *)
(***************************************************************************)
EXTENDS Delta

CONSTANT
    MaxChars    \* bound: characters of the base document

VARIABLES
    doc,        \* the document both changes are written against
    a,          \* a change to doc
    b           \* a concurrent change to doc

changes == <<doc, a, b>>

Keys == {"bold", "link"}
Bold == [k \in {"bold"} |-> "on"]
Unbold == [k \in {"bold"} |-> Null]
BoldLink == [k \in Keys |-> "on"]

\* One-character documents: plain text, formatted wide text, an embed.
Cells == {Insert(<<"x">>, NoAttrs), Insert(<<"W">>, Bold), Embed("image", NoAttrs)}
Docs == {FromOps(cells) : cells \in UNION {[1..n -> Cells] : n \in 0..MaxChars}}

-----------------------------------------------------------------------------
(* Changes to a document: every character is kept, reformatted or deleted, *)
(* and at most one run is inserted, in any gap.                            *)

CharSpans(d) ==
    FoldLeft(LAMBDA spans, op : spans \o [i \in DOMAIN op.text |-> Width(op.text[i])], <<>>, d)

SpanOp(width, choice) ==
    IF choice = "delete" THEN Delete(width)
    ELSE Retain(width, CASE choice = "keep" -> NoAttrs
                         [] choice = "bold" -> Bold
                         [] choice = "unbold" -> Unbold
                         [] choice = "boldlink" -> BoldLink)

Edits(spans, choice) == [i \in DOMAIN spans |-> SpanOp(spans[i], choice[i])]

Changes(d, styles, inserted) ==
    LET spans == CharSpans(d)
        edits == {Edits(spans, choice) : choice \in [DOMAIN spans -> styles]}
    IN  {Chop(FromOps(e)) : e \in edits}
            \cup {Chop(FromOps(InsertAt(e, gap, inserted))) :
                    e \in edits, gap \in 1..(Len(spans) + 1)}

LawsInit == doc \in Docs /\ a = <<>> /\ b = <<>>

WriteA ==
    /\ a = <<>> /\ b = <<>>
    /\ a' \in Changes(doc, {"keep", "bold", "unbold", "delete"}, Insert(<<"p">>, Bold))
    /\ UNCHANGED <<doc, b>>

WriteB ==
    /\ b = <<>>
    /\ b' \in Changes(doc, {"keep", "unbold", "boldlink", "delete"}, Insert(<<"V">>, NoAttrs))
    /\ UNCHANGED <<doc, a>>

Write == WriteA \/ WriteB

-----------------------------------------------------------------------------
(* The reference: a document as a sequence of styled units.                *)

Style(attrs) == [k \in Keys |-> IF k \in DOMAIN attrs THEN attrs[k] ELSE Null]
Restyle(unit, attrs) ==
    [unit EXCEPT !.style = [k \in Keys |-> IF k \in DOMAIN attrs THEN attrs[k] ELSE @[k]]]

CharUnits(char, attrs) ==
    [i \in 1..Width(char) |-> [char |-> char, part |-> i, style |-> Style(attrs)]]
OpUnits(op) == FoldLeft(LAMBDA us, char : us \o CharUnits(char, op.attrs), <<>>, op.text)
Units(d) == FoldLeft(LAMBDA us, op : us \o OpUnits(op), <<>>, d)

RefStep(acc, op) ==
    CASE op.kind = "insert" -> [acc EXCEPT !.out = @ \o OpUnits(op)]
      [] op.kind = "delete" -> [acc EXCEPT !.rest = SubSeq(@, op.n + 1, Len(@))]
      [] op.kind = "retain" ->
            [out |-> acc.out \o [i \in 1..op.n |-> Restyle(acc.rest[i], op.attrs)],
             rest |-> SubSeq(acc.rest, op.n + 1, Len(acc.rest))]

\* The units a change to those units produces, one unit at a time.
RefApply(units, change) ==
    LET end == FoldLeft(RefStep, [out |-> <<>>, rest |-> units], change)
    IN  end.out \o end.rest

\* Where inserted text sits, in base offsets, and which base units survive.
InsertedBefore(change, index, priority) ==
    FoldLeft(LAMBDA n, i :
        LET at == BaseLength(SubSeq(change, 1, i))
        IN  IF change[i].kind = "insert" /\ (at < index \/ (at = index /\ ~priority))
            THEN n + OpLen(change[i]) ELSE n,
        0, [i \in DOMAIN change |-> i])
DeletedBefore(change, index) ==
    Cardinality({u \in 1..index : \E i \in DOMAIN change :
        /\ change[i].kind = "delete"
        /\ u > BaseLength(SubSeq(change, 1, i - 1))
        /\ u <= BaseLength(SubSeq(change, 1, i))})

-----------------------------------------------------------------------------
(* Properties.                                                             *)

\* Applying a change a client may write is always accepted by `validate`, and
\* `compose(document, change)` inserts, removes and restyles exactly the units
\* the change names (delta.rs `compose`, `validate`, `attributes::compose`).
ComposeApplies ==
    /\ Validate(a, doc)
    /\ LET after == Compose(doc, a)
       IN  IsDocument(after) /\ Units(after) = RefApply(Units(doc), a)

\* The transformation property lib.rs states: two concurrent changes give the
\* same document, op for op, in whichever order they are applied, and the
\* rewritten change is one the server accepts.
TransformConverges ==
    LET afterA == Compose(doc, a)
        afterB == Compose(doc, b)
        laterB == Transform(a, b, TRUE)
        laterA == Transform(b, a, FALSE)
    IN  /\ Validate(laterB, afterA)
        /\ Validate(laterA, afterB)
        /\ Compose(afterA, laterB) = Compose(afterB, laterA)

\* `compose` of two changes acts like one after the other, and is accepted where
\* the first was: what the browser does when it folds keystrokes into the buffer
\* behind an unacknowledged op.
ComposeAssociates ==
    LET later == Transform(a, b, TRUE)
        both == Compose(a, later)
    IN  Validate(both, doc) /\ Compose(doc, both) = Compose(Compose(doc, a), later)

\* `invert` captured before a change restores the document op for op, which
\* is what rollback_last and backward playback rest on.
InvertRestores ==
    /\ Validate(Invert(a, doc), Compose(doc, a))
    /\ Compose(Compose(doc, a), Invert(a, doc)) = doc

\* A cursor moves with the text around it: by what was inserted before it
\* (and, without priority, at it) less what was deleted before it.
CursorFollowsText ==
    \A index \in Boundaries(doc), priority \in BOOLEAN :
        TransformPosition(a, index, priority)
            = index + InsertedBefore(a, index, priority) - DeletedBefore(a, index)

\* The laws about one change are looked at once for each: before b is written.
OneChange == b = <<>>

\* The laws of composition: `compose` is what the reference editor does, edits may
\* be folded in any order, and `invert` undoes; ServerDoc, its log and its rollback
\* stand on these.
ComposeLaws == (OneChange => ComposeApplies /\ InvertRestores) /\ ComposeAssociates

\* The laws of transformation: both orders of two concurrent edits end in one
\* document, and a caret stays with the text around it.
TransformLaws == (OneChange => CursorFollowsText) /\ TransformConverges
=============================================================================

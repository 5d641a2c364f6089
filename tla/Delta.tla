------------------------------- MODULE Delta -------------------------------
(***************************************************************************)
(* The delta algebra of crates/gal-ot: documents and changes are sequences *)
(* of insert / retain / delete ops with formatting attributes.  The        *)
(* browser's web/ot.js implements the same algebra.                        *)
(*                                                                         *)
(* Text is a sequence of characters; a character of WideChars occupies two *)
(* UTF-16 units, every other one occupies one.  An embed is an insert of   *)
(* one unit that never merges and is never split.                          *)
(***************************************************************************)
EXTENDS Integers, Sequences, SequencesExt, FiniteSetsExt, Functions

CONSTANTS
    WideChars,  \* characters that are a surrogate pair in UTF-16
    Infinity    \* usize::MAX: the length of an exhausted iterator

Null == "null"
NoAttrs == [k \in {} |-> Null]

-----------------------------------------------------------------------------
(* Attributes: a function from keys to values; Null stands for removal.    *)

\* Mistakes: the older value wins; a removal is dropped although it must survive.
ComposeAttrsOlderWins(a, b, keepNull) ==
    [k \in DOMAIN a \cup DOMAIN b |-> IF k \in DOMAIN a THEN a[k] ELSE b[k]]
ComposeAttrsNoNull(a, b, keepNull) ==
    LET fromB == {k \in DOMAIN b : b[k] # Null}
    IN  [k \in fromB \cup (DOMAIN a \ DOMAIN b) |->
            IF k \in DOMAIN b THEN b[k] ELSE a[k]]

ComposeAttrs(a, b, keepNull) ==
    LET fromB == {k \in DOMAIN b : keepNull \/ b[k] # Null}
    IN  [k \in fromB \cup (DOMAIN a \ DOMAIN b) |->
            IF k \in DOMAIN b THEN b[k] ELSE a[k]]

\* b passes untouched unless a has priority, which drops the keys a also sets.
TransformAttrs(a, b, priority) ==
    IF priority THEN Restrict(b, DOMAIN b \ DOMAIN a) ELSE b

\* Mistake: a key the change added is not removed again.
InvertAttrsKeepsAdded(attr, base) == Restrict(base, DOMAIN attr \cap DOMAIN base)

InvertAttrs(attr, base) ==
    LET changed == {k \in DOMAIN attr : k \in DOMAIN base => base[k] # attr[k]}
    IN  [k \in changed |-> IF k \in DOMAIN base THEN base[k] ELSE Null]

-----------------------------------------------------------------------------
(* Ops.                                                                    *)

Insert(text, attrs) ==
    [kind |-> "insert", embed |-> FALSE, text |-> text, n |-> 0, attrs |-> attrs]
Embed(object, attrs) ==
    [kind |-> "insert", embed |-> TRUE, text |-> <<object>>, n |-> 0, attrs |-> attrs]
Retain(n, attrs) ==
    [kind |-> "retain", embed |-> FALSE, text |-> <<>>, n |-> n, attrs |-> attrs]
Delete(n) ==
    [kind |-> "delete", embed |-> FALSE, text |-> <<>>, n |-> n, attrs |-> NoAttrs]

Width(char) == IF char \in WideChars THEN 2 ELSE 1
TextLen(text) == Len(text) + Cardinality({i \in DOMAIN text : text[i] \in WideChars})

OpLen(op) ==
    CASE op.kind # "insert" -> op.n
      [] op.embed -> 1
      [] OTHER -> TextLen(op.text)

SaturatingAdd(m, n) == Min({m + n, Infinity})

DeltaLen(ops) == FoldLeft(LAMBDA n, op : SaturatingAdd(n, OpLen(op)), 0, ops)

IsDocument(ops) == \A i \in 1..Len(ops) : ops[i].kind = "insert"

-----------------------------------------------------------------------------
(* Building a delta in canonical form.                                     *)

Merges(prev, new) ==
    /\ prev.attrs = new.attrs
    /\ prev.kind = new.kind
    /\ prev.kind = "insert" => ~prev.embed /\ ~new.embed
    /\ prev.kind # "delete"

Merged(prev, new) ==
    [prev EXCEPT !.text = @ \o new.text, !.n = SaturatingAdd(@, new.n)]

\* Append one op: adjacent deletes merge, an insert goes before a trailing
\* delete, and equal-attribute text or retains merge.
Push(ops, new) ==
    LET len == Len(ops)
        deleteLast == ops # <<>> /\ Last(ops).kind = "delete"
        at == IF deleteLast /\ new.kind = "insert" THEN len - 1 ELSE len
    IN  CASE OpLen(new) = 0 -> ops
          [] OpLen(new) # 0 /\ deleteLast /\ new.kind = "delete" ->
                [ops EXCEPT ![len].n = SaturatingAdd(@, new.n)]
          [] OTHER ->
                IF at > 0 /\ Merges(ops[at], new)
                THEN [ops EXCEPT ![at] = Merged(@, new)]
                ELSE SubSeq(ops, 1, at) \o <<new>> \o SubSeq(ops, at + 1, len)

FromOps(ops) == FoldLeft(Push, <<>>, ops)

Chop(ops) ==
    IF ops # <<>> /\ Last(ops).kind = "retain" /\ Last(ops).attrs = NoAttrs
    THEN Front(ops)
    ELSE ops

-----------------------------------------------------------------------------
(* OpIterator: what is left of a delta, with the units (offset) and the    *)
(* characters (chars) already taken from its first op.                     *)

Iter(ops) == [ops |-> ops, offset |-> 0, chars |-> 0]

PeekLength(it) ==
    IF it.ops = <<>> THEN Infinity ELSE OpLen(Head(it.ops)) - it.offset
PeekKind(it) == IF it.ops = <<>> THEN "retain" ELSE Head(it.ops).kind
HasNext(it) == PeekLength(it) < Infinity

\* advance_utf16: the first character boundary at or after `units` units.
Advance(text, from, units) ==
    Min({k \in from..Len(text) :
            k = Len(text) \/ TextLen(SubSeq(text, from + 1, k)) >= units})

\* The op that next(length) returns; an embed is returned whole.
Taken(it, length) ==
    LET op == Head(it.ops)
        take == Min({length, OpLen(op) - it.offset})
    IN  CASE it.ops = <<>> -> Retain(Infinity, NoAttrs)
          [] it.ops # <<>> /\ op.kind # "insert" -> [op EXCEPT !.n = take]
          [] it.ops # <<>> /\ op.kind = "insert" /\ op.embed -> op
          [] OTHER -> [op EXCEPT !.text =
                          SubSeq(@, it.chars + 1, Advance(@, it.chars, take))]

\* The iterator that next(length) leaves behind.
After(it, length) ==
    LET op == Head(it.ops)
        take == Min({length, OpLen(op) - it.offset})
    IN  CASE it.ops = <<>> -> it
          [] it.ops # <<>> /\ it.offset + take >= OpLen(op) -> Iter(Tail(it.ops))
          [] OTHER -> [it EXCEPT
                !.offset = @ + take,
                !.chars = IF op.kind = "insert" /\ ~op.embed
                          THEN Advance(op.text, @, take) ELSE @]

-----------------------------------------------------------------------------
(* The core algebra.                                                       *)

\* What compose emits for the overlap of opA and opB, `length` units long.
ComposeOverlap(out, opA, opB, length) ==
    CASE opB.kind = "retain" ->
            LET merged == ComposeAttrs(opA.attrs, opB.attrs, opA.kind = "retain")
            IN  Push(out, IF opA.kind = "insert"
                          THEN [opA EXCEPT !.attrs = merged]
                          ELSE Retain(length, merged))
      [] opB.kind = "delete" /\ opA.kind = "retain" -> Push(out, opB)
      [] OTHER -> out

RECURSIVE ComposeFrom(_, _, _)
ComposeFrom(ia, ib, out) ==
    LET length == Min({PeekLength(ia), PeekLength(ib)})
    IN  CASE ~HasNext(ia) /\ ~HasNext(ib) -> out
          [] PeekKind(ib) = "insert" /\ (HasNext(ia) \/ HasNext(ib)) ->
                ComposeFrom(ia, After(ib, Infinity), Push(out, Taken(ib, Infinity)))
          [] PeekKind(ib) # "insert" /\ PeekKind(ia) = "delete" ->
                ComposeFrom(After(ia, Infinity), ib, Push(out, Taken(ia, Infinity)))
          [] OTHER ->
                ComposeFrom(After(ia, length), After(ib, length),
                    ComposeOverlap(out, Taken(ia, length), Taken(ib, length), length))

Compose(a, b) == Chop(ComposeFrom(Iter(a), Iter(b), <<>>))

\* What transform emits for the overlap of opA and opB.
TransformOverlap(out, opA, opB, length, priority) ==
    CASE opA.kind = "delete" -> out
      [] opA.kind # "delete" /\ opB.kind = "delete" -> Push(out, opB)
      [] OTHER -> Push(out, Retain(length, TransformAttrs(opA.attrs, opB.attrs, priority)))

\* Mistake: both sides put the other's insert first.
InsertFirstAlways(ia, ib, priority) == PeekKind(ia) = "insert"

\* a's insert goes first when a has priority or b is not inserting here.
InsertFirst(ia, ib, priority) ==
    PeekKind(ia) = "insert" /\ (priority \/ PeekKind(ib) # "insert")

RECURSIVE TransformFrom(_, _, _, _)
TransformFrom(ia, ib, priority, out) ==
    LET length == Min({PeekLength(ia), PeekLength(ib)})
    IN  IF ~HasNext(ia) /\ ~HasNext(ib) THEN out
        ELSE IF InsertFirst(ia, ib, priority)
        THEN TransformFrom(After(ia, Infinity), ib, priority,
                 Push(out, Retain(OpLen(Taken(ia, Infinity)), NoAttrs)))
        ELSE IF PeekKind(ib) = "insert"
        THEN TransformFrom(ia, After(ib, Infinity), priority,
                 Push(out, Taken(ib, Infinity)))
        ELSE TransformFrom(After(ia, length), After(ib, length), priority,
                 TransformOverlap(out, Taken(ia, length), Taken(ib, length),
                                  length, priority))

\* b, written against the same document as a, rewritten to apply after a.
Transform(a, b, priority) == Chop(TransformFrom(Iter(a), Iter(b), priority, <<>>))

\* The ops of [start, end) of a document.
RECURSIVE SliceFrom(_, _, _, _, _)
SliceFrom(it, index, start, end, out) ==
    LET length == IF index < start THEN start - index ELSE end - index
        op == Taken(it, length)
    IN  IF index >= end \/ ~HasNext(it) THEN out
        ELSE SliceFrom(After(it, length), index + OpLen(op), start, end,
                       IF index < start THEN out ELSE Push(out, op))

Slice(doc, start, end) == SliceFrom(Iter(doc), 0, start, end, <<>>)

\* What invert emits for one op of the change that spans base units.
InvertSpan(out, op, base, at) ==
    LET restore(acc, baseOp) ==
            IF op.kind = "delete" THEN Push(acc, baseOp)
            ELSE Push(acc, Retain(OpLen(baseOp), InvertAttrs(op.attrs, baseOp.attrs)))
    IN  FoldLeft(restore, out, Slice(base, at, at + OpLen(op)))

InvertStep(acc, op, base) ==
    CASE op.kind = "insert" -> [acc EXCEPT !.out = Push(@, Delete(OpLen(op)))]
      [] op.kind = "retain" /\ op.attrs = NoAttrs ->
            [out |-> Push(acc.out, op), at |-> acc.at + op.n]
      [] OTHER -> [out |-> InvertSpan(acc.out, op, base, acc.at), at |-> acc.at + op.n]

\* The change that undoes `change` when applied after it to `base`.
Invert(change, base) ==
    Chop(FoldLeft(LAMBDA acc, op : InvertStep(acc, op, base),
                  [out |-> <<>>, at |-> 0], change).out)

\* Mistake: a deletion around the cursor takes all its length off the index.
PositionStepUnclamped(acc, op, priority) ==
    CASE acc.offset > acc.index -> acc
      [] acc.offset <= acc.index /\ op.kind = "delete" -> [acc EXCEPT !.index = @ - op.n]
      [] OTHER ->
            [offset |-> acc.offset + OpLen(op),
             index |-> IF op.kind = "insert" /\ (acc.offset < acc.index \/ ~priority)
                       THEN acc.index + OpLen(op) ELSE acc.index]

\* Where a cursor at `index` ends up.
PositionStep(acc, op, priority) ==
    CASE acc.offset > acc.index -> acc
      [] acc.offset <= acc.index /\ op.kind = "delete" ->
            [acc EXCEPT !.index = @ - Min({op.n, @ - acc.offset})]
      [] OTHER ->
            [offset |-> acc.offset + OpLen(op),
             index |-> IF op.kind = "insert" /\ (acc.offset < acc.index \/ ~priority)
                       THEN acc.index + OpLen(op) ELSE acc.index]

TransformPosition(ops, index, priority) ==
    FoldLeft(LAMBDA acc, op : PositionStep(acc, op, priority),
             [offset |-> 0, index |-> index], ops).index

\* The offsets of a document that are character boundaries.
Boundaries(doc) ==
    LET text == FoldLeft(LAMBDA t, op : t \o op.text, <<>>, doc)
    IN  {TextLen(SubSeq(text, 1, k)) : k \in 0..Len(text)}

BaseLength(ops) ==
    FoldLeft(LAMBDA n, op : IF op.kind = "insert" THEN n ELSE SaturatingAdd(n, op.n), 0, ops)

\* Every retain and delete of the change ends on a character boundary inside
\* the document: neither PastEnd nor SplitCharacter.
Validate(change, doc) ==
    \A i \in 1..Len(change) : BaseLength(SubSeq(change, 1, i)) \in Boundaries(doc)
=============================================================================

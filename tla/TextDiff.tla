------------------------------ MODULE TextDiff ------------------------------
(***************************************************************************)
(* Turning an edited text back into a change by a common prefix / suffix   *)
(* scan: `diff_text` of gal-ot, which walks characters, and `diffText` of  *)
(* web/ot.js with its twin `textChange` of web/editor.js, which walk       *)
(* UTF-16 units and step back where they cut a surrogate pair.             *)
(*                                                                         *)
(* A text is a sequence of characters; a character is the sequence of its  *)
(* UTF-16 units: one, or a high and a low surrogate.                       *)
(***************************************************************************)
EXTENDS Integers, Sequences, SequencesExt, FiniteSetsExt

CONSTANTS
    Narrow,     \* characters of one unit
    High, Low,  \* surrogate units
    MaxTextChars    \* bound: characters of a text

VARIABLES
    before,     \* the text the model holds
    after       \* the text the browser shows after the edit

texts == <<before, after>>

ASSUME SurrogatesAreDistinct ==
    Narrow \cap High = {} /\ Narrow \cap Low = {} /\ High \cap Low = {}

Characters == {<<c>> : c \in Narrow} \cup (High \X Low)
Texts == UNION {[1..n -> Characters] : n \in 0..MaxTextChars}
TextUnits(text) == FlattenSeq(text)

TextInit == before \in Texts /\ after = before

\* The browser edits freely: typing, pasting, replacing, undoing.
Edit == after = before /\ after' \in Texts /\ UNCHANGED before

-----------------------------------------------------------------------------
CommonPrefix(s, t) ==
    Max({n \in 0..Min({Len(s), Len(t)}) : SubSeq(s, 1, n) = SubSeq(t, 1, n)})

\* The longest common suffix of at most `limit` units.
CommonSuffix(s, t, limit) ==
    Max({n \in 0..Min({Len(s), Len(t)}) :
            /\ SubSeq(s, Len(s) - n + 1, Len(s)) = SubSeq(t, Len(t) - n + 1, Len(t))
            /\ Len(FlattenSeq(SubSeq(s, Len(s) - n + 1, Len(s)))) <= limit})

Shorter(s, t) == Min({Len(TextUnits(s)), Len(TextUnits(t))})

\* Mistakes: a prefix counted in units; a suffix that may run into the prefix.
RustPrefixByUnits(s, t) == CommonPrefix(TextUnits(s), TextUnits(t))
RustSuffixUnlimited(s, t) ==
    LET n == CommonSuffix(s, t, Shorter(s, t))
    IN  Len(TextUnits(SubSeq(s, Len(s) - n + 1, Len(s))))

\* diff_text: both scans move a whole character at a time.
RustPrefix(s, t) == Len(TextUnits(SubSeq(s, 1, CommonPrefix(s, t))))
RustSuffix(s, t) ==
    LET n == CommonSuffix(s, t, Shorter(s, t) - RustPrefix(s, t))
    IN  Len(TextUnits(SubSeq(s, Len(s) - n + 1, Len(s))))

\* diffText / textChange: both scans move one unit at a time, then step back
\* over a low surrogate after the prefix, over a high one that starts the suffix.
AsUnits(text) == [i \in 1..Len(TextUnits(text)) |-> <<TextUnits(text)[i]>>]
JsPrefix(s, t) ==
    LET n == CommonPrefix(TextUnits(s), TextUnits(t))
    IN  IF n > 0 /\ n < Len(TextUnits(s)) /\ TextUnits(s)[n + 1] \in Low THEN n - 1 ELSE n
\* Mistake: the suffix stops one unit short of the prefix.
JsSuffixShort(s, t) ==
    CommonSuffix(AsUnits(s), AsUnits(t), Max({0, Shorter(s, t) - JsPrefix(s, t) - 1}))

JsSuffix(s, t) ==
    LET n == CommonSuffix(AsUnits(s), AsUnits(t), Shorter(s, t) - JsPrefix(s, t))
    IN  IF n > 0 /\ TextUnits(s)[Len(TextUnits(s)) - n + 1] \in High THEN n - 1 ELSE n

\* The change both build: keep the prefix, replace what lies before the suffix.
Change(s, t, prefix, suffix) ==
    [retain |-> prefix,
     delete |-> Len(TextUnits(s)) - prefix - suffix,
     insert |-> SubSeq(TextUnits(t), prefix + 1, Len(TextUnits(t)) - suffix)]

RustChange(s, t) == Change(s, t, RustPrefix(s, t), RustSuffix(s, t))
JsChange(s, t) == Change(s, t, JsPrefix(s, t), JsSuffix(s, t))

-----------------------------------------------------------------------------
Applied(text, change) ==
    SubSeq(TextUnits(text), 1, change.retain) \o change.insert
        \o SubSeq(TextUnits(text), change.retain + change.delete + 1, Len(TextUnits(text)))

TextBoundaries(text) == {Len(TextUnits(SubSeq(text, 1, n))) : n \in 0..Len(text)}

\* Neither edge of the replaced range falls between two surrogates, on either
\* side: what `validate` refuses, and what the wire's strings cannot carry.
KeepsCharactersWhole(s, t, change) ==
    /\ {change.retain, change.retain + change.delete} \subseteq TextBoundaries(s)
    /\ {change.retain, change.retain + Len(change.insert)} \subseteq TextBoundaries(t)

-----------------------------------------------------------------------------
(* Properties.                                                             *)

\* The scanned ranges never overlap and the change turns `before` into
\* `after`, in both engines (delta.rs diff_text, ot.js diffText).
DiffReachesTheEdit ==
    /\ RustChange(before, after).delete >= 0 /\ JsChange(before, after).delete >= 0
    /\ Applied(before, RustChange(before, after)) = TextUnits(after)
    /\ Applied(before, JsChange(before, after)) = TextUnits(after)

\* The character-wise scan of diff_text never cuts a surrogate pair, although
\* its suffix is limited in units: a wide character that does not fit is left out.
RustDiffKeepsCharactersWhole ==
    KeepsCharactersWhole(before, after, RustChange(before, after))

\* Text without surrogate pairs: the two engines build the same change, so the
\* editor's own diff and the server library's agree on where the edit was.
EnginesAgreeOnNarrowText ==
    (\A i \in DOMAIN (before \o after) : Len((before \o after)[i]) = 1)
        => RustChange(before, after) = JsChange(before, after)

\* ot.js: "Never split a surrogate pair: the server rejects ops that would."
JsDiffKeepsCharactersWhole ==
    KeepsCharactersWhole(before, after, JsChange(before, after))

\* Both diffs produce the edit, `diff_text` never cuts a character, and the two
\* agree on narrow text.
DiffsAreRight ==
    DiffReachesTheEdit /\ RustDiffKeepsCharactersWhole /\ EnginesAgreeOnNarrowText
=============================================================================

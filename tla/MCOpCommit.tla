----------------------------- MODULE MCOpCommit -----------------------------
(* OpCommit on the delta algebra of the code, over short plain texts.      *)
EXTENDS OpCommit

D == INSTANCE Delta WITH WideChars <- {}, Infinity <- 1000

CONSTANTS
    MaxUnits,   \* MAX_BLIP_UNITS; a document one unit longer is too large
    Letters     \* the characters clients type

Text(s) == IF s = <<>> THEN <<>> ELSE <<D!Insert(s, D!NoAttrs)>>
MCDoc == {Text(s) : s \in UNION {[1..n -> Letters] : n \in 0..(MaxUnits + 1)}}

\* Type or delete one character, at any offset.
Skip(n) == IF n = 0 THEN <<>> ELSE <<D!Retain(n, D!NoAttrs)>>
Typing(at) == {Skip(at) \o <<D!Insert(<<letter>>, D!NoAttrs)>> : letter \in Letters}
Deleting(at) == {Skip(at) \o <<D!Delete(1)>>}
MCChange == {<<>>} \cup UNION {Typing(at) \cup Deleting(at) : at \in 0..(MaxUnits + 1)}

\* Type at the start, delete the first character.
MCSubmits == Typing(0) \cup Deleting(0)

\* Enough where only the fate of an op matters, not its rebasing.
MCTyping == Typing(0)

Symmetry == Permutations(Conns)

MCEmptyDoc == <<>>
MCCompose(d, c) == D!Compose(d, c)
MCTransform(committed, incoming) == D!Transform(committed, incoming, TRUE)
MCInvert(c, d) == D!Invert(c, d)
MCValid(c, d) == D!Validate(c, d)
MCTooLarge(d) == D!DeltaLen(d) > MaxUnits

\* Transforming moves an offset by one at most: this algebra has the law that the
\* proof about rebasing asks for.
MCDeltas == {<<>>} \cup UNION {Typing(at) \cup Deleting(at) : at \in 0..(MaxUnits + 2)}
ASSUME RebasingAssumption == MCSubmits \subseteq MCDeltas /\ TransformLaw(MCDeltas)
=============================================================================

------------------------------ MODULE MCCollab ------------------------------
(* Collab on the delta algebra of the code, over short plain texts.        *)
EXTENDS Collab

D == INSTANCE Delta WITH WideChars <- {}, Infinity <- 1000

\* Live sockets with every kind of edit, and typing through trouble.
MCBudgets == {[edits |-> 4, trouble |-> 0, deletes |-> TRUE],
              [edits |-> 2, trouble |-> 2, deletes |-> FALSE],
              [edits |-> 3, trouble |-> 1, deletes |-> FALSE]}
MCOneLetter == {[edits |-> 1, trouble |-> 1, deletes |-> FALSE]}
MCTwoLetters == {[edits |-> 2, trouble |-> 1, deletes |-> FALSE]}

MCDoc == {<<>>}    \* the algebra produces the others: Doc is not enumerated here
MCEmpty == <<>>
MCCompose(d, c) == D!Compose(d, c)
MCTransform(committed, incoming) == D!Transform(committed, incoming, TRUE)
MCYield(mine, theirs) == D!Transform(mine, theirs, FALSE)
MCInvert(c, d) == D!Invert(c, d)
MCValid(c, d) == D!Validate(c, d)

\* A user types the client's own character at any offset, or deletes one.
Skip(n) == IF n = 0 THEN <<>> ELSE <<D!Retain(n, D!NoAttrs)>>
MCEdits(c, d) ==
    {Skip(at) \o <<D!Insert(<<c>>, D!NoAttrs)>> : at \in 0..D!DeltaLen(d)}
    \cup {Skip(at) \o <<D!Delete(1)>> : at \in 0..(D!DeltaLen(d) - 1)}
MCRemoves(change) == \E i \in DOMAIN change : change[i].kind = "delete"

MCReaches(work, d) == D!BaseLength(work) <= D!DeltaLen(d)
MCTyped(change) ==
    FoldLeft(LAMBDA n, op : IF op.kind = "insert" THEN n + Len(op.text) ELSE n, 0, change)
MCCopies(c, d) ==
    FoldLeft(LAMBDA n, op : n + Cardinality({i \in DOMAIN op.text : op.text[i] = c}), 0, d)
=============================================================================

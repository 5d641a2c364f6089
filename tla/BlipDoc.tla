------------------------------ MODULE BlipDoc ------------------------------
(***************************************************************************)
(* The browser's BlipDoc (web/client.js): a document, the one op in flight *)
(* and the edits buffered behind it.  A BlipDoc is a record; its methods   *)
(* are operators, and what a method returns to be sent is Outgoing.        *)
(***************************************************************************)
EXTENDS ServerDoc

CONSTANTS
    Yield(_, _),    \* Yield(a, b): transform(a, b, false), b is the winner
    EmptyChange,    \* new Delta()
    NoChange,       \* null
    NoOp            \* no op id

\* opId counts newOpId() calls; a submission is identified by client and opId.
NewBlipDoc(content, revision) ==
    [doc |-> content, revision |-> revision, outstanding |-> NoChange,
     buffer |-> NoChange, opId |-> NoOp]

Synchronised(b) == b.outstanding = NoChange /\ b.buffer = NoChange

\* The op is sent now if none is in flight, else composed into the buffer.
ApplyLocal(b, delta, newOpId) ==
    IF b.outstanding = NoChange
    THEN [b EXCEPT !.doc = OtCompose(@, delta), !.outstanding = delta, !.opId = newOpId]
    ELSE [b EXCEPT !.doc = OtCompose(@, delta),
                   !.buffer = IF @ = NoChange THEN delta ELSE OtCompose(@, delta)]

\* Mistake: the buffer is left where it was.
ApplyRemoteForgetsBuffer(b, delta, revision) ==
    LET rebased == IF b.outstanding = NoChange THEN delta ELSE Yield(b.outstanding, delta)
    IN  [b EXCEPT !.doc = OtCompose(@, rebased),
                  !.revision = revision,
                  !.outstanding = IF @ = NoChange THEN @ ELSE OtTransform(delta, @)]

\* An op of somebody else, rebased past what the server has not seen yet.
ApplyRemote(b, delta, revision) ==
    LET rebased == IF b.outstanding = NoChange THEN delta ELSE Yield(b.outstanding, delta)
    IN  [b EXCEPT !.doc = OtCompose(@, IF b.buffer = NoChange THEN rebased
                                     ELSE Yield(b.buffer, rebased)),
                  !.revision = revision,
                  !.outstanding = IF @ = NoChange THEN @ ELSE OtTransform(delta, @),
                  !.buffer = IF @ = NoChange THEN @ ELSE OtTransform(rebased, @)]

\* Mistake: the buffered edits stay buffered.
AcknowledgeKeepsBuffer(b, revision, newOpId) ==
    [b EXCEPT !.revision = revision, !.outstanding = NoChange, !.opId = NoOp]

\* The op in flight is confirmed; the buffer, if any, goes next.
Acknowledge(b, revision, newOpId) ==
    [b EXCEPT !.revision = revision,
              !.outstanding = b.buffer,
              !.buffer = NoChange,
              !.opId = IF b.buffer = NoChange THEN NoOp ELSE newOpId]

PendingWork(b) ==
    CASE b.outstanding = NoChange -> b.buffer
      [] b.outstanding # NoChange /\ b.buffer = NoChange -> b.outstanding
      [] OTHER -> OtCompose(b.outstanding, b.buffer)
=============================================================================

-------------------------------- MODULE OpLog --------------------------------
(***************************************************************************)
(* What the edit pipeline promises of a blip's rows: a log and the         *)
(* document it replays to, which change together, one op at a time, and    *)
(* never back.  OpCommit implements this with a resident copy, stages,     *)
(* rollbacks and crashes.                                                  *)
(***************************************************************************)
EXTENDS Naturals

CONSTANTS
    Change,           \* changes
    EmptyDoc,         \* the document of a new blip
    OtCompose(_, _),  \* the document after a change
    Ids,              \* op ids
    NoId              \* the id of an op without one

VARIABLES
    log,        \* revision -> op id and change
    revision,   \* the newest revision
    snapshot,   \* the document at that revision
    acks        \* what clients were told: op id and revision

Init ==
    /\ log = [r \in {} |-> NoId]
    /\ revision = 0
    /\ snapshot = EmptyDoc
    /\ acks = {}

\* An op becomes the next revision, unless its id has one.
Append ==
    /\ revision' = revision + 1
    /\ \E op \in Ids, delta \in Change :
        /\ op = NoId \/ \A r \in DOMAIN log : log[r].op # op
        /\ log' = [r \in 1..(revision + 1) |->
                     IF r = revision + 1 THEN [op |-> op, delta |-> delta] ELSE log[r]]
        /\ snapshot' = OtCompose(snapshot, delta)
    /\ UNCHANGED acks

\* A client is told of an op that has a revision.
Acknowledge ==
    /\ \E r \in DOMAIN log : acks' = acks \cup {<<log[r].op, r>>}
    /\ UNCHANGED <<log, revision, snapshot>>

Next == Append \/ Acknowledge

Spec == Init /\ [][Next]_<<log, revision, snapshot, acks>>
==============================================================================

------------------------------ MODULE MCInbox ------------------------------
\* Two participants of a wave; one has it open in two tabs, the other is away.
EXTENDS Inbox

CONSTANT u1

MCOwner == [c \in Conns |-> u1]
=============================================================================

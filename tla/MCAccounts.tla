----------------------------- MODULE MCAccounts -----------------------------
\* A name and its numbered form; passwords alone, or the provider beside one
\* other request.
EXTENDS Accounts

MCNameOrder == <<"alice", "alice2">>
MCBudgets == {[requests |-> 3, starts |-> 0, refills |-> 0],
              [requests |-> 2, starts |-> 0, refills |-> 1],
              [requests |-> 2, starts |-> 1, refills |-> 0],
              [requests |-> 1, starts |-> 2, refills |-> 0]}
MCLongBudgets == {[requests |-> 4, starts |-> 0, refills |-> 0]}
=============================================================================

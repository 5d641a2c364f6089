--------------------------- MODULE SessionsProofs ---------------------------
(***************************************************************************)
(* Proofs about Sessions, for every set of tokens, sockets and requests    *)
(* (finite or not) and every bound on the sockets of an account; about     *)
(* Residency, for every set of sockets, agents and copies; and about       *)
(* Presence, for every set of tabs and posts.                              *)
(***************************************************************************)
EXTENDS Sessions, Residency, Presence, FiniteSetTheorems, TLAPS

Flushing == {c \in Conns : stage[c] = "flushing"}

(* The inductive invariant of the counters.  Only finitely many tasks hold *)
(* a slot or a writer, without which their number means nothing; then each *)
(* step that moves a socket moves one element of one of the two sets.      *)
Finite == IsFiniteSet(registered) /\ IsFiniteSet(Flushing)
CountInv == CountsAreTrue /\ Finite

-----------------------------------------------------------------------------
(* The counters.                                                           *)

LEMMA InitCounts == Init => CountInv
<1> SUFFICES ASSUME Init PROVE CountInv
  OBVIOUS
<1>1. TypeOK
  BY SessionsAssumption DEF Init, TypeOK, Stages, Kinds, Idle
<1>2. Flushing = {} /\ registered = {} /\ active = 0
  BY DEF Init, Flushing
<1>3. Finite
  BY <1>2, FS_EmptySet DEF Finite
<1>4. Cardinality(registered) = 0 /\ Cardinality(Flushing) = 0
  BY <1>2, FS_EmptySet
<1>5. registered = {c \in Conns : stage[c] \in Watching \cup {"registered", "leaving"}}
  BY DEF Init, Watching
<1>6. SlotsAreAccountedFor
  BY <1>2, <1>4, <1>5, SessionsAssumption DEF SlotsAreAccountedFor, Flushing
<1>7. CleanExitLosesNothing
  BY DEF Init, CleanExitLosesNothing
<1> QED BY <1>1, <1>3, <1>6, <1>7 DEF CountInv, CountsAreTrue

\* Every step keeps the types.
LEMMA TypeStep ==
    ASSUME CountInv, Next
    PROVE  TypeOK'
<1> USE DEF TypeOK, Stages, Kinds, GoTo, connVars, sessionVars
<1>0. TypeOK
  BY DEF CountInv, CountsAreTrue
<1>1. ASSUME NEW t \in Tokens, IssueSession(t) \/ Expire(t)
      PROVE  TypeOK'
  BY <1>0, <1>1 DEF IssueSession, Expire, CreateSession
<1>2. ASSUME NEW r \in Requests, RequestStep(r)
      PROVE  TypeOK'
  <2>1. CASE Revoke(r)
    BY <1>0, <2>1 DEF Revoke
  <2>2. CASE RevokeFails(r)
    BY <1>0, <2>2 DEF RevokeFails, Idle
  <2>3. CASE Disconnect(r)
    <3>1. kill' \in [Conns -> BOOLEAN]
      BY <1>0, <2>3 DEF Disconnect
    <3> QED BY <1>0, <2>3, <3>1 DEF Disconnect, Idle
  <2> QED BY <1>2, <2>1, <2>2, <2>3 DEF RequestStep
<1>3. ASSUME NEW r \in Requests, NEW kind \in Kinds, NEW t \in Tokens,
             Authenticate(r, kind, t)
      PROVE  TypeOK'
  BY <1>0, <1>3 DEF Authenticate
<1>4. ASSUME NEW c \in Conns, SocketStep(c)
      PROVE  TypeOK'
  <2>1. CASE Close(c)
    <3>1. c \in Flushing
      BY <2>1 DEF Close, Flushing
    <3>2. Cardinality(Flushing) \in Nat \ {0} /\ Cardinality(registered) \in Nat
      BY <3>1, FS_CardinalityType, FS_EmptySet DEF CountInv, Finite
    <3>3. active' \in Nat
      BY <2>1, <3>2 DEF Close, CountInv, CountsAreTrue, SlotsAreAccountedFor, Flushing
    <3> QED BY <1>0, <2>1, <3>3 DEF Close
  <2>2. CASE Register(c) \/ RefuseConn(c) \/ Unregister(c)
    BY <1>0, <2>2 DEF Register, RefuseConn, Unregister
  <2>3. CASE Recheck(c) \/ RecheckFails(c) \/ Welcome(c) \/ GreetingEnds(c)
    BY <1>0, <2>3 DEF Recheck, RecheckFails, Welcome, GreetingEnds
  <2>4. CASE CommandEnds(c) \/ Stop(c)
    BY <1>0, <2>4 DEF CommandEnds, Stop
  <2> QED BY <1>4, <2>1, <2>2, <2>3, <2>4 DEF SocketStep
<1>5. ASSUME NEW c \in Conns, Receive(c) \/ Hangup(c) \/ Overflow(c)
      PROVE  TypeOK'
  BY <1>0, <1>5 DEF Receive, Hangup, Overflow
<1>6. ASSUME NEW c \in Conns, NEW t \in Tokens, Upgrade(c, t)
      PROVE  TypeOK'
  BY <1>0, <1>6 DEF Upgrade
<1>7. CASE BeginShutdown \/ Drain \/ Deadline
  BY <1>0, <1>7 DEF BeginShutdown, Drain, Deadline
<1> QED BY <1>1, <1>2, <1>3, <1>4, <1>5, <1>6, <1>7 DEF Next

Slotted == Watching \cup {"registered", "leaving"}

\* A step that moves one socket between two stages that both hold a slot, or
\* both hold nothing, and counts nothing, keeps the accounts.
LEMMA MoveKeepsCounts ==
    ASSUME CountInv, exit = "running", exit' = exit, NEW c \in Conns, NEW s,
           stage' = [stage EXCEPT ![c] = s],
           s # "flushing", stage[c] # "flushing",
           s \in Slotted <=> stage[c] \in Slotted,
           UNCHANGED <<registered, active>>
    PROVE  (SlotsAreAccountedFor /\ CleanExitLosesNothing /\ Finite)'
<1>0. stage \in [Conns -> Stages]
  BY DEF CountInv, CountsAreTrue, TypeOK
<1>1. Flushing' = Flushing
  BY <1>0 DEF Flushing
<1>2. registered' = {d \in Conns : stage'[d] \in Slotted}
  BY <1>0 DEF CountInv, CountsAreTrue, SlotsAreAccountedFor, Slotted
<1>3. SlotsAreAccountedFor'
  BY <1>1, <1>2 DEF CountInv, CountsAreTrue, SlotsAreAccountedFor, Flushing, Slotted
<1>4. CleanExitLosesNothing'
  BY DEF CleanExitLosesNothing
<1>5. Finite'
  BY <1>1 DEF CountInv, Finite
<1> QED BY <1>3, <1>4, <1>5

\* A slot is taken only while one is free, and it is counted.
LEMMA RegisterKeepsCounts ==
    ASSUME CountInv, exit = "running", NEW c \in Conns, Register(c)
    PROVE  (SlotsAreAccountedFor /\ CleanExitLosesNothing /\ Finite)'
<1>0. /\ stage \in [Conns -> Stages]
      /\ registered = {d \in Conns : stage[d] \in Slotted}
      /\ active = Cardinality(registered) + Cardinality(Flushing)
      /\ IsFiniteSet(registered) /\ IsFiniteSet(Flushing)
  BY DEF CountInv, CountsAreTrue, TypeOK, SlotsAreAccountedFor, Flushing, Finite, Slotted
<1>1. Flushing' = Flushing
  BY <1>0 DEF Flushing, Register, GoTo
<1>2. registered' = {d \in Conns : stage'[d] \in Slotted}
  BY <1>0 DEF Register, GoTo, Slotted
<1>3. c \notin registered
  BY <1>0 DEF Register, Slotted, Watching
<1>4. /\ IsFiniteSet(registered')
      /\ Cardinality(registered') = Cardinality(registered) + 1
  BY <1>0, <1>3, FS_AddElement DEF Register
<1>5. Cardinality(registered) \in Nat /\ Cardinality(Flushing) \in Nat
  BY <1>0, FS_CardinalityType
<1>6. Cardinality(registered') <= MaxConns
  BY <1>4, <1>5, SessionsAssumption DEF Register
<1>7. active' = Cardinality(registered') + Cardinality(Flushing')
  BY <1>0, <1>1, <1>4, <1>5 DEF Register
<1>8. SlotsAreAccountedFor'
  BY <1>2, <1>6, <1>7 DEF SlotsAreAccountedFor, Flushing, Slotted
<1>9. CleanExitLosesNothing'
  BY DEF CleanExitLosesNothing, Register, sessionVars
<1> QED BY <1>0, <1>1, <1>4, <1>8, <1>9 DEF Finite

\* A slot is given back once; the task is still counted while it writes.
LEMMA UnregisterKeepsCounts ==
    ASSUME CountInv, exit = "running", NEW c \in Conns, Unregister(c)
    PROVE  (SlotsAreAccountedFor /\ CleanExitLosesNothing /\ Finite)'
<1>0. /\ stage \in [Conns -> Stages]
      /\ Cardinality(registered) <= MaxConns
      /\ registered = {d \in Conns : stage[d] \in Slotted}
      /\ active = Cardinality(registered) + Cardinality(Flushing)
      /\ IsFiniteSet(registered) /\ IsFiniteSet(Flushing)
  BY DEF CountInv, CountsAreTrue, TypeOK, SlotsAreAccountedFor, Flushing, Finite, Slotted
<1>1. Flushing' = Flushing \cup {c} /\ c \notin Flushing
  BY <1>0 DEF Flushing, Unregister, GoTo
<1>2. registered' = {d \in Conns : stage'[d] \in Slotted} /\ c \in registered
  BY <1>0 DEF Unregister, GoTo, Slotted, Watching
<1>3. /\ IsFiniteSet(registered')
      /\ Cardinality(registered') = Cardinality(registered) - 1
  BY <1>0, <1>2, FS_RemoveElement DEF Unregister
<1>4. /\ IsFiniteSet(Flushing')
      /\ Cardinality(Flushing') = Cardinality(Flushing) + 1
  BY <1>0, <1>1, FS_AddElement
<1>5. Cardinality(registered) \in Nat /\ Cardinality(Flushing) \in Nat
  BY <1>0, FS_CardinalityType
<1>6. Cardinality(registered') <= MaxConns
  BY <1>0, <1>3, <1>5, SessionsAssumption
<1>7. active' = Cardinality(registered') + Cardinality(Flushing')
  BY <1>0, <1>3, <1>4, <1>5 DEF Unregister
<1>8. SlotsAreAccountedFor'
  BY <1>2, <1>6, <1>7 DEF SlotsAreAccountedFor, Flushing, Slotted
<1>9. CleanExitLosesNothing'
  BY DEF CleanExitLosesNothing, Unregister, sessionVars
<1> QED BY <1>3, <1>4, <1>8, <1>9 DEF Finite

\* The gauge goes down when the writer is done, and only then.
LEMMA CloseKeepsCounts ==
    ASSUME CountInv, exit = "running", NEW c \in Conns, Close(c)
    PROVE  (SlotsAreAccountedFor /\ CleanExitLosesNothing /\ Finite)'
<1>0. /\ stage \in [Conns -> Stages]
      /\ registered = {d \in Conns : stage[d] \in Slotted}
      /\ active = Cardinality(registered) + Cardinality(Flushing)
      /\ IsFiniteSet(registered) /\ IsFiniteSet(Flushing)
  BY DEF CountInv, CountsAreTrue, TypeOK, SlotsAreAccountedFor, Flushing, Finite, Slotted
<1>1. Flushing' = Flushing \ {c} /\ c \in Flushing
  BY <1>0 DEF Flushing, Close, GoTo
<1>2. registered' = {d \in Conns : stage'[d] \in Slotted} /\ registered' = registered
  BY <1>0 DEF Close, GoTo, Slotted, Watching
<1>4. /\ IsFiniteSet(Flushing')
      /\ Cardinality(Flushing') = Cardinality(Flushing) - 1
  BY <1>0, <1>1, FS_RemoveElement
<1>5. Cardinality(registered) \in Nat /\ Cardinality(Flushing) \in Nat
  BY <1>0, FS_CardinalityType
<1>7. active' = Cardinality(registered') + Cardinality(Flushing')
  BY <1>0, <1>2, <1>4, <1>5 DEF Close
<1>8. SlotsAreAccountedFor'
  BY <1>2, <1>7 DEF SlotsAreAccountedFor, Flushing, Slotted, CountInv, CountsAreTrue
<1>9. CleanExitLosesNothing'
  BY DEF CleanExitLosesNothing, Close, sessionVars
<1> QED BY <1>0, <1>2, <1>4, <1>8, <1>9 DEF Finite

\* A gauge of zero is an empty house: no slot taken, and nobody writing.
LEMMA DrainKeepsCounts ==
    ASSUME CountInv, Drain
    PROVE  (SlotsAreAccountedFor /\ CleanExitLosesNothing /\ Finite)'
<1>0. /\ stage \in [Conns -> Stages]
      /\ registered = {d \in Conns : stage[d] \in Slotted}
      /\ 0 = Cardinality(registered) + Cardinality(Flushing)
      /\ IsFiniteSet(registered) /\ IsFiniteSet(Flushing)
  BY DEF CountInv, CountsAreTrue, TypeOK, SlotsAreAccountedFor, Flushing, Finite, Slotted, Drain
<1>1. Cardinality(registered) = 0 /\ Cardinality(Flushing) = 0
  BY <1>0, FS_CardinalityType
<1>2. registered = {} /\ Flushing = {}
  BY <1>0, <1>1, FS_EmptySet
<1>3. \A d \in Conns : stage[d] \in {"none", "upgrading", "closed"}
  BY <1>0, <1>2 DEF Flushing, Slotted, Watching, Stages
<1>4. CleanExitLosesNothing'
  BY <1>3 DEF CleanExitLosesNothing, Drain, connVars
<1>5. SlotsAreAccountedFor' /\ Finite'
  BY DEF SlotsAreAccountedFor, Finite, Flushing, Drain, connVars, CountInv, CountsAreTrue
<1> QED BY <1>4, <1>5

LEMMA NextCounts ==
    ASSUME CountInv, [Next]_vars
    PROVE  CountInv'
<1> DEFINE Goal == (SlotsAreAccountedFor /\ CleanExitLosesNothing /\ Finite)'
<1>0. ASSUME UNCHANGED <<stage, registered, active>>, exit' # "clean"
      PROVE  Goal
  BY <1>0 DEF CountInv, CountsAreTrue, SlotsAreAccountedFor, CleanExitLosesNothing, Finite, Flushing
<1>1. CASE UNCHANGED vars
  BY <1>1 DEF vars, connVars, CountInv, CountsAreTrue, TypeOK, SlotsAreAccountedFor,
              CleanExitLosesNothing, Finite, Flushing
<1>2. CASE Next
  <2>0. exit = "running"
    BY <1>2 DEF Next
  <2>1. ASSUME NEW t \in Tokens, IssueSession(t) \/ Expire(t)
        PROVE  Goal
    BY <1>0, <2>0, <2>1 DEF IssueSession, Expire, connVars
  <2>2. ASSUME NEW r \in Requests, RequestStep(r)
        PROVE  Goal
    BY <1>0, <2>0, <2>2 DEF RequestStep, Revoke, RevokeFails, Disconnect, connVars
  <2>3. ASSUME NEW r \in Requests, NEW kind \in Kinds, NEW t \in Tokens,
               Authenticate(r, kind, t)
        PROVE  Goal
    BY <1>0, <2>0, <2>3 DEF Authenticate, connVars
  <2>4. ASSUME NEW c \in Conns, SocketStep(c)
        PROVE  Goal
    <3>1. CASE RefuseConn(c)
      BY <2>0, <3>1, MoveKeepsCounts, Zenon DEF RefuseConn, GoTo, Slotted, Watching, sessionVars
    <3>2. CASE Recheck(c) \/ RecheckFails(c)
      BY <2>0, <3>2, MoveKeepsCounts DEF Recheck, RecheckFails, GoTo, Slotted, Watching, sessionVars
    <3>3. CASE Welcome(c) \/ GreetingEnds(c)
      BY <2>0, <3>3, MoveKeepsCounts DEF Welcome, GreetingEnds, GoTo, Slotted, Watching, sessionVars
    <3>4. CASE CommandEnds(c)
      <4>1. PICK s \in {"serving", "leaving"} : stage' = [stage EXCEPT ![c] = s]
        BY <3>4 DEF CommandEnds
      <4> QED BY <2>0, <3>4, <4>1, MoveKeepsCounts DEF CommandEnds, Slotted, Watching, sessionVars
    <3>5. CASE Stop(c)
      BY <2>0, <3>5, MoveKeepsCounts DEF Stop, GoTo, Slotted, Watching, sessionVars
    <3> QED BY <2>0, <2>4, <3>1, <3>2, <3>3, <3>4, <3>5, RegisterKeepsCounts,
               UnregisterKeepsCounts, CloseKeepsCounts DEF SocketStep
  <2>5. ASSUME NEW c \in Conns, Receive(c) \/ Hangup(c)
        PROVE  Goal
    BY <2>0, <2>5, MoveKeepsCounts DEF Receive, Hangup, GoTo, Slotted, Watching, sessionVars
  <2>6. ASSUME NEW c \in Conns, Overflow(c)
        PROVE  Goal
    BY <1>0, <2>0, <2>6 DEF Overflow, sessionVars
  <2>7. ASSUME NEW c \in Conns, NEW t \in Tokens, Upgrade(c, t)
        PROVE  Goal
    BY <2>0, <2>7, MoveKeepsCounts DEF Upgrade, GoTo, Slotted, Watching, sessionVars
  <2>8. ASSUME BeginShutdown \/ Deadline
        PROVE  Goal
    BY <1>0, <2>0, <2>8 DEF BeginShutdown, Deadline, connVars
  <2>9. ASSUME Drain
        PROVE  Goal
    BY <2>9, DrainKeepsCounts
  <2>10. Goal
    BY <1>2, <2>1, <2>2, <2>3, <2>4, <2>5, <2>6, <2>7, <2>8, <2>9 DEF Next
  <2> QED BY <1>2, <2>10, TypeStep DEF CountInv, CountsAreTrue
<1> QED BY <1>1, <1>2

\* The slots of register_conn, the gauge that drain_connections reads and the
\* promise of a clean exit hold whatever the number of sockets and the bound.
THEOREM CountsHold == Spec => []CountsAreTrue
<1>1. CountInv => CountsAreTrue
  BY DEF CountInv
<1> QED BY InitCounts, NextCounts, <1>1, PTL DEF Spec

-----------------------------------------------------------------------------
(* An ended session closes its sockets.  Two facts about the counters are  *)
(* what makes it inductive: a socket that is served holds a slot, so the   *)
(* request that ended its session finds it; and the session is read again  *)
(* after the slot is taken, so none slips in behind the request.           *)

\* What ends socket c: its permit, its timer, or a request that is about to.
Doomed(c) ==
    \/ Interrupted(c)
    \/ \E r \in Requests : request[r].at = "stored"
                           /\ token[c] \in Ends(request[r].kind, request[r].token)

\* A step that changes neither what a socket is served with nor what ends it
\* preserves the property when it lets no socket in.
LEMMA QuietStep ==
    ASSUME EndedSessionClosesItsSockets,
           UNCHANGED <<sessions, expired, token, request>>,
           \A c \in Conns : kill[c] => kill'[c],
           \A c \in Conns : stage'[c] \in Watching => stage[c] \in Watching \/ Valid(token[c])
    PROVE  EndedSessionClosesItsSockets'
BY DEF EndedSessionClosesItsSockets, Valid, Interrupted, Ends

\* A request that becomes or stays something other than "stored" takes no
\* reason away: only Disconnect ends a stored one.
LEMMA RequestStepCloses ==
    ASSUME CountInv, EndedSessionClosesItsSockets, Cancels = FALSE,
           NEW r \in Requests, RequestStep(r)
    PROVE  EndedSessionClosesItsSockets'
<1>0. TypeOK
  BY DEF CountInv, CountsAreTrue
<1>1. CASE Revoke(r)
  <2> SUFFICES ASSUME NEW c \in Conns, (stage[c] \in Watching)', ~Valid(token[c])'
               PROVE  Doomed(c)'
    BY DEF EndedSessionClosesItsSockets, Doomed
  <2>1. UNCHANGED <<expired, stage, token, kill>>
    BY <1>1 DEF Revoke, connVars
  <2>2. request'[r].at = "stored" /\ request'[r].kind = request[r].kind
        /\ request'[r].token = request[r].token
    BY <1>0, <1>1 DEF Revoke, TypeOK
  <2>3. CASE Valid(token[c])
    BY <1>1, <2>1, <2>2, <2>3 DEF Revoke, Valid, Doomed
  <2>4. CASE ~Valid(token[c])
    <3>1. Doomed(c)
      BY <2>1, <2>4 DEF EndedSessionClosesItsSockets, Doomed
    <3>2. CASE Interrupted(c)
      BY <2>1, <3>2 DEF Doomed, Interrupted
    <3>3. ASSUME NEW q \in Requests, request[q].at = "stored",
                 token[c] \in Ends(request[q].kind, request[q].token)
          PROVE  Doomed(c)'
      <4>1. request'[q].at = "stored" /\ request'[q].kind = request[q].kind
            /\ request'[q].token = request[q].token
        BY <1>0, <1>1, <3>3 DEF Revoke, TypeOK
      <4> QED BY <2>1, <3>3, <4>1 DEF Doomed
    <3> QED BY <3>1, <3>2, <3>3 DEF Doomed
  <2> QED BY <2>3, <2>4
<1>2. CASE RevokeFails(r)
  <2> SUFFICES ASSUME NEW c \in Conns, (stage[c] \in Watching)', ~Valid(token[c])'
               PROVE  Doomed(c)'
    BY DEF EndedSessionClosesItsSockets, Doomed
  <2>1. UNCHANGED <<sessions, expired, stage, token, kill>>
    BY <1>2 DEF RevokeFails, connVars
  <2>2. Doomed(c)
    BY <2>1 DEF EndedSessionClosesItsSockets, Doomed, Valid
  <2>3. CASE Interrupted(c)
    BY <2>1, <2>3 DEF Doomed, Interrupted
  <2>4. ASSUME NEW q \in Requests, request[q].at = "stored",
               token[c] \in Ends(request[q].kind, request[q].token)
        PROVE  Doomed(c)'
    <3>1. q # r
      BY <1>2, <2>4 DEF RevokeFails
    <3>2. request'[q] = request[q]
      BY <1>0, <1>2, <3>1 DEF RevokeFails, TypeOK
    <3> QED BY <2>1, <2>4, <3>2 DEF Doomed
  <2> QED BY <2>2, <2>3, <2>4 DEF Doomed
<1>3. CASE Disconnect(r)
  <2> SUFFICES ASSUME NEW c \in Conns, (stage[c] \in Watching)', ~Valid(token[c])'
               PROVE  Doomed(c)'
    BY DEF EndedSessionClosesItsSockets, Doomed
  <2>1. UNCHANGED <<sessions, expired, stage, token>>
    BY <1>3 DEF Disconnect
  <2>2. Doomed(c)
    BY <2>1 DEF EndedSessionClosesItsSockets, Doomed, Valid
  <2>3. kill'[c] = (kill[c] \/ (c \in registered
                        /\ token[c] \in Ends(request[r].kind, request[r].token)))
    BY <1>3 DEF Disconnect
  <2>4. c \in registered
    BY <2>1 DEF CountInv, CountsAreTrue, SlotsAreAccountedFor
  <2>5. CASE Interrupted(c)
    BY <2>1, <2>3, <2>5 DEF Doomed, Interrupted
  <2>6. ASSUME NEW q \in Requests, request[q].at = "stored",
               token[c] \in Ends(request[q].kind, request[q].token)
        PROVE  Doomed(c)'
    <3>1. CASE q = r
      BY <2>3, <2>4, <2>6, <3>1 DEF Doomed, Interrupted
    <3>2. CASE q # r
      <4>1. request'[q] = request[q]
        BY <1>0, <1>3, <3>2 DEF Disconnect, TypeOK
      <4> QED BY <2>1, <2>6, <4>1 DEF Doomed
    <3> QED BY <3>1, <3>2
  <2> QED BY <2>2, <2>5, <2>6 DEF Doomed
<1> QED BY <1>1, <1>2, <1>3 DEF RequestStep

LEMMA NextCloses ==
    ASSUME CountInv, EndedSessionClosesItsSockets, Cancels = FALSE, [Next]_vars
    PROVE  EndedSessionClosesItsSockets'
<1> DEFINE Goal == EndedSessionClosesItsSockets'
<1>0. TypeOK
  BY DEF CountInv, CountsAreTrue
<1>a. \A c \in Conns : kill[c] \in BOOLEAN
  BY <1>0 DEF TypeOK
<1>1. CASE UNCHANGED vars
  BY <1>1, QuietStep DEF vars, connVars
<1>2. ASSUME NEW t \in Tokens, IssueSession(t)
      PROVE  Goal
  \* Only rows that have expired are swept, and their timers have fired.
  BY <1>2 DEF IssueSession, CreateSession, connVars, EndedSessionClosesItsSockets,
              Valid, Interrupted
<1>3. ASSUME NEW t \in Tokens, Expire(t)
      PROVE  Goal
  BY <1>3 DEF Expire, connVars, EndedSessionClosesItsSockets, Valid, Interrupted
<1>4. ASSUME NEW r \in Requests, NEW kind \in Kinds, NEW t \in Tokens,
             Authenticate(r, kind, t)
      PROVE  Goal
  <2> SUFFICES ASSUME NEW c \in Conns, (stage[c] \in Watching)', ~Valid(token[c])'
               PROVE  Doomed(c)'
    BY DEF EndedSessionClosesItsSockets, Doomed
  <2>1. UNCHANGED <<sessions, expired, stage, token, kill>>
    BY <1>4 DEF Authenticate, connVars
  <2>2. Doomed(c)
    BY <2>1 DEF EndedSessionClosesItsSockets, Doomed, Valid
  <2>3. CASE Interrupted(c)
    BY <2>1, <2>3 DEF Doomed, Interrupted
  <2>4. ASSUME NEW q \in Requests, request[q].at = "stored",
               token[c] \in Ends(request[q].kind, request[q].token)
        PROVE  Doomed(c)'
    <3>1. q # r
      BY <1>4, <2>4 DEF Authenticate
    <3>2. request'[q] = request[q]
      BY <1>0, <1>4, <3>1 DEF Authenticate, TypeOK
    <3> QED BY <2>1, <2>4, <3>2 DEF Doomed
  <2> QED BY <2>2, <2>3, <2>4 DEF Doomed
<1>5. ASSUME NEW c \in Conns, SocketStep(c) \/ Receive(c) \/ Hangup(c)
      PROVE  Goal
  <2>1. UNCHANGED <<sessions, expired, token, request, kill>>
    BY <1>5 DEF SocketStep, Register, RefuseConn, Recheck, RecheckFails, Welcome,
                GreetingEnds, CommandEnds, Stop, Unregister, Close, Receive, Hangup, sessionVars
  <2>2. PICK s \in Stages : /\ stage' = [stage EXCEPT ![c] = s]
                            /\ s \in Watching => stage[c] \in Watching \/ Valid(token[c])
    <3>1. CASE Recheck(c)
      BY <3>1 DEF Recheck, GoTo, Stages
    <3>2. CASE CommandEnds(c)
      BY <3>2 DEF CommandEnds, Stages, Watching
    <3>3. CASE Welcome(c) \/ Receive(c) \/ Stop(c) \/ Hangup(c) \/ GreetingEnds(c)
      BY <3>3 DEF Welcome, Receive, Stop, Hangup, GreetingEnds, GoTo, Stages, Watching
    <3>4. CASE Register(c) \/ RefuseConn(c) \/ RecheckFails(c) \/ Unregister(c) \/ Close(c)
      BY <3>4 DEF Register, RefuseConn, RecheckFails, Unregister, Close, GoTo, Stages, Watching
    <3> QED BY <1>5, <3>1, <3>2, <3>3, <3>4 DEF SocketStep
  <2>3. \A d \in Conns : stage'[d] \in Watching => stage[d] \in Watching \/ Valid(token[d])
    BY <1>0, <2>2 DEF TypeOK
  <2> QED BY <2>1, <2>3, QuietStep
<1>6. ASSUME NEW c \in Conns, Overflow(c)
      PROVE  Goal
  <2>1. \A d \in Conns : kill[d] => kill'[d]
    BY <1>0, <1>6 DEF Overflow, TypeOK
  <2> QED BY <1>6, <2>1, QuietStep DEF Overflow, sessionVars
<1>7. ASSUME NEW c \in Conns, NEW t \in Tokens, Upgrade(c, t)
      PROVE  Goal
  <2>1. ASSUME NEW d \in Conns, stage'[d] \in Watching
        PROVE  stage[d] = stage'[d] /\ token'[d] = token[d]
    BY <1>0, <1>7, <2>1 DEF Upgrade, GoTo, Watching, TypeOK
  <2> QED BY <1>7, <2>1 DEF Upgrade, sessionVars, EndedSessionClosesItsSockets, Valid, Interrupted
<1>8. ASSUME BeginShutdown \/ Drain \/ Deadline
      PROVE  Goal
  BY <1>8, QuietStep DEF BeginShutdown, Drain, Deadline, connVars
<1> QED BY <1>1, <1>2, <1>3, <1>4, <1>5, <1>6, <1>7, <1>8, RequestStepCloses DEF Next

\* state.rs:838 with ws.rs:208: when handlers run to their end, no socket goes
\* on being served with a session that is gone, however many sockets, sessions
\* and requests race.  (When a caller may go away while the database works,
\* the request may never tell: Sessions_cancel.cfg shows it.)
THEOREM EndedSessionsHold ==
    ASSUME Cancels = FALSE
    PROVE  Spec => []EndedSessionClosesItsSockets
<1>1. Init => EndedSessionClosesItsSockets
  BY DEF Init, EndedSessionClosesItsSockets, Watching
<1>2. CountInv /\ EndedSessionClosesItsSockets /\ [Next]_vars => EndedSessionClosesItsSockets'
  BY NextCloses
<1> QED BY InitCounts, NextCounts, <1>1, <1>2, PTL DEF Spec

-----------------------------------------------------------------------------
(* Residency.  For any number of sockets, agents and copies: one live      *)
(* copy, both locks exclude, and the resident copy misses no reply.        *)

\* Who acts through a copy has one.
Holds ==
    \A t \in Tasks :
        at[t] \in {"lock", "apply", "commit", "reply", "evictLock", "panicLock"} => arc[t] # None

\* Nothing is resident while somebody loads; what is being evicted is resident.
MapIsHeld ==
    \A t \in Tasks :
        /\ at[t] = "insert" => resident = None /\ "reply" \notin read[t]
        /\ at[t] \in {"evictLock", "panicLock"} => arc[t] = resident

\* A reply is written through the resident copy.
ReplyingToResident == \A a \in Agents : at[a] = "reply" => arc[a] = resident

\* Only connections edit, only agents reply.
Roles ==
    /\ \A a \in Agents : at[a] \notin {"apply", "commit"}
    /\ \A c \in Sockets : at[c] # "reply"

\* Somebody answers for the resident copy: a watcher, or a task that will look at
\* it again.  Who is subscribed to it watches, or is about to unsubscribe.
Answered ==
    refused = {} =>
        /\ resident # None => \E t \in Tasks : t \in watching \/ at[t] # "idle"
        /\ \A c \in Sockets :
              /\ resident # None /\ c \in subs[resident] /\ c \notin watching
                     => /\ goal[c] = "leave"
                        /\ at[c] = "get" \/ (at[c] = "lock" /\ arc[c] = resident)
              /\ goal[c] = "find" \/ at[c] \in {"apply", "commit"} => c \in watching

ResidencyInv ==
    /\ ResidencyTypeOK /\ OneLiveCopy /\ LocksExclude /\ ResidentHasEveryReply
    /\ Holds /\ MapIsHeld /\ ReplyingToResident /\ Roles /\ Answered

\* The inductive step: every action of Residency preserves ResidencyInv.
LEMMA NextKeepsResidency == ResidencyInv /\ [ResidencyNext]_residencyVars => ResidencyInv'
<1> SUFFICES ASSUME ResidencyInv, [ResidencyNext]_residencyVars PROVE ResidencyInv'
  OBVIOUS
<1> USE NoneIsNothing, SocketsAreNotAgents
    DEF ResidencyInv, ResidencyTypeOK, OneLiveCopy, LocksExclude, ResidentHasEveryReply, Holds,
        MapIsHeld,
        ReplyingToResident, Roles, Answered, Tasks, Steps, Goals, Goto
<1>1. ASSUME NEW c \in Sockets, StartOpen(c) PROVE ResidencyInv'
  BY <1>1 DEF StartOpen, Start
<1>2. ASSUME NEW c \in Sockets, StartEdit(c) PROVE ResidencyInv'
  BY <1>2 DEF StartEdit, Start
<1>3. ASSUME NEW c \in Sockets, StartLeave(c) PROVE ResidencyInv'
  BY <1>3 DEF StartLeave, Start
<1>4. ASSUME NEW c \in Sockets, End(c) PROVE ResidencyInv'
  BY <1>4 DEF End
<1>5. ASSUME NEW c \in Sockets, Reopen(c) PROVE ResidencyInv'
  BY <1>5 DEF Reopen, Enters, Unlocked
<1>6. ASSUME NEW c \in Sockets, OpenRefused(c) PROVE ResidencyInv'
  BY <1>6 DEF OpenRefused, Enters, Unlocked, Finish
<1>7. ASSUME NEW c \in Sockets, Attach(c) PROVE ResidencyInv'
  BY <1>7 DEF Attach, Enters, Unlocked, Finish, Tell
<1>8. ASSUME NEW c \in Sockets, Find(c) PROVE ResidencyInv'
  BY <1>8 DEF Find, Enters, Unlocked
<1>9. ASSUME NEW c \in Sockets, ApplyOp(c) PROVE ResidencyInv'
  BY <1>9 DEF ApplyOp, Unlocked
<1>10. ASSUME NEW c \in Sockets, Commit(c) PROVE ResidencyInv'
  BY <1>10 DEF Commit, Finish, Tell, Written, Writes
<1>11. ASSUME NEW c \in Sockets, Leave(c) PROVE ResidencyInv'
  BY <1>11 DEF Leave, Enters, Unlocked, Tell
<1>12. ASSUME NEW a \in Agents, StartReply(a) PROVE ResidencyInv'
  BY <1>12 DEF StartReply, Start
<1>13. ASSUME NEW a \in Agents, ReplyAgain(a) PROVE ResidencyInv'
  BY <1>13 DEF ReplyAgain, Enters, Unlocked
<1>14. ASSUME NEW a \in Agents, ReplyLocks(a) PROVE ResidencyInv'
  BY <1>14 DEF ReplyLocks, Enters, Unlocked
<1>15. ASSUME NEW a \in Agents, Reply(a) PROVE ResidencyInv'
  BY <1>15 DEF Reply, Tell, Written, Writes
<1>16. ASSUME NEW t \in Tasks, GetResident(t) PROVE ResidencyInv'
  BY <1>16 DEF GetResident
<1>17. ASSUME NEW t \in Tasks, GetNothing(t) PROVE ResidencyInv'
  BY <1>17 DEF GetNothing
<1>18. ASSUME NEW t \in Tasks, LoadFinds(t) PROVE ResidencyInv'
  BY <1>18 DEF LoadFinds
<1>19. ASSUME NEW t \in Tasks, LoadReads(t) PROVE ResidencyInv'
  BY <1>19 DEF LoadReads
<1>20. ASSUME NEW t \in Tasks, LoadFails(t) PROVE ResidencyInv'
  BY <1>20 DEF LoadFails, Finish
<1>21. ASSUME NEW t \in Tasks, NEW k \in Copies, Insert(t, k) PROVE ResidencyInv'
  BY <1>21 DEF Insert, InUse
<1>22. ASSUME NEW t \in Tasks, EvictNothing(t) PROVE ResidencyInv'
  BY <1>22 DEF EvictNothing, Finish, AfterPanic
<1>23. ASSUME NEW t \in Tasks, EvictGets(t) PROVE ResidencyInv'
  BY <1>23 DEF EvictGets
<1>24. ASSUME NEW t \in Tasks, MaybeEvict(t) PROVE ResidencyInv'
  <2>1. ResidencyTypeOK'
    <3>1. CASE subs[arc[t]] = {}
      <4>1. evicted' \in [Copies -> BOOLEAN]
        <5>1. evicted' = [evicted EXCEPT ![arc[t]] = TRUE]
          BY <1>24, <3>1 DEF MaybeEvict
        <5> QED
          BY <5>1, ZenonT(30)
      <4>2. resident' = None /\ residency' = None /\ arc' = [arc EXCEPT ![t] = None]
        BY <1>24, <3>1 DEF MaybeEvict, Unlocked, Finish
      <4> QED
        BY <1>24, <4>1, <4>2 DEF MaybeEvict, Unlocked, Finish
    <3>2. CASE subs[arc[t]] # {}
      BY <1>24, <3>2 DEF MaybeEvict, Unlocked, Finish
    <3> QED
      BY <3>1, <3>2
  <2>2. OneLiveCopy'
    BY <1>24 DEF MaybeEvict, Unlocked, Finish
  <2>3. LocksExclude'
    BY <1>24 DEF MaybeEvict, Unlocked, Finish
  <2>4. ResidentHasEveryReply'
    BY <1>24 DEF MaybeEvict, Unlocked, Finish
  <2>5. Holds'
    BY <1>24 DEF MaybeEvict, Unlocked, Finish
  <2>6. MapIsHeld'
    BY <1>24 DEF MaybeEvict, Unlocked, Finish
  <2>7. ReplyingToResident'
    BY <1>24 DEF MaybeEvict, Unlocked, Finish
  <2>8. Roles'
    BY <1>24 DEF MaybeEvict, Unlocked, Finish
  <2>9. Answered'
    BY <1>24 DEF MaybeEvict, Unlocked, Finish
  <2> QED
    BY <2>1, <2>2, <2>3, <2>4, <2>5, <2>6, <2>7, <2>8, <2>9
<1>25. ASSUME NEW t \in Tasks, EvictAfterPanic(t) PROVE ResidencyInv'
  BY <1>25 DEF EvictAfterPanic, Unlocked, Finish, AfterPanic
<1>26. ASSUME NEW t \in Tasks, Panic(t) PROVE ResidencyInv'
  BY <1>26 DEF Panic
<1>27. CASE UNCHANGED residencyVars
  BY <1>27 DEF residencyVars
<1> QED
  BY <1>1, <1>2, <1>3, <1>4, <1>5, <1>6, <1>7, <1>8, <1>9, <1>10, <1>11, <1>12, <1>13,
     <1>14, <1>15, <1>16, <1>17, <1>18, <1>19, <1>20, <1>21, <1>22, <1>23, <1>24, <1>25, <1>26, <1>27
  DEF ResidencyNext, Command, Request, OpenWave, Evict

\* At start nothing is resident and every task is idle.
LEMMA InitResidency == ResidencyInit => ResidencyInv
  BY NoneIsNothing
  DEF ResidencyInit, ResidencyInv, ResidencyTypeOK, OneLiveCopy, LocksExclude,
      ResidentHasEveryReply, Holds, MapIsHeld,
      ReplyingToResident, Roles, Answered, Tasks, Steps, Goals, Writes

\* ResidencyInv holds in every reachable state.
THEOREM ResidencyInvariance == ResidencySpec => []ResidencyInv
  BY InitResidency, NextKeepsResidency, PTL DEF ResidencySpec

\* The state keeps its types through every command, eviction and panic.
THEOREM ResidencyTypeCorrect == ResidencySpec => []ResidencyTypeOK
<1> ResidencyInv => ResidencyTypeOK
  BY DEF ResidencyInv
<1> QED
  BY ResidencyInvariance, PTL

\* The copy in the map is the one copy without a tombstone, with any number of
\* tasks opening, leaving and evicting at once (open_wave, maybe_evict and
\* evict_after_panic).
THEOREM LiveCopyIsUnique == ResidencySpec => []OneLiveCopy
<1> ResidencyInv => OneLiveCopy
  BY DEF ResidencyInv
<1> QED
  BY ResidencyInvariance, PTL

\* The residency lock and the wave locks exclude, although eviction waits for the
\* second while it holds the first.
THEOREM LocksAreExclusive == ResidencySpec => []LocksExclude
<1> ResidencyInv => LocksExclude
  BY DEF ResidencyInv
<1> QED
  BY ResidencyInvariance, PTL

\* No reply of the agent API is missing from the copy that is served, whatever is
\* evicted or loaded while create_reply runs.
THEOREM RepliesAreResident == ResidencySpec => []ResidentHasEveryReply
<1> ResidencyInv => ResidentHasEveryReply
  BY DEF ResidencyInv
<1> QED
  BY ResidencyInvariance, PTL

\* As long as nobody was refused, the wave is not resident when all is quiet and
\* nobody watches it (leave_wave and the agent API end with maybe_evict).
THEOREM QuietIsNotResident == ResidencySpec => []UnwatchedIsNotResident
<1> ResidencyInv => UnwatchedIsNotResident
  BY DEF ResidencyInv, Answered, UnwatchedIsNotResident, Tasks
<1> QED
  BY ResidencyInvariance, PTL
-----------------------------------------------------------------------------
(* Who is here now.                                                        *)

\* Needed beside HereNowIsTrue: whoever sees anything of a wave is a participant of
\* the conversation, so that any two watchers share a wavelet; and a watcher has
\* the wave open.
PresenceInv ==
    /\ circle = [w \in {Conversation, Aside} |-> circle[w]]
    /\ circle[Aside] \subseteq circle[Conversation]
    /\ attached \subseteq Tabs /\ Present \subseteq attached
    /\ carets = [t \in Tabs |-> carets[t]]
    /\ \A t \in Present : TabOf[t] \in circle[Conversation]
    /\ HereNowIsTrue

\* What broadcast_presence tells each watcher.
Told(watch, drawn) ==
    /\ carets' = [t \in Tabs |-> carets'[t]]
    /\ \A t \in DOMAIN watch : DOMAIN shown'[t] = {TabOf[x] : x \in DOMAIN watch}
    /\ \A t \in Tabs : \A p \in DOMAIN shown'[t] :
         shown'[t][p] # Nowhere => MaySeePost(TabOf[t], shown'[t][p])
    /\ \A t \in Tabs : carets'[t] \subseteq drawn[t]

\* Every watcher is told of every watcher, and only of messages it may see.
LEMMA BroadcastTells ==
    ASSUME PresenceInv, NEW watch, NEW drawn, DOMAIN watch \subseteq Tabs,
           \A t \in DOMAIN watch : TabOf[t] \in circle[Conversation],
           BroadcastPresence(watch, drawn)
    PROVE  Told(watch, drawn)
<1> DEFINE Those == {TabOf[x] : x \in DOMAIN watch}
<1>1. PICK chosen :
        /\ shown' = [t \in Tabs |-> IF t \in DOMAIN watch
                                    THEN PresenceFor(TabOf[t], watch, chosen) ELSE NobodyShown]
        /\ carets' = [t \in Tabs |-> {x \in drawn[t] : x.person \in DOMAIN shown'[t]}]
  BY DEF BroadcastPresence
<1>2. ASSUME NEW t \in DOMAIN watch
      PROVE  DOMAIN PresenceFor(TabOf[t], watch, chosen) = Those
  <2>1. DOMAIN PresenceFor(TabOf[t], watch, chosen) =
          {q \in Those : \E w \in DOMAIN circle : {q, TabOf[t]} \subseteq circle[w]}
    BY DEF PresenceFor
  <2>2. Conversation \in DOMAIN circle
    BY DEF PresenceInv
  <2>3. \A q \in Those : {q, TabOf[t]} \subseteq circle[Conversation]
    OBVIOUS
  <2> HIDE DEF Those
  <2> QED BY <2>1, <2>2, <2>3
<1>3. ASSUME NEW t \in DOMAIN watch, NEW p \in Those,
             PresenceFor(TabOf[t], watch, chosen)[p] # Nowhere
      PROVE  MaySeePost(TabOf[t], PresenceFor(TabOf[t], watch, chosen)[p])
  <2> DEFINE b == watch[chosen[p]]
  <2>1. p \in DOMAIN PresenceFor(TabOf[t], watch, chosen)
    BY <1>2
  <2>2. PresenceFor(TabOf[t], watch, chosen)[p] = IF Scoped(TabOf[t], b) THEN b ELSE Nowhere
    BY <2>1 DEF PresenceFor
  <2>3. Scoped(TabOf[t], b) /\ PresenceFor(TabOf[t], watch, chosen)[p] = b
    BY <1>3, <2>2
  <2> HIDE DEF b
  <2> QED BY <2>3 DEF Scoped
<1>4. \A t \in DOMAIN watch : shown'[t] = PresenceFor(TabOf[t], watch, chosen)
  BY <1>1
<1>5. \A t \in Tabs \ DOMAIN watch : DOMAIN shown'[t] = {}
  BY <1>1 DEF NobodyShown
<1>6. \A t \in Tabs : carets'[t] \subseteq drawn[t]
  BY <1>1
<1>7. carets' = [t \in Tabs |-> carets'[t]]
  BY <1>1
<1> QED BY <1>2, <1>3, <1>4, <1>5, <1>6, <1>7 DEF Told

\* What a step that tells the watchers keeps, and keeps to itself.
LEMMA TellingKeeps ==
    ASSUME PresenceInv, NEW watch, NEW drawn, Told(watch, drawn),
           UNCHANGED <<circle, standing>>, editing' = watch,
           DOMAIN watch \subseteq attached', attached' \subseteq Tabs,
           \A t \in DOMAIN watch : TabOf[t] \in circle[Conversation],
           \A t \in Tabs : \A x \in drawn[t] \ carets[t] : MaySeePost(TabOf[t], x.post)
    PROVE  PresenceInv' /\ KeepsSecrets
<1>1. Present' = DOMAIN watch
  BY DEF Present
<1>2. HereNowIsTrue'
  BY <1>1 DEF HereNowIsTrue, Told
<1>3. PresenceInv'
  BY <1>1, <1>2 DEF PresenceInv, Told
<1>4. KeepsSecrets
  BY DEF KeepsSecrets, Told
<1> QED BY <1>3, <1>4

\* What a step that tells nobody keeps.
LEMMA SilenceKeeps ==
    ASSUME PresenceInv, UNCHANGED <<attached, shown, carets>>,
           circle' = [w \in {Conversation, Aside} |-> circle'[w]],
           circle'[Aside] \subseteq circle'[Conversation],
           Present' \subseteq Present, \A t \in Present' : TabOf[t] \in circle'[Conversation]
    PROVE  PresenceInv' /\ KeepsSecrets
<1>1. HereNowIsTrue'
  BY DEF HereNowIsTrue, PresenceInv
<1>2. KeepsSecrets
  BY DEF KeepsSecrets
<1> QED BY <1>1, <1>2 DEF PresenceInv

\* Watchers are shown each other and nobody who has left, and no list and no caret
\* tells of a message its reader may not see (presence_for, broadcast_presence,
\* cursor), through any number of connections, removals and lost sockets.
THEOREM PresenceIsTrueAlways == PresenceSpec => PresenceIsTrue
<1>1. PresenceInit => PresenceInv
  BY DEF PresenceInit, PresenceInv, Present, HereNowIsTrue
<1>2. ASSUME PresenceInv, PresenceNext
      PROVE  PresenceInv' /\ KeepsSecrets
  <2>0. /\ circle = [w \in {Conversation, Aside} |-> circle[w]]
        /\ circle[Aside] \subseteq circle[Conversation]
        /\ attached \subseteq Tabs /\ Present \subseteq attached
        /\ carets = [t \in Tabs |-> carets[t]]
        /\ \A t \in Present : TabOf[t] \in circle[Conversation]
    BY <1>2 DEF PresenceInv
  <2>1. ASSUME NEW t \in Tabs, Arrive(t)
        PROVE  PresenceInv' /\ KeepsSecrets
    <3> DEFINE watch == [x \in Present \cup {t} |-> IF x = t THEN Nowhere ELSE editing[x]]
               drawn == [carets EXCEPT ![t] = {}]
    <3>1. /\ editing' = watch /\ attached' = attached \cup {t}
          /\ BroadcastPresence(watch, drawn) /\ UNCHANGED <<circle, standing>>
      BY <2>1 DEF Arrive
    <3>2. TabOf[t] \in circle[Conversation]
      <4>1. PICK w \in DOMAIN circle : TabOf[t] \in circle[w]
        BY <2>1 DEF Arrive
      <4> QED BY <2>0, <4>1
    <3>3. DOMAIN watch = Present \cup {t}
      OBVIOUS
    <3>4. \A x \in Tabs : drawn[x] \subseteq carets[x]
      BY <2>0
    <3> HIDE DEF watch, drawn
    <3>5. DOMAIN watch \subseteq Tabs /\ \A x \in DOMAIN watch : TabOf[x] \in circle[Conversation]
      BY <2>0, <3>2, <3>3
    <3>6. Told(watch, drawn)
      BY <1>2, <3>1, <3>5, BroadcastTells
    <3>7. DOMAIN watch \subseteq attached' /\ attached' \subseteq Tabs
      BY <2>0, <3>1, <3>3
    <3>8. \A y \in Tabs : \A x \in drawn[y] \ carets[y] : MaySeePost(TabOf[y], x.post)
      BY <3>4
    <3> QED BY <1>2, <3>1, <3>5, <3>6, <3>7, <3>8, TellingKeeps
  <2>2. ASSUME NEW t \in Tabs, LeaveWave(t)
        PROVE  PresenceInv' /\ KeepsSecrets
    <3> DEFINE watch == Restrict(editing, Present \ {t})
    <3>1. /\ editing' = watch /\ attached' = attached \ {t}
          /\ BroadcastPresence(watch, carets) /\ UNCHANGED <<circle, standing>>
      BY <2>2 DEF LeaveWave, OthersAreTold
    <3>2. DOMAIN watch = Present \ {t}
      BY DEF Restrict
    <3> HIDE DEF watch
    <3>3. DOMAIN watch \subseteq Tabs /\ \A x \in DOMAIN watch : TabOf[x] \in circle[Conversation]
      BY <2>0, <3>2
    <3>4. Told(watch, carets)
      BY <1>2, <3>1, <3>3, BroadcastTells
    <3>5. DOMAIN watch \subseteq attached' /\ attached' \subseteq Tabs
      BY <2>0, <3>1, <3>2
    <3>6. \A y \in Tabs : \A x \in carets[y] \ carets[y] : MaySeePost(TabOf[y], x.post)
      OBVIOUS
    <3> QED BY <1>2, <3>1, <3>3, <3>4, <3>5, <3>6, TellingKeeps
  <2>3. ASSUME NEW t \in Tabs, NEW b \in DOMAIN Home, Cursor(t, b)
        PROVE  PresenceInv' /\ KeepsSecrets
    <3> DEFINE watch == [x \in Present |-> IF x = t THEN b ELSE editing[x]]
               reached == {x \in Present \ {t} : /\ MaySeePost(TabOf[x], b)
                                                 /\ TabOf[t] \in DOMAIN shown[x]}
               mine == [person |-> TabOf[t], post |-> b]
               drawn == [x \in Tabs |->
                           IF x \in reached
                           THEN {y \in carets[x] : y.person # TabOf[t]} \cup {mine}
                           ELSE carets[x]]
    <3>1. /\ editing' = watch /\ attached' = attached
          /\ BroadcastPresence(watch, drawn) /\ UNCHANGED <<circle, standing>>
      BY <2>3 DEF Cursor
    <3>2. DOMAIN watch = Present
      OBVIOUS
    <3>3. ASSUME NEW y \in Tabs, NEW x \in drawn[y] \ carets[y]
          PROVE  MaySeePost(TabOf[y], x.post)
      <4>1. y \in reached /\ x = mine
        <5> HIDE DEF reached, mine
        <5> QED BY <3>3
      <4>2. mine.post = b
        OBVIOUS
      <4>3. MaySeePost(TabOf[y], b)
        BY <4>1
      <4> QED BY <4>1, <4>2, <4>3
    <3> HIDE DEF watch, drawn
    <3>4. DOMAIN watch \subseteq Tabs /\ \A x \in DOMAIN watch : TabOf[x] \in circle[Conversation]
      BY <2>0, <3>2
    <3>5. Told(watch, drawn)
      BY <1>2, <3>1, <3>4, BroadcastTells
    <3>6. DOMAIN watch \subseteq attached' /\ attached' \subseteq Tabs
      BY <2>0, <3>1, <3>2
    <3> QED BY <1>2, <3>1, <3>3, <3>4, <3>5, <3>6, TellingKeeps
  <2>4. ASSUME NEW gone, Drop(gone)
        PROVE  PresenceInv' /\ KeepsSecrets
    <3>1. UNCHANGED <<circle, attached, shown, carets>> /\ Present' \subseteq Present
      BY <2>4 DEF Drop, Present, Restrict
    <3> QED BY <1>2, <2>0, <3>1, SilenceKeeps
  <2>5. ASSUME NEW w \in DOMAIN circle, NEW p \in People, NEW joins \in BOOLEAN,
               ChangeCircle(w, p, joins)
        PROVE  PresenceInv' /\ KeepsSecrets
    <3> DEFINE new == [circle EXCEPT ![w] = IF joins THEN @ \cup {p} ELSE @ \ {p},
                                     ![Aside] = IF ~joins THEN @ \ {p} ELSE
                                                IF w = Aside THEN @ \cup {p} ELSE @]
               out == {t \in Present : \A x \in DOMAIN new : TabOf[t] \notin new[x]}
    <3>1. /\ circle' = new /\ editing' = Restrict(editing, Present \ out)
          /\ UNCHANGED <<attached, shown, carets>>
          /\ joins /\ w = Aside => p \in circle[Conversation]
      BY <2>5 DEF ChangeCircle
    <3>2. Conversation # Aside /\ w \in {Conversation, Aside}
      BY <2>0 DEF Conversation, Aside
    <3>3. /\ new = [x \in {Conversation, Aside} |-> new[x]]
          /\ new[Aside] \subseteq new[Conversation]
      <4>1. CASE w = Conversation
        BY <2>0, <3>1, <3>2, <4>1
      <4>2. CASE w = Aside
        BY <2>0, <3>1, <3>2, <4>2
      <4> QED BY <3>2, <4>1, <4>2
    <3>4. Present' = Present \ out
      BY <3>1 DEF Present, Restrict
    <3> HIDE DEF new
    <3>5. \A t \in Present \ out : TabOf[t] \in new[Conversation]
      BY <3>3
    <3> HIDE DEF out
    <3> QED BY <1>2, <3>1, <3>3, <3>4, <3>5, SilenceKeeps
  <2>6. ASSUME NEW b \in DOMAIN Home, RemovePost(b)
        PROVE  PresenceInv' /\ KeepsSecrets
    <3>1. UNCHANGED <<circle, attached, shown, carets>> /\ Present' = Present
      BY <2>6 DEF RemovePost, Present
    <3> QED BY <1>2, <2>0, <3>1, SilenceKeeps
  <2> QED BY <1>2, <2>1, <2>2, <2>3, <2>4, <2>5, <2>6 DEF PresenceNext
<1>3. ASSUME PresenceInv, UNCHANGED presence
      PROVE  PresenceInv'
  BY <1>3 DEF presence, PresenceInv, Present, HereNowIsTrue
<1>4. PresenceInv => HereNowIsTrue
  BY DEF PresenceInv
<1> QED BY <1>1, <1>2, <1>3, <1>4, PTL DEF PresenceSpec, PresenceIsTrue
=============================================================================

---------------------------- MODULE AgentProofs ----------------------------
(***************************************************************************)
(* Proofs about Agent, for every set of credentials, request ids, bodies   *)
(* and tasks (finite or not) and every bound on messages and lost copies.  *)
(***************************************************************************)
EXTENDS Agent, FiniteSetTheorems, TLAPS

-----------------------------------------------------------------------------
(* The inductive invariant.                                                *)

Asked(pc) == [pc : {pc}, token : Tokens, request : Requests, body : Bodies]
AskedOf(pc) == [pc : {pc}, token : Tokens, request : Requests, body : Bodies,
                copy : 1..(MaxLosses + 1)]
Writing(pc) == [pc : {pc}, token : Tokens, request : Requests, body : Bodies,
                blip : 1..MaxBlips]
Panicked == [pc |-> "panicked"]
TaskStates == {Idle, Panicked} \cup Asked("open") \cup AskedOf("wait") \cup AskedOf("look")
                 \cup Writing("write") \cup Writing("publish")

\* What a task carries at each of its steps.
Shapes ==
    /\ cred \in [Tokens -> {"unborn", "live", "expired", "deleted"}]
    /\ minting \subseteq Tokens /\ member \in BOOLEAN /\ accepts \in BOOLEAN
    /\ rows \subseteq 1..MaxBlips /\ live \subseteq 1..MaxBlips
    /\ receipts \subseteq Post /\ posted \subseteq Post /\ answers \subseteq Post
    /\ task \in [Tasks -> TaskStates]
    /\ lock \in Tasks \cup {NoTask}

Inside == {"look", "write", "publish"}
LockIsHeld == \A k \in Tasks : task[k].pc \in Inside <=> lock = k

\* The ids and the copies that the tasks in progress may still use up.
Busy == {k \in Tasks : task[k].pc # "idle"}
Early == {"open", "wait", "look"}
Unminted == {k \in Tasks : task[k].pc \in Early}
Panics == {k \in Tasks : task[k].pc = "panicked"}
Bounds ==
    /\ IsFiniteSet(Busy)
    /\ minted \in Nat /\ minted + Cardinality(Unminted) <= MaxBlips
    /\ dropped \in Nat /\ dropped + Cardinality(Panics) <= MaxLosses
    /\ copy = 0 \/ copy = dropped + 1

\* What a task that has written posted.
PostOf(k) == [token |-> task[k].token, request |-> task[k].request, body |-> task[k].body,
              blip |-> task[k].blip]

\* A receipt outlives everything but its credential, which never comes back:
\* so the lookup under the lock finds every post of a credential that is good.
Ledger ==
    /\ receipts \subseteq posted
    /\ \A x \in posted : /\ cred[x.token] # "unborn"
                         /\ cred[x.token] # "deleted" => x \in receipts
    /\ \A t \in minting : cred[t] = "unborn"
    /\ \A k \in Tasks : task[k].pc = "publish" => PostOf(k) \in posted

\* The copy lags storage by the message of the task between the write and
\* publication, which holds the lock; a panic there leaves it behind, until it
\* is cleaned up.
Memory ==
    /\ lock # NoTask => copy # 0
    /\ copy # 0 /\ Panics = {} =>
         IF lock # NoTask /\ task[lock].pc = "publish"
         THEN rows = live \cup {task[lock].blip}
         ELSE live = rows

IInv == Shapes /\ LockIsHeld /\ Bounds /\ Ledger /\ OnePostPerRequest /\ ReceiptNamesItsPost
        /\ Memory

LEMMA IInvImplies == IInv => RepliesAreKept
<1> SUFFICES ASSUME IInv PROVE RepliesAreKept
  OBVIOUS
<1>1. IsFiniteSet(Unminted) /\ IsFiniteSet(Panics)
  <2>1. Unminted \subseteq Busy /\ Panics \subseteq Busy
    BY DEF Unminted, Panics, Busy, Early
  <2> QED BY <2>1, FS_Subset DEF IInv, Bounds
<1>2. Cardinality(Unminted) \in Nat /\ Cardinality(Panics) \in Nat
  BY <1>1, FS_CardinalityType
<1>3. minted \in 0..MaxBlips /\ dropped \in 0..MaxLosses /\ copy \in 0..(MaxLosses + 1)
  BY <1>2, AgentAssumption DEF IInv, Bounds
<1>4. TypeOK
  BY <1>3 DEF IInv, Shapes, TypeOK, LockIsHeld, Inside
<1>5. CopyIsStored
  BY DEF IInv, Memory, CopyIsStored, Panics
<1> QED BY <1>4, <1>5 DEF RepliesAreKept, IInv

LEMMA InitInv == Init => IInv
<1> SUFFICES ASSUME Init PROVE IInv
  OBVIOUS
<1>1. \A k \in Tasks : task[k].pc = "idle"
  BY DEF Init, Idle
<1>2. Shapes
  BY DEF Init, Shapes, TaskStates
<1>3. LockIsHeld
  BY <1>1, AgentAssumption DEF Init, LockIsHeld, Inside
<1>4. Busy = {} /\ Unminted = {} /\ Panics = {}
  BY <1>1 DEF Busy, Unminted, Panics, Early
<1>5. Bounds
  BY <1>4, FS_EmptySet, AgentAssumption DEF Init, Bounds
<1>6. Ledger /\ OnePostPerRequest /\ ReceiptNamesItsPost
  BY <1>1 DEF Init, Ledger, OnePostPerRequest, ReceiptNamesItsPost
<1>7. Memory
  BY DEF Init, Memory
<1> QED BY <1>2, <1>3, <1>5, <1>6, <1>7 DEF IInv

-----------------------------------------------------------------------------
(* Lemmas.                                                                 *)

\* The step of a task and what it carries tell each other.
LEMMA ShapeOf ==
    ASSUME Shapes, NEW k \in Tasks
    PROVE  /\ task[k].pc = "idle" => task[k] = Idle
           /\ task[k].pc = "panicked" => task[k] = Panicked
           /\ task[k].pc = "open" => task[k] \in Asked("open")
           /\ task[k].pc \in {"wait", "look"} => task[k] \in AskedOf(task[k].pc)
           /\ task[k].pc \in {"write", "publish"} => task[k] \in Writing(task[k].pc)
           /\ task[k].pc \in {"idle", "panicked", "open", "wait", "look", "write", "publish"}
<1>1. task[k] \in TaskStates
  BY DEF Shapes
<1> QED BY <1>1 DEF TaskStates, Idle, Panicked, Asked, AskedOf, Writing

\* The three counted sets are finite.
LEMMA CountsAreNumbers ==
    ASSUME Bounds
    PROVE  /\ IsFiniteSet(Busy) /\ IsFiniteSet(Unminted) /\ IsFiniteSet(Panics)
           /\ Cardinality(Busy) \in Nat /\ Cardinality(Unminted) \in Nat
           /\ Cardinality(Panics) \in Nat
           /\ Cardinality(Unminted) <= Cardinality(Busy)
<1>1. Unminted \subseteq Busy /\ Panics \subseteq Busy
  BY DEF Unminted, Panics, Busy, Early
<1>2. IsFiniteSet(Unminted) /\ IsFiniteSet(Panics) /\ Cardinality(Unminted) <= Cardinality(Busy)
  BY <1>1, FS_Subset DEF Bounds
<1> QED BY <1>2, FS_CardinalityType DEF Bounds

\* What one task's step does to the counts.
LEMMA OneTaskCounts ==
    ASSUME Shapes, Bounds, NEW k \in Tasks, NEW v, task' = [task EXCEPT ![k] = v]
    PROVE  /\ IsFiniteSet(Busy')
           /\ v.pc \in Early /\ task[k].pc \notin Early =>
                Cardinality(Unminted') = Cardinality(Unminted) + 1
           /\ v.pc \notin Early /\ task[k].pc \in Early =>
                Cardinality(Unminted') = Cardinality(Unminted) - 1
           /\ (v.pc \in Early <=> task[k].pc \in Early) =>
                Cardinality(Unminted') = Cardinality(Unminted)
           /\ v.pc = "panicked" /\ task[k].pc # "panicked" =>
                Cardinality(Panics') = Cardinality(Panics) + 1
           /\ v.pc # "panicked" /\ task[k].pc = "panicked" =>
                Cardinality(Panics') = Cardinality(Panics) - 1
<1>0. task'[k] = v /\ \A j \in Tasks \ {k} : task'[j] = task[j]
  BY DEF Shapes
<1>1. IsFiniteSet(Busy')
  <2>1. Busy' \subseteq Busy \cup {k}
    BY <1>0 DEF Busy
  <2>2. IsFiniteSet(Busy \cup {k})
    BY FS_AddElement DEF Bounds
  <2> QED BY <2>1, <2>2, FS_Subset
<1>2. Unminted' = IF v.pc \in Early THEN Unminted \cup {k} ELSE Unminted \ {k}
  BY <1>0 DEF Unminted
<1>3. k \in Unminted <=> task[k].pc \in Early
  BY DEF Unminted
<1>4. Panics' = IF v.pc = "panicked" THEN Panics \cup {k} ELSE Panics \ {k}
  BY <1>0 DEF Panics
<1>5. k \in Panics <=> task[k].pc = "panicked"
  BY DEF Panics
<1>6. ASSUME NEW S, IsFiniteSet(S)
      PROVE  /\ Cardinality(S) \in Nat
             /\ Cardinality(S \cup {k}) = Cardinality(S) + (IF k \in S THEN 0 ELSE 1)
             /\ Cardinality(S \ {k}) = Cardinality(S) - (IF k \in S THEN 1 ELSE 0)
  BY <1>6, FS_AddElement, FS_RemoveElement, FS_CardinalityType
<1>7. /\ Cardinality(Unminted) \in Nat
      /\ Cardinality(Unminted \cup {k}) = Cardinality(Unminted) + (IF k \in Unminted THEN 0 ELSE 1)
      /\ Cardinality(Unminted \ {k}) = Cardinality(Unminted) - (IF k \in Unminted THEN 1 ELSE 0)
  BY <1>6, CountsAreNumbers
<1>8. /\ Cardinality(Panics) \in Nat
      /\ Cardinality(Panics \cup {k}) = Cardinality(Panics) + (IF k \in Panics THEN 0 ELSE 1)
      /\ Cardinality(Panics \ {k}) = Cardinality(Panics) - (IF k \in Panics THEN 1 ELSE 0)
  BY <1>6, CountsAreNumbers
<1> QED BY <1>1, <1>2, <1>3, <1>4, <1>5, <1>7, <1>8

-----------------------------------------------------------------------------
(* Steps that leave the tasks alone.                                       *)

\* What depends on nothing but the tasks, the lock and the copies.
LEMMA TasksUntouched ==
    ASSUME IInv, UNCHANGED <<task, lock>>
    PROVE  /\ LockIsHeld' /\ Panics' = Panics /\ Unminted' = Unminted /\ Busy' = Busy
           /\ UNCHANGED <<minted, dropped, copy>> => Bounds'
           /\ UNCHANGED <<copy, rows, live>> => Memory'
           /\ \A k \in Tasks : PostOf(k)' = PostOf(k)
<1>1. Panics' = Panics /\ Unminted' = Unminted /\ Busy' = Busy
  BY DEF Panics, Unminted, Busy
<1>2. LockIsHeld'
  BY DEF IInv, LockIsHeld
<1>3. UNCHANGED <<minted, dropped, copy>> => Bounds'
  BY <1>1 DEF IInv, Bounds
<1>4. UNCHANGED <<copy, rows, live>> => Memory'
  BY <1>1 DEF IInv, Memory
<1>5. \A k \in Tasks : PostOf(k)' = PostOf(k)
  BY DEF PostOf
<1> QED BY <1>1, <1>2, <1>3, <1>4, <1>5

\* Minting, expiry and a change of the rules.  An id is minted once: a row that
\* was never there has no posts, and one that is being inserted was never there.
LEMMA AccountStep ==
    ASSUME IInv,
           \/ \E t \in Tokens : CreateToken(t) \/ CreateAgentToken(t) \/ Expire(t)
           \/ ChangeRules
    PROVE  IInv'
<1>1. UNCHANGED <<task, lock, copy, dropped, live, rows, minted, receipts, posted, answers>>
  BY DEF CreateToken, CreateAgentToken, Expire, ChangeRules, storage
<1>2. LockIsHeld' /\ Bounds' /\ Memory' /\ \A k \in Tasks : PostOf(k)' = PostOf(k)
  BY <1>1, TasksUntouched
<1>3. OnePostPerRequest' /\ ReceiptNamesItsPost'
  BY <1>1 DEF IInv, OnePostPerRequest, ReceiptNamesItsPost
<1>4. Shapes'
  BY <1>1 DEF IInv, Shapes, CreateToken, CreateAgentToken, Expire, ChangeRules
<1>5. Ledger'
  <2>1. ASSUME NEW t \in Tokens, CreateToken(t)
        PROVE  Ledger'
    BY <1>1, <1>2, <2>1 DEF IInv, Ledger, CreateToken
  <2>2. ASSUME NEW t \in Tokens, CreateAgentToken(t)
        PROVE  Ledger'
    <3>1. cred[t] = "unborn" /\ t \in minting
      BY <2>2 DEF CreateAgentToken, IInv, Ledger
    <3>2. \A x \in posted : x.token # t /\ x.token \in Tokens
      BY <3>1 DEF IInv, Ledger, Shapes, Post
    <3>3. \A u \in Tokens \ {t} : cred'[u] = cred[u]
      BY <2>2 DEF CreateAgentToken, IInv, Shapes
    <3>4. \A x \in posted : cred'[x.token] = cred[x.token]
      BY <3>2, <3>3
    <3>5. \A u \in minting' : cred'[u] = cred[u]
      BY <2>2, <3>3 DEF CreateAgentToken, IInv, Shapes
    <3>6. minting' \subseteq minting
      BY <2>2 DEF CreateAgentToken
    <3> QED BY <1>1, <1>2, <3>4, <3>5, <3>6 DEF IInv, Ledger
  <2>3. ASSUME NEW t \in Tokens, Expire(t)
        PROVE  Ledger'
    <3>1. \A u \in Tokens : cred'[u] = IF u = t THEN "expired" ELSE cred[u]
      BY <2>3 DEF Expire, IInv, Shapes
    <3>2. cred[t] = "live" /\ minting' = minting
      BY <2>3 DEF Expire
    <3>3. \A x \in posted : x.token \in Tokens
      BY DEF IInv, Shapes, Post
    <3>4. \A u \in minting : u \in Tokens
      BY DEF IInv, Shapes
    <3> QED BY <1>1, <1>2, <3>1, <3>2, <3>3, <3>4 DEF IInv, Ledger
  <2>4. CASE ChangeRules
    BY <1>1, <1>2, <2>4 DEF IInv, Ledger, ChangeRules
  <2> QED BY <2>1, <2>2, <2>3, <2>4
<1> QED BY <1>2, <1>3, <1>4, <1>5 DEF IInv

\* Revocation takes the receipts along, and what it revokes stays revoked.
LEMMA DeleteStep ==
    ASSUME IInv, NEW gone \in SUBSET Tokens, Delete(gone),
           \A t \in gone : cred[t] \in {"live", "expired"}
    PROVE  IInv'
<1>1. UNCHANGED <<task, lock, copy, dropped, live, rows, minted, posted, answers, minting,
                  member, accepts>>
  BY DEF Delete
<1>2. LockIsHeld' /\ Bounds' /\ Memory' /\ \A k \in Tasks : PostOf(k)' = PostOf(k)
  BY <1>1, TasksUntouched
<1>3. OnePostPerRequest' /\ ReceiptNamesItsPost'
  BY <1>1 DEF IInv, OnePostPerRequest, ReceiptNamesItsPost
<1>4. \A t \in Tokens : cred'[t] = IF t \in gone THEN "deleted" ELSE cred[t]
  BY DEF Delete
<1>5. Shapes'
  BY <1>1 DEF IInv, Shapes, Delete
<1>6. \A x \in posted : x.token \in Tokens
  BY DEF IInv, Shapes, Post
<1>7. \A t \in minting : t \in Tokens /\ t \notin gone
  BY DEF IInv, Shapes, Ledger
<1>8. receipts' = {x \in receipts : x.token \notin gone}
  BY DEF Delete
<1>9. Ledger'
  BY <1>1, <1>2, <1>4, <1>6, <1>7, <1>8 DEF IInv, Ledger
<1> QED BY <1>2, <1>3, <1>5, <1>9 DEF IInv

LEMMA RevokeStep ==
    ASSUME IInv, RevokeAll \/ \E t \in Tokens : RevokeToken(t)
    PROVE  IInv'
<1>1. ASSUME NEW t \in Tokens, RevokeToken(t)
      PROVE  IInv'
  BY <1>1, DeleteStep DEF RevokeToken
<1>2. CASE RevokeAll
  <2> DEFINE mine == {t \in Tokens : cred[t] \in {"live", "expired"}}
  <2>1. Delete(mine)
    BY <1>2 DEF RevokeAll
  <2>2. mine \in SUBSET Tokens /\ \A t \in mine : cred[t] \in {"live", "expired"}
    OBVIOUS
  <2> QED BY <2>1, <2>2, DeleteStep
<1> QED BY <1>1, <1>2

\* Deleting a message, and dropping a copy that nobody has locked.
LEMMA WaveStep ==
    ASSUME IInv, MaybeEvict \/ \E b \in 1..MaxBlips : DeleteBlip(b)
    PROVE  IInv'
<1>1. UNCHANGED <<task, lock, cred, minting, member, accepts, receipts, posted, minted, answers>>
      /\ lock = NoTask
  BY DEF MaybeEvict, DeleteBlip, account, storage
<1>2. /\ LockIsHeld' /\ Panics' = Panics /\ Unminted' = Unminted /\ Busy' = Busy
      /\ UNCHANGED <<minted, dropped, copy>> => Bounds'
      /\ \A k \in Tasks : PostOf(k)' = PostOf(k)
  BY <1>1, TasksUntouched
<1>3. OnePostPerRequest' /\ ReceiptNamesItsPost' /\ Ledger'
  BY <1>1, <1>2 DEF IInv, OnePostPerRequest, ReceiptNamesItsPost, Ledger
<1>4. CASE MaybeEvict
  <2>1. Bounds'
    BY <1>1, <1>2, <1>4, CountsAreNumbers, AgentAssumption
    DEF MaybeEvict, Drop, Spare, Panics, IInv, Bounds
  <2>2. Shapes' /\ Memory'
    BY <1>1, <1>4 DEF MaybeEvict, Drop, IInv, Shapes, Memory, storage
  <2> QED BY <1>2, <1>3, <2>1, <2>2 DEF IInv
<1>5. ASSUME NEW b \in 1..MaxBlips, DeleteBlip(b)
      PROVE  IInv'
  <2>1. UNCHANGED <<copy, dropped>> /\ rows' = rows \ {b} /\ live' = live \ {b}
    BY <1>5 DEF DeleteBlip
  <2>2. Shapes'
    BY <1>1, <2>1 DEF IInv, Shapes
  <2>3. Memory'
    BY <1>1, <1>2, <2>1 DEF IInv, Memory
  <2> QED BY <1>1, <1>2, <1>3, <2>1, <2>2, <2>3 DEF IInv
<1> QED BY <1>4, <1>5

-----------------------------------------------------------------------------
(* A reply, step by step.                                                  *)

\* A step of task k that gives it the state v: how the parts of the invariant
\* that speak of every task follow from what the step does to task k alone.
LEMMA TaskMoves ==
    ASSUME IInv, NEW k \in Tasks, NEW v \in TaskStates, task' = [task EXCEPT ![k] = v]
    PROVE  /\ task' \in [Tasks -> TaskStates]
           /\ task'[k] = v /\ \A j \in Tasks \ {k} : task'[j] = task[j]
           /\ \A j \in Tasks \ {k} : PostOf(j)' = PostOf(j)
           /\ (lock' = lock /\ (v.pc \in Inside <=> task[k].pc \in Inside)) => LockIsHeld'
           /\ (lock = k /\ lock' = NoTask /\ v.pc \notin Inside) => LockIsHeld'
           /\ (lock = NoTask /\ lock' = k /\ v.pc \in Inside) => LockIsHeld'
           /\ v.pc # "panicked" /\ task[k].pc # "panicked" => Panics' = Panics
<1>1. /\ task' \in [Tasks -> TaskStates]
      /\ task'[k] = v /\ \A j \in Tasks \ {k} : task'[j] = task[j]
  BY DEF IInv, Shapes
<1>2. \A j \in Tasks \ {k} : PostOf(j)' = PostOf(j)
  BY <1>1 DEF PostOf
<1>3. (lock' = lock /\ (v.pc \in Inside <=> task[k].pc \in Inside)) => LockIsHeld'
  BY <1>1 DEF IInv, LockIsHeld
<1>4. (lock = k /\ lock' = NoTask /\ v.pc \notin Inside) => LockIsHeld'
  BY <1>1, AgentAssumption DEF IInv, LockIsHeld
<1>5. (lock = NoTask /\ lock' = k /\ v.pc \in Inside) => LockIsHeld'
  BY <1>1, AgentAssumption DEF IInv, LockIsHeld
<1>6. v.pc # "panicked" /\ task[k].pc # "panicked" => Panics' = Panics
  BY <1>1 DEF Panics
<1> QED BY <1>1, <1>2, <1>3, <1>4, <1>5, <1>6

\* A step outside the lock that neither writes nor publishes.
LEMMA LedgerMoves ==
    ASSUME IInv, NEW k \in Tasks, NEW v \in TaskStates, task' = [task EXCEPT ![k] = v],
           UNCHANGED <<cred, minting, receipts, posted>>, v.pc # "publish"
    PROVE  Ledger' /\ OnePostPerRequest'
<1>1. \A j \in Tasks : task'[j].pc = "publish" => j # k /\ task[j].pc = "publish"
                                                  /\ PostOf(j)' = PostOf(j)
  BY TaskMoves
<1>2. Ledger'
  BY <1>1 DEF IInv, Ledger
<1> QED BY <1>2 DEF IInv, OnePostPerRequest

LEMMA ReplyStep ==
    ASSUME IInv, NEW k \in Tasks, NEW t \in Tokens, NEW r \in Requests, NEW b \in Bodies,
           Reply(k, t, r, b)
    PROVE  IInv'
<1> DEFINE v == [pc |-> "open", token |-> t, request |-> r, body |-> b]
<1>1. task' = [task EXCEPT ![k] = v] /\ task[k].pc = "idle"
      /\ UNCHANGED <<cred, minting, member, accepts, rows, receipts, posted, minted, copy,
                     dropped, live, lock, answers>>
  BY DEF Reply, account, storage
<1>2. v \in TaskStates /\ v.pc = "open"
  BY DEF TaskStates, Asked
<1> HIDE DEF v
<1>3. Shapes'
  BY <1>1, <1>2, TaskMoves DEF IInv, Shapes
<1>4. LockIsHeld' /\ Panics' = Panics
  BY <1>1, <1>2, TaskMoves DEF Inside
<1>5. Bounds'
  <2>1. IsFiniteSet(Busy') /\ Cardinality(Unminted') = Cardinality(Unminted) + 1
    BY <1>1, <1>2, OneTaskCounts, CountsAreNumbers DEF IInv, Early
  <2>2. minted + Cardinality(Busy) < MaxBlips
    BY DEF Reply, Busy
  <2> QED BY <1>1, <1>4, <2>1, <2>2, CountsAreNumbers, AgentAssumption DEF IInv, Bounds
<1>6. Ledger' /\ OnePostPerRequest'
  BY <1>1, <1>2, LedgerMoves
<1>7. ReceiptNamesItsPost'
  BY <1>1 DEF IInv, ReceiptNamesItsPost
<1>8. Memory'
  <2>1. lock # k
    BY <1>1 DEF IInv, LockIsHeld, Inside
  <2>2. lock # NoTask => task'[lock] = task[lock]
    BY <1>1, <1>2, <2>1, TaskMoves DEF IInv, Shapes
  <2> QED BY <1>1, <1>4, <2>2 DEF IInv, Memory
<1> QED BY <1>3, <1>4, <1>5, <1>6, <1>7, <1>8 DEF IInv

\* A wave read from storage while nobody holds its lock has what storage has.
LEMMA OpenWaveStep ==
    ASSUME IInv, NEW k \in Tasks, OpenWave(k)
    PROVE  IInv'
<1> DEFINE v == [pc |-> "wait", token |-> task[k].token, request |-> task[k].request,
                 body |-> task[k].body, copy |-> copy']
<1>1. /\ task' = [task EXCEPT ![k] = v] /\ task[k].pc = "open"
      /\ UNCHANGED <<cred, minting, member, accepts, rows, receipts, posted, minted,
                     dropped, lock, answers>>
      /\ copy' = IF copy = 0 THEN dropped + 1 ELSE copy
      /\ live' = IF copy = 0 THEN rows ELSE live
  BY DEF OpenWave, account, storage, IInv, Shapes
<1>2. task[k] \in Asked("open")
  BY <1>1, ShapeOf DEF IInv
<1>3. copy' = dropped + 1 /\ copy' \in 1..(MaxLosses + 1) /\ copy' # 0
  BY <1>1, CountsAreNumbers, AgentAssumption DEF IInv, Bounds
<1>4. v \in TaskStates /\ v.pc = "wait"
  BY <1>2, <1>3 DEF TaskStates, Asked, AskedOf
<1> HIDE DEF v
<1>5. Shapes'
  BY <1>1, <1>4, TaskMoves DEF IInv, Shapes
<1>6. LockIsHeld' /\ Panics' = Panics
  BY <1>1, <1>4, TaskMoves DEF Inside
<1>7. Bounds'
  <2>1. IsFiniteSet(Busy') /\ Cardinality(Unminted') = Cardinality(Unminted)
    BY <1>1, <1>4, OneTaskCounts, CountsAreNumbers DEF IInv, Early
  <2> QED BY <1>1, <1>3, <1>6, <2>1 DEF IInv, Bounds
<1>8. Ledger' /\ OnePostPerRequest'
  BY <1>1, <1>4, LedgerMoves
<1>9. ReceiptNamesItsPost'
  BY <1>1 DEF IInv, ReceiptNamesItsPost
<1>10. Memory'
  <2>1. lock # k
    BY <1>1 DEF IInv, LockIsHeld, Inside
  <2>2. lock # NoTask => task'[lock] = task[lock]
    BY <1>1, <1>4, <2>1, TaskMoves DEF IInv, Shapes
  <2>3. CASE copy = 0
    <3>1. lock = NoTask
      BY <2>3 DEF IInv, Memory
    <3> QED BY <1>1, <1>3, <2>3, <3>1 DEF Memory
  <2>4. CASE copy # 0
    BY <1>1, <1>6, <2>2, <2>4 DEF IInv, Memory
  <2> QED BY <2>3, <2>4
<1> QED BY <1>5, <1>6, <1>7, <1>8, <1>9, <1>10 DEF IInv

\* The lock is got for the copy that is resident, which then stays resident.
LEMMA LockStep ==
    ASSUME IInv, NEW k \in Tasks, Lock(k)
    PROVE  IInv'
<1>0. task[k].pc = "wait" /\ task[k] \in AskedOf("wait") /\ lock # k
      /\ UNCHANGED <<cred, minting, member, accepts, rows, receipts, posted, minted, copy,
                     dropped, live, answers>>
  <2>1. task[k].pc = "wait"
    BY DEF Lock
  <2> QED BY <2>1, ShapeOf DEF Lock, account, storage, IInv, LockIsHeld, Inside
<1>1. ReceiptNamesItsPost'
  BY <1>0 DEF IInv, ReceiptNamesItsPost
<1>2. ASSUME NEW v \in TaskStates, task' = [task EXCEPT ![k] = v],
             v.pc \in {"open", "idle", "look"},
             \/ v.pc # "look" /\ lock' = lock
             \/ v.pc = "look" /\ lock = NoTask /\ lock' = k /\ copy # 0
      PROVE  IInv'
  <2>1. Shapes'
    BY <1>0, <1>2, TaskMoves DEF IInv, Shapes
  <2>2. LockIsHeld' /\ Panics' = Panics
    BY <1>0, <1>2, TaskMoves DEF Inside
  <2>3. Bounds'
    <3>0. task[k].pc \in Early
      BY <1>0 DEF Early
    <3>1. IsFiniteSet(Busy') /\ Cardinality(Unminted') <= Cardinality(Unminted)
          /\ Cardinality(Unminted') \in Int
      <4>1. Shapes /\ Bounds /\ task' = [task EXCEPT ![k] = v]
        BY <1>2 DEF IInv
      <4>2. /\ IsFiniteSet(Busy')
            /\ v.pc \in Early => Cardinality(Unminted') = Cardinality(Unminted)
            /\ v.pc \notin Early => Cardinality(Unminted') = Cardinality(Unminted) - 1
        BY <3>0, <4>1, OneTaskCounts
      <4> QED BY <4>1, <4>2, CountsAreNumbers
    <3> QED BY <1>0, <2>2, <3>1, CountsAreNumbers, AgentAssumption DEF IInv, Bounds
  <2>4. Ledger' /\ OnePostPerRequest'
    BY <1>0, <1>2, LedgerMoves
  <2>5. Memory'
    <3>1. lock' # NoTask /\ lock' # k => task'[lock'] = task[lock] /\ lock' = lock
      BY <1>2, <2>1, TaskMoves DEF Shapes
    <3>2. lock' = k => task'[lock'].pc # "publish" /\ lock = NoTask /\ copy # 0
      BY <1>0, <1>2, TaskMoves
    <3>3. lock' = NoTask => lock = NoTask
      BY <1>2, AgentAssumption
    <3> QED BY <1>0, <2>2, <3>1, <3>2, <3>3 DEF IInv, Memory
  <2> QED BY <1>1, <2>1, <2>2, <2>3, <2>4, <2>5 DEF IInv
<1>3. CASE Evicted(k) /\ lock' = lock
           /\ task' = [task EXCEPT ![k] = [pc |-> "open", token |-> @.token,
                                           request |-> @.request, body |-> @.body]]
  <2> DEFINE v == [pc |-> "open", token |-> task[k].token, request |-> task[k].request,
                   body |-> task[k].body]
  <2>1. task' = [task EXCEPT ![k] = v]
    BY <1>3 DEF IInv, Shapes
  <2>2. v \in TaskStates /\ v.pc = "open"
    BY <1>0 DEF TaskStates, Asked, AskedOf
  <2> HIDE DEF v
  <2> QED BY <1>2, <1>3, <2>1, <2>2
<1>4. CASE End(k) /\ lock' = lock
  <2>1. Idle \in TaskStates /\ Idle.pc = "idle"
    BY DEF TaskStates, Idle
  <2> QED BY <1>2, <1>4, <2>1 DEF End
<1>5. CASE /\ task[k].copy = copy /\ Free
           /\ task' = [task EXCEPT ![k].pc = "look"] /\ lock' = k
  <2> DEFINE v == [task[k] EXCEPT !.pc = "look"]
  <2>1. task' = [task EXCEPT ![k] = v]
    BY <1>5 DEF IInv, Shapes
  <2>2. v \in TaskStates /\ v.pc = "look"
    BY <1>0 DEF TaskStates, AskedOf
  <2>3. copy # 0 /\ lock = NoTask
    BY <1>0, <1>5, AgentAssumption DEF AskedOf, Free
  <2> HIDE DEF v
  <2> QED BY <1>2, <1>5, <2>1, <2>2, <2>3
<1> QED BY <1>3, <1>4, <1>5 DEF Lock

\* A step of the task that holds the lock and gives it back.
LEMMA Releases ==
    ASSUME IInv, NEW k \in Tasks, lock = k, End(k), lock' = NoTask,
           UNCHANGED <<cred, minting, member, accepts, rows, receipts, posted, minted, copy,
                       dropped>>
    PROVE  /\ task' \in [Tasks -> TaskStates]
           /\ LockIsHeld' /\ Panics' = Panics /\ Bounds' /\ Ledger' /\ OnePostPerRequest'
<1>1. Idle \in TaskStates /\ Idle.pc = "idle"
  BY DEF TaskStates, Idle
<1>2. task' = [task EXCEPT ![k] = Idle]
  BY DEF End
<1>3. task[k].pc \in Inside
  BY DEF IInv, LockIsHeld
<1>4. task' \in [Tasks -> TaskStates] /\ LockIsHeld' /\ Panics' = Panics
  BY <1>1, <1>2, <1>3, TaskMoves DEF Inside
<1>5. Bounds'
  <2>1. /\ IsFiniteSet(Busy')
        /\ task[k].pc \in Early => Cardinality(Unminted') = Cardinality(Unminted) - 1
        /\ task[k].pc \notin Early => Cardinality(Unminted') = Cardinality(Unminted)
    <3>1. Idle.pc \notin Early
      BY <1>1 DEF Early
    <3> QED BY <1>2, <3>1, OneTaskCounts DEF IInv
  <2>2. Cardinality(Unminted') <= Cardinality(Unminted) /\ Cardinality(Unminted') \in Int
    BY <2>1, CountsAreNumbers DEF IInv
  <2> QED BY <1>4, <2>1, <2>2, CountsAreNumbers, AgentAssumption DEF IInv, Bounds
<1>6. Ledger' /\ OnePostPerRequest'
  BY <1>1, <1>2, LedgerMoves
<1> QED BY <1>4, <1>5, <1>6

\* An identical retry is answered with the receipt of the post it repeats.
LEMMA ReplayStep ==
    ASSUME IInv, NEW k \in Tasks, Replay(k)
    PROVE  IInv'
<1>1. task[k].pc = "look" /\ End(k) /\ lock' = NoTask
      /\ UNCHANGED <<cred, minting, member, accepts, rows, receipts, posted, minted, copy,
                     dropped, live>>
  BY DEF Replay, account, storage
<1>2. task[k] \in AskedOf("look")
  BY <1>1, ShapeOf DEF IInv
<1>3. lock = k
  BY <1>1 DEF IInv, LockIsHeld, Inside
<1>4. /\ task' \in [Tasks -> TaskStates]
      /\ LockIsHeld' /\ Panics' = Panics /\ Bounds' /\ Ledger' /\ OnePostPerRequest'
  BY <1>1, <1>3, Releases
<1>5. answers' \subseteq posted
  <2>1. PICK x \in Receipt(task[k].token, task[k].request) :
          IF SameRequest(x, task[k].body) THEN Answer(k, x.blip) ELSE UNCHANGED answers
    BY DEF Replay
  <2>2. x \in posted /\ x \in Post /\ x.token = task[k].token /\ x.request = task[k].request
    BY <2>1 DEF Receipt, IInv, Ledger, Shapes
  <2>3. CASE SameRequest(x, task[k].body)
    <3>1. x = [token |-> task[k].token, request |-> task[k].request, body |-> task[k].body,
               blip |-> x.blip]
      BY <2>2, <2>3 DEF SameRequest, Post
    <3> QED BY <2>1, <2>2, <2>3, <3>1 DEF Answer, IInv, ReceiptNamesItsPost
  <2>4. CASE ~SameRequest(x, task[k].body)
    BY <2>1, <2>4 DEF IInv, ReceiptNamesItsPost
  <2> QED BY <2>3, <2>4
<1>6. Shapes'
  BY <1>1, <1>4, <1>5 DEF IInv, Shapes
<1>7. ReceiptNamesItsPost'
  BY <1>1, <1>5 DEF ReceiptNamesItsPost
<1>8. Memory'
  BY <1>1, <1>3, <1>4, AgentAssumption DEF IInv, Memory
<1> QED BY <1>4, <1>6, <1>7, <1>8 DEF IInv

\* A new request is refused, or gets an id nobody else has.
LEMMA PrepareStep ==
    ASSUME IInv, NEW k \in Tasks, Prepare(k)
    PROVE  IInv'
<1>1. task[k].pc = "look"
      /\ UNCHANGED <<cred, minting, member, accepts, rows, receipts, posted, copy, dropped,
                     live, answers>>
  BY DEF Prepare, account
<1>2. task[k] \in AskedOf("look")
  BY <1>1, ShapeOf DEF IInv
<1>3. lock = k
  BY <1>1 DEF IInv, LockIsHeld, Inside
<1>4. ReceiptNamesItsPost'
  BY <1>1 DEF IInv, ReceiptNamesItsPost
<1>5. CASE End(k) /\ lock' = NoTask /\ UNCHANGED minted
  <2>1. /\ task' \in [Tasks -> TaskStates]
        /\ LockIsHeld' /\ Panics' = Panics /\ Bounds' /\ Ledger' /\ OnePostPerRequest'
    BY <1>1, <1>3, <1>5, Releases
  <2>2. Shapes'
    BY <1>1, <1>5, <2>1 DEF IInv, Shapes
  <2>3. Memory'
    BY <1>1, <1>3, <1>5, <2>1, AgentAssumption DEF IInv, Memory
  <2> QED BY <1>4, <2>1, <2>2, <2>3 DEF IInv
<1>6. CASE /\ minted' = minted + 1
           /\ task' = [task EXCEPT ![k] = [pc |-> "write", token |-> @.token,
                          request |-> @.request, body |-> @.body, blip |-> minted + 1]]
           /\ UNCHANGED lock
  <2> DEFINE v == [pc |-> "write", token |-> task[k].token, request |-> task[k].request,
                   body |-> task[k].body, blip |-> minted + 1]
  <2>1. task' = [task EXCEPT ![k] = v]
    BY <1>6 DEF IInv, Shapes
  <2>2. minted + Cardinality(Unminted) <= MaxBlips /\ Cardinality(Unminted) \in Nat \ {0}
        /\ minted \in Nat
    <3>1. k \in Unminted
      BY <1>1 DEF Unminted, Early
    <3> QED BY <3>1, CountsAreNumbers, FS_EmptySet DEF IInv, Bounds
  <2>3. minted + 1 \in 1..MaxBlips
    BY <2>2, AgentAssumption
  <2>4. v \in TaskStates /\ v.pc = "write"
    BY <1>2, <2>3 DEF TaskStates, AskedOf, Writing
  <2> HIDE DEF v
  <2>5. Shapes'
    BY <1>1, <1>6, <2>1, <2>4, TaskMoves DEF IInv, Shapes
  <2>6. LockIsHeld' /\ Panics' = Panics
    BY <1>1, <1>6, <2>1, <2>4, TaskMoves DEF Inside
  <2>7. Bounds'
    <3>1. v.pc \notin Early /\ task[k].pc \in Early
      BY <1>1, <2>4 DEF Early
    <3>2. IsFiniteSet(Busy') /\ Cardinality(Unminted') = Cardinality(Unminted) - 1
      BY <2>1, <3>1, OneTaskCounts DEF IInv
    <3> QED BY <1>1, <1>6, <2>2, <2>6, <3>2, AgentAssumption DEF IInv, Bounds
  <2>8. Ledger' /\ OnePostPerRequest'
    BY <1>1, <2>1, <2>4, LedgerMoves
  <2>9. Memory'
    BY <1>1, <1>3, <1>6, <2>1, <2>4, <2>6, TaskMoves DEF IInv, Memory
  <2> QED BY <1>4, <2>5, <2>6, <2>7, <2>8, <2>9 DEF IInv
<1> QED BY <1>5, <1>6 DEF Prepare

\* The write is refused, or it posts what was never posted: a post of the same
\* request by a credential that is still good would have left its receipt.
LEMMA CreateAgentReplyStep ==
    ASSUME IInv, NEW k \in Tasks, CreateAgentReply(k)
    PROVE  IInv'
<1> DEFINE x == PostOf(k)
<1>1. /\ task[k].pc = "write"
      /\ \/ /\ StillValid(x.token) /\ Receipt(x.token, x.request) = {}
            /\ rows' = rows \cup {x.blip}
            /\ receipts' = receipts \cup ReceiptRow(x)
            /\ posted' = posted \cup {x}
            /\ task' = [task EXCEPT ![k].pc = "publish"] /\ lock' = lock
         \/ End(k) /\ lock' = NoTask /\ UNCHANGED <<rows, receipts, posted>>
      /\ UNCHANGED <<cred, minting, member, accepts, minted, copy, dropped, live, answers>>
  BY DEF CreateAgentReply, PostOf, account
<1>2. task[k] \in Writing("write")
  BY <1>1, ShapeOf DEF IInv
<1>3. lock = k
  BY <1>1 DEF IInv, LockIsHeld, Inside
<1>4. x \in Post /\ x.token = task[k].token /\ x.request = task[k].request
      /\ x.blip = task[k].blip
  BY <1>2 DEF Writing, Post, PostOf
<1>5. CASE End(k) /\ lock' = NoTask /\ UNCHANGED <<rows, receipts, posted>>
  <2>1. /\ task' \in [Tasks -> TaskStates]
        /\ LockIsHeld' /\ Panics' = Panics /\ Bounds' /\ Ledger' /\ OnePostPerRequest'
    BY <1>1, <1>3, <1>5, Releases
  <2>2. Shapes' /\ ReceiptNamesItsPost'
    BY <1>1, <1>5, <2>1 DEF IInv, Shapes, ReceiptNamesItsPost
  <2>3. Memory'
    BY <1>1, <1>3, <1>5, <2>1, AgentAssumption DEF IInv, Memory
  <2> QED BY <2>1, <2>2, <2>3 DEF IInv
<1>6. CASE /\ StillValid(x.token) /\ Receipt(x.token, x.request) = {}
           /\ rows' = rows \cup {x.blip}
           /\ receipts' = receipts \cup ReceiptRow(x)
           /\ posted' = posted \cup {x}
           /\ task' = [task EXCEPT ![k].pc = "publish"] /\ lock' = lock
  <2> DEFINE v == [task[k] EXCEPT !.pc = "publish"]
  <2>1. task' = [task EXCEPT ![k] = v]
    BY <1>6 DEF IInv, Shapes
  <2>2. v \in TaskStates /\ v.pc = "publish" /\ v.blip = x.blip
        /\ v.token = x.token /\ v.request = x.request /\ v.body = x.body
    BY <1>2, <1>4 DEF TaskStates, Writing, PostOf
  <2> HIDE DEF v
  <2>3. PostOf(k)' = x
    BY <2>1, <2>2, TaskMoves DEF PostOf
  <2>4. cred[x.token] = "live"
    BY <1>6 DEF StillValid, Valid
  <2>5. \A y \in posted : ~(y.token = x.token /\ y.request = x.request)
    <3> SUFFICES ASSUME NEW y \in posted, y.token = x.token, y.request = x.request
                 PROVE  FALSE
      OBVIOUS
    <3>1. y \in receipts
      BY <2>4 DEF IInv, Ledger
    <3> QED BY <1>6, <3>1 DEF Receipt
  <2> HIDE DEF x
  <2>6. Shapes'
    BY <1>1, <1>4, <1>6, <2>1, <2>2, TaskMoves DEF IInv, Shapes, ReceiptRow, Post
  <2>7. LockIsHeld' /\ Panics' = Panics
    BY <1>1, <1>6, <2>1, <2>2, TaskMoves DEF Inside
  <2>8. Bounds'
    <3>1. v.pc \notin Early /\ task[k].pc \notin Early
      BY <1>1, <2>2 DEF Early
    <3>2. IsFiniteSet(Busy') /\ Cardinality(Unminted') = Cardinality(Unminted)
      BY <2>1, <3>1, OneTaskCounts DEF IInv
    <3> QED BY <1>1, <2>7, <3>2 DEF IInv, Bounds
  <2>9. Ledger'
    <3>1. \A j \in Tasks : (task[j].pc = "publish")' => (PostOf(j) \in posted)'
      <4>1. ASSUME NEW j \in Tasks \ {k}, task'[j].pc = "publish"
            PROVE  PostOf(j)' \in posted
        <5>1. task'[j] = task[j] /\ PostOf(j)' = PostOf(j)
          BY <2>1, <2>2, TaskMoves
        <5> QED BY <4>1, <5>1 DEF IInv, Ledger
      <4>2. x \in posted'
        BY <1>6
      <4>3. \A j \in Tasks : j = k \/ j \in Tasks \ {k}
        OBVIOUS
      <4> QED BY <1>6, <2>3, <4>1, <4>2, <4>3
    <3>2. receipts' \subseteq posted' /\ x \in receipts'
      BY <1>6 DEF IInv, Ledger, ReceiptRow
    <3>3. \A y \in posted' : /\ cred'[y.token] # "unborn"
                             /\ cred'[y.token] # "deleted" => y \in receipts'
      BY <1>1, <1>6, <2>4, <3>2 DEF IInv, Ledger
    <3>4. \A t \in minting' : cred'[t] = "unborn"
      BY <1>1 DEF IInv, Ledger
    <3> QED BY <3>1, <3>2, <3>3, <3>4 DEF Ledger
  <2>10. OnePostPerRequest'
    BY <1>6, <2>5 DEF IInv, OnePostPerRequest
  <2>11. ReceiptNamesItsPost'
    BY <1>1, <1>6 DEF IInv, ReceiptNamesItsPost
  <2>12. Memory'
    <3>1. task'[lock'] = v /\ lock' # NoTask
      BY <1>3, <1>6, <2>1, <2>2, TaskMoves, AgentAssumption
    <3>2. copy # 0 /\ (Panics = {} => live = rows)
      BY <1>1, <1>3, AgentAssumption DEF IInv, Memory
    <3> QED BY <1>1, <1>6, <2>2, <2>7, <3>1, <3>2 DEF Memory
  <2> QED BY <2>6, <2>7, <2>8, <2>9, <2>10, <2>11, <2>12 DEF IInv
<1> QED
  <2> HIDE DEF x
  <2> QED BY <1>1, <1>5, <1>6

\* Publication brings the copy up to storage before the lock is given back.
LEMMA PublishStep ==
    ASSUME IInv, NEW k \in Tasks, Publish(k)
    PROVE  IInv'
<1>1. task[k].pc = "publish" /\ End(k) /\ lock' = NoTask /\ live' = live \cup {task[k].blip}
      /\ UNCHANGED <<cred, minting, member, accepts, rows, receipts, posted, minted, copy,
                     dropped>>
  BY DEF Publish, account, storage
<1>2. task[k] \in Writing("publish")
  BY <1>1, ShapeOf DEF IInv
<1>3. lock = k
  BY <1>1 DEF IInv, LockIsHeld, Inside
<1>4. /\ task' \in [Tasks -> TaskStates]
      /\ LockIsHeld' /\ Panics' = Panics /\ Bounds' /\ Ledger' /\ OnePostPerRequest'
  BY <1>1, <1>3, Releases
<1>5. answers' \subseteq posted
  <2>1. answers' \in {answers, answers \cup {PostOf(k)}}
    BY DEF Publish, Answer, PostOf
  <2>2. PostOf(k) \in posted
    BY <1>1 DEF IInv, Ledger
  <2> QED BY <2>1, <2>2 DEF IInv, ReceiptNamesItsPost
<1>6. Shapes'
  BY <1>1, <1>2, <1>4, <1>5 DEF IInv, Shapes, Writing
<1>7. ReceiptNamesItsPost'
  BY <1>1, <1>5 DEF ReceiptNamesItsPost
<1>8. Memory'
  BY <1>1, <1>3, <1>4, AgentAssumption DEF IInv, Memory
<1> QED BY <1>4, <1>6, <1>7, <1>8 DEF IInv

\* A panic gives the lock back with the copy behind; the task stays to clean up.
LEMMA PanicStep ==
    ASSUME IInv, NEW k \in Tasks, Panic(k)
    PROVE  IInv'
<1>1. task' = [task EXCEPT ![k] = Panicked] /\ lock = k /\ lock' = NoTask /\ Spare
      /\ UNCHANGED <<cred, minting, member, accepts, rows, receipts, posted, minted, copy,
                     dropped, live, answers>>
  BY DEF Panic, Panicked, account, storage
<1>2. Panicked \in TaskStates /\ Panicked.pc = "panicked"
  BY DEF TaskStates, Panicked
<1>3. task[k].pc \in Inside
  BY <1>1 DEF IInv, LockIsHeld
<1>4. Shapes'
  BY <1>1, <1>2, TaskMoves DEF IInv, Shapes
<1>5. LockIsHeld'
  BY <1>1, <1>2, TaskMoves DEF Inside
<1>6. Bounds'
  <2>1. Panicked.pc \notin Early /\ task[k].pc # "panicked"
    BY <1>2, <1>3 DEF Early, Inside
  <2>2. /\ IsFiniteSet(Busy') /\ Cardinality(Panics') = Cardinality(Panics) + 1
        /\ task[k].pc \in Early => Cardinality(Unminted') = Cardinality(Unminted) - 1
        /\ task[k].pc \notin Early => Cardinality(Unminted') = Cardinality(Unminted)
    BY <1>1, <1>2, <2>1, OneTaskCounts DEF IInv
  <2>3. Cardinality(Unminted') <= Cardinality(Unminted) /\ Cardinality(Unminted') \in Int
    BY <2>2, CountsAreNumbers DEF IInv
  <2>4. dropped + Cardinality(Panics) < MaxLosses
    BY <1>1 DEF Spare, Panics
  <2> QED BY <1>1, <2>2, <2>3, <2>4, CountsAreNumbers, AgentAssumption DEF IInv, Bounds
<1>7. Ledger' /\ OnePostPerRequest'
  BY <1>1, <1>2, LedgerMoves
<1>8. ReceiptNamesItsPost'
  BY <1>1 DEF IInv, ReceiptNamesItsPost
<1>9. Memory'
  <2>1. k \in Panics'
    BY <1>1, <1>2, TaskMoves DEF Panics
  <2> QED BY <1>1, <2>1 DEF Memory
<1> QED BY <1>4, <1>5, <1>6, <1>7, <1>8, <1>9 DEF IInv

\* Cleaning up leaves no copy at all, so nothing in memory is behind.
LEMMA EvictAfterPanicStep ==
    ASSUME IInv, NEW k \in Tasks, EvictAfterPanic(k)
    PROVE  IInv'
<1>1. /\ task' = [task EXCEPT ![k] = Idle] /\ task[k].pc = "panicked" /\ lock = NoTask
      /\ \/ copy = 0 /\ UNCHANGED <<copy, live, dropped>>
         \/ copy # 0 /\ Drop
      /\ UNCHANGED <<cred, minting, member, accepts, rows, receipts, posted, minted, lock,
                     answers>>
  BY DEF EvictAfterPanic, DropAfterPanic, End, account, storage
<1>2. Idle \in TaskStates /\ Idle.pc = "idle"
  BY DEF TaskStates, Idle
<1>3. copy' = 0 /\ live' \subseteq live
  BY <1>1 DEF Drop
<1>4. Shapes'
  BY <1>1, <1>2, <1>3, TaskMoves DEF IInv, Shapes
<1>5. LockIsHeld'
  BY <1>1, <1>2, TaskMoves DEF Inside
<1>6. Bounds'
  <2>1. Idle.pc \notin Early /\ task[k].pc \notin Early
    BY <1>1, <1>2 DEF Early
  <2>2. /\ IsFiniteSet(Busy') /\ Cardinality(Panics') = Cardinality(Panics) - 1
        /\ Cardinality(Unminted') = Cardinality(Unminted)
    BY <1>1, <1>2, <2>1, OneTaskCounts DEF IInv
  <2>3. dropped' \in {dropped, dropped + 1}
    BY <1>1 DEF Drop
  <2> QED BY <1>1, <1>3, <2>2, <2>3, CountsAreNumbers, AgentAssumption DEF IInv, Bounds
<1>7. Ledger' /\ OnePostPerRequest'
  BY <1>1, <1>2, LedgerMoves
<1>8. ReceiptNamesItsPost'
  BY <1>1 DEF IInv, ReceiptNamesItsPost
<1>9. Memory'
  BY <1>1, <1>3 DEF Memory
<1> QED BY <1>4, <1>5, <1>6, <1>7, <1>8, <1>9 DEF IInv

\* A restart forgets the tasks and the copy, and keeps posts and receipts.
LEMMA CrashStep ==
    ASSUME IInv, Crash
    PROVE  IInv'
<1>1. /\ Spare /\ copy' = 0 /\ live' = {} /\ dropped' = dropped + 1
      /\ lock' = NoTask /\ task' = [k \in Tasks |-> Idle] /\ minting' = {}
      /\ UNCHANGED <<cred, member, accepts, rows, receipts, posted, minted, answers>>
  BY DEF Crash, Drop, storage
<1>2. \A k \in Tasks : task'[k].pc = "idle"
  BY <1>1 DEF Idle
<1>3. Shapes'
  BY <1>1 DEF IInv, Shapes, TaskStates
<1>4. LockIsHeld'
  BY <1>1, <1>2, AgentAssumption DEF LockIsHeld, Inside
<1>5. Bounds'
  <2>1. Busy' = {} /\ Unminted' = {} /\ Panics' = {}
    BY <1>2 DEF Busy, Unminted, Panics, Early
  <2>2. IsFiniteSet({}) /\ Cardinality({}) = 0
    BY FS_EmptySet
  <2>3. dropped + Cardinality(Panics) < MaxLosses
    BY <1>1 DEF Spare, Panics
  <2> QED BY <1>1, <2>1, <2>2, <2>3, CountsAreNumbers, AgentAssumption DEF IInv, Bounds
<1>6. Ledger' /\ OnePostPerRequest' /\ ReceiptNamesItsPost'
  BY <1>1, <1>2 DEF IInv, Ledger, OnePostPerRequest, ReceiptNamesItsPost
<1>7. Memory'
  BY <1>1 DEF Memory
<1> QED BY <1>3, <1>4, <1>5, <1>6, <1>7 DEF IInv

-----------------------------------------------------------------------------
(* The theorems.                                                           *)

LEMMA NextInv == ASSUME IInv, [Next]_vars PROVE IInv'
<1>1. CASE UNCHANGED vars
  <2>1. UNCHANGED <<task, lock, minted, dropped, copy, rows, live>>
    BY <1>1 DEF vars
  <2>2. LockIsHeld' /\ Bounds' /\ Memory' /\ \A k \in Tasks : PostOf(k)' = PostOf(k)
    BY <2>1, TasksUntouched
  <2> QED BY <1>1, <2>2 DEF vars, IInv, Shapes, Ledger, OnePostPerRequest, ReceiptNamesItsPost
<1>2. ASSUME NEW k \in Tasks, Step(k)
      PROVE  IInv'
  BY <1>2, OpenWaveStep, LockStep, ReplayStep, PrepareStep, CreateAgentReplyStep, PublishStep,
     EvictAfterPanicStep DEF Step
<1> QED BY <1>1, <1>2, AccountStep, RevokeStep, WaveStep, CrashStep, ReplyStep, PanicStep
        DEF Next

\* However often a request is sent, and whatever panics, restarts, revocations
\* and deletions come between, agent.rs posts it once, its receipts name that
\* post, and the copy in memory has what storage has when the lock is free.
THEOREM RepliesAreKeptAlways == Spec => []RepliesAreKept
BY InitInv, NextInv, IInvImplies, PTL DEF Spec

\* create_agent_reply checks the credential in the transaction that writes: no
\* credential that is revoked, expired or out of the wavelet ever posts.
THEOREM DeadCredentialsAreSilent == Spec => DeadCredentialIsSilent
<1>1. ASSUME [Next]_vars
      PROVE  [\A x \in posted' \ posted : Valid(x.token)]_vars
  <2>1. ASSUME NEW k \in Tasks, CreateAgentReply(k)
        PROVE  \A x \in posted' \ posted : Valid(x.token)
    BY <2>1 DEF CreateAgentReply, StillValid
  <2>2. ASSUME Next, \A k \in Tasks : ~CreateAgentReply(k)
        PROVE  posted' = posted
    <3>1. ASSUME NEW k \in Tasks,
                 \/ \E t \in Tokens, r \in Requests, b \in Bodies : Reply(k, t, r, b)
                 \/ Step(k) \/ Panic(k)
          PROVE  posted' = posted
      BY <2>2, <3>1 DEF Reply, Step, OpenWave, Lock, Replay, Prepare, Publish, EvictAfterPanic,
                        Panic, storage
    <3>2. ASSUME NEW t \in Tokens,
                 CreateToken(t) \/ CreateAgentToken(t) \/ RevokeToken(t) \/ Expire(t)
          PROVE  posted' = posted
      BY <3>2 DEF CreateToken, CreateAgentToken, RevokeToken, Expire, Delete, storage
    <3>3. ASSUME RevokeAll \/ ChangeRules \/ MaybeEvict \/ Crash
          PROVE  posted' = posted
      BY <3>3 DEF RevokeAll, ChangeRules, MaybeEvict, Crash, Delete, storage
    <3>4. ASSUME NEW b \in 1..MaxBlips, DeleteBlip(b)
          PROVE  posted' = posted
      BY <3>4 DEF DeleteBlip
    <3> QED BY <2>2, <3>1, <3>2, <3>3, <3>4 DEF Next
  <2>3. CASE UNCHANGED vars
    BY <2>3
  <2> QED BY <1>1, <2>1, <2>2, <2>3
<1> QED BY <1>1, PTL DEF Spec, DeadCredentialIsSilent
=============================================================================

------------------------------- MODULE Agent -------------------------------
(***************************************************************************)
(* The agent interface of agent.rs: the credentials of one account for one *)
(* wavelet, and the replies posted with them, each under a request id that *)
(* the caller repeats when it does not know whether a post got through.    *)
(*                                                                         *)
(* A reply runs in a task of its own that outlives the caller: it finds    *)
(* the resident copy of the wave, waits for its lock, looks for a receipt, *)
(* writes the message and its receipt in one transaction and publishes the *)
(* message in the copy.  Revocation and expiry do not take that lock.      *)
(***************************************************************************)
EXTENDS Naturals, FiniteSets

CONSTANTS
    Tokens,      \* the credentials that may be minted
    ReadOnly,    \* those of scope Read
    Requests,    \* request ids
    Bodies,      \* what a request asks to post
    Tasks,       \* the replies in progress at once: the bound on them
    MaxBlips,    \* bound: messages ever posted
    MaxLosses    \* bound: copies dropped from memory

NoTask == "none"

ASSUME AgentAssumption ==
    /\ ReadOnly \subseteq Tokens /\ MaxBlips \in Nat /\ MaxLosses \in Nat
    /\ NoTask \notin Tasks

VARIABLES
    cred,      \* each credential: not minted yet, live, expired, or deleted
    minting,   \* the credentials whose create_token has passed its checks
    member,    \* is the account a participant of the wavelet?
    accepts,   \* would the mode and the parent let the account post now?
    rows,      \* the posted messages in storage
    receipts,  \* agent_replies: one row per credential and request id
    copy,      \* which copy of the wave is resident; 0 for none
    dropped,   \* how many copies were dropped from memory
    live,      \* the posted messages in that copy
    lock,      \* the task that holds the copy's lock
    task,      \* the replies in progress
    minted,    \* how many message ids were minted
    posted,    \* history: what was ever committed, and for which request
    answers    \* history: the receipts the callers got

vars == <<cred, minting, member, accepts, rows, receipts, copy, dropped, live, lock,
          task, minted, posted, answers>>

storage == <<rows, receipts, posted, minted>>
account == <<cred, minting, member, accepts>>

Idle == [pc |-> "idle"]

\* valid_agent_token: the row, not expired, of a participant.
Valid(t) == cred[t] = "live" /\ member

\* The receipt of a request, if there is one.
Receipt(t, r) == {x \in receipts : x.token = t /\ x.request = r}

Init ==
    /\ cred = [t \in Tokens |-> "unborn"] /\ minting = {}
    /\ member = TRUE /\ accepts = TRUE
    /\ rows = {} /\ receipts = {} /\ posted = {} /\ minted = 0
    /\ copy = 0 /\ dropped = 0 /\ live = {} /\ lock = NoTask
    /\ task = [k \in Tasks |-> Idle]
    /\ answers = {}

----------------------------------------------------------------------------
(* Credentials.                                                            *)

\* create_token up to its insert: the account participates in the wavelet.
CreateToken(t) ==
    /\ cred[t] = "unborn" /\ member
    /\ minting' = minting \cup {t}
    /\ UNCHANGED <<cred, member, accepts, storage, copy, dropped, live, lock, task, answers>>

\* create_agent_token: the insert, if the account still participates.
CreateAgentToken(t) ==
    /\ t \in minting
    /\ cred' = [cred EXCEPT ![t] = IF member THEN "live" ELSE "unborn"]
    /\ minting' = minting \ {t}
    /\ UNCHANGED <<member, accepts, storage, copy, dropped, live, lock, task, answers>>

\* Deleting a credential deletes its receipts.
Delete(gone) ==
    /\ cred' = [t \in Tokens |-> IF t \in gone THEN "deleted" ELSE cred[t]]
    /\ receipts' = {x \in receipts : x.token \notin gone}
    /\ UNCHANGED <<minting, member, accepts, rows, posted, minted, copy, dropped, live,
                   lock, task, answers>>

RevokeToken(t) == cred[t] \in {"live", "expired"} /\ Delete({t})

\* A password change, or signing out everywhere.
RevokeAll ==
    LET mine == {t \in Tokens : cred[t] \in {"live", "expired"}}
    IN mine # {} /\ Delete(mine)

Expire(t) ==
    /\ cred[t] = "live"
    /\ cred' = [cred EXCEPT ![t] = "expired"]
    /\ UNCHANGED <<minting, member, accepts, storage, copy, dropped, live, lock, task, answers>>

----------------------------------------------------------------------------
(* The rest of the wave, under its lock.                                   *)

\* The account is removed from the wavelet or added again, the mode changes or
\* the parent is deleted.
ChangeRules ==
    /\ lock = NoTask
    /\ \/ member' = ~member /\ accepts' = accepts
       \/ accepts' = ~accepts /\ member' = member
    /\ UNCHANGED <<cred, minting, storage, copy, dropped, live, lock, task, answers>>

\* The author deletes a posted message in the browser; its receipt stays.
DeleteBlip(b) ==
    /\ lock = NoTask /\ copy # 0 /\ b \in rows
    /\ rows' = rows \ {b} /\ live' = live \ {b}
    /\ UNCHANGED <<account, receipts, posted, minted, copy, dropped, lock, task, answers>>

\* Another copy may be lost.
Spare == dropped + Cardinality({k \in Tasks : task[k].pc = "panicked"}) < MaxLosses

\* The copy leaves memory; whoever has found it still holds it.
Drop == copy' = 0 /\ live' = {} /\ dropped' = dropped + 1

MaybeEvict ==
    /\ Spare /\ lock = NoTask /\ copy # 0 /\ Drop
    /\ UNCHANGED <<account, storage, lock, task, answers>>

----------------------------------------------------------------------------
(* A reply.                                                                *)

\* The extractor and the checks of reply.
Reply(k, t, r, b) ==
    /\ minted + Cardinality({j \in Tasks : task[j].pc # "idle"}) < MaxBlips
    /\ task[k].pc = "idle"
    /\ Valid(t) /\ t \notin ReadOnly
    /\ task' = [task EXCEPT ![k] = [pc |-> "open", token |-> t, request |-> r, body |-> b]]
    /\ UNCHANGED <<account, storage, copy, dropped, live, lock, answers>>

\* open_wave, which reads the wave from storage when no copy is resident.
OpenWave(k) ==
    /\ task[k].pc = "open"
    /\ copy' = IF copy = 0 THEN dropped + 1 ELSE copy
    /\ live' = IF copy = 0 THEN rows ELSE live
    /\ task' = [task EXCEPT ![k] = [pc |-> "wait", token |-> @.token, request |-> @.request,
                                    body |-> @.body, copy |-> copy']]
    /\ UNCHANGED <<account, storage, dropped, lock, answers>>

\* The task ends without a receipt.
End(k) == task' = [task EXCEPT ![k] = Idle]

\* The lock of a copy that was evicted meanwhile is of no use.
\* Mistake: the task goes on waiting for the copy it found.
EvictedForGood(k) == FALSE
Evicted(k) == task[k].copy # copy

\* The lock of the copy can be taken.
\* Mistake: it is not waited for.
FreeAnyway == TRUE
Free == lock = NoTask

\* The task gets the lock: it starts over with an evicted copy, and ends if
\* the account or the credential is no longer good.
Lock(k) ==
    /\ task[k].pc = "wait"
    /\ \/ /\ Evicted(k)
          /\ task' = [task EXCEPT ![k] = [pc |-> "open", token |-> @.token,
                                          request |-> @.request, body |-> @.body]]
          /\ UNCHANGED lock
       \/ /\ task[k].copy = copy /\ Free
          /\ \/ ~Valid(task[k].token) /\ End(k) /\ UNCHANGED lock
             \/ /\ Valid(task[k].token)
                /\ task' = [task EXCEPT ![k].pc = "look"] /\ lock' = k
    /\ UNCHANGED <<account, storage, copy, dropped, live, answers>>

\* A caller gets its receipt, unless it has gone.
Answer(k, blip) ==
    LET x == [token |-> task[k].token, request |-> task[k].request, body |-> task[k].body,
              blip |-> blip]
    IN answers' \in {answers, answers \cup {x}}

\* A stored receipt is for the same request when the whole request is the same.
\* Mistake: the request id alone is compared.
SameRequestId(x, body) == TRUE
SameRequest(x, body) == x.body = body

\* agent_reply_receipt, before the mode and the parent are looked at: an
\* identical retry is answered, another request with the id refused.
Replay(k) ==
    /\ task[k].pc = "look"
    /\ \E x \in Receipt(task[k].token, task[k].request) :
         IF SameRequest(x, task[k].body) THEN Answer(k, x.blip) ELSE UNCHANGED answers
    /\ End(k) /\ lock' = NoTask
    /\ UNCHANGED <<account, storage, copy, dropped, live>>

\* prepare_blip for a new request: refused, or a message to be written.
Prepare(k) ==
    /\ task[k].pc = "look" /\ Receipt(task[k].token, task[k].request) = {}
    /\ \/ ~accepts /\ End(k) /\ lock' = NoTask /\ UNCHANGED minted
       \/ /\ accepts
          /\ minted' = minted + 1
          /\ task' = [task EXCEPT ![k] = [pc |-> "write", token |-> @.token,
                          request |-> @.request, body |-> @.body, blip |-> minted + 1]]
          /\ UNCHANGED lock
    /\ UNCHANGED <<account, rows, receipts, posted, copy, dropped, live, answers>>

\* The check of the credential inside the write transaction.
\* Mistake: the credential was checked when the lock was taken.
StillValidLater(t) == TRUE
StillValid(t) == Valid(t) /\ t \notin ReadOnly

\* The receipt that is committed with the message.
\* Mistake: it is written by a later transaction, which never comes.
NoReceiptRow(x) == {}
ReceiptRow(x) == {x}

\* create_agent_reply: message and receipt, or neither.
CreateAgentReply(k) ==
    LET x == [token |-> task[k].token, request |-> task[k].request, body |-> task[k].body,
              blip |-> task[k].blip]
    IN /\ task[k].pc = "write"
       /\ \/ /\ StillValid(x.token) /\ Receipt(x.token, x.request) = {}
             /\ rows' = rows \cup {x.blip}
             /\ receipts' = receipts \cup ReceiptRow(x)
             /\ posted' = posted \cup {x}
             /\ task' = [task EXCEPT ![k].pc = "publish"] /\ UNCHANGED lock
          \/ /\ End(k) /\ lock' = NoTask   \* a dead credential, or a failed write
             /\ UNCHANGED <<rows, receipts, posted>>
       /\ UNCHANGED <<account, minted, copy, dropped, live, answers>>

\* publish_blip and the 201.
Publish(k) ==
    /\ task[k].pc = "publish"
    /\ live' = live \cup {task[k].blip}
    /\ Answer(k, task[k].blip)
    /\ End(k) /\ lock' = NoTask
    /\ UNCHANGED <<account, storage, copy, dropped>>

\* The task panics while it holds the lock, which is released on the way out.
Panic(k) ==
    /\ Spare /\ lock = k
    /\ task' = [task EXCEPT ![k] = [pc |-> "panicked"]] /\ lock' = NoTask
    /\ UNCHANGED <<account, storage, copy, dropped, live, answers>>

\* evict_after_panic, once it has the lock in its turn.
\* Mistake: the copy stays.
DropNothing == UNCHANGED <<copy, live, dropped>>
DropAfterPanic == Drop

EvictAfterPanic(k) ==
    /\ task[k].pc = "panicked" /\ lock = NoTask
    /\ IF copy = 0 THEN UNCHANGED <<copy, live, dropped>> ELSE DropAfterPanic
    /\ End(k)
    /\ UNCHANGED <<account, storage, lock, answers>>

\* The process dies: what was in memory is gone, the database stays.
Crash ==
    /\ Spare /\ Drop
    /\ lock' = NoTask /\ task' = [k \in Tasks |-> Idle] /\ minting' = {}
    /\ UNCHANGED <<cred, member, accepts, storage, answers>>

Step(k) ==
    \/ OpenWave(k) \/ Lock(k) \/ Replay(k) \/ Prepare(k) \/ CreateAgentReply(k) \/ Publish(k)
    \/ EvictAfterPanic(k)

Next ==
    \/ \E t \in Tokens : CreateToken(t) \/ CreateAgentToken(t) \/ RevokeToken(t) \/ Expire(t)
    \/ RevokeAll \/ ChangeRules \/ MaybeEvict \/ Crash
    \/ \E b \in 1..MaxBlips : DeleteBlip(b)
    \/ \E k \in Tasks :
         \/ \E t \in Tokens, r \in Requests, b \in Bodies : Reply(k, t, r, b)
         \/ Step(k) \/ Panic(k)

\* Every task runs on: the lock is handed on in turn and no write hangs.
Spec == Init /\ [][Next]_vars /\ \A k \in Tasks : SF_vars(Step(k))

----------------------------------------------------------------------------
(* Properties.                                                             *)

Post == [token : Tokens, request : Requests, body : Bodies, blip : 1..MaxBlips]

\* Every variable has the type of the state it stands for, and the lock is held
\* by exactly the task that is past it.
TypeOK ==
    /\ cred \in [Tokens -> {"unborn", "live", "expired", "deleted"}]
    /\ minting \subseteq Tokens /\ member \in BOOLEAN /\ accepts \in BOOLEAN
    /\ rows \subseteq 1..MaxBlips /\ live \subseteq 1..MaxBlips
    /\ receipts \subseteq Post /\ posted \subseteq Post /\ answers \subseteq Post
    /\ minted \in 0..MaxBlips /\ dropped \in 0..MaxLosses /\ copy \in 0..(MaxLosses + 1)
    /\ \A k \in Tasks : task[k].pc \in {"look", "write", "publish"} <=> lock = k

\* However often a request is sent, in parallel, after a lost answer, a panic,
\* a restart of the server or a deletion of the message, it is posted once.
OnePostPerRequest ==
    \A x, y \in posted : x.token = y.token /\ x.request = y.request => x = y

\* A receipt names the message that was posted for this very request: an id
\* used again for another body is never answered with the first one's message.
ReceiptNamesItsPost == answers \subseteq posted

\* The copy in memory has the stored messages whenever its lock is free and no
\* panic is being cleaned up: after a failed write, a panic between the write and
\* publication, even with another reply let in before the cleaning, a restart.
CopyIsStored ==
    copy # 0 /\ lock = NoTask /\ (\A k \in Tasks : task[k].pc # "panicked") => live = rows

\* A credential that was revoked, has expired or lost its membership while its
\* reply was waiting posts nothing from then on.
DeadCredentialIsSilent ==
    [][\A x \in posted' \ posted : Valid(x.token)]_vars

\* A reply in progress ends, however the copies come and go under it.
RepliesEnd == \A k \in Tasks : task[k].pc # "idle" ~> task[k].pc = "idle"

\* A request of an agent leaves one message, its receipt names that message, and
\* the copy people watch has it.
RepliesAreKept == TypeOK /\ OnePostPerRequest /\ ReceiptNamesItsPost /\ CopyIsStored
=============================================================================

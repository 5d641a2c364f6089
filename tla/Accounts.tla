------------------------------ MODULE Accounts ------------------------------
(***************************************************************************)
(* How an account comes to be and is signed in to: registration, sign-in   *)
(* and password change (http.rs), the identity provider (oidc.rs), the     *)
(* limiter on wrong guesses (limit.rs) and the slots for password hashing  *)
(* (state.rs).  What a session is good for, and how it ends, is in         *)
(* Sessions.                                                               *)
(*                                                                         *)
(* A request reads the account, waits for a slot, hashes off the reactor,  *)
(* and acts on what it read before.  Its caller may go away at any await.  *)
(***************************************************************************)
EXTENDS Integers, FiniteSets, Sequences

CONSTANTS
    NameOrder,    \* the names there are, in the order free_name tries them
    Passwords,
    Subjects,     \* people the provider knows
    Browsers,     \* where sign-ins through the provider are started
    Requests,     \* HTTP requests in progress at once: the bound on them
    MaxSlots,     \* MAX_PASSWORD_JOBS
    Capacity,     \* of the account limiter
    MaxFlows,     \* MAX_FLOWS
    Budgets       \* bounds, one of which a behaviour keeps to: requests ever made,
                  \* sign-ins started at the provider, tokens refilled

ASSUME AccountsAssumption ==
    /\ MaxSlots \in Nat \ {0} /\ Capacity \in Nat \ {0} /\ MaxFlows \in Nat \ {0}
    /\ Budgets \subseteq [requests : Nat, starts : Nat, refills : Nat]
    /\ IsFiniteSet(Requests) /\ Requests # {}

Names == {NameOrder[i] : i \in DOMAIN NameOrder}

\* No account; and the hash of an account that came from the provider.
NoAccount == "none"
NoPassword == "!"

ASSUME NamesAssumption ==
    /\ NameOrder \in Seq(Names) /\ NoAccount \notin Names
    /\ NoAccount \notin Passwords /\ NoPassword \notin Passwords

VARIABLES
    hash,      \* the users table: each name's password, as verify_password sees it
    identity,  \* oauth_identities: each subject's account
    sessions,  \* rows of the sessions table: account, and the flow or password behind it
    req,       \* the requests in progress
    made,      \* how many requests were made
    permits,   \* free permits of password_slots
    bucket,    \* tokens of each account in account_limiter
    refills,   \* tokens ever refilled
    guesses,   \* history: wrong guesses that were answered, per account name
    flows,     \* Oidc.flows: sign-ins started and not completed, numbered by age
    started,   \* who started each flow
    expired,   \* flows up to this one are older than FLOW_TTL
    cookie,    \* the flow cookie of each browser; 0 for none
    budget     \* the bounds of this behaviour

vars == <<hash, identity, sessions, req, made, permits, bucket, refills, guesses, flows,
          started, expired, cookie, budget>>

limiter == <<bucket, refills, guesses>>
oidc == <<flows, started, expired, cookie, budget>>
table == <<hash, identity, sessions>>

Idle == [pc |-> "idle"]

Init ==
    /\ hash = [n \in Names |-> NoAccount]
    /\ identity = [s \in Subjects |-> NoAccount]
    /\ sessions = {}
    /\ req = [r \in Requests |-> Idle] /\ made = 0
    /\ permits = MaxSlots
    /\ bucket = [n \in Names |-> Capacity] /\ refills = 0
    /\ guesses = [n \in Names |-> 0]
    /\ flows = {} /\ started = <<>> /\ expired = 0
    /\ cookie = [b \in Browsers |-> 0] /\ budget \in Budgets

\* A request comes in.
Begin(r, x) ==
    /\ req[r].pc = "idle" /\ made < budget.requests
    /\ made' = made + 1
    /\ req' = [req EXCEPT ![r] = x]

Goto(r, pc) == req' = [req EXCEPT ![r].pc = pc]
End(r) == req' = [req EXCEPT ![r] = Idle]

\* verify_password: "!" and the dummy hash of an unknown name match nothing.
Matches(given, stored) == given = stored

----------------------------------------------------------------------------
(* Rate limiting.                                                          *)

\* would_allow: a whole token, so that an empty bucket refuses.
\* Mistake: the peek costs nothing.
PeekForFree(n) == bucket[n] >= 0
WouldAllow(n) == bucket[n] >= 1

Throttled(n) == ~WouldAllow(n)

\* check: a token is taken if there is one.
Charge(n) == bucket' = [bucket EXCEPT ![n] = IF @ >= 1 THEN @ - 1 ELSE @]

\* The bucket refills with time; an idle one is forgotten when it is full.
Refill(n) ==
    /\ refills < budget.refills /\ bucket[n] < Capacity
    /\ bucket' = [bucket EXCEPT ![n] = @ + 1] /\ refills' = refills + 1
    /\ UNCHANGED <<table, req, made, permits, guesses, oidc>>

----------------------------------------------------------------------------
(* Password requests up to their hash.                                     *)

\* register: the name is free.
Register(r, n, p) ==
    /\ hash[n] = NoAccount
    /\ Begin(r, [pc |-> "wait", kind |-> "register", name |-> n, given |-> p,
                 stored |-> NoAccount, ok |-> TRUE, no |-> made + 1])
    /\ UNCHANGED <<table, permits, limiter, oidc>>

\* login: the account is not locked, and its hash is read.
Login(r, n, p) ==
    /\ ~Throttled(n)
    /\ Begin(r, [pc |-> "wait", kind |-> "login", name |-> n, given |-> p,
                 stored |-> hash[n], ok |-> FALSE, no |-> made + 1])
    /\ UNCHANGED <<table, permits, limiter, oidc>>

\* change_password: the extractor reads the account with the session.
ChangePassword(r, x, current, new) ==
    /\ x \in sessions
    /\ Begin(r, [pc |-> "wait", kind |-> "change", name |-> x.user, given |-> current,
                 stored |-> hash[x.user], ok |-> FALSE, no |-> made + 1, new |-> new,
                 keep |-> x])
    /\ UNCHANGED <<table, permits, limiter, oidc>>

----------------------------------------------------------------------------
(* password_work.                                                          *)

\* The request gets a permit and its work is put on the blocking pool.
Acquire(r) ==
    /\ req[r].pc = "wait" /\ permits > 0
    /\ permits' = permits - 1
    /\ Goto(r, "job")
    /\ UNCHANGED <<table, made, limiter, oidc>>

\* A sign-in looks again whether the account was locked while it waited.
Refused(r) == req[r].kind = "login" /\ Throttled(req[r].name)

\* The work is done and its permit is free again.
Work(r) ==
    /\ req[r].pc = "job"
    /\ permits' = permits + 1
    /\ LET right == Matches(req[r].given, req[r].stored) IN
       \/ Refused(r) /\ End(r)
       \/ /\ ~Refused(r)
          /\ req' = [req EXCEPT ![r].pc = "verdict",
                                ![r].ok = req[r].kind \in {"register", "rehash"} \/ right]
    /\ UNCHANGED <<table, made, limiter, oidc>>

\* The caller goes away and its request is dropped where it waits; work that has
\* begun goes on, with its permit.
\* Mistake: the permit belongs to the request.
PermitFreed == permits + 1
PermitKept == permits

Cancel(r) ==
    \/ /\ req[r].pc = "job"
       /\ Goto(r, "orphan") /\ permits' = PermitKept
       /\ UNCHANGED <<table, made, limiter, oidc>>
    \/ /\ req[r].pc \in {"wait", "verdict", "issue", "exchange", "link"}
       /\ End(r)
       /\ UNCHANGED <<table, made, permits, limiter, oidc>>

\* Mistake: nobody returns the permit of work whose caller went away.
PermitLost == permits
PermitBack == permits + 1

OrphanEnds(r) ==
    /\ req[r].pc = "orphan"
    /\ permits' = PermitBack
    /\ End(r)
    /\ UNCHANGED <<table, made, limiter, oidc>>

----------------------------------------------------------------------------
(* What follows the hash.                                                  *)

\* A wrong guess is charged; a change with a wrong password is refused.
Wrong(r) ==
    /\ req[r].pc = "verdict" /\ ~req[r].ok
    /\ IF req[r].kind = "login"
       THEN Charge(req[r].name) /\ guesses' = [guesses EXCEPT ![req[r].name] = @ + 1]
       ELSE UNCHANGED <<bucket, guesses>>
    /\ End(r)
    /\ UNCHANGED <<table, made, permits, refills, oidc>>

\* create_user: the name is unique, and a concurrent registration may have it.
CreateUser(r) ==
    /\ req[r].pc = "verdict" /\ req[r].kind = "register"
    /\ \/ /\ hash[req[r].name] = NoAccount
          /\ hash' = [hash EXCEPT ![req[r].name] = req[r].given]
          /\ Goto(r, "issue")
       \/ /\ hash[req[r].name] # NoAccount
          /\ End(r) /\ UNCHANGED hash
    /\ UNCHANGED <<identity, sessions, made, permits, limiter, oidc>>

\* The second password_work of a change, for the new hash.
Rehash(r) ==
    /\ req[r].pc = "verdict" /\ req[r].kind = "change" /\ req[r].ok
    /\ req' = [req EXCEPT ![r].kind = "rehash", ![r].pc = "wait"]
    /\ UNCHANGED <<table, made, permits, limiter, oidc>>

\* change_password in storage: the new hash, and every other session ended.
StorePassword(r) ==
    /\ req[r].pc = "verdict" /\ req[r].kind = "rehash"
    /\ hash' = [hash EXCEPT ![req[r].name] = req[r].new]
    /\ sessions' = {y \in sessions : y.user # req[r].name \/ y = req[r].keep}
    /\ End(r)
    /\ UNCHANGED <<identity, made, permits, limiter, oidc>>

\* issue_session; the flow and the browser are history.
IssueSession(r) ==
    /\ \/ req[r].pc = "verdict" /\ req[r].kind = "login" /\ req[r].ok
       \/ req[r].pc = "issue" /\ req[r].kind = "register"
    /\ sessions' = sessions \cup {[id |-> req[r].no, user |-> req[r].name, flow |-> 0,
                                   browser |-> "password"]}
    /\ End(r)
    /\ UNCHANGED <<hash, identity, made, permits, limiter, oidc>>

----------------------------------------------------------------------------
(* The identity provider.                                                  *)

Least(S) == CHOOSE x \in S : \A y \in S : x <= y

\* begin: expired flows are pruned, and the oldest makes room in a full map.
\* Mistake: the flows of people who never came back stay.
NotPruned == flows
Pruned ==
    LET fresh == {f \in flows : f > expired}
    IN IF Cardinality(fresh) >= MaxFlows THEN fresh \ {Least(fresh)} ELSE fresh

\* start: the browser is sent to the provider with a new flow and its cookie, in
\* place of the cookie of a flow it started before.
Start(b) ==
    /\ Len(started) < budget.starts
    /\ flows' = Pruned \cup {Len(started) + 1}
    /\ started' = Append(started, b)
    /\ cookie' = [cookie EXCEPT ![b] = Len(started) + 1]
    /\ UNCHANGED <<table, req, made, permits, limiter, expired, budget>>

Expire ==
    /\ expired < Len(started)
    /\ expired' = expired + 1
    /\ UNCHANGED <<table, req, made, permits, limiter, flows, started, cookie, budget>>

\* What is left of the flows once one was taken.
\* Mistake: a flow is looked up and stays.
TakenStays(f) == flows
Taken(f) == flows \ {f}

\* The returned state is that of the flow of the cookie.
\* Mistake: it is not compared.
AnyState(f, state) == TRUE
StateMatches(f, state) == f = state

\* callback up to its first await: the browser comes back with the state of some
\* flow, its own or that of a link it was given, perhaps not for the first time.
Callback(r, b, state, s) ==
    /\ cookie[b] # 0
    /\ flows' = Taken(cookie[b])
    /\ IF cookie[b] \in flows /\ cookie[b] > expired /\ StateMatches(cookie[b], state)
       THEN Begin(r, [pc |-> "exchange", kind |-> "callback", subject |-> s, browser |-> b,
                      flow |-> cookie[b], state |-> state, no |-> made + 1])
       ELSE req[r].pc = "idle" /\ UNCHANGED <<req, made>>
    /\ UNCHANGED <<table, permits, limiter, started, expired, cookie, budget>>

\* The provider refused: the cookie is cleared, and its flow left to expire.
ProviderRefuses(b) ==
    /\ cookie[b] # 0
    /\ cookie' = [cookie EXCEPT ![b] = 0]
    /\ UNCHANGED <<table, req, made, permits, limiter, flows, started, expired, budget>>

\* endpoints and exchange: the provider answers with the subject, or fails.
Exchange(r) ==
    /\ req[r].pc = "exchange"
    /\ Goto(r, "link") \/ End(r)
    /\ UNCHANGED <<table, made, permits, limiter, oidc>>

\* The account a subject has already.
\* Mistake: an account that has the provider's name for them is theirs.
AccountByName(s) == IF identity[s] = NoAccount /\ hash[NameOrder[1]] # NoAccount
                    THEN NameOrder[1] ELSE identity[s]
AccountOf(s) == identity[s]

\* free_name: the first of the numbered names that is free.
FreeNames == {i \in DOMAIN NameOrder : hash[NameOrder[i]] = NoAccount}

\* user_for_oauth_identity, one immediate transaction.
UserForOauthIdentity(r) ==
    LET s == req[r].subject
        found == AccountOf(s)
        name == NameOrder[Least(FreeNames)]
        Signed(n) == req' = [req EXCEPT ![r] =
                       [pc |-> "issue", kind |-> "callback", name |-> n, browser |-> @.browser,
                        flow |-> @.flow, state |-> @.state, no |-> @.no]]
    IN /\ req[r].pc = "link"
       /\ \/ /\ found # NoAccount /\ Signed(found)
             /\ identity' = [identity EXCEPT ![s] = found] /\ UNCHANGED hash
          \/ /\ found = NoAccount /\ FreeNames # {} /\ Signed(name)
             /\ hash' = [hash EXCEPT ![name] = NoPassword]
             /\ identity' = [identity EXCEPT ![s] = name]
          \/ /\ found = NoAccount /\ FreeNames = {} /\ End(r)
             /\ UNCHANGED <<hash, identity>>
       /\ UNCHANGED <<sessions, made, permits, limiter, oidc>>

\* The session rides home with the cookie of the flow cleared.
SignIn(r) ==
    /\ req[r].pc = "issue" /\ req[r].kind = "callback"
    /\ sessions' = sessions \cup {[id |-> req[r].no, user |-> req[r].name,
                                   flow |-> req[r].state, browser |-> req[r].browser]}
    /\ cookie' = [cookie EXCEPT ![req[r].browser] = 0]
    /\ End(r)
    /\ UNCHANGED <<hash, identity, made, permits, limiter, flows, started, expired, budget>>

----------------------------------------------------------------------------
Step(r) ==
    \/ Work(r) \/ OrphanEnds(r) \/ Wrong(r) \/ CreateUser(r) \/ Rehash(r)
    \/ StorePassword(r) \/ IssueSession(r) \/ Exchange(r) \/ UserForOauthIdentity(r)
    \/ SignIn(r)

Next ==
    \/ \E n \in Names : Refill(n)
    \/ \E b \in Browsers : Start(b) \/ ProviderRefuses(b)
    \/ Expire
    \/ \E r \in Requests :
         \/ \E n \in Names, p \in Passwords : Register(r, n, p) \/ Login(r, n, p)
         \/ \E x \in sessions, p \in Passwords, q \in Passwords : ChangePassword(r, x, p, q)
         \/ \E b \in Browsers, f \in DOMAIN started, s \in Subjects : Callback(r, b, f, s)
         \/ Acquire(r) \/ Cancel(r) \/ Step(r)

\* The pool and the database answer, and the semaphore is fair.
Spec ==
    /\ Init /\ [][Next]_vars
    /\ \A r \in Requests : WF_vars(Step(r)) /\ SF_vars(Acquire(r))

----------------------------------------------------------------------------
(* Properties.                                                             *)

\* Every variable has the type of the state it stands for.
TypeOK ==
    /\ hash \in [Names -> Passwords \cup {NoAccount, NoPassword}]
    /\ identity \in [Subjects -> Names \cup {NoAccount}]
    /\ \A x \in sessions : x.user \in Names /\ x.flow \in 0..Len(started)
    /\ made \in 0..budget.requests /\ permits \in Nat
    /\ bucket \in [Names -> 0..Capacity] /\ refills \in 0..budget.refills
    /\ flows \subseteq DOMAIN started /\ Cardinality(flows) <= MaxFlows
    /\ expired \in 0..Len(started) /\ cookie \in [Browsers -> 0..Len(started)]

\* However callers come and go, no more hashes run at once than there are slots.
HashingIsBounded ==
    Cardinality({r \in Requests : req[r].pc \in {"job", "orphan"}}) <= MaxSlots

\* An account meets no more wrong guesses than its allowance, and each time that
\* runs out those that were already let through, at most one less than the
\* requests at once: it may run out at first and again after each refill.
GuessesAreBounded ==
    \A n \in Names :
      guesses[n] <= Capacity + refills + (refills + 1) * (Cardinality(Requests) - 1)

\* Everyone has one way in: an account has a password, or is the account of just
\* one person at the provider, never both and never neither.
OneDoorPerAccount ==
    \A n \in Names :
      LET owners == {s \in Subjects : identity[s] = n}
      IN CASE hash[n] = NoAccount -> owners = {}
           [] hash[n] = NoPassword -> Cardinality(owners) = 1
           [] OTHER -> owners = {}

\* A callback replayed, or raced by another, signs nobody in again.
FlowSignsInOnce ==
    \A x, y \in sessions : x.flow # 0 /\ x.flow = y.flow => x = y

\* A sign-in ends in the browser that started it.
SignInIsItsBrowsers ==
    \A x \in sessions : x.flow # 0 => started[x.flow] = x.browser

\* No request waits for ever for a slot, whoever goes away while hashing.
RequestsEnd == \A r \in Requests : req[r].pc # "idle" ~> req[r].pc = "idle"

\* A password is changed by someone who gave the one in force (http.rs:357).
ChangeNeedsCurrentPassword ==
    [][\A n \in Names :
         hash[n] \in Passwords /\ hash'[n] # hash[n]
           => \E r \in Requests : req[r].pc = "verdict" /\ req[r].kind = "rehash"
                                  /\ req[r].name = n /\ req[r].given = hash[n]]_vars

\* What strangers can make the server do: hashes at once, and wrong guesses in all.
WorkIsBounded == TypeOK /\ HashingIsBounded /\ GuessesAreBounded

\* Who is signed in is who proved it: one way into each account, and a sign-in at
\* the provider is good once, in the browser it began in.
SignInsAreEarned == OneDoorPerAccount /\ FlowSignsInOnce /\ SignInIsItsBrowsers
=============================================================================

--------------------------- MODULE AccountsProofs ---------------------------
(***************************************************************************)
(* Proofs about Accounts, for every list of names, all sets of passwords,  *)
(* people and browsers, any number of requests at once, slots and tokens,  *)
(* and whatever the bounds of the behaviour.                               *)
(***************************************************************************)
EXTENDS Accounts, FiniteSetTheorems, WellFoundedInduction, TLAPS

-----------------------------------------------------------------------------
(* The inductive invariant.                                                *)

Sess == [id : Nat, user : Names, flow : Nat, browser : Browsers \cup {"password"}]
Stored == Passwords \cup {NoAccount, NoPassword}

Asks == [pc : {"wait", "job", "orphan", "verdict", "issue"}, kind : {"register", "login"},
         name : Names, given : Passwords, stored : Stored, ok : BOOLEAN, no : Nat]
Changes == [pc : {"wait", "job", "orphan", "verdict"}, kind : {"change", "rehash"},
            name : Names, given : Passwords, stored : Stored, ok : BOOLEAN, no : Nat,
            new : Passwords, keep : Sess]
Callbacks == [pc : {"exchange", "link"}, kind : {"callback"}, subject : Subjects,
              browser : Browsers, flow : Nat, state : Nat, no : Nat]
Signings == [pc : {"issue"}, kind : {"callback"}, name : Names, browser : Browsers,
             flow : Nat, state : Nat, no : Nat]
ReqStates == {Idle} \cup Asks \cup Changes \cup Callbacks \cup Signings

\* What a request carries at each of its steps, and what the tables hold.
Shapes ==
    /\ hash \in [Names -> Stored] /\ identity \in [Subjects -> Names \cup {NoAccount}]
    /\ sessions \subseteq Sess /\ req \in [Requests -> ReqStates]
    /\ budget \in Budgets /\ made \in 0..budget.requests /\ refills \in 0..budget.refills
    /\ bucket \in [Names -> 0..Capacity] /\ guesses \in [Names -> Nat]
    /\ started \in Seq(Browsers) /\ flows \subseteq 1..Len(started)
    /\ expired \in 0..Len(started) /\ cookie \in [Browsers -> 0..Len(started)]

\* A permit is free, or with work that runs, its caller gone or not.
On(x) == x.pc \in {"job", "orphan"}
Hashing == {r \in Requests : On(req[r])}
Slots == permits \in Nat /\ permits + Cardinality(Hashing) = MaxSlots

\* The sign-ins that are let through and found wrong are charged one by one.  While
\* the bucket holds a token they all still count against it; when it is empty,
\* those already let through go over, and nobody else until it is refilled.
Got(x, n) == x.pc = "verdict" /\ x.kind = "login" /\ x.name = n
LetThrough(n) == {r \in Requests : Got(req[r], n)}
Allowance == Capacity + refills * Cardinality(Requests)
Guesses ==
    \A n \in Names :
      /\ bucket[n] >= 1 => guesses[n] + bucket[n] <= Allowance
      /\ bucket[n] = 0 =>
           guesses[n] + Cardinality(LetThrough(n)) <= Allowance + Cardinality(Requests) - 1

\* The owners of an account; and a change of password that got its hash checked
\* is about an account that has one.
Owners(n) == {s \in Subjects : identity[s] = n}
Knows(x) ==
    /\ x.kind = "change" /\ x.stored \in Passwords => hash[x.name] \in Passwords
    /\ x.kind = "change" /\ x.pc = "verdict" /\ x.ok => x.given = x.stored
    /\ x.kind = "rehash" => hash[x.name] \in Passwords
Doors ==
    /\ \A n \in Names : IF hash[n] = NoPassword THEN \E s \in Subjects : Owners(n) = {s}
                                                ELSE Owners(n) = {}
    /\ \A r \in Requests : req[r] \in Changes => Knows(req[r])

\* A flow is on the table, or with the one callback that took it, or behind the
\* one session that came of it.
Flying(x) == x.pc \in {"exchange", "link"} \/ (x.pc = "issue" /\ x.kind = "callback")
Flows ==
    /\ Cardinality(flows) <= MaxFlows
    /\ \A b \in Browsers : cookie[b] # 0 => started[cookie[b]] = b
    /\ \A r \in Requests : Flying(req[r]) =>
         /\ req[r].state = req[r].flow /\ req[r].flow \in 1..Len(started)
         /\ req[r].flow \notin flows /\ started[req[r].flow] = req[r].browser
         /\ \A x \in sessions : x.flow # req[r].flow
    /\ \A r, q \in Requests : Flying(req[r]) /\ Flying(req[q]) /\ r # q => req[r].flow # req[q].flow
    /\ \A x \in sessions : x.flow \in 0..Len(started) /\ x.flow \notin flows
    /\ FlowSignsInOnce /\ SignInIsItsBrowsers

IInv == Shapes /\ Slots /\ Guesses /\ Doors /\ Flows

-----------------------------------------------------------------------------
(* Lemmas.                                                                 *)

\* A nonempty set of numbers has a least one.
LEMMA LeastIsIn ==
    ASSUME NEW S, S \subseteq Nat, S # {}
    PROVE  Least(S) \in S
<1> DEFINE Below == {p \in Nat \X Nat : p[1] < p[2]}
<1>1. IsWellFoundedOn(Below, Nat)
  BY NatLessThanWellFounded DEF OpToRel
<1> HIDE DEF Below
<1>2. PICK x \in S : \A y \in S : ~ (<<y, x>> \in Below)
  BY <1>1, WFMin
<1>3. ASSUME NEW y \in S PROVE x <= y
  <2>1. y \in Nat /\ x \in Nat
    OBVIOUS
  <2>2. <<y, x>> \in Nat \X Nat /\ <<y, x>>[1] = y /\ <<y, x>>[2] = x
    BY <2>1
  <2>3. y < x => <<y, x>> \in Below
    BY <2>2 DEF Below
  <2> QED BY <1>2, <2>1, <2>3
<1> QED BY <1>3 DEF Least

\* The number of requests at once.
LEMMA RequestsAreCounted ==
    /\ IsFiniteSet(Requests) /\ Cardinality(Requests) \in Nat /\ Cardinality(Requests) >= 1
<1>1. IsFiniteSet(Requests) /\ Requests # {}
  BY AccountsAssumption
<1>2. Cardinality(Requests) \in Nat /\ Cardinality(Requests) # 0
  BY <1>1, FS_CardinalityType, FS_EmptySet
<1> QED BY <1>1, <1>2

\* Sets of requests are counted, and what one request more or less does to it.
LEMMA CountOf ==
    ASSUME NEW S, S \subseteq Requests, NEW r \in Requests
    PROVE  /\ IsFiniteSet(S) /\ Cardinality(S) \in Nat
           /\ Cardinality(S) <= Cardinality(Requests)
           /\ r \notin S => /\ Cardinality(S \cup {r}) = Cardinality(S) + 1
                            /\ Cardinality(S) <= Cardinality(Requests) - 1
           /\ r \in S => Cardinality(S \ {r}) = Cardinality(S) - 1
<1>1. IsFiniteSet(S) /\ Cardinality(S) \in Nat /\ Cardinality(S) <= Cardinality(Requests)
  BY RequestsAreCounted, FS_Subset, FS_CardinalityType
<1>2. r \notin S => Cardinality(S \cup {r}) = Cardinality(S) + 1
  BY <1>1, FS_AddElement
<1>3. r \in S => Cardinality(S \ {r}) = Cardinality(S) - 1
  BY <1>1, FS_RemoveElement
<1>4. S \cup {r} \subseteq Requests
  OBVIOUS
<1>5. Cardinality(S \cup {r}) <= Cardinality(Requests)
  BY <1>4, RequestsAreCounted, FS_Subset
<1>6. r \notin S => Cardinality(S) <= Cardinality(Requests) - 1
  BY <1>1, <1>2, <1>5, RequestsAreCounted
<1> QED BY <1>1, <1>2, <1>3, <1>6

\* What one request's step does to the two counts.
LEMMA OneRequestCounts ==
    ASSUME Shapes, NEW r \in Requests, NEW v, req' = [req EXCEPT ![r] = v]
    PROVE  /\ Cardinality(Hashing) \in Nat
           /\ On(v) /\ ~On(req[r]) => Cardinality(Hashing') = Cardinality(Hashing) + 1
           /\ ~On(v) /\ On(req[r]) => Cardinality(Hashing') = Cardinality(Hashing) - 1
           /\ (On(v) <=> On(req[r])) => Cardinality(Hashing') = Cardinality(Hashing)
           /\ \A n \in Names :
                /\ Cardinality(LetThrough(n)) \in Nat
                /\ ~Got(v, n) => /\ Cardinality(LetThrough(n)') \in Nat
                                 /\ Cardinality(LetThrough(n)') <= Cardinality(LetThrough(n))
                                 /\ Cardinality(LetThrough(n)') <= Cardinality(Requests) - 1
                /\ ~Got(v, n) /\ Got(req[r], n) =>
                     Cardinality(LetThrough(n)') = Cardinality(LetThrough(n)) - 1
<1>0. req'[r] = v /\ \A q \in Requests \ {r} : req'[q] = req[q]
  BY DEF Shapes
<1>1. Hashing \subseteq Requests /\ (r \in Hashing <=> On(req[r]))
  BY DEF Hashing
<1>2. /\ On(v) => Hashing' = Hashing \cup {r}
      /\ ~On(v) => Hashing' = Hashing \ {r}
  BY <1>0 DEF Hashing
<1>3. ASSUME NEW n \in Names
      PROVE  /\ Cardinality(LetThrough(n)) \in Nat
             /\ ~Got(v, n) => /\ Cardinality(LetThrough(n)') \in Nat
                              /\ Cardinality(LetThrough(n)') <= Cardinality(LetThrough(n))
                              /\ Cardinality(LetThrough(n)') <= Cardinality(Requests) - 1
             /\ ~Got(v, n) /\ Got(req[r], n) =>
                  Cardinality(LetThrough(n)') = Cardinality(LetThrough(n)) - 1
  <2> DEFINE L == LetThrough(n)
  <2>1. L \subseteq Requests /\ (r \in L <=> Got(req[r], n))
    BY DEF LetThrough
  <2>2. ~Got(v, n) => LetThrough(n)' = L \ {r}
    BY <1>0 DEF LetThrough
  <2>3. L \ {r} \subseteq Requests /\ r \notin L \ {r} /\ (r \notin L => L \ {r} = L)
    BY <2>1
  <2> HIDE DEF L
  <2>4. /\ Cardinality(L) \in Nat /\ Cardinality(L \ {r}) \in Nat
        /\ Cardinality(L \ {r}) <= Cardinality(Requests) - 1
        /\ r \in L => Cardinality(L \ {r}) = Cardinality(L) - 1
    BY <2>1, <2>3, CountOf
  <2>5. Cardinality(L \ {r}) <= Cardinality(L)
    <3>1. CASE r \in L
      BY <2>4, <3>1
    <3>2. CASE r \notin L
      BY <2>3, <2>4, <3>2
    <3> QED BY <3>1, <3>2
  <2> QED BY <2>1, <2>2, <2>4, <2>5 DEF L
<1>4. /\ Cardinality(Hashing) \in Nat
      /\ r \notin Hashing => Cardinality(Hashing \cup {r}) = Cardinality(Hashing) + 1
      /\ r \in Hashing => Cardinality(Hashing \ {r}) = Cardinality(Hashing) - 1
      /\ r \in Hashing => Hashing \cup {r} = Hashing
      /\ r \notin Hashing => Hashing \ {r} = Hashing
  BY <1>1, CountOf
<1> QED BY <1>1, <1>2, <1>3, <1>4

\* The step a request is at and what it carries tell each other.
LEMMA ShapeOf ==
    ASSUME Shapes, NEW r \in Requests
    PROVE  /\ req[r].pc = "idle" => req[r] = Idle
           /\ req[r].pc \in {"wait", "job", "orphan", "verdict"} => req[r] \in Asks \cup Changes
           /\ req[r].pc \in {"exchange", "link"} => req[r] \in Callbacks
           /\ req[r].pc = "issue" => req[r] \in Asks \cup Signings
           /\ req[r].pc = "issue" /\ req[r].kind = "callback" => req[r] \in Signings
           /\ req[r].pc = "issue" /\ req[r].kind = "register" => req[r] \in Asks
           /\ req[r].pc \notin {"idle", "exchange", "link"} /\ req[r].kind \in {"change", "rehash"} =>
                req[r] \in Changes
           /\ req[r].pc \notin {"idle", "exchange", "link"} /\ req[r].kind \in {"register", "login"} =>
                req[r] \in Asks
<1>1. req[r] \in ReqStates
  BY DEF Shapes
<1> QED BY <1>1 DEF ReqStates, Idle, Asks, Changes, Callbacks, Signings

-----------------------------------------------------------------------------
(* The ends of the argument.                                               *)

LEMMA InitInv == Init => IInv
<1> SUFFICES ASSUME Init PROVE IInv
  OBVIOUS
<1>1. \A r \in Requests : req[r] = Idle /\ req[r].pc = "idle"
  BY DEF Init, Idle
<1>2. Shapes
  <2>1. budget.requests \in Nat /\ budget.refills \in Nat
    BY AccountsAssumption DEF Init
  <2>2. started \in Seq(Browsers) /\ Len(started) = 0
    BY DEF Init
  <2> QED BY <2>1, <2>2, AccountsAssumption DEF Init, Shapes, ReqStates, Stored
<1>3. Hashing = {} /\ \A n \in Names : LetThrough(n) = {}
  BY <1>1 DEF Hashing, LetThrough, On, Got
<1>4. Slots
  BY <1>3, FS_EmptySet, AccountsAssumption DEF Init, Slots
<1>5. Guesses
  <2>1. refills * Cardinality(Requests) = 0
    BY RequestsAreCounted DEF Init
  <2> QED BY <2>1, RequestsAreCounted, AccountsAssumption DEF Init, Guesses, Allowance
<1>6. Doors
  <2>1. \A n \in Names : Owners(n) = {} /\ hash[n] # NoPassword
    BY NamesAssumption DEF Init, Owners, NoAccount, NoPassword
  <2> QED BY <1>1, <2>1 DEF Doors, Changes, Idle
<1>7. Flows
  BY <1>1, FS_EmptySet, AccountsAssumption
     DEF Init, Flows, Flying, FlowSignsInOnce, SignInIsItsBrowsers
<1> QED BY <1>2, <1>4, <1>5, <1>6, <1>7 DEF IInv

LEMMA IInvImplies == IInv => WorkIsBounded /\ SignInsAreEarned
<1> SUFFICES ASSUME IInv PROVE WorkIsBounded /\ SignInsAreEarned
  OBVIOUS
<1>1. TypeOK
  BY DEF IInv, Shapes, Slots, Flows, TypeOK, Sess, Stored
<1>2. HashingIsBounded
  <2>1. Hashing \subseteq Requests /\ Requests # {}
    BY AccountsAssumption DEF Hashing
  <2>2. Cardinality(Hashing) \in Nat
    BY <2>1, CountOf
  <2> QED BY <2>2, AccountsAssumption DEF IInv, Slots, HashingIsBounded, Hashing, On
<1>3. GuessesAreBounded
  <2> SUFFICES ASSUME NEW n \in Names
               PROVE guesses[n] <= Capacity + refills + (refills + 1) * (Cardinality(Requests) - 1)
    BY DEF GuessesAreBounded
  <2> DEFINE N == Cardinality(Requests)
  <2>1. /\ N \in Nat /\ N >= 1 /\ refills \in Nat /\ Capacity \in Nat
        /\ bucket[n] \in Nat /\ guesses[n] \in Nat
    BY RequestsAreCounted, AccountsAssumption DEF IInv, Shapes
  <2>2. LetThrough(n) \subseteq Requests /\ Requests # {}
    BY AccountsAssumption DEF LetThrough
  <2>3. Cardinality(LetThrough(n)) \in Nat
    BY <2>2, CountOf
  <2>4. guesses[n] <= Capacity + refills * N + N - 1
    <3>1. refills * N \in Nat
      BY <2>1
    <3>2. /\ bucket[n] >= 1 => guesses[n] + bucket[n] <= Capacity + refills * N
          /\ bucket[n] = 0 => guesses[n] + Cardinality(LetThrough(n)) <= Capacity + refills * N + N - 1
      BY DEF IInv, Guesses, Allowance
    <3> HIDE DEF N
    <3> QED BY <2>1, <2>3, <3>1, <3>2
  <2> HIDE DEF N
  <2>5. (refills + 1) * (N - 1) = refills * N - refills + N - 1
    BY <2>1
  <2> QED BY <2>1, <2>4, <2>5 DEF N
<1>4. OneDoorPerAccount
  <2> SUFFICES ASSUME NEW n \in Names
               PROVE CASE hash[n] = NoAccount -> Owners(n) = {}
                       [] hash[n] = NoPassword -> Cardinality(Owners(n)) = 1
                       [] OTHER -> Owners(n) = {}
    BY DEF OneDoorPerAccount, Owners
  <2>1. CASE hash[n] = NoPassword
    <3>1. PICK s \in Subjects : Owners(n) = {s}
      BY <2>1 DEF IInv, Doors
    <3>2. Cardinality(Owners(n)) = 1
      BY <3>1, FS_Singleton
    <3> QED BY <2>1, <3>2 DEF NoAccount, NoPassword
  <2>2. CASE hash[n] # NoPassword
    BY <2>2 DEF IInv, Doors
  <2> QED BY <2>1, <2>2
<1> QED BY <1>1, <1>2, <1>3, <1>4 DEF WorkIsBounded, SignInsAreEarned, IInv, Flows

-----------------------------------------------------------------------------
(* What it takes for each part to survive the step of one request.         *)

LEMMA SlotsKept ==
    ASSUME Shapes, Slots, NEW r \in Requests, NEW v, req' = [req EXCEPT ![r] = v],
           \/ (On(v) <=> On(req[r])) /\ permits' = permits
           \/ On(v) /\ ~On(req[r]) /\ permits > 0 /\ permits' = permits - 1
           \/ ~On(v) /\ On(req[r]) /\ permits' = permits + 1
    PROVE  Slots'
<1>1. /\ Cardinality(Hashing) \in Nat
      /\ On(v) /\ ~On(req[r]) => Cardinality(Hashing') = Cardinality(Hashing) + 1
      /\ ~On(v) /\ On(req[r]) => Cardinality(Hashing') = Cardinality(Hashing) - 1
      /\ (On(v) <=> On(req[r])) => Cardinality(Hashing') = Cardinality(Hashing)
  BY OneRequestCounts
<1>2. permits' \in Nat /\ permits' + Cardinality(Hashing') = MaxSlots
  BY <1>1, AccountsAssumption DEF Slots
<1> QED BY <1>2 DEF Slots

\* Nobody is let through who was not, unless there is a token.
LEMMA GuessesKept ==
    ASSUME Shapes, Guesses, NEW r \in Requests, NEW v, req' = [req EXCEPT ![r] = v],
           UNCHANGED limiter, \A n \in Names : Got(v, n) => bucket[n] >= 1
    PROVE  Guesses'
<1> SUFFICES ASSUME NEW n \in Names
             PROVE  /\ bucket[n] >= 1 => guesses[n] + bucket[n] <= Allowance
                    /\ bucket[n] = 0 => guesses[n] + Cardinality(LetThrough(n)')
                                          <= Allowance + Cardinality(Requests) - 1
  BY DEF Guesses, Allowance, limiter
<1>1. /\ bucket[n] >= 1 => guesses[n] + bucket[n] <= Allowance
      /\ bucket[n] = 0 => guesses[n] + Cardinality(LetThrough(n))
                            <= Allowance + Cardinality(Requests) - 1
  BY DEF Guesses
<1>2. /\ Cardinality(LetThrough(n)) \in Nat
      /\ ~Got(v, n) => /\ Cardinality(LetThrough(n)') \in Nat
                       /\ Cardinality(LetThrough(n)') <= Cardinality(LetThrough(n))
  BY OneRequestCounts
<1>3. /\ bucket[n] \in Nat /\ guesses[n] \in Nat /\ Cardinality(Requests) \in Nat
      /\ Allowance \in Int
  BY RequestsAreCounted, AccountsAssumption DEF Shapes, Allowance
<1> QED BY <1>1, <1>2, <1>3

LEMMA DoorsKept ==
    ASSUME Shapes, Doors, NEW r \in Requests, NEW v, req' = [req EXCEPT ![r] = v],
           UNCHANGED <<hash, identity>>, v \in Changes => Knows(v)
    PROVE  Doors'
<1>1. req'[r] = v /\ \A q \in Requests \ {r} : req'[q] = req[q]
  BY DEF Shapes
<1>2. \A q \in Requests : req'[q] \in Changes => Knows(req[q])'
  <2> SUFFICES ASSUME NEW q \in Requests, req'[q] \in Changes PROVE Knows(req[q])'
    OBVIOUS
  <2>1. Knows(req'[q])
    BY <1>1 DEF Doors
  <2> QED BY <2>1 DEF Knows
<1>3. Changes' = Changes
  BY DEF Changes, Sess, Stored
<1> QED BY <1>2, <1>3 DEF Doors, Owners

\* A request that carries a flow keeps the one it had; a new session has none.
LEMMA FlowsKept ==
    ASSUME Shapes, Flows, NEW r \in Requests, NEW v, req' = [req EXCEPT ![r] = v],
           UNCHANGED oidc,
           \A x \in sessions' : x \in sessions \/ x.flow = 0,
           Flying(v) => /\ Flying(req[r]) /\ v.flow = req[r].flow /\ v.state = req[r].state
                        /\ v.browser = req[r].browser
    PROVE  Flows'
<1>1. req'[r] = v /\ \A q \in Requests \ {r} : req'[q] = req[q]
  BY DEF Shapes
<1>2. UNCHANGED <<flows, started, expired, cookie>> /\ Len(started) \in Nat
      /\ flows \subseteq 1..Len(started)
  BY DEF oidc, Shapes
<1>3. \A q \in Requests : Flying(req'[q]) =>
        /\ Flying(req[q]) /\ req'[q].flow = req[q].flow
        /\ req'[q].state = req[q].state /\ req'[q].browser = req[q].browser
  BY <1>1
<1>4. \A q \in Requests : Flying(req'[q]) =>
        /\ req'[q].state = req'[q].flow /\ req'[q].flow \in 1..Len(started)
        /\ req'[q].flow \notin flows /\ started[req'[q].flow] = req'[q].browser
        /\ \A x \in sessions' : x.flow # req'[q].flow
  BY <1>2, <1>3 DEF Flows
<1>5. \A q, t \in Requests : Flying(req'[q]) /\ Flying(req'[t]) /\ q # t => req'[q].flow # req'[t].flow
  BY <1>3 DEF Flows
<1>6. \A x \in sessions' : x.flow \in 0..Len(started) /\ x.flow \notin flows
  BY <1>2 DEF Flows
<1>7. FlowSignsInOnce' /\ SignInIsItsBrowsers'
  BY <1>2 DEF Flows, FlowSignsInOnce, SignInIsItsBrowsers
<1>8. \A q \in Requests : Flying(req[q])' <=> Flying(req'[q])
  BY DEF Flying
<1> QED BY <1>2, <1>4, <1>5, <1>6, <1>7, <1>8 DEF Flows

-----------------------------------------------------------------------------
(* What the steps make of the request.                                     *)

\* A request for a password goes on to another step, with what it had.
LEMMA GoesOn ==
    ASSUME Shapes, NEW r \in Requests, req[r] \in Asks \cup Changes,
           NEW p \in {"wait", "job", "orphan", "verdict"}, Goto(r, p)
    PROVE  \E v \in ReqStates :
             /\ req' = [req EXCEPT ![r] = v] /\ v.pc = p /\ v.kind = req[r].kind
             /\ v \in Changes => /\ req[r] \in Changes /\ v.name = req[r].name /\ v.ok = req[r].ok
                                 /\ v.stored = req[r].stored /\ v.given = req[r].given
<1> DEFINE v == [req[r] EXCEPT !.pc = p]
<1>1. req' = [req EXCEPT ![r] = v]
  BY DEF Goto
<1>2. CASE req[r] \in Asks
  <2>1. v \in Asks /\ v.pc = p /\ v.kind = req[r].kind
    BY <1>2 DEF Asks
  <2>2. v \notin Changes
    BY <2>1 DEF Asks, Changes
  <2> QED BY <1>1, <2>1, <2>2 DEF ReqStates
<1>3. CASE req[r] \in Changes
  <2>1. v \in Changes /\ v.pc = p /\ v.kind = req[r].kind /\ v.name = req[r].name
        /\ v.ok = req[r].ok /\ v.stored = req[r].stored /\ v.given = req[r].given
    BY <1>3 DEF Changes
  <2> QED BY <1>1, <1>3, <2>1 DEF ReqStates
<1> QED BY <1>2, <1>3

LEMMA EndsIdle ==
    ASSUME NEW r \in Requests, End(r)
    PROVE  /\ req' = [req EXCEPT ![r] = Idle] /\ Idle \in ReqStates /\ ~On(Idle) /\ ~Flying(Idle)
           /\ Idle \notin Changes /\ \A n \in Names : ~Got(Idle, n)
BY DEF End, Idle, ReqStates, On, Flying, Changes, Got

\* The verdict on a password: the change of one goes on only if it is right.
LEMMA VerdictIs ==
    ASSUME Shapes, NEW r \in Requests, req[r] \in Asks \cup Changes,
           NEW b \in BOOLEAN, b <=> (req[r].kind \in {"register", "rehash"} \/ req[r].given = req[r].stored),
           req' = [req EXCEPT ![r].pc = "verdict", ![r].ok = b]
    PROVE  \E v \in ReqStates :
             /\ req' = [req EXCEPT ![r] = v] /\ v.pc = "verdict" /\ v.kind = req[r].kind
             /\ v.name = req[r].name
             /\ v \in Changes => /\ req[r] \in Changes /\ v.stored = req[r].stored
                                 /\ v.kind = "change" /\ v.ok => v.given = v.stored
<1> DEFINE v == [req[r] EXCEPT !.pc = "verdict", !.ok = b]
<1>1. req' = [req EXCEPT ![r] = v]
  OBVIOUS
<1>2. CASE req[r] \in Asks
  <2>1. v \in Asks /\ v.pc = "verdict" /\ v.kind = req[r].kind /\ v.name = req[r].name
    BY <1>2 DEF Asks
  <2>2. v \notin Changes
    BY <2>1 DEF Asks, Changes
  <2> QED BY <1>1, <2>1, <2>2 DEF ReqStates
<1>3. CASE req[r] \in Changes
  <2>1. v \in Changes /\ v.pc = "verdict" /\ v.kind = req[r].kind /\ v.name = req[r].name
        /\ v.ok = b /\ v.stored = req[r].stored /\ v.given = req[r].given
    BY <1>3 DEF Changes
  <2> HIDE DEF v
  <2>2. v.kind = "change" /\ v.ok => v.given = v.stored
    BY <2>1
  <2> QED BY <1>1, <1>3, <2>1, <2>2 DEF ReqStates
<1> QED BY <1>2, <1>3

-----------------------------------------------------------------------------
(* Each action keeps the invariant.                                        *)

\* The parts put together for a step of one request that touches no account, no
\* bucket and no flow.
LEMMA Quiet ==
    ASSUME IInv, NEW r \in Requests, NEW v \in ReqStates, req' = [req EXCEPT ![r] = v],
           UNCHANGED <<hash, identity, sessions, limiter, oidc>>,
           made' \in 0..budget.requests,
           \/ (On(v) <=> On(req[r])) /\ permits' = permits
           \/ On(v) /\ ~On(req[r]) /\ permits > 0 /\ permits' = permits - 1
           \/ ~On(v) /\ On(req[r]) /\ permits' = permits + 1,
           \A n \in Names : Got(v, n) => bucket[n] >= 1,
           v \in Changes => Knows(v),
           Flying(v) => /\ Flying(req[r]) /\ v.flow = req[r].flow /\ v.state = req[r].state
                        /\ v.browser = req[r].browser
    PROVE  IInv'
<1>1. Shapes /\ Slots /\ Guesses /\ Doors /\ Flows
  BY DEF IInv
<1>2. Shapes'
  BY <1>1 DEF Shapes, limiter, oidc, ReqStates, Asks, Changes, Callbacks, Signings, Sess, Stored
<1>3. Slots'
  BY <1>1, SlotsKept
<1>4. Guesses'
  BY <1>1, GuessesKept
<1>5. Doors'
  BY <1>1, DoorsKept
<1>6. Flows'
  BY <1>1, FlowsKept
<1> QED BY <1>2, <1>3, <1>4, <1>5, <1>6 DEF IInv

LEMMA BeginInv ==
    ASSUME IInv, NEW r \in Requests, NEW v \in ReqStates, Begin(r, v),
           UNCHANGED <<table, permits, limiter, oidc>>,
           v.pc = "wait", v \in Changes => Knows(v)
    PROVE  IInv'
<1>1. made' \in 0..budget.requests
  <2>1. budget.requests \in Nat /\ made \in 0..budget.requests
    BY AccountsAssumption DEF IInv, Shapes
  <2> QED BY <2>1 DEF Begin
<1>2. req' = [req EXCEPT ![r] = v] /\ ~On(v) /\ ~On(req[r]) /\ ~Flying(v)
      /\ \A n \in Names : ~Got(v, n)
  BY DEF Begin, On, Flying, Got
<1> QED BY <1>1, <1>2, Quiet DEF table

LEMMA RegisterInv ==
    ASSUME IInv, NEW r \in Requests, NEW n \in Names, NEW p \in Passwords, Register(r, n, p)
    PROVE  IInv'
<1> DEFINE v == [pc |-> "wait", kind |-> "register", name |-> n, given |-> p,
                 stored |-> NoAccount, ok |-> TRUE, no |-> made + 1]
<1>1. made \in Nat
  BY AccountsAssumption DEF IInv, Shapes
<1>2. v \in Asks /\ v.pc = "wait"
  BY <1>1 DEF Asks, Stored
<1>3. v \notin Changes
  BY DEF Changes
<1>4. Begin(r, v) /\ UNCHANGED <<table, permits, limiter, oidc>>
  BY DEF Register
<1> HIDE DEF v
<1>5. v \in ReqStates
  BY <1>2 DEF ReqStates
<1> QED BY <1>2, <1>3, <1>4, <1>5, BeginInv

LEMMA LoginInv ==
    ASSUME IInv, NEW r \in Requests, NEW n \in Names, NEW p \in Passwords, Login(r, n, p)
    PROVE  IInv'
<1> DEFINE v == [pc |-> "wait", kind |-> "login", name |-> n, given |-> p,
                 stored |-> hash[n], ok |-> FALSE, no |-> made + 1]
<1>1. made \in Nat /\ hash[n] \in Stored
  BY AccountsAssumption DEF IInv, Shapes
<1>2. v \in Asks /\ v.pc = "wait"
  BY <1>1 DEF Asks
<1>3. v \notin Changes
  BY DEF Changes
<1>4. Begin(r, v) /\ UNCHANGED <<table, permits, limiter, oidc>>
  BY DEF Login
<1> HIDE DEF v
<1>5. v \in ReqStates
  BY <1>2 DEF ReqStates
<1> QED BY <1>2, <1>3, <1>4, <1>5, BeginInv

LEMMA ChangePasswordInv ==
    ASSUME IInv, NEW r \in Requests, NEW x \in sessions, NEW p \in Passwords,
           NEW q \in Passwords, ChangePassword(r, x, p, q)
    PROVE  IInv'
<1> DEFINE v == [pc |-> "wait", kind |-> "change", name |-> x.user, given |-> p,
                 stored |-> hash[x.user], ok |-> FALSE, no |-> made + 1, new |-> q,
                 keep |-> x]
<1>1. made \in Nat /\ x \in Sess
  BY AccountsAssumption DEF IInv, Shapes
<1>2. x.user \in Names
  BY <1>1 DEF Sess
<1>3. hash[x.user] \in Stored
  BY <1>2 DEF IInv, Shapes
<1>4. v \in Changes /\ v.pc = "wait"
  BY <1>1, <1>2, <1>3 DEF Changes
<1>5. Knows(v)
  BY DEF Knows
<1>6. Begin(r, v) /\ UNCHANGED <<table, permits, limiter, oidc>>
  BY DEF ChangePassword
<1> HIDE DEF v
<1>7. v \in ReqStates
  BY <1>4 DEF ReqStates
<1> QED BY <1>4, <1>5, <1>6, <1>7, BeginInv

LEMMA AcquireInv ==
    ASSUME IInv, NEW r \in Requests, Acquire(r)
    PROVE  IInv'
<1>1. req[r] \in Asks \cup Changes /\ req[r].pc = "wait"
  BY ShapeOf DEF IInv, Acquire
<1>2. PICK v \in ReqStates :
        /\ req' = [req EXCEPT ![r] = v] /\ v.pc = "job" /\ v.kind = req[r].kind
        /\ v \in Changes => /\ req[r] \in Changes /\ v.name = req[r].name /\ v.ok = req[r].ok
                            /\ v.stored = req[r].stored /\ v.given = req[r].given
  BY <1>1, GoesOn DEF IInv, Acquire
<1>3. v \in Changes => Knows(v)
  BY <1>2 DEF IInv, Doors, Knows
<1>4. On(v) /\ ~On(req[r]) /\ ~Flying(v) /\ \A n \in Names : ~Got(v, n)
  BY <1>1, <1>2 DEF On, Flying, Got
<1> QED BY <1>2, <1>3, <1>4, Quiet DEF Acquire, table, IInv, Shapes

\* A request that ends where it waits.
LEMMA EndInv ==
    ASSUME IInv, NEW r \in Requests, End(r), UNCHANGED <<table, made, limiter, oidc>>,
           \/ ~On(req[r]) /\ permits' = permits
           \/ On(req[r]) /\ permits' = permits + 1
    PROVE  IInv'
<1>1. /\ req' = [req EXCEPT ![r] = Idle] /\ Idle \in ReqStates /\ ~On(Idle) /\ ~Flying(Idle)
      /\ Idle \notin Changes /\ \A n \in Names : ~Got(Idle, n)
  BY EndsIdle
<1>2. made' \in 0..budget.requests
  BY DEF IInv, Shapes
<1> QED BY <1>1, <1>2, Quiet DEF table

LEMMA WorkInv ==
    ASSUME IInv, NEW r \in Requests, Work(r)
    PROVE  IInv'
<1>1. req[r] \in Asks \cup Changes /\ On(req[r]) /\ permits' = permits + 1
      /\ UNCHANGED <<table, made, limiter, oidc>>
  BY ShapeOf DEF IInv, Work, On
<1>2. CASE Refused(r) /\ End(r)
  BY <1>1, <1>2, EndInv
<1>3. CASE /\ ~Refused(r)
           /\ req' = [req EXCEPT ![r].pc = "verdict",
                                 ![r].ok = \/ req[r].kind \in {"register", "rehash"}
                                           \/ Matches(req[r].given, req[r].stored)]
  <2> DEFINE b == req[r].kind \in {"register", "rehash"} \/ req[r].given = req[r].stored
  <2>1. req' = [req EXCEPT ![r].pc = "verdict", ![r].ok = b]
    BY <1>3 DEF Matches
  <2>2. b \in BOOLEAN
    OBVIOUS
  <2>3. PICK v \in ReqStates :
          /\ req' = [req EXCEPT ![r] = v] /\ v.pc = "verdict" /\ v.kind = req[r].kind
          /\ v.name = req[r].name
          /\ v \in Changes => /\ req[r] \in Changes /\ v.stored = req[r].stored
                              /\ v.kind = "change" /\ v.ok => v.given = v.stored
    BY <1>1, <2>1, <2>2, VerdictIs DEF IInv
  <2>4. v \in Changes => Knows(v)
    BY <2>3 DEF IInv, Doors, Knows
  <2>5. ~On(v) /\ ~Flying(v)
    BY <2>3 DEF On, Flying
  <2>6. \A n \in Names : Got(v, n) => bucket[n] >= 1
    BY <1>3, <2>3 DEF Got, Refused, Throttled, WouldAllow
  <2> QED BY <1>1, <2>3, <2>4, <2>5, <2>6, Quiet DEF table, IInv, Shapes
<1> QED BY <1>2, <1>3 DEF Work

LEMMA CancelInv ==
    ASSUME IInv, NEW r \in Requests, Cancel(r)
    PROVE  IInv'
<1>1. CASE req[r].pc = "job" /\ Goto(r, "orphan") /\ permits' = PermitKept
           /\ UNCHANGED <<table, made, limiter, oidc>>
  <2>1. req[r] \in Asks \cup Changes
    BY <1>1, ShapeOf DEF IInv
  <2>2. PICK v \in ReqStates :
          /\ req' = [req EXCEPT ![r] = v] /\ v.pc = "orphan" /\ v.kind = req[r].kind
          /\ v \in Changes => /\ req[r] \in Changes /\ v.name = req[r].name /\ v.ok = req[r].ok
                              /\ v.stored = req[r].stored /\ v.given = req[r].given
    BY <1>1, <2>1, GoesOn DEF IInv
  <2>3. v \in Changes => Knows(v)
    BY <2>2 DEF IInv, Doors, Knows
  <2>4. On(v) /\ On(req[r]) /\ ~Flying(v) /\ \A n \in Names : ~Got(v, n)
    BY <1>1, <2>2 DEF On, Flying, Got
  <2> QED BY <1>1, <2>2, <2>3, <2>4, Quiet DEF table, IInv, Shapes, PermitKept
<1>2. CASE /\ req[r].pc \in {"wait", "verdict", "issue", "exchange", "link"} /\ End(r)
           /\ UNCHANGED <<table, made, permits, limiter, oidc>>
  <2>1. ~On(req[r])
    BY <1>2 DEF On
  <2> QED BY <1>2, <2>1, EndInv
<1> QED BY <1>1, <1>2 DEF Cancel

LEMMA OrphanEndsInv ==
    ASSUME IInv, NEW r \in Requests, OrphanEnds(r)
    PROVE  IInv'
<1>1. On(req[r])
  BY DEF OrphanEnds, On
<1> QED BY <1>1, EndInv DEF OrphanEnds, PermitBack

LEMMA RehashInv ==
    ASSUME IInv, NEW r \in Requests, Rehash(r)
    PROVE  IInv'
<1> DEFINE v == [req[r] EXCEPT !.kind = "rehash", !.pc = "wait"]
<1>1. req[r] \in Changes
  BY ShapeOf DEF IInv, Rehash
<1>2. /\ v \in Changes /\ v.kind = "rehash" /\ v.pc = "wait" /\ v.name = req[r].name
      /\ req[r].given \in Passwords
  BY <1>1 DEF Changes
<1>3. req' = [req EXCEPT ![r] = v]
  BY DEF Rehash
<1> HIDE DEF v
<1>4. hash[req[r].name] \in Passwords
  <2>1. Knows(req[r])
    BY <1>1 DEF IInv, Doors
  <2>2. req[r].given = req[r].stored
    BY <2>1 DEF Knows, Rehash
  <2> QED BY <1>2, <2>1, <2>2 DEF Knows, Rehash
<1>5. Knows(v)
  BY <1>2, <1>4 DEF Knows
<1>6. ~On(v) /\ ~On(req[r]) /\ ~Flying(v) /\ \A n \in Names : ~Got(v, n)
  BY <1>2 DEF On, Flying, Got, Rehash
<1>7. v \in ReqStates
  BY <1>2 DEF ReqStates
<1> QED BY <1>3, <1>5, <1>6, <1>7, Quiet DEF table, IInv, Shapes, Rehash

LEMMA ExchangeInv ==
    ASSUME IInv, NEW r \in Requests, Exchange(r)
    PROVE  IInv'
<1>1. req[r] \in Callbacks /\ ~On(req[r]) /\ Flying(req[r])
  BY ShapeOf DEF IInv, Exchange, On, Flying
<1>2. CASE Goto(r, "link")
  <2> DEFINE v == [req[r] EXCEPT !.pc = "link"]
  <2>1. /\ v \in Callbacks /\ v.pc = "link" /\ v.flow = req[r].flow /\ v.state = req[r].state
        /\ v.browser = req[r].browser
    BY <1>1 DEF Callbacks
  <2>2. v \notin Changes
    BY <2>1 DEF Callbacks, Changes
  <2>3. req' = [req EXCEPT ![r] = v]
    BY <1>2 DEF Goto
  <2> HIDE DEF v
  <2>4. ~On(v) /\ \A n \in Names : ~Got(v, n)
    BY <2>1 DEF On, Got
  <2>5. v \in ReqStates
    BY <2>1 DEF ReqStates
  <2> QED BY <1>1, <2>1, <2>2, <2>3, <2>4, <2>5, Quiet DEF Exchange, table, IInv, Shapes
<1>3. CASE End(r)
  BY <1>1, <1>3, EndInv DEF Exchange
<1> QED BY <1>2, <1>3 DEF Exchange

\* The shapes of a step of one request.
LEMMA ShapesKept ==
    ASSUME Shapes, NEW r \in Requests, NEW v \in ReqStates, req' = [req EXCEPT ![r] = v],
           UNCHANGED <<made, refills, oidc>>, hash' \in [Names -> Stored],
           identity' \in [Subjects -> Names \cup {NoAccount}], sessions' \subseteq Sess,
           bucket' \in [Names -> 0..Capacity], guesses' \in [Names -> Nat]
    PROVE  Shapes'
BY DEF Shapes, oidc, ReqStates, Asks, Changes, Callbacks, Signings, Sess, Stored

\* The last token of an account is charged to one of those let through, and the
\* others, fewer than the requests at once, are what goes over.
LEMMA WrongInv ==
    ASSUME IInv, NEW r \in Requests, Wrong(r)
    PROVE  IInv'
<1>0. Shapes /\ Slots /\ Guesses /\ Doors /\ Flows
  BY DEF IInv
<1>1. /\ req' = [req EXCEPT ![r] = Idle] /\ Idle \in ReqStates /\ ~On(Idle) /\ ~Flying(Idle)
      /\ Idle \notin Changes /\ \A n \in Names : ~Got(Idle, n)
  BY EndsIdle DEF Wrong
<1>2. ~On(req[r]) /\ UNCHANGED <<table, made, permits, refills, oidc>>
  BY DEF Wrong, On
<1>3. CASE req[r].kind # "login"
  BY <1>2, <1>3, EndInv DEF Wrong, limiter
<1>4. CASE req[r].kind = "login"
  <2> DEFINE n == req[r].name
  <2>1. n \in Names /\ Got(req[r], n)
    <3>1. req[r] \in Asks
      BY <1>4, ShapeOf DEF IInv, Wrong
    <3> QED BY <1>4, <3>1 DEF Asks, Got, Wrong
  <2>2. /\ bucket' = [bucket EXCEPT ![n] = IF bucket[n] >= 1 THEN bucket[n] - 1 ELSE bucket[n]]
        /\ guesses' = [guesses EXCEPT ![n] = guesses[n] + 1]
    BY <1>4 DEF Wrong, Charge
  <2> HIDE DEF n
  <2>3. /\ \A m \in Names : bucket[m] \in 0..Capacity /\ guesses[m] \in Nat
        /\ Capacity \in Nat /\ Cardinality(Requests) \in Nat
        /\ Allowance \in Int /\ Allowance' = Allowance
    BY <1>0, <1>2, RequestsAreCounted, AccountsAssumption DEF Shapes, Allowance
  <2>4. bucket' \in [Names -> 0..Capacity] /\ guesses' \in [Names -> Nat]
    <3>1. (IF bucket[n] >= 1 THEN bucket[n] - 1 ELSE bucket[n]) \in 0..Capacity
          /\ guesses[n] + 1 \in Nat
      BY <2>1, <2>3
    <3> QED BY <1>0, <2>2, <3>1 DEF Shapes
  <2>5. Shapes'
    <3>1. /\ hash' \in [Names -> Stored] /\ identity' \in [Subjects -> Names \cup {NoAccount}]
          /\ sessions' \subseteq Sess
      BY <1>0, <1>2 DEF Shapes, table
    <3> QED BY <1>0, <1>1, <1>2, <2>4, <3>1, ShapesKept
  <2>6. Guesses'
    <3> SUFFICES ASSUME NEW m \in Names
                 PROVE  /\ bucket'[m] >= 1 => guesses'[m] + bucket'[m] <= Allowance
                        /\ bucket'[m] = 0 => guesses'[m] + Cardinality(LetThrough(m)')
                                               <= Allowance + Cardinality(Requests) - 1
      BY <2>3 DEF Guesses
    <3>1. /\ bucket[m] >= 1 => guesses[m] + bucket[m] <= Allowance
          /\ bucket[m] = 0 => guesses[m] + Cardinality(LetThrough(m))
                                <= Allowance + Cardinality(Requests) - 1
      BY <1>0 DEF Guesses
    <3>2. /\ Cardinality(LetThrough(m)) \in Nat /\ Cardinality(LetThrough(m)') \in Nat
          /\ Cardinality(LetThrough(m)') <= Cardinality(LetThrough(m))
          /\ Cardinality(LetThrough(m)') <= Cardinality(Requests) - 1
          /\ Got(req[r], m) => Cardinality(LetThrough(m)') = Cardinality(LetThrough(m)) - 1
      BY <1>0, <1>1, OneRequestCounts
    <3>3. CASE m = n
      <4>1. bucket'[m] = (IF bucket[m] >= 1 THEN bucket[m] - 1 ELSE bucket[m])
            /\ guesses'[m] = guesses[m] + 1
        BY <1>0, <2>2, <3>3 DEF Shapes
      <4> QED BY <2>1, <2>3, <3>1, <3>2, <3>3, <4>1
    <3>4. CASE m # n
      <4>1. bucket'[m] = bucket[m] /\ guesses'[m] = guesses[m]
        BY <1>0, <2>2, <3>4 DEF Shapes
      <4> QED BY <2>3, <3>1, <3>2, <4>1
    <3> QED BY <3>3, <3>4
  <2>7. Slots'
    BY <1>0, <1>1, <1>2, SlotsKept
  <2>8. Doors' /\ Flows'
    BY <1>0, <1>1, <1>2, DoorsKept, FlowsKept DEF table
  <2> QED BY <2>5, <2>6, <2>7, <2>8 DEF IInv
<1> QED BY <1>3, <1>4

\* An account that appears or gets another password leaves what requests know
\* of accounts true: none ever loses its password.
LEMMA KnowledgeLasts ==
    ASSUME Shapes, Doors, NEW r \in Requests, NEW v, req' = [req EXCEPT ![r] = v],
           v \notin Changes, \A n \in Names : hash[n] \in Passwords => hash'[n] \in Passwords
    PROVE  \A q \in Requests : req'[q] \in Changes => Knows(req[q])'
<1> SUFFICES ASSUME NEW q \in Requests, req'[q] \in Changes PROVE Knows(req[q])'
  OBVIOUS
<1>1. q # r /\ req'[q] = req[q]
  BY DEF Shapes
<1>2. Knows(req[q]) /\ req[q].name \in Names
  BY <1>1 DEF Doors, Changes
<1> QED BY <1>1, <1>2 DEF Knows

LEMMA CreateUserInv ==
    ASSUME IInv, NEW r \in Requests, CreateUser(r)
    PROVE  IInv'
<1>0. Shapes /\ Slots /\ Guesses /\ Doors /\ Flows
  BY DEF IInv
<1>1. /\ req[r] \in Asks /\ ~On(req[r]) /\ UNCHANGED <<identity, sessions, made, permits, limiter, oidc>>
      /\ req[r].name \in Names /\ req[r].given \in Passwords
  <2>1. req[r] \in Asks
    BY ShapeOf DEF IInv, CreateUser
  <2> QED BY <2>1 DEF CreateUser, On, Asks
<1>2. CASE End(r) /\ UNCHANGED hash
  BY <1>1, <1>2, EndInv DEF table
<1>3. CASE /\ hash[req[r].name] = NoAccount
           /\ hash' = [hash EXCEPT ![req[r].name] = req[r].given]
           /\ Goto(r, "issue")
  <2> DEFINE v == [req[r] EXCEPT !.pc = "issue"]
             n == req[r].name
  <2>1. v \in Asks /\ v.pc = "issue" /\ v.kind = req[r].kind
    BY <1>1 DEF Asks
  <2>2. v \notin Changes
    BY <2>1 DEF Asks, Changes
  <2>3. req' = [req EXCEPT ![r] = v]
    BY <1>3 DEF Goto
  <2> HIDE DEF v
  <2>4. ~On(v) /\ ~Flying(v) /\ \A m \in Names : ~Got(v, m)
    BY <2>1 DEF On, Flying, Got, Asks
  <2>5. v \in ReqStates
    BY <2>1 DEF ReqStates
  <2>6. hash' \in [Names -> Stored] /\ \A m \in Names : hash'[m] = IF m = n THEN req[r].given ELSE hash[m]
    BY <1>0, <1>1, <1>3 DEF Shapes, Stored
  <2>7. Shapes'
    <3>1. /\ identity' \in [Subjects -> Names \cup {NoAccount}] /\ sessions' \subseteq Sess
          /\ bucket' \in [Names -> 0..Capacity] /\ guesses' \in [Names -> Nat]
      BY <1>0, <1>1 DEF Shapes, limiter
    <3> QED BY <1>0, <1>1, <2>3, <2>5, <2>6, <3>1, ShapesKept DEF limiter
  <2>8. Slots' /\ Guesses' /\ Flows'
    BY <1>0, <1>1, <2>3, <2>4, SlotsKept, GuessesKept, FlowsKept
  <2>9. Doors'
    <3>1. \A m \in Names : hash[m] \in Passwords => hash'[m] \in Passwords
      BY <1>1, <2>6
    <3>2. \A q \in Requests : req'[q] \in Changes => Knows(req[q])'
      BY <1>0, <2>2, <2>3, <3>1, KnowledgeLasts
    <3>3. Changes' = Changes /\ \A m : Owners(m)' = Owners(m)
      BY <1>1 DEF Changes, Sess, Stored, Owners
    <3>4. hash'[n] # NoPassword /\ Owners(n) = {}
      BY <1>0, <1>1, <1>3, <2>6, NamesAssumption DEF Doors, NoAccount, NoPassword
    <3>5. ASSUME NEW m \in Names
          PROVE  IF hash'[m] = NoPassword THEN \E s \in Subjects : Owners(m)' = {s} ELSE Owners(m)' = {}
      BY <1>0, <2>6, <3>3, <3>4 DEF Doors
    <3> QED BY <3>2, <3>3, <3>5 DEF Doors
  <2> QED BY <2>7, <2>8, <2>9 DEF IInv
<1> QED BY <1>2, <1>3 DEF CreateUser

\* The password stored replaces one that was there.
LEMMA StorePasswordInv ==
    ASSUME IInv, NEW r \in Requests, StorePassword(r)
    PROVE  IInv'
<1>0. Shapes /\ Slots /\ Guesses /\ Doors /\ Flows
  BY DEF IInv
<1>1. /\ req' = [req EXCEPT ![r] = Idle] /\ Idle \in ReqStates /\ ~On(Idle) /\ ~Flying(Idle)
      /\ Idle \notin Changes /\ \A n \in Names : ~Got(Idle, n)
  BY EndsIdle DEF StorePassword
<1>2. ~On(req[r]) /\ UNCHANGED <<identity, made, permits, limiter, oidc>>
  BY DEF StorePassword, On
<1>3. req[r].name \in Names /\ req[r].new \in Passwords /\ hash[req[r].name] \in Passwords
  <2>1. req[r] \in Changes
    BY ShapeOf DEF IInv, StorePassword
  <2> QED BY <1>0, <2>1 DEF Doors, Knows, StorePassword, Changes
<1>4. /\ hash' \in [Names -> Stored] /\ sessions' \subseteq sessions
      /\ \A m \in Names : hash'[m] = IF m = req[r].name THEN req[r].new ELSE hash[m]
  BY <1>0, <1>3 DEF Shapes, Stored, StorePassword
<1>5. Shapes'
  <2>1. /\ identity' \in [Subjects -> Names \cup {NoAccount}] /\ sessions' \subseteq Sess
        /\ bucket' \in [Names -> 0..Capacity] /\ guesses' \in [Names -> Nat]
    BY <1>0, <1>2, <1>4 DEF Shapes, limiter
  <2> QED BY <1>0, <1>1, <1>2, <1>4, <2>1, ShapesKept DEF limiter
<1>6. Slots' /\ Guesses' /\ Flows'
  BY <1>0, <1>1, <1>2, <1>4, SlotsKept, GuessesKept, FlowsKept
<1>7. Doors'
  <2>1. \A m \in Names : hash[m] \in Passwords => hash'[m] \in Passwords
    BY <1>3, <1>4
  <2>2. \A q \in Requests : req'[q] \in Changes => Knows(req[q])'
    BY <1>0, <1>1, <2>1, KnowledgeLasts
  <2>3. Changes' = Changes /\ \A m : Owners(m)' = Owners(m)
    BY <1>2 DEF Changes, Sess, Stored, Owners
  <2>4. \A m \in Names : hash'[m] = NoPassword <=> hash[m] = NoPassword
    BY <1>3, <1>4, NamesAssumption
  <2>5. ASSUME NEW m \in Names
        PROVE  IF hash'[m] = NoPassword THEN \E s \in Subjects : Owners(m)' = {s} ELSE Owners(m)' = {}
    BY <1>0, <2>3, <2>4 DEF Doors
  <2> QED BY <2>2, <2>3, <2>5 DEF Doors
<1> QED BY <1>5, <1>6, <1>7 DEF IInv

LEMMA IssueSessionInv ==
    ASSUME IInv, NEW r \in Requests, IssueSession(r)
    PROVE  IInv'
<1> DEFINE x == [id |-> req[r].no, user |-> req[r].name, flow |-> 0, browser |-> "password"]
<1>0. Shapes /\ Slots /\ Guesses /\ Doors /\ Flows
  BY DEF IInv
<1>1. /\ req' = [req EXCEPT ![r] = Idle] /\ Idle \in ReqStates /\ ~On(Idle) /\ ~Flying(Idle)
      /\ Idle \notin Changes /\ \A n \in Names : ~Got(Idle, n)
  BY EndsIdle DEF IssueSession
<1>2. ~On(req[r]) /\ UNCHANGED <<hash, identity, made, permits, limiter, oidc>>
      /\ sessions' = sessions \cup {x}
  BY DEF IssueSession, On
<1>3. x \in Sess /\ x.flow = 0
  <2>1. req[r] \in Asks
    BY <1>0, ShapeOf DEF IssueSession
  <2> QED BY <2>1 DEF Asks, Sess
<1> HIDE DEF x
<1>4. Shapes'
  <2>1. /\ identity' \in [Subjects -> Names \cup {NoAccount}] /\ sessions' \subseteq Sess
        /\ bucket' \in [Names -> 0..Capacity] /\ guesses' \in [Names -> Nat]
        /\ hash' \in [Names -> Stored]
    BY <1>0, <1>2, <1>3 DEF Shapes, limiter
  <2> QED BY <1>0, <1>1, <1>2, <2>1, ShapesKept DEF limiter
<1>5. \A y \in sessions' : y \in sessions \/ y.flow = 0
  BY <1>2, <1>3
<1>6. Slots' /\ Guesses' /\ Doors' /\ Flows'
  BY <1>0, <1>1, <1>2, <1>5, SlotsKept, GuessesKept, DoorsKept, FlowsKept
<1> QED BY <1>4, <1>6 DEF IInv

-----------------------------------------------------------------------------
(* Steps of no request.                                                    *)

LEMMA RequestsUntouched ==
    ASSUME IInv, UNCHANGED <<table, req, made, permits, limiter>>
    PROVE  Slots' /\ Guesses' /\ Doors'
<1>1. Slots'
  BY DEF IInv, Slots, Hashing, On
<1>2. Guesses'
  BY DEF IInv, Guesses, Allowance, LetThrough, Got, limiter
<1>3. Doors'
  BY DEF IInv, Doors, Knows, Owners, table, Changes, Sess, Stored
<1> QED BY <1>1, <1>2, <1>3

\* A token more is room for one more guess now, and for as many in excess as
\* there are requests.
LEMMA RefillInv ==
    ASSUME IInv, NEW n \in Names, Refill(n)
    PROVE  IInv'
<1>0. Shapes /\ Slots /\ Guesses /\ Doors /\ Flows
      /\ UNCHANGED <<table, req, made, permits, guesses, oidc>>
  BY DEF IInv, Refill
<1>1. /\ refills \in Nat /\ refills' = refills + 1 /\ Cardinality(Requests) \in Nat
      /\ Cardinality(Requests) >= 1 /\ Capacity \in Nat /\ budget.refills \in Nat
      /\ refills < budget.refills
      /\ \A m \in Names : bucket[m] \in 0..Capacity /\ guesses[m] \in Nat
      /\ bucket[n] < Capacity /\ bucket' = [bucket EXCEPT ![n] = bucket[n] + 1]
  BY <1>0, RequestsAreCounted, AccountsAssumption DEF Refill, Shapes
<1>2. \A m \in Names : bucket'[m] = IF m = n THEN bucket[n] + 1 ELSE bucket[m]
  BY <1>0, <1>1 DEF Shapes
<1>3. Shapes'
  <2>1. bucket' \in [Names -> 0..Capacity] /\ refills' \in 0..budget.refills
    BY <1>0, <1>1 DEF Shapes
  <2> QED BY <1>0, <2>1 DEF Shapes, table, oidc, ReqStates, Asks, Changes, Callbacks, Signings,
                              Sess, Stored
<1>4. Slots' /\ Doors' /\ Flows'
  <2>1. Slots'
    BY <1>0 DEF Slots, Hashing, On
  <2>2. Doors'
    BY <1>0 DEF Doors, Knows, Owners, table, Changes, Sess, Stored
  <2>3. Flows'
    BY <1>0 DEF Flows, Flying, FlowSignsInOnce, SignInIsItsBrowsers, table, oidc
  <2> QED BY <2>1, <2>2, <2>3
<1>5. Guesses'
  <2>1. Allowance' = Allowance + Cardinality(Requests) /\ Allowance \in Int
    <3>1. (refills + 1) * Cardinality(Requests) = refills * Cardinality(Requests) + Cardinality(Requests)
          /\ refills * Cardinality(Requests) \in Nat
      BY <1>1
    <3> QED BY <1>1, <3>1 DEF Allowance
  <2> SUFFICES ASSUME NEW m \in Names
               PROVE  /\ bucket'[m] >= 1 => guesses[m] + bucket'[m] <= Allowance'
                      /\ bucket'[m] = 0 => guesses[m] + Cardinality(LetThrough(m))
                                             <= Allowance' + Cardinality(Requests) - 1
    BY <1>0 DEF Guesses, LetThrough, Got
  <2>2. /\ bucket[m] >= 1 => guesses[m] + bucket[m] <= Allowance
        /\ bucket[m] = 0 => guesses[m] + Cardinality(LetThrough(m))
                              <= Allowance + Cardinality(Requests) - 1
    BY <1>0 DEF Guesses
  <2>3. Cardinality(LetThrough(m)) \in Nat
    <3>1. LetThrough(m) \subseteq Requests /\ Requests # {}
      BY AccountsAssumption DEF LetThrough
    <3> QED BY <3>1, CountOf
  <2> QED BY <1>1, <1>2, <2>1, <2>2, <2>3
<1> QED BY <1>3, <1>4, <1>5 DEF IInv

LEMMA ExpireInv ==
    ASSUME IInv, Expire
    PROVE  IInv'
<1>1. Slots' /\ Guesses' /\ Doors'
  BY RequestsUntouched DEF Expire
<1>2. Shapes'
  BY DEF IInv, Shapes, Expire, table, limiter, ReqStates, Asks, Changes, Callbacks, Signings,
         Sess, Stored
<1>3. Flows'
  BY DEF IInv, Flows, Expire, Flying, FlowSignsInOnce, SignInIsItsBrowsers, table
<1> QED BY <1>1, <1>2, <1>3 DEF IInv

LEMMA ProviderRefusesInv ==
    ASSUME IInv, NEW b \in Browsers, ProviderRefuses(b)
    PROVE  IInv'
<1>1. Slots' /\ Guesses' /\ Doors'
  BY RequestsUntouched DEF ProviderRefuses
<1>2. cookie' \in [Browsers -> 0..Len(started)] /\ \A a \in Browsers : cookie'[a] \in {cookie[a], 0}
  BY DEF IInv, Shapes, ProviderRefuses
<1>3. Shapes'
  BY <1>2 DEF IInv, Shapes, ProviderRefuses, table, limiter, ReqStates, Asks, Changes, Callbacks,
              Signings, Sess, Stored
<1>4. Flows'
  BY <1>2 DEF IInv, Flows, ProviderRefuses, Flying, FlowSignsInOnce, SignInIsItsBrowsers, table
<1> QED BY <1>1, <1>3, <1>4 DEF IInv

\* A full table of flows loses its oldest, and has room for one.
LEMMA PrunedHasRoom ==
    ASSUME Shapes, Flows
    PROVE  /\ Pruned \subseteq flows /\ IsFiniteSet(Pruned)
           /\ Cardinality(Pruned) \in Nat /\ Cardinality(Pruned) <= MaxFlows - 1
<1> DEFINE fresh == {f \in flows : f > expired}
<1>1. /\ IsFiniteSet(flows) /\ flows \subseteq Nat /\ MaxFlows \in Nat /\ MaxFlows >= 1
      /\ Cardinality(flows) <= MaxFlows
  <2>1. Len(started) \in Nat /\ flows \subseteq 1..Len(started)
    BY DEF Shapes
  <2>2. IsFiniteSet(1..Len(started))
    BY <2>1, FS_Interval
  <2>3. IsFiniteSet(flows)
    BY <2>1, <2>2, FS_Subset
  <2> QED BY <2>1, <2>3, AccountsAssumption DEF Flows
<1>2. fresh \subseteq flows
  OBVIOUS
<1>3. Pruned = IF Cardinality(fresh) >= MaxFlows THEN fresh \ {Least(fresh)} ELSE fresh
  BY DEF Pruned
<1> HIDE DEF fresh
<1>4. IsFiniteSet(fresh) /\ Cardinality(fresh) \in Nat /\ Cardinality(fresh) <= Cardinality(flows)
      /\ Cardinality(flows) \in Nat
  BY <1>1, <1>2, FS_Subset, FS_CardinalityType
<1>5. CASE Cardinality(fresh) >= MaxFlows
  <2>1. fresh # {}
    BY <1>1, <1>5, FS_EmptySet
  <2>2. Least(fresh) \in fresh
    BY <1>1, <1>2, <2>1, LeastIsIn
  <2>3. /\ IsFiniteSet(fresh \ {Least(fresh)})
        /\ Cardinality(fresh \ {Least(fresh)}) = Cardinality(fresh) - 1
    BY <1>4, <2>2, FS_RemoveElement
  <2>4. Pruned = fresh \ {Least(fresh)} /\ Cardinality(Pruned) \in Nat
    BY <1>3, <1>5, <2>3, FS_CardinalityType
  <2>5. Pruned \subseteq flows
    BY <1>2, <2>4
  <2>6. Cardinality(Pruned) <= MaxFlows - 1
    BY <1>1, <1>4, <2>3, <2>4
  <2> QED BY <2>3, <2>4, <2>5, <2>6
<1>6. CASE ~(Cardinality(fresh) >= MaxFlows)
  BY <1>1, <1>2, <1>3, <1>4, <1>6
<1> QED BY <1>5, <1>6

LEMMA StartInv ==
    ASSUME IInv, NEW b \in Browsers, Start(b)
    PROVE  IInv'
<1> DEFINE f == Len(started) + 1
<1>0. Shapes /\ Flows /\ UNCHANGED <<table, req, made, permits, limiter, expired, budget>>
  BY DEF IInv, Start
<1>1. Slots' /\ Guesses' /\ Doors'
  BY RequestsUntouched DEF Start
<1>2. /\ started \in Seq(Browsers) /\ started' \in Seq(Browsers) /\ Len(started) \in Nat
      /\ Len(started') = f /\ started'[f] = b
      /\ \A i \in 1..Len(started) : started'[i] = started[i]
  BY <1>0 DEF Shapes, Start
<1>3. /\ Pruned \subseteq flows /\ IsFiniteSet(Pruned)
      /\ Cardinality(Pruned) \in Nat /\ Cardinality(Pruned) <= MaxFlows - 1
  BY <1>0, PrunedHasRoom
<1>4. /\ flows' = Pruned \cup {f} /\ flows \subseteq 1..Len(started) /\ f \notin Pruned
      /\ f \notin 1..Len(started) /\ f \in Nat /\ f # 0
  BY <1>0, <1>2, <1>3 DEF Shapes, Start
<1>5. flows' \subseteq 1..Len(started') /\ expired' \in 0..Len(started')
  <2>1. 1..Len(started) \subseteq 1..f /\ f \in 1..f /\ 0..Len(started) \subseteq 0..f
    BY <1>2
  <2>2. expired \in 0..Len(started) /\ expired' = expired
    BY <1>0 DEF Shapes
  <2> HIDE DEF f
  <2> QED BY <1>2, <1>3, <1>4, <2>1, <2>2
<1>6. /\ cookie' \in [Browsers -> 0..Len(started')] /\ cookie \in [Browsers -> 0..Len(started)]
      /\ \A a \in Browsers : cookie'[a] = IF a = b THEN f ELSE cookie[a]
  BY <1>0, <1>2 DEF Shapes, Start
<1>7. Shapes'
  BY <1>0, <1>2, <1>5, <1>6 DEF Shapes, table, limiter, ReqStates, Asks, Changes, Callbacks,
                                 Signings, Sess, Stored
<1>8. Flows'
  <2>1. Cardinality(flows') <= MaxFlows
    <3>1. Cardinality(Pruned \cup {f}) = Cardinality(Pruned) + 1
      BY <1>3, <1>4, FS_AddElement
    <3> QED BY <1>3, <1>4, <3>1, AccountsAssumption
  <2>2. \A a \in Browsers : cookie'[a] # 0 => started'[cookie'[a]] = a
    <3> SUFFICES ASSUME NEW a \in Browsers, cookie'[a] # 0 PROVE started'[cookie'[a]] = a
      OBVIOUS
    <3>1. CASE a = b
      BY <1>2, <1>6, <3>1
    <3>2. CASE a # b
      <4>1. cookie'[a] = cookie[a] /\ cookie[a] \in 1..Len(started) /\ started[cookie[a]] = a
        BY <1>0, <1>2, <1>6, <3>2 DEF Flows
      <4> QED BY <1>2, <4>1
    <3> QED BY <3>1, <3>2
  <2> HIDE DEF f
  <2>3. UNCHANGED <<req, sessions>>
    BY <1>0 DEF table
  <2>4. \A i \in 1..Len(started) : i \notin flows => i \notin flows'
    BY <1>3, <1>4
  <2>5. 1..Len(started) \subseteq 1..Len(started') /\ 0..Len(started) \subseteq 0..Len(started')
    BY <1>2 DEF f
  <2>6. \A r \in Requests : Flying(req[r]) =>
          /\ req[r].state = req[r].flow /\ req[r].flow \in 1..Len(started')
          /\ req[r].flow \notin flows' /\ started'[req[r].flow] = req[r].browser
          /\ \A x \in sessions : x.flow # req[r].flow
    BY <1>0, <1>2, <2>4, <2>5 DEF Flows
  <2>7. \A r, q \in Requests : Flying(req[r]) /\ Flying(req[q]) /\ r # q => req[r].flow # req[q].flow
    BY <1>0 DEF Flows
  <2>8. \A x \in sessions : x.flow \in 0..Len(started') /\ x.flow \notin flows'
    BY <1>0, <1>2, <1>3, <1>4, <2>5 DEF Flows
  <2>9. \A x \in sessions : x.flow # 0 => started'[x.flow] = x.browser
    BY <1>0, <1>2 DEF Flows, SignInIsItsBrowsers
  <2> QED BY <1>0, <2>1, <2>2, <2>3, <2>6, <2>7, <2>8, <2>9
          DEF Flows, Flying, FlowSignsInOnce, SignInIsItsBrowsers
<1> QED BY <1>1, <1>7, <1>8 DEF IInv

\* The flow is off the table before the callback waits for anything.
LEMMA CallbackInv ==
    ASSUME IInv, NEW r \in Requests, NEW b \in Browsers, NEW t \in DOMAIN started,
           NEW s \in Subjects, Callback(r, b, t, s)
    PROVE  IInv'
<1> DEFINE c == cookie[b]
           v == [pc |-> "exchange", kind |-> "callback", subject |-> s, browser |-> b,
                 flow |-> c, state |-> t, no |-> made + 1]
<1>0. Shapes /\ Slots /\ Guesses /\ Doors /\ Flows
      /\ UNCHANGED <<table, permits, limiter, started, expired, cookie, budget>>
  BY DEF IInv, Callback
<1>1. /\ c \in 1..Len(started) /\ c # 0 /\ started[c] = b /\ flows' = flows \ {c}
      /\ Len(started) \in Nat /\ made \in 0..budget.requests /\ budget.requests \in Nat
  <2>1. cookie[b] \in 0..Len(started) /\ cookie[b] # 0 /\ Len(started) \in Nat
    BY <1>0 DEF Shapes, Callback
  <2>2. started[cookie[b]] = b /\ flows' = flows \ {cookie[b]}
    BY <1>0, <2>1 DEF Flows, Callback, Taken
  <2>3. made \in 0..budget.requests /\ budget.requests \in Nat
    BY <1>0, AccountsAssumption DEF Shapes
  <2> QED BY <2>1, <2>2, <2>3
<1>2. /\ flows' \subseteq flows /\ IsFiniteSet(flows) /\ Cardinality(flows') \in Nat
      /\ Cardinality(flows') <= MaxFlows
  <2>1. IsFiniteSet(1..Len(started)) /\ flows \subseteq 1..Len(started)
    BY <1>0, <1>1, FS_Interval DEF Shapes
  <2>2. IsFiniteSet(flows)
    BY <2>1, FS_Subset
  <2>3. flows' \subseteq flows
    BY <1>1
  <2>4. IsFiniteSet(flows') /\ Cardinality(flows') <= Cardinality(flows)
    BY <2>2, <2>3, FS_Subset
  <2>5. Cardinality(flows') \in Nat /\ Cardinality(flows) \in Nat
    BY <2>2, <2>4, FS_CardinalityType
  <2> QED BY <1>0, <2>2, <2>3, <2>4, <2>5, AccountsAssumption DEF Flows
<1>3. CASE UNCHANGED <<req, made>>
  <2>1. Slots' /\ Guesses' /\ Doors'
    BY <1>0, <1>3, RequestsUntouched
  <2>2. Shapes'
    BY <1>0, <1>2, <1>3 DEF Shapes, table, limiter, ReqStates, Asks, Changes, Callbacks,
                             Signings, Sess, Stored
  <2>3. Flows'
    BY <1>0, <1>2, <1>3 DEF Flows, Flying, FlowSignsInOnce, SignInIsItsBrowsers, table
  <2> QED BY <2>1, <2>2, <2>3 DEF IInv
<1>4. CASE c \in flows /\ c = t /\ Begin(r, v)
  <2>1. /\ v \in Callbacks /\ v.pc = "exchange" /\ v.flow = c /\ v.state = c /\ v.browser = b
    BY <1>1, <1>4 DEF Callbacks
  <2>2. v \notin Changes
    BY <2>1 DEF Callbacks, Changes
  <2>3. req' = [req EXCEPT ![r] = v] /\ req[r].pc = "idle" /\ made' \in 0..budget.requests
    BY <1>1, <1>4 DEF Begin
  <2> HIDE DEF v, c
  <2>4. ~On(v) /\ ~On(req[r]) /\ Flying(v) /\ \A n \in Names : ~Got(v, n)
    BY <2>1, <2>3 DEF On, Flying, Got
  <2>5. v \in ReqStates
    BY <2>1 DEF ReqStates
  <2>6. Shapes'
    BY <1>0, <1>2, <2>3, <2>5 DEF Shapes, table, limiter, ReqStates, Asks, Changes, Callbacks,
                                   Signings, Sess, Stored
  <2>7. Slots' /\ Guesses' /\ Doors'
    BY <1>0, <2>2, <2>3, <2>4, SlotsKept, GuessesKept, DoorsKept DEF table
  <2>8. Flows'
    <3>1. req'[r] = v /\ \A q \in Requests \ {r} : req'[q] = req[q]
      BY <1>0, <2>3 DEF Shapes
    <3>2. UNCHANGED sessions
      BY <1>0 DEF table
    <3>3. \A q \in Requests : Flying(req'[q]) =>
            /\ req'[q].state = req'[q].flow /\ req'[q].flow \in 1..Len(started)
            /\ req'[q].flow \notin flows' /\ started[req'[q].flow] = req'[q].browser
            /\ \A x \in sessions : x.flow # req'[q].flow
      BY <1>0, <1>1, <1>2, <1>4, <2>1, <3>1 DEF Flows
    <3>4. \A q, u \in Requests : Flying(req'[q]) /\ Flying(req'[u]) /\ q # u =>
            req'[q].flow # req'[u].flow
      BY <1>0, <1>4, <2>1, <3>1 DEF Flows
    <3> QED BY <1>0, <1>2, <3>2, <3>3, <3>4
            DEF Flows, Flying, FlowSignsInOnce, SignInIsItsBrowsers
  <2> QED BY <2>6, <2>7, <2>8 DEF IInv
<1> QED BY <1>3, <1>4 DEF Callback, StateMatches

LEMMA FreeNameIsFree ==
    ASSUME FreeNames # {}
    PROVE  NameOrder[Least(FreeNames)] \in Names /\ hash[NameOrder[Least(FreeNames)]] = NoAccount
<1>1. FreeNames \subseteq DOMAIN NameOrder /\ DOMAIN NameOrder \subseteq Nat
  BY NamesAssumption DEF FreeNames
<1>2. Least(FreeNames) \in FreeNames
  BY <1>1, LeastIsIn
<1> QED BY <1>1, <1>2 DEF FreeNames, Names

\* What the callback makes of the request once the account is known.
LEMMA SignedIs ==
    ASSUME Shapes, NEW r \in Requests, req[r].pc = "link", NEW n \in Names,
           req' = [req EXCEPT ![r] =
                     [pc |-> "issue", kind |-> "callback", name |-> n, browser |-> @.browser,
                      flow |-> @.flow, state |-> @.state, no |-> @.no]]
    PROVE  \E v \in ReqStates :
             /\ req' = [req EXCEPT ![r] = v] /\ ~On(v) /\ v \notin Changes
             /\ \A m \in Names : ~Got(v, m)
             /\ v.flow = req[r].flow /\ v.state = req[r].state /\ v.browser = req[r].browser
<1> DEFINE v == [pc |-> "issue", kind |-> "callback", name |-> n, browser |-> req[r].browser,
                 flow |-> req[r].flow, state |-> req[r].state, no |-> req[r].no]
<1>1. req[r] \in Callbacks
  BY ShapeOf
<1>2. /\ v \in Signings /\ v.pc = "issue" /\ v.flow = req[r].flow /\ v.state = req[r].state
      /\ v.browser = req[r].browser
  BY <1>1 DEF Callbacks, Signings
<1>3. v \notin Changes
  BY <1>2 DEF Signings, Changes
<1>4. req' = [req EXCEPT ![r] = v]
  OBVIOUS
<1> HIDE DEF v
<1>5. v \in ReqStates /\ ~On(v) /\ \A m \in Names : ~Got(v, m)
  BY <1>2 DEF ReqStates, On, Got
<1> QED BY <1>2, <1>3, <1>4, <1>5

LEMMA UserForOauthIdentityInv ==
    ASSUME IInv, NEW r \in Requests, UserForOauthIdentity(r)
    PROVE  IInv'
<1> DEFINE s == req[r].subject
           name == NameOrder[Least(FreeNames)]
           Signed(n) == req' = [req EXCEPT ![r] =
                          [pc |-> "issue", kind |-> "callback", name |-> n, browser |-> @.browser,
                           flow |-> @.flow, state |-> @.state, no |-> @.no]]
<1>0. Shapes /\ Slots /\ Guesses /\ Doors /\ Flows
  BY DEF IInv
<1>1. /\ req[r].pc = "link" /\ s \in Subjects /\ ~On(req[r]) /\ Flying(req[r])
      /\ UNCHANGED <<sessions, made, permits, limiter, oidc>>
  <2>1. req[r] \in Callbacks
    BY <1>0, ShapeOf DEF UserForOauthIdentity
  <2> QED BY <2>1 DEF UserForOauthIdentity, Callbacks, On, Flying
<1>2. CASE /\ identity[s] # NoAccount /\ Signed(identity[s])
           /\ identity' = [identity EXCEPT ![s] = identity[s]] /\ UNCHANGED hash
  <2>1. identity[s] \in Names /\ identity' = identity
    BY <1>0, <1>1, <1>2 DEF Shapes
  <2>2. PICK v \in ReqStates :
          /\ req' = [req EXCEPT ![r] = v] /\ ~On(v) /\ v \notin Changes
          /\ \A m \in Names : ~Got(v, m)
          /\ v.flow = req[r].flow /\ v.state = req[r].state /\ v.browser = req[r].browser
    BY <1>0, <1>1, <1>2, <2>1, SignedIs
  <2>3. made' \in 0..budget.requests
    BY <1>0, <1>1 DEF Shapes
  <2> QED BY <1>1, <1>2, <2>1, <2>2, <2>3, Quiet
<1>3. CASE /\ identity[s] = NoAccount /\ FreeNames # {} /\ Signed(name)
           /\ hash' = [hash EXCEPT ![name] = NoPassword]
           /\ identity' = [identity EXCEPT ![s] = name]
  <2>1. PICK n \in Names : n = name /\ hash[n] = NoAccount
    BY <1>3, FreeNameIsFree
  <2>2. PICK v \in ReqStates :
          /\ req' = [req EXCEPT ![r] = v] /\ ~On(v) /\ v \notin Changes
          /\ \A m \in Names : ~Got(v, m)
          /\ v.flow = req[r].flow /\ v.state = req[r].state /\ v.browser = req[r].browser
    BY <1>0, <1>1, <1>3, <2>1, SignedIs
  <2> HIDE DEF s, name
  <2>3. /\ hash' \in [Names -> Stored] /\ identity' \in [Subjects -> Names \cup {NoAccount}]
        /\ \A m \in Names : hash'[m] = IF m = n THEN NoPassword ELSE hash[m]
        /\ \A t \in Subjects : identity'[t] = IF t = s THEN n ELSE identity[t]
    BY <1>0, <1>1, <1>3, <2>1 DEF Shapes, Stored
  <2>4. Shapes'
    <3>1. /\ sessions' \subseteq Sess
          /\ bucket' \in [Names -> 0..Capacity] /\ guesses' \in [Names -> Nat]
      BY <1>0, <1>1 DEF Shapes, limiter
    <3> QED BY <1>0, <1>1, <2>2, <2>3, <3>1, ShapesKept DEF limiter
  <2>5. Slots' /\ Guesses' /\ Flows'
    BY <1>0, <1>1, <2>2, SlotsKept, GuessesKept, FlowsKept
  <2>6. Doors'
    <3>1. \A m \in Names : hash[m] \in Passwords => hash'[m] \in Passwords
      BY <2>1, <2>3, NamesAssumption
    <3>2. \A q \in Requests : req'[q] \in Changes => Knows(req[q])'
      BY <1>0, <2>2, <3>1, KnowledgeLasts
    <3>3. Changes' = Changes
      BY DEF Changes, Sess, Stored
    <3>4. Owners(n)' = {s} /\ hash'[n] = NoPassword
      <4>1. Owners(n) = {}
        BY <1>0, <2>1 DEF Doors, NoAccount, NoPassword
      <4> QED BY <1>1, <2>1, <2>3, <4>1 DEF Owners
    <3>5. \A m \in Names \ {n} : Owners(m)' = Owners(m) /\ hash'[m] = hash[m]
      BY <1>3, <2>3, NamesAssumption DEF Owners
    <3>6. ASSUME NEW m \in Names
          PROVE  IF hash'[m] = NoPassword THEN \E t \in Subjects : Owners(m)' = {t} ELSE Owners(m)' = {}
      <4>1. CASE m = n
        BY <1>1, <3>4, <4>1
      <4>2. CASE m # n
        BY <1>0, <3>5, <4>2 DEF Doors
      <4> QED BY <4>1, <4>2
    <3> QED BY <3>2, <3>3, <3>6 DEF Doors
  <2> QED BY <2>4, <2>5, <2>6 DEF IInv
<1>4. CASE End(r) /\ UNCHANGED <<hash, identity>>
  BY <1>1, <1>4, EndInv DEF table
<1> QED BY <1>2, <1>3, <1>4 DEF UserForOauthIdentity, AccountOf

\* The flow goes from the request to the session.
LEMMA SignInInv ==
    ASSUME IInv, NEW r \in Requests, SignIn(r)
    PROVE  IInv'
<1> DEFINE x == [id |-> req[r].no, user |-> req[r].name, flow |-> req[r].state,
                 browser |-> req[r].browser]
<1>0. Shapes /\ Slots /\ Guesses /\ Doors /\ Flows
  BY DEF IInv
<1>1. /\ req' = [req EXCEPT ![r] = Idle] /\ Idle \in ReqStates /\ ~On(Idle) /\ ~Flying(Idle)
      /\ Idle \notin Changes /\ \A n \in Names : ~Got(Idle, n)
  BY EndsIdle DEF SignIn
<1>2. /\ UNCHANGED <<hash, identity, made, permits, limiter, flows, started, expired, budget>>
      /\ sessions' = sessions \cup {x} /\ ~On(req[r]) /\ Flying(req[r])
  BY DEF SignIn, On, Flying
<1>3. req[r] \in Signings
  BY <1>0, ShapeOf DEF SignIn
<1>4. x \in Sess /\ x.flow = req[r].flow /\ x.browser = req[r].browser
  <2>1. req[r].state = req[r].flow
    BY <1>0, <1>2 DEF Flows
  <2> QED BY <1>3, <2>1 DEF Signings, Sess
<1> HIDE DEF x
<1>5. cookie' \in [Browsers -> 0..Len(started)] /\ \A a \in Browsers : cookie'[a] \in {cookie[a], 0}
  <2>1. req[r].browser \in Browsers
    BY <1>3 DEF Signings
  <2> QED BY <1>0, <2>1 DEF Shapes, SignIn
<1>6. Shapes'
  BY <1>0, <1>1, <1>2, <1>4, <1>5 DEF Shapes, limiter, ReqStates, Asks, Changes, Callbacks,
                                       Signings, Sess, Stored
<1>7. Slots' /\ Guesses' /\ Doors'
  BY <1>0, <1>1, <1>2, SlotsKept, GuessesKept, DoorsKept
<1>8. Flows'
  <2>1. req'[r] = Idle /\ \A q \in Requests \ {r} : req'[q] = req[q]
    BY <1>0, <1>1 DEF Shapes
  <2>2. /\ x.flow \in 1..Len(started) /\ x.flow \notin flows /\ started[x.flow] = x.browser
        /\ \A y \in sessions : y.flow # x.flow
    BY <1>0, <1>2, <1>4 DEF Flows
  <2>3. \A q \in Requests : Flying(req'[q]) => q # r /\ Flying(req[q]) /\ req'[q] = req[q]
    BY <1>1, <2>1
  <2>4. \A q \in Requests : Flying(req'[q]) =>
          /\ req'[q].state = req'[q].flow /\ req'[q].flow \in 1..Len(started)
          /\ req'[q].flow \notin flows /\ started[req'[q].flow] = req'[q].browser
          /\ \A y \in sessions' : y.flow # req'[q].flow
    BY <1>0, <1>2, <1>4, <2>3 DEF Flows
  <2>5. \A q, u \in Requests : Flying(req'[q]) /\ Flying(req'[u]) /\ q # u =>
          req'[q].flow # req'[u].flow
    BY <1>0, <2>3 DEF Flows
  <2>6. \A y \in sessions' : y.flow \in 0..Len(started) /\ y.flow \notin flows
    BY <1>0, <1>2, <2>2 DEF Flows
  <2>7. FlowSignsInOnce'
    BY <1>0, <1>2, <2>2 DEF Flows, FlowSignsInOnce
  <2>8. SignInIsItsBrowsers'
    BY <1>0, <1>2, <2>2 DEF Flows, SignInIsItsBrowsers
  <2>9. \A a \in Browsers : cookie'[a] # 0 => started[cookie'[a]] = a
    BY <1>0, <1>5 DEF Flows
  <2>10. \A q \in Requests : Flying(req[q])' <=> Flying(req'[q])
    BY DEF Flying
  <2> QED BY <1>0, <1>2, <2>4, <2>5, <2>6, <2>7, <2>8, <2>9, <2>10 DEF Flows
<1> QED BY <1>6, <1>7, <1>8 DEF IInv

-----------------------------------------------------------------------------
(* The theorems.                                                           *)

LEMMA StepInv == IInv /\ [Next]_vars => IInv'
<1> SUFFICES ASSUME IInv, [Next]_vars PROVE IInv'
  OBVIOUS
<1>1. ASSUME NEW r \in Requests, Step(r) PROVE IInv'
  BY <1>1, WorkInv, OrphanEndsInv, WrongInv, CreateUserInv, RehashInv, StorePasswordInv,
     IssueSessionInv, ExchangeInv, UserForOauthIdentityInv, SignInInv DEF Step
<1>2. CASE UNCHANGED vars
  <2>1. Slots' /\ Guesses' /\ Doors'
    BY <1>2, RequestsUntouched DEF vars, table, limiter
  <2>2. Shapes'
    BY <1>2 DEF IInv, Shapes, vars, ReqStates, Asks, Changes, Callbacks, Signings, Sess, Stored
  <2>3. Flows'
    BY <1>2 DEF IInv, Flows, vars, Flying, FlowSignsInOnce, SignInIsItsBrowsers
  <2> QED BY <2>1, <2>2, <2>3 DEF IInv
<1>3. CASE Next
  <2>1. CASE Expire \/ (\E n \in Names : Refill(n))
             \/ (\E b \in Browsers : Start(b) \/ ProviderRefuses(b))
    BY <2>1, ExpireInv, RefillInv, StartInv, ProviderRefusesInv
  <2>2. ASSUME NEW r \in Requests,
               \/ \E n \in Names, p \in Passwords : Register(r, n, p) \/ Login(r, n, p)
               \/ \E x \in sessions, p \in Passwords, q \in Passwords : ChangePassword(r, x, p, q)
               \/ \E b \in Browsers, f \in DOMAIN started, s \in Subjects : Callback(r, b, f, s)
               \/ Acquire(r) \/ Cancel(r) \/ Step(r)
        PROVE  IInv'
    <3>1. CASE \E n \in Names, p \in Passwords : Register(r, n, p) \/ Login(r, n, p)
      BY <3>1, RegisterInv, LoginInv
    <3>2. CASE \E x \in sessions, p \in Passwords, q \in Passwords : ChangePassword(r, x, p, q)
      BY <3>2, ChangePasswordInv
    <3>3. CASE \E b \in Browsers, f \in DOMAIN started, s \in Subjects : Callback(r, b, f, s)
      BY <3>3, CallbackInv
    <3>4. CASE Acquire(r) \/ Cancel(r) \/ Step(r)
      BY <1>1, <3>4, AcquireInv, CancelInv
    <3> QED BY <2>2, <3>1, <3>2, <3>3, <3>4
  <2> QED BY <1>3, <2>1, <2>2 DEF Next
<1> QED BY <1>2, <1>3

\* What strangers can make the server do stays bounded: however requests come, go
\* and are dropped, no more hashes run than there are slots and every permit comes
\* back (state.rs password_work), and an account meets no more wrong guesses than
\* its tokens and, each time they run out, the requests already let through.
THEOREM WorkIsBoundedAlways == Spec => []WorkIsBounded
<1>1. IInv => WorkIsBounded
  BY IInvImplies
<1> QED BY <1>1, InitInv, StepInv, PTL DEF Spec

\* Who is signed in is who proved it: each account has one door, a password or one
\* person at the provider (db.rs user_for_oauth_identity), a flow signs in once,
\* and in the browser that started it (oidc.rs callback), for any interleaving of
\* callbacks, replays, cancelled requests, changes and expiries.
THEOREM SignInsAreEarnedAlways == Spec => []SignInsAreEarned
<1>1. IInv => SignInsAreEarned
  BY IInvImplies
<1> QED BY <1>1, InitInv, StepInv, PTL DEF Spec
=============================================================================

---------------------------- MODULE CollabProofs ----------------------------
(***************************************************************************)
(* Browsers and server converge, for any number of clients, edits, lost    *)
(* connections and refusals, and for every delta algebra that satisfies    *)
(* the laws below.                                                         *)
(***************************************************************************)
EXTENDS Collab, WellFoundedInduction, TLAPS

-----------------------------------------------------------------------------
(* What is asked of the algebra and of the editor.                         *)

\* Changes compose and transform to changes.  A change that the server validates
\* fits in the document; one that fits gives a document.  Two changes in a row
\* may be folded into one (DeltaLaws!ComposeAssociates), and two that are
\* written against one document give one document in either order
\* (DeltaLaws!TransformConverges), each fitting after the other.
AlgebraLaws ==
    /\ NoChange \notin Change /\ NoOp = 0
    /\ \A a, b \in Change :
         OtCompose(a, b) \in Change /\ OtTransform(a, b) \in Change /\ Yield(a, b) \in Change
    /\ \A d \in Doc, a \in Change :
         /\ Valid(a, d) => Reaches(a, d)
         /\ Reaches(a, d) => OtCompose(d, a) \in Doc
    /\ \A d \in Doc, a, b \in Change :
         Reaches(a, d) /\ Reaches(b, OtCompose(d, a)) =>
           /\ Reaches(OtCompose(a, b), d)
           /\ OtCompose(d, OtCompose(a, b)) = OtCompose(OtCompose(d, a), b)
    /\ \A d \in Doc, a, b \in Change :
         Reaches(a, d) /\ Reaches(b, d) =>
           /\ Reaches(OtTransform(a, b), OtCompose(d, a))
           /\ Reaches(Yield(b, a), OtCompose(d, b))
           /\ OtCompose(OtCompose(d, a), OtTransform(a, b))
                = OtCompose(OtCompose(d, b), Yield(b, a))

\* An editor reports changes to the document it shows.
EditorLaw ==
    \A c \in Clients, d \in Doc : \A e \in Edits(c, d) : e \in Change /\ Reaches(e, d)

\* No fitting change cuts a character in two.
WholeCharacters == \A d \in Doc, a \in Change : Reaches(a, d) => Valid(a, d)

-----------------------------------------------------------------------------
(* The inductive invariant.  R is the server's revision, L[r] the change   *)
(* that made revision r, C[r] the document at revision r, H the length of  *)
(* the history that is still there.                                        *)

Log(R, L, C) ==
    /\ R \in Nat
    /\ \A r \in 1..R : L[r] \in Change
    /\ \A r \in 0..R : C[r] \in Doc
    /\ \A r \in 1..R : Reaches(L[r], C[r - 1]) /\ C[r] = OtCompose(C[r - 1], L[r])

\* The server's document is the last one, and its history the last changes.
Serves(s, L, C) ==
    /\ s = [content |-> s.content, revision |-> s.revision, history |-> s.history]
    /\ Log(s.revision, L, C) /\ s.content = C[s.revision]
    /\ s.history \in Seq(Entry)
    /\ Len(s.history) <= s.revision /\ Len(s.history) <= MaxHistory
    /\ \A i \in 1..Len(s.history) :
         LET r == s.revision - Len(s.history) + i
         IN s.history[i].revision = r /\ s.history[i].delta = L[r]

Pending == Change \cup {NoChange}
BlipDocs == [doc : Doc, revision : Nat, outstanding : Pending, buffer : Pending, opId : Nat]

\* The editor shows B, a document of the server, with the op in flight and the
\* buffer applied, and each fits where it is applied.
Follows(b, B) ==
    /\ b.outstanding # NoChange => Reaches(b.outstanding, B)
    /\ b.buffer # NoChange => /\ b.outstanding # NoChange
                              /\ Reaches(b.buffer, OtCompose(B, b.outstanding))
    /\ b.doc = Applied(Applied(B, b.outstanding), b.buffer)

\* f[i] is a change to C[i]: what a change at revision r becomes as the changes
\* up to revision s overtake it.
Path(f, r, s, L, C) ==
    /\ \A i \in r..s : f[i] \in Change /\ Reaches(f[i], C[i])
    /\ \A i \in r..(s - 1) : f[i + 1] = OtTransform(L[i + 1], f[i])

Submission == [type : {"submit"}, revision : Nat, delta : Change, opId : Nat]
Messages ==
    [type : {"welcome", "refusal", "resync"}]
    \cup [type : {"waveState"}, content : Doc, revision : Nat]
    \cup [type : {"op"}, revision : Nat, delta : Change]
    \cup [type : {"ack"}, revision : Nat, opId : Nat]

\* e[i] is the revision a client is at when it has read i of the messages on their
\* way, which leave out nothing.
Reads(e, from, on, d, R, L, C) ==
    /\ \A i \in 0..Len(d) : e[i] \in 0..R
    /\ e[0] = from /\ (on = "on" => e[Len(d)] = R)
    /\ \A i \in 1..Len(d) :
         /\ d[i].type \in {"op", "ack"} => d[i].revision = e[i] /\ e[i] = e[i - 1] + 1
         /\ d[i].type = "op" => d[i].delta = L[e[i]]
         /\ d[i].type = "waveState" => d[i].revision = e[i] /\ d[i].content = C[e[i]]
         /\ d[i].type \in {"welcome", "refusal", "resync"} => e[i] = e[i - 1]

\* The history reaches back to revision r, or is as long as it may be.
Kept(r, R, H) == R - r <= H \/ H = MaxHistory

OpsFrom(d, k) == \A i \in k..Len(d) : d[i].type = "op"
Lone(d, j) == j \in 1..Len(d) /\ \A i \in 1..Len(d) : d[i].type = "op" <=> i # j

\* A client without a subscription: no socket, or one whose first command is still
\* on its way.
Away(lk, u, d) ==
    \/ lk = "down" /\ u = <<>> /\ d = <<>>
    \/ lk = "greeting" /\ u = <<OpenCommand>> /\ d = <<Welcome>>
    \/ lk = "shell" /\ u = <<OpenCommand>> /\ d = <<>>

\* A new socket was served: the snapshot comes first.
Greeted(lk, u, d, R, H) ==
    /\ u = <<>>
    /\ \E k \in 1..2 :
         /\ lk = IF k = 2 THEN "greeting" ELSE "shell"
         /\ k <= Len(d) /\ (k = 2 => d[1].type = "welcome")
         /\ d[k].type = "waveState" /\ Kept(d[k].revision, R, H) /\ OpsFrom(d, k + 1)
         /\ R = d[k].revision + (Len(d) - k)

\* The client has nothing in flight.
AtRest(b, u, d, R, H) ==
    /\ u = <<>> /\ b.outstanding = NoChange
    /\ OpsFrom(d, 1) /\ R = b.revision + Len(d) /\ Kept(b.revision, R, H)

\* Its op is on the way to the server; the server will rebase it to what the client
\* will have by then.
InFlight(b, u, d, R, H, L, C) ==
    /\ OpsFrom(d, 1) /\ R = b.revision + Len(d) /\ b.outstanding # NoChange
    /\ \E m \in Submission : \E f :
         /\ u = <<m>> /\ m.opId = b.opId
         /\ m.revision <= b.revision /\ Kept(m.revision, R, H)
         /\ Path(f, m.revision, R, L, C)
         /\ f[m.revision] = m.delta /\ f[b.revision] = b.outstanding

\* Its op was committed; the Ack is on its way, at the revision where the op is what
\* the client will then have outstanding.
Acked(b, u, d, R, H, L, C) ==
    /\ u = <<>> /\ b.outstanding # NoChange
    /\ R = b.revision + Len(d) /\ Kept(b.revision, R, H)
    /\ \E j \in 1..Len(d) : \E f :
         /\ Lone(d, j) /\ d[j].type = "ack" /\ d[j].opId = b.opId
         /\ d[j].revision = b.revision + j
         /\ Path(f, b.revision, d[j].revision - 1, L, C)
         /\ f[b.revision] = b.outstanding /\ f[d[j].revision - 1] = L[d[j].revision]

\* Its op was refused, or it has asked for a snapshot, or the snapshot is coming.
Refused(b, u, d) ==
    /\ u = <<>> /\ b.outstanding # NoChange
    /\ \E j \in 1..Len(d) : Lone(d, j) /\ d[j].type \in {"refusal", "resync"}
Asking(b, u, d) == u = <<OpenCommand>> /\ OpsFrom(d, 1) /\ b.outstanding # NoChange
Reopening(b, u, d, R, H) ==
    /\ u = <<>> /\ b.outstanding # NoChange
    /\ \E j \in 1..Len(d) : /\ Lone(d, j) /\ d[j].type = "waveState"
                            /\ Kept(d[j].revision, R, H) /\ R = d[j].revision + (Len(d) - j)

Phase(b, lk, on, u, d, R, H, L, C) ==
    IF on # "on" THEN Away(lk, u, d)
    ELSE \/ Greeted(lk, u, d, R, H)
         \/ /\ lk = "ready"
            /\ \/ AtRest(b, u, d, R, H) \/ InFlight(b, u, d, R, H, L, C)
               \/ Acked(b, u, d, R, H, L, C)
               \/ Refused(b, u, d) \/ Asking(b, u, d) \/ Reopening(b, u, d, R, H)

\* One client: its BlipDoc b, the ids it has minted n, its link lk, whether it is
\* subscribed (on is "on"), what is on its way up (u) and down (d).
Tracks(b, n, lk, on, u, d, R, H, L, C) ==
    /\ b \in BlipDocs /\ n \in Nat /\ b.opId <= n /\ b.revision <= R
    /\ b.outstanding = NoChange <=> b.opId = NoOp
    /\ Follows(b, C[b.revision])
    /\ d \in Seq(Messages) /\ \E e : Reads(e, b.revision, on, d, R, L, C)
    /\ Phase(b, lk, on, u, d, R, H, L, C)

Subscribed(S, c) == IF c \in S THEN "on" ELSE "off"
TracksAt(c, L, C) ==
    Tracks(client[c], opCounter[c], link[c], Subscribed(subs, c), up[c], down[c],
           server.revision, Len(server.history), L, C)

Maps ==
    /\ client = [c \in Clients |-> client[c]] /\ opCounter = [c \in Clients |-> opCounter[c]]
    /\ link = [c \in Clients |-> link[c]] /\ subs \subseteq Clients
    /\ up = [c \in Clients |-> up[c]] /\ down = [c \in Clients |-> down[c]]
    /\ stale \in [Clients -> Seq(Submission \cup {OpenCommand})]

IInv == Maps /\ \E L, C : Serves(server, L, C) /\ \A c \in Clients : TracksAt(c, L, C)

-----------------------------------------------------------------------------
(* Numbers and folds.                                                      *)

\* Induction, for a set.
LEMMA AllNumbers ==
    ASSUME NEW S, 0 \in S, \A n \in Nat : n \in S => n + 1 \in S
    PROVE  \A n \in Nat : n \in S
<1> DEFINE Below == {p \in Nat \X Nat : p[1] < p[2]}
           Bad == {n \in Nat : n \notin S}
<1>1. IsWellFoundedOn(Below, Nat)
  BY NatLessThanWellFounded DEF OpToRel
<1> SUFFICES ASSUME Bad # {} PROVE FALSE
  OBVIOUS
<1> HIDE DEF Below
<1>2. PICK u \in Bad : \A n \in Bad : ~ (<<n, u>> \in Below)
  BY <1>1, WFMin
<1>3. u \in Nat /\ u # 0 /\ u - 1 \in Nat
  BY <1>2
<1>4. u - 1 \in Bad
  BY <1>2, <1>3
<1>5. <<u - 1, u>> \in Nat \X Nat /\ <<u - 1, u>>[1] = u - 1 /\ <<u - 1, u>>[2] = u
  BY <1>3
<1>6. <<u - 1, u>> \in Below
  BY <1>3, <1>5 DEF Below
<1> QED BY <1>2, <1>4, <1>6

\* A nonempty set of numbers up to m has a greatest one.
LEMMA MaxIsIn ==
    ASSUME NEW m \in Nat, NEW S, S \subseteq 1..m, S # {}
    PROVE  Max(S) \in S /\ \A y \in S : Max(S) >= y
<1> DEFINE Ms == {n \in Nat : \A T \in SUBSET (1..n) : T # {} => \E x \in T : \A y \in T : x >= y}
<1>1. 0 \in Ms
  <2>1. 1..0 = {}
    OBVIOUS
  <2> QED BY <2>1
<1>2. ASSUME NEW n \in Nat, n \in Ms PROVE n + 1 \in Ms
  <2> SUFFICES ASSUME NEW T \in SUBSET (1..(n + 1)), T # {}
               PROVE  \E x \in T : \A y \in T : x >= y
    OBVIOUS
  <2>1. CASE n + 1 \in T
    BY <2>1
  <2>2. CASE n + 1 \notin T
    <3>1. T \in SUBSET (1..n)
      BY <2>2
    <3> QED BY <1>2, <3>1
  <2> QED BY <2>1, <2>2
<1> HIDE DEF Ms
<1>3. m \in Ms
  BY <1>1, <1>2, AllNumbers
<1>4. \E x \in S : \A y \in S : x >= y
  BY <1>3 DEF Ms
<1> QED BY <1>4 DEF Max

\* Without its greatest element, a set of numbers up to m + 1 is one of numbers
\* up to m.
LEMMA MaxLeaves ==
    ASSUME NEW m \in Nat, NEW s \in SUBSET (1..(m + 1)), s # {}
    PROVE  /\ Max(s) \in 1..(m + 1) /\ s \ {Max(s)} \in SUBSET (1..m)
           /\ s \ {Max(s)} \in SUBSET (1..(m + 1))
<1>1. m + 1 \in Nat /\ s \subseteq 1..(m + 1)
  OBVIOUS
<1>2. Max(s) \in s /\ \A y \in s : Max(s) >= y
  BY <1>1, MaxIsIn
<1> DEFINE M == Max(s)
<1>3. M \in s /\ \A y \in s : M >= y
  BY <1>2
<1> HIDE DEF M
<1>4. ASSUME NEW y \in s, y # M PROVE y \in 1..m
  <2>1. y \in 1..(m + 1) /\ M \in 1..(m + 1) /\ M >= y
    BY <1>1, <1>3
  <2> QED BY <1>4, <2>1
<1>5. M \in 1..(m + 1) /\ s \ {M} \in SUBSET (1..m) /\ s \ {M} \in SUBSET (1..(m + 1))
  BY <1>1, <1>3, <1>4
<1> QED BY <1>5 DEF M

LEMMA MaxOfPrefix ==
    ASSUME NEW m \in Nat
    PROVE  Max(1..(m + 1)) = m + 1 /\ (1..(m + 1)) \ {m + 1} = 1..m /\ 1..(m + 1) # {}
<1> DEFINE S == 1..(m + 1)
<1>1. m + 1 \in Nat /\ m + 1 \in S /\ S \subseteq 1..(m + 1) /\ S \ {m + 1} = 1..m
  OBVIOUS
<1>2. \A y \in S : y \in Nat /\ y <= m + 1
  OBVIOUS
<1> HIDE DEF S
<1>3. Max(S) \in S /\ \A y \in S : Max(S) >= y
  BY <1>1, MaxIsIn
<1>4. Max(S) = m + 1
  BY <1>1, <1>2, <1>3
<1> QED BY <1>1, <1>4 DEF S

\* What Rebase does at one entry.
RebaseStep(x, entry, since) ==
    IF entry.revision > since THEN OtTransform(entry.delta, x) ELSE x

Rebases(g, h, n, since, x) ==
    g[0] = x /\ \A i \in 1..n : g[i] = RebaseStep(g[i - 1], h[i], since)

\* Rebase goes through the history from its start.
LEMMA RebaseGoes ==
    ASSUME NEW doc, NEW n \in Nat, DOMAIN doc.history = 1..n, NEW since, NEW x
    PROVE  \E g : Rebase(doc, since, x) = g[n] /\ Rebases(g, doc.history, n, since, x)
<1> DEFINE h == doc.history
           Fix(f, m) == f = [s \in SUBSET (1..m) |->
                               IF s = {} THEN x
                               ELSE RebaseStep(f[s \ {Max(s)}], h[Max(s)], since)]
           Ms == {m \in Nat : \E f : Fix(f, m)}
<1>1. 0 \in Ms
  <2> DEFINE f == [s \in SUBSET (1..0) |-> x]
  <2>1. Fix(f, 0)
    OBVIOUS
  <2> QED BY <2>1
<1>2. ASSUME NEW m \in Nat, m \in Ms PROVE m + 1 \in Ms
  <2>1. PICK f : Fix(f, m)
    BY <1>2
  <2> DEFINE k == [s \in SUBSET (1..(m + 1)) |->
                     IF s = {} THEN x ELSE RebaseStep(f[s \ {Max(s)}], h[Max(s)], since)]
  <2>2. \A s \in SUBSET (1..m) : s \in SUBSET (1..(m + 1))
    OBVIOUS
  <2>3. \A s \in SUBSET (1..m) : k[s] = f[s]
    BY <2>1, <2>2
  <2>4. \A s \in SUBSET (1..(m + 1)) : s # {} => k[s \ {Max(s)}] = f[s \ {Max(s)}]
    BY <2>3, MaxLeaves
  <2>5. Fix(k, m + 1)
    BY <2>4
  <2> HIDE DEF k, Fix
  <2> QED BY <2>5
<1>3. n \in Ms
  <2> HIDE DEF Ms
  <2> QED BY <1>1, <1>2, AllNumbers
<1> DEFINE iter == CHOOSE f : Fix(f, n)
<1>4. Rebase(doc, since, x) = iter[1..n]
  BY DEF Rebase, FoldLeft, MapThenFoldSet, RebaseStep
<1>5. Fix(iter, n)
  BY <1>3
<1> HIDE DEF iter
<1>6. \A s \in SUBSET (1..n) :
        iter[s] = IF s = {} THEN x ELSE RebaseStep(iter[s \ {Max(s)}], h[Max(s)], since)
  BY <1>5
<1> DEFINE g == [i \in 0..n |-> iter[1..i]]
<1>7. g[0] = x
  <2>1. 1..0 = {} /\ {} \in SUBSET (1..n) /\ 0 \in 0..n
    OBVIOUS
  <2>2. iter[{}] = x
    BY <1>6, <2>1
  <2>3. g[0] = iter[1..0]
    BY <2>1
  <2> QED BY <2>1, <2>2, <2>3
<1>8. ASSUME NEW i \in 1..n PROVE g[i] = RebaseStep(g[i - 1], h[i], since)
  <2>1. i - 1 \in Nat /\ (i - 1) + 1 = i /\ 1..i \in SUBSET (1..n)
    OBVIOUS
  <2>2. Max(1..i) = i /\ (1..i) \ {i} = 1..(i - 1) /\ 1..i # {}
    BY <2>1, MaxOfPrefix
  <2>3. iter[1..i] = RebaseStep(iter[1..(i - 1)], h[i], since)
    BY <1>6, <2>1, <2>2
  <2> QED BY <2>3
<1>9. g[n] = iter[1..n]
  OBVIOUS
<1> HIDE DEF g
<1>10. Rebases(g, h, n, since, x)
  BY <1>7, <1>8 DEF Rebases
<1> QED BY <1>4, <1>9, <1>10

\* What a client does with an op or an Ack.
ReadStep(b, m, id) ==
    IF m.type = "op" THEN ApplyRemote(b, m.delta, m.revision) ELSE Acknowledge(b, m.revision, id)

\* A client settles one message at a time.
LEMMA SettledGoes ==
    ASSUME NEW c, NEW n \in Nat, DOMAIN down[c] = 1..n
    PROVE  \E g : /\ g[0] = client[c] /\ Settled(c) = g[n]
                 /\ \A i \in 1..n : g[i] = ReadStep(g[i - 1], down[c][i], NewOpId(c))
<1> DEFINE h == down[c]
           x == client[c]
           Fix(f, m) == f = [s \in SUBSET (1..m) |->
                               IF s = {} THEN x
                               ELSE ReadStep(f[s \ {Max(s)}], h[Max(s)], NewOpId(c))]
           Ms == {m \in Nat : \E f : Fix(f, m)}
<1>1. 0 \in Ms
  <2> DEFINE f == [s \in SUBSET (1..0) |-> x]
  <2>1. Fix(f, 0)
    OBVIOUS
  <2> QED BY <2>1
<1>2. ASSUME NEW m \in Nat, m \in Ms PROVE m + 1 \in Ms
  <2>1. PICK f : Fix(f, m)
    BY <1>2
  <2> DEFINE k == [s \in SUBSET (1..(m + 1)) |->
                     IF s = {} THEN x ELSE ReadStep(f[s \ {Max(s)}], h[Max(s)], NewOpId(c))]
  <2>2. \A s \in SUBSET (1..m) : s \in SUBSET (1..(m + 1))
    OBVIOUS
  <2>3. \A s \in SUBSET (1..m) : k[s] = f[s]
    BY <2>1, <2>2
  <2>4. \A s \in SUBSET (1..(m + 1)) : s # {} => k[s \ {Max(s)}] = f[s \ {Max(s)}]
    BY <2>3, MaxLeaves
  <2>5. Fix(k, m + 1)
    BY <2>4
  <2> HIDE DEF k, Fix
  <2> QED BY <2>5
<1>3. n \in Ms
  <2> HIDE DEF Ms
  <2> QED BY <1>1, <1>2, AllNumbers
<1> DEFINE iter == CHOOSE f : Fix(f, n)
<1>4. Settled(c) = iter[1..n]
  BY DEF Settled, FoldLeft, MapThenFoldSet, ReadStep
<1>5. Fix(iter, n)
  BY <1>3
<1> HIDE DEF iter
<1>6. \A s \in SUBSET (1..n) :
        iter[s] = IF s = {} THEN x ELSE ReadStep(iter[s \ {Max(s)}], h[Max(s)], NewOpId(c))
  BY <1>5
<1> DEFINE g == [i \in 0..n |-> iter[1..i]]
<1>7. g[0] = x
  <2>1. 1..0 = {} /\ {} \in SUBSET (1..n) /\ 0 \in 0..n
    OBVIOUS
  <2>2. iter[{}] = x
    BY <1>6, <2>1
  <2>3. g[0] = iter[1..0]
    BY <2>1
  <2> QED BY <2>1, <2>2, <2>3
<1>8. ASSUME NEW i \in 1..n PROVE g[i] = ReadStep(g[i - 1], h[i], NewOpId(c))
  <2>1. i - 1 \in Nat /\ (i - 1) + 1 = i /\ 1..i \in SUBSET (1..n)
    OBVIOUS
  <2>2. Max(1..i) = i /\ (1..i) \ {i} = 1..(i - 1) /\ 1..i # {}
    BY <2>1, MaxOfPrefix
  <2>3. iter[1..i] = ReadStep(iter[1..(i - 1)], h[i], NewOpId(c))
    BY <1>6, <2>1, <2>2
  <2> QED BY <2>3
<1>9. g[n] = iter[1..n]
  OBVIOUS
<1> HIDE DEF g
<1> QED BY <1>4, <1>7, <1>8, <1>9

-----------------------------------------------------------------------------
(* The algebra.                                                            *)

\* Two concurrent changes.
LEMMA Diamond ==
    ASSUME AlgebraLaws, NEW d \in Doc, NEW a \in Change, NEW b \in Change,
           Reaches(a, d), Reaches(b, d)
    PROVE  /\ OtTransform(a, b) \in Change /\ Reaches(OtTransform(a, b), OtCompose(d, a))
           /\ Yield(b, a) \in Change /\ Reaches(Yield(b, a), OtCompose(d, b))
           /\ OtCompose(OtCompose(d, a), OtTransform(a, b))
                = OtCompose(OtCompose(d, b), Yield(b, a))
           /\ OtCompose(d, a) \in Doc /\ OtCompose(d, b) \in Doc
BY DEF AlgebraLaws

\* A change of somebody else: the op in flight and the buffer are rewritten, and
\* what the editor shows follows the server's next document.
LEMMA RemoteFollows ==
    ASSUME AlgebraLaws, NEW b \in BlipDocs, NEW B \in Doc, Follows(b, B),
           NEW a \in Change, Reaches(a, B), NEW r \in Nat, NEW q, q = ApplyRemote(b, a, r)
    PROVE  /\ q \in BlipDocs /\ Follows(q, OtCompose(B, a)) /\ q.revision = r
           /\ q.opId = b.opId /\ (q.outstanding = NoChange <=> b.outstanding = NoChange)
           /\ b.outstanding # NoChange => q.outstanding = OtTransform(a, b.outstanding)
<1> DEFINE o == b.outstanding
           u == b.buffer
<1>1. /\ b.doc \in Doc /\ o \in Change \cup {NoChange} /\ u \in Change \cup {NoChange}
      /\ b.opId \in Nat /\ b.revision \in Nat
  BY DEF BlipDocs, Pending
<1>2. NoChange \notin Change
  BY DEF AlgebraLaws
<1>3. CASE o = NoChange
  <2>1. u = NoChange /\ b.doc = B
    BY <1>3 DEF Follows, Applied
  <2>2. q = [b EXCEPT !.doc = OtCompose(B, a), !.revision = r,
                      !.outstanding = NoChange, !.buffer = NoChange]
    BY <1>3, <2>1 DEF ApplyRemote
  <2>3. OtCompose(B, a) \in Doc
    BY DEF AlgebraLaws
  <2>4. /\ q.doc = OtCompose(B, a) /\ q.revision = r /\ q.outstanding = NoChange
        /\ q.buffer = NoChange /\ q.opId = b.opId
        /\ q \in BlipDocs
    BY <1>1, <2>2, <2>3 DEF BlipDocs, Pending
  <2> QED BY <1>3, <2>4 DEF Follows, Applied
<1>4. CASE o # NoChange /\ u = NoChange
  <2> DEFINE x == Yield(o, a)
             p == OtTransform(a, o)
  <2>1. o \in Change /\ Reaches(o, B) /\ b.doc = OtCompose(B, o)
    BY <1>1, <1>4 DEF Follows, Applied
  <2>2. /\ p \in Change /\ Reaches(p, OtCompose(B, a))
        /\ OtCompose(OtCompose(B, a), p) = OtCompose(OtCompose(B, o), x)
        /\ x \in Change /\ Reaches(x, OtCompose(B, o)) /\ OtCompose(B, o) \in Doc
    BY <2>1, Diamond
  <2>3. q = [b EXCEPT !.doc = OtCompose(b.doc, x), !.revision = r,
                      !.outstanding = p, !.buffer = NoChange]
    BY <1>4 DEF ApplyRemote
  <2>4. OtCompose(b.doc, x) \in Doc
    BY <2>1, <2>2 DEF AlgebraLaws
  <2> HIDE DEF x, p
  <2>5. /\ q.doc = OtCompose(b.doc, x) /\ q.revision = r /\ q.outstanding = p
        /\ q.buffer = NoChange /\ q.opId = b.opId
        /\ q \in BlipDocs
    BY <1>1, <2>2, <2>3, <2>4 DEF BlipDocs, Pending
  <2>6. p # NoChange
    BY <1>2, <2>2
  <2>7. Follows(q, OtCompose(B, a))
    BY <2>1, <2>2, <2>5, <2>6 DEF Follows, Applied
  <2> QED BY <1>4, <2>5, <2>6, <2>7 DEF p
<1>5. CASE o # NoChange /\ u # NoChange
  <2> DEFINE x == Yield(o, a)
             p == OtTransform(a, o)
             y == Yield(u, x)
             v == OtTransform(x, u)
  <2>1. /\ o \in Change /\ Reaches(o, B) /\ u \in Change /\ Reaches(u, OtCompose(B, o))
        /\ b.doc = OtCompose(OtCompose(B, o), u)
    BY <1>1, <1>5 DEF Follows, Applied
  <2>2. /\ p \in Change /\ Reaches(p, OtCompose(B, a))
        /\ OtCompose(OtCompose(B, a), p) = OtCompose(OtCompose(B, o), x)
        /\ x \in Change /\ Reaches(x, OtCompose(B, o)) /\ OtCompose(B, o) \in Doc
    BY <2>1, Diamond
  <2>3. q = [b EXCEPT !.doc = OtCompose(b.doc, y), !.revision = r,
                      !.outstanding = p, !.buffer = v]
    BY <1>5 DEF ApplyRemote
  <2> HIDE DEF x, p
  <2>4. /\ v \in Change /\ Reaches(v, OtCompose(OtCompose(B, o), x))
        /\ OtCompose(OtCompose(OtCompose(B, o), x), v) = OtCompose(OtCompose(OtCompose(B, o), u), y)
        /\ y \in Change /\ Reaches(y, OtCompose(OtCompose(B, o), u))
        /\ OtCompose(OtCompose(B, o), u) \in Doc
    BY <2>1, <2>2, Diamond
  <2>5. OtCompose(b.doc, y) \in Doc
    BY <2>1, <2>4 DEF AlgebraLaws
  <2> HIDE DEF y, v
  <2>6. /\ q.doc = OtCompose(b.doc, y) /\ q.revision = r /\ q.outstanding = p
        /\ q.buffer = v /\ q.opId = b.opId
        /\ q \in BlipDocs
    BY <1>1, <2>2, <2>3, <2>4, <2>5 DEF BlipDocs, Pending
  <2>7. p # NoChange /\ v # NoChange
    BY <1>2, <2>2, <2>4
  <2>8. Follows(q, OtCompose(B, a))
    BY <2>1, <2>2, <2>4, <2>6, <2>7 DEF Follows, Applied
  <2> QED BY <1>5, <2>6, <2>7, <2>8 DEF p
<1> QED BY <1>3, <1>4, <1>5

\* A change of the user's own.
LEMMA LocalFollows ==
    ASSUME AlgebraLaws, NEW b \in BlipDocs, NEW B \in Doc, Follows(b, B),
           NEW a \in Change, Reaches(a, b.doc), NEW n \in Nat, NEW q, q = ApplyLocal(b, a, n)
    PROVE  /\ q \in BlipDocs /\ Follows(q, B) /\ q.revision = b.revision
           /\ q.outstanding # NoChange
           /\ b.outstanding # NoChange => q.outstanding = b.outstanding /\ q.opId = b.opId
           /\ b.outstanding = NoChange => q.outstanding = a /\ q.opId = n
<1> DEFINE o == b.outstanding
           u == b.buffer
<1>1. /\ b.doc \in Doc /\ o \in Change \cup {NoChange} /\ u \in Change \cup {NoChange}
      /\ b.opId \in Nat /\ b.revision \in Nat
  BY DEF BlipDocs, Pending
<1>2. NoChange \notin Change /\ a # NoChange /\ OtCompose(b.doc, a) \in Doc
  BY <1>1 DEF AlgebraLaws
<1>3. CASE o = NoChange
  <2>1. u = NoChange /\ b.doc = B
    BY <1>3 DEF Follows, Applied
  <2>2. q = [b EXCEPT !.doc = OtCompose(b.doc, a), !.outstanding = a, !.opId = n]
    BY <1>3 DEF ApplyLocal
  <2>3. /\ q.doc = OtCompose(b.doc, a) /\ q.revision = b.revision /\ q.outstanding = a
        /\ q.buffer = u /\ q.opId = n /\ q \in BlipDocs
    BY <1>1, <1>2, <2>2 DEF BlipDocs, Pending
  <2> QED BY <1>2, <1>3, <2>1, <2>3 DEF Follows, Applied
<1>4. CASE o # NoChange /\ u = NoChange
  <2>1. o \in Change /\ Reaches(o, B) /\ b.doc = OtCompose(B, o)
    BY <1>1, <1>4 DEF Follows, Applied
  <2>2. q = [b EXCEPT !.doc = OtCompose(b.doc, a), !.buffer = a]
    BY <1>4 DEF ApplyLocal
  <2>3. /\ q.doc = OtCompose(b.doc, a) /\ q.revision = b.revision /\ q.outstanding = o
        /\ q.buffer = a /\ q.opId = b.opId /\ q \in BlipDocs
    BY <1>1, <1>2, <2>2 DEF BlipDocs, Pending
  <2> QED BY <1>2, <1>4, <2>1, <2>3 DEF Follows, Applied
<1>5. CASE o # NoChange /\ u # NoChange
  <2> DEFINE v == OtCompose(u, a)
             D == OtCompose(B, o)
  <2>1. /\ o \in Change /\ Reaches(o, B) /\ u \in Change /\ Reaches(u, D)
        /\ b.doc = OtCompose(D, u)
    BY <1>1, <1>5 DEF Follows, Applied
  <2>2. D \in Doc
    BY <2>1 DEF AlgebraLaws
  <2> HIDE DEF D
  <2>3. v \in Change /\ Reaches(v, D) /\ OtCompose(D, v) = OtCompose(b.doc, a)
    BY <2>1, <2>2 DEF AlgebraLaws
  <2>4. q = [b EXCEPT !.doc = OtCompose(b.doc, a), !.buffer = v]
    BY <1>5 DEF ApplyLocal
  <2> HIDE DEF v
  <2>5. /\ q.doc = OtCompose(b.doc, a) /\ q.revision = b.revision /\ q.outstanding = o
        /\ q.buffer = v /\ q.opId = b.opId /\ q \in BlipDocs
    BY <1>1, <1>2, <2>3, <2>4 DEF BlipDocs, Pending
  <2>6. v # NoChange
    BY <1>2, <2>3
  <2> QED BY <1>5, <2>1, <2>3, <2>5, <2>6 DEF Follows, Applied, D
<1> QED BY <1>3, <1>4, <1>5

\* The op in flight is confirmed as it stands.
LEMMA AckFollows ==
    ASSUME AlgebraLaws, NEW b \in BlipDocs, NEW B \in Doc, Follows(b, B),
           b.outstanding # NoChange, NEW r \in Nat, NEW n \in Nat, n # NoOp,
           NEW q, q = Acknowledge(b, r, n)
    PROVE  /\ q \in BlipDocs /\ Follows(q, OtCompose(B, b.outstanding)) /\ q.revision = r
           /\ q.outstanding = b.buffer /\ q.opId = (IF b.buffer = NoChange THEN NoOp ELSE n)
<1>1. /\ b.doc \in Doc /\ b.outstanding \in Change /\ b.buffer \in Change \cup {NoChange}
      /\ b.opId \in Nat /\ b.revision \in Nat
  BY DEF BlipDocs, Pending
<1>2. NoChange \notin Change /\ NoOp \in Nat
  BY DEF AlgebraLaws
<1>3. /\ q.doc = b.doc /\ q.revision = r /\ q.outstanding = b.buffer /\ q.buffer = NoChange
      /\ q.opId = (IF b.buffer = NoChange THEN NoOp ELSE n)
      /\ q \in BlipDocs
  BY <1>1, <1>2 DEF Acknowledge, BlipDocs, Pending
<1>4. Follows(q, OtCompose(B, b.outstanding))
  BY <1>1, <1>2, <1>3 DEF Follows, Applied
<1> QED BY <1>3, <1>4

\* A snapshot.
LEMMA SnapshotFollows ==
    ASSUME AlgebraLaws, NEW B \in Doc, NEW r \in Nat, NEW q, q = NewBlipDoc(B, r)
    PROVE  /\ q \in BlipDocs /\ Follows(q, B) /\ q.revision = r /\ q.outstanding = NoChange
           /\ q.opId = NoOp /\ q.doc = B /\ q.buffer = NoChange
<1>1. NoOp \in Nat
  BY DEF AlgebraLaws
<1>2. /\ q.doc = B /\ q.revision = r /\ q.outstanding = NoChange /\ q.buffer = NoChange
      /\ q.opId = NoOp /\ q \in BlipDocs
  BY <1>1 DEF NewBlipDoc, BlipDocs, Pending
<1> QED BY <1>2 DEF Follows, Applied

\* Work that was not acknowledged is a change.
LEMMA WorkIs ==
    ASSUME AlgebraLaws, NEW b \in BlipDocs, NEW B, Follows(b, B)
    PROVE  /\ PendingWork(b) \in Pending
           /\ b.outstanding # NoChange => PendingWork(b) \in Change
<1>1. /\ b.outstanding \in Change \cup {NoChange} /\ b.buffer \in Change \cup {NoChange}
      /\ b.buffer # NoChange => b.outstanding # NoChange
  BY DEF BlipDocs, Pending, Follows
<1>2. \A a, x \in Change : OtCompose(a, x) \in Change
  BY DEF AlgebraLaws
<1> QED BY <1>1, <1>2 DEF PendingWork, Pending
-----------------------------------------------------------------------------
(* The log and the changes that are on their way through it.               *)

\* The log and the documents grow by the change x.
Grows(R, L, C, L2, C2, x) ==
    /\ \A r \in 1..R : L2[r] = L[r]
    /\ \A r \in 0..R : C2[r] = C[r]
    /\ L2[R + 1] = x /\ C2[R + 1] = OtCompose(C[R], x)

LEMMA LogGrows ==
    ASSUME AlgebraLaws, NEW R, NEW L, NEW C, Log(R, L, C), NEW x \in Change, Reaches(x, C[R])
    PROVE  \E L2, C2 : Log(R + 1, L2, C2) /\ Grows(R, L, C, L2, C2, x)
<1> DEFINE L2 == [r \in 1..(R + 1) |-> IF r = R + 1 THEN x ELSE L[r]]
           C2 == [r \in 0..(R + 1) |-> IF r = R + 1 THEN OtCompose(C[R], x) ELSE C[r]]
<1>1. R \in Nat /\ C[R] \in Doc
  BY DEF Log
<1>2. OtCompose(C[R], x) \in Doc
  BY <1>1 DEF AlgebraLaws
<1>3. \A r \in 1..R : L2[r] = L[r] /\ C2[r] = C[r] /\ C2[r - 1] = C[r - 1]
  BY <1>1
<1>4. L2[R + 1] = x /\ C2[R + 1] = OtCompose(C[R], x) /\ C2[R] = C[R] /\ \A r \in 0..R : C2[r] = C[r]
  BY <1>1
<1> HIDE DEF L2, C2
<1>5. Grows(R, L, C, L2, C2, x)
  BY <1>3, <1>4 DEF Grows
<1>6. \A r \in 1..(R + 1) : r \in 1..R \/ r = R + 1
  BY <1>1
<1>7. \A r \in 0..(R + 1) : r \in 0..R \/ r = R + 1
  BY <1>1
<1>8. (R + 1) - 1 = R /\ R + 1 \in Nat
  BY <1>1
<1>9. \A r \in 1..(R + 1) : L2[r] \in Change
  BY <1>3, <1>4, <1>6 DEF Log
<1>10. \A r \in 0..(R + 1) : C2[r] \in Doc
  BY <1>2, <1>4, <1>7 DEF Log
<1>11. ASSUME NEW r \in 1..(R + 1)
       PROVE  Reaches(L2[r], C2[r - 1]) /\ C2[r] = OtCompose(C2[r - 1], L2[r])
  <2>1. CASE r \in 1..R
    BY <1>3, <2>1 DEF Log
  <2>2. CASE r = R + 1
    BY <1>4, <1>8, <2>2
  <2> QED BY <1>6, <2>1, <2>2
<1> QED BY <1>5, <1>8, <1>9, <1>10, <1>11 DEF Log

\* One change further.
LEMMA PathGoesOn ==
    ASSUME AlgebraLaws, NEW R, NEW L, NEW C, Log(R, L, C), NEW r \in Nat, NEW s \in Nat, r <= s,
           s < R, NEW f, Path(f, r, s, L, C)
    PROVE  \E k : Path(k, r, s + 1, L, C) /\ \A i \in r..s : k[i] = f[i]
<1> DEFINE k == [i \in r..(s + 1) |-> IF i = s + 1 THEN OtTransform(L[s + 1], f[s]) ELSE f[i]]
<1>1. R \in Nat /\ s \in r..s /\ s \in 0..R /\ s + 1 \in 1..R /\ (s + 1) - 1 = s
  BY DEF Log
<1>2. f[s] \in Change /\ Reaches(f[s], C[s])
  BY <1>1 DEF Path
<1>3. /\ C[s] \in Doc /\ L[s + 1] \in Change /\ Reaches(L[s + 1], C[s])
      /\ C[s + 1] = OtCompose(C[s], L[s + 1])
  BY <1>1 DEF Log
<1>4. /\ OtTransform(L[s + 1], f[s]) \in Change
      /\ Reaches(OtTransform(L[s + 1], f[s]), C[s + 1])
  BY <1>2, <1>3, Diamond
<1>5. (\A i \in r..s : k[i] = f[i]) /\ k[s + 1] = OtTransform(L[s + 1], f[s])
  OBVIOUS
<1> HIDE DEF k
<1>6. \A i \in r..(s + 1) : i \in r..s \/ i = s + 1
  OBVIOUS
<1>7. \A i \in r..(s + 1) : k[i] \in Change /\ Reaches(k[i], C[i])
  BY <1>4, <1>5, <1>6 DEF Path
<1>8. ASSUME NEW i \in r..((s + 1) - 1) PROVE k[i + 1] = OtTransform(L[i + 1], k[i])
  <2>1. CASE i = s
    BY <1>1, <1>5, <2>1
  <2>2. CASE i # s
    <3>1. i \in r..(s - 1) /\ i \in r..s /\ i + 1 \in r..s
      BY <2>2
    <3> QED BY <1>5, <3>1 DEF Path
  <2> QED BY <2>1, <2>2
<1>9. Path(k, r, s + 1, L, C)
  BY <1>7, <1>8 DEF Path
<1> QED BY <1>5, <1>9

\* A change written at revision r has a way to the server.
LEMMA PathExists ==
    ASSUME AlgebraLaws, NEW R, NEW L, NEW C, Log(R, L, C), NEW r \in 0..R, NEW x \in Change,
           Reaches(x, C[r])
    PROVE  \E f : Path(f, r, R, L, C) /\ f[r] = x
<1> DEFINE Ks == {k \in Nat : r + k <= R => \E f : Path(f, r, r + k, L, C) /\ f[r] = x}
<1>1. R \in Nat
  BY DEF Log
<1>2. 0 \in Ks
  <2> DEFINE f == [i \in {r} |-> x]
  <2>1. f[r] = x /\ r + 0 = r
    OBVIOUS
  <2>2. \A i \in r..r : i = r
    OBVIOUS
  <2>3. \A i \in r..(r - 1) : FALSE
    OBVIOUS
  <2> HIDE DEF f
  <2>4. Path(f, r, r, L, C)
    BY <2>1, <2>2, <2>3 DEF Path
  <2> QED BY <2>1, <2>4
<1>3. ASSUME NEW k \in Nat, k \in Ks PROVE k + 1 \in Ks
  <2> SUFFICES ASSUME r + (k + 1) <= R
               PROVE  \E f : Path(f, r, r + (k + 1), L, C) /\ f[r] = x
    OBVIOUS
  <2>1. r + k \in Nat /\ r <= r + k /\ r + k < R /\ (r + k) + 1 = r + (k + 1) /\ r \in r..(r + k)
    BY <1>1
  <2>2. PICK f : Path(f, r, r + k, L, C) /\ f[r] = x
    BY <1>1, <1>3, <2>1
  <2>3. PICK g : Path(g, r, (r + k) + 1, L, C) /\ \A i \in r..(r + k) : g[i] = f[i]
    BY <2>1, <2>2, PathGoesOn
  <2> QED BY <2>1, <2>2, <2>3
<1>4. R - r \in Nat /\ r + (R - r) = R
  BY <1>1
<1> HIDE DEF Ks
<1>5. R - r \in Ks
  BY <1>2, <1>3, <1>4, AllNumbers
<1> QED BY <1>1, <1>4, <1>5 DEF Ks

\* What is behind the new change stays.
LEMMA PathStays ==
    ASSUME NEW R \in Nat, NEW L, NEW C, NEW L2, NEW C2, NEW x, Grows(R, L, C, L2, C2, x),
           NEW r \in Nat, NEW s \in Nat, s <= R, NEW f, Path(f, r, s, L, C)
    PROVE  Path(f, r, s, L2, C2)
<1>1. \A i \in r..s : i \in 0..R
  OBVIOUS
<1>2. \A i \in r..(s - 1) : i + 1 \in 1..R
  OBVIOUS
<1> QED BY <1>1, <1>2 DEF Path, Grows

LEMMA PathShortens ==
    ASSUME NEW L, NEW C, NEW r \in Nat, NEW s \in Nat, NEW t \in Nat, r <= t, NEW f,
           Path(f, r, s, L, C)
    PROVE  Path(f, t, s, L, C)
<1>1. \A i \in t..s : i \in r..s
  OBVIOUS
<1>2. \A i \in t..(s - 1) : i \in r..(s - 1)
  OBVIOUS
<1> QED BY <1>1, <1>2 DEF Path
-----------------------------------------------------------------------------
(* The server's document.                                                  *)

\* The window of revisions that can be rebased is the history.
LEMMA WindowIs ==
    ASSUME NEW s, NEW L, NEW C, Serves(s, L, C), NEW since \in Nat
    PROVE  InWindow(s, since) <=>
             since <= s.revision /\ since >= s.revision - Len(s.history)
<1> DEFINE h == s.history
<1>1. h \in Seq(Entry) /\ Len(h) \in Nat /\ s.revision \in Nat
  BY DEF Serves, Log
<1>2. CASE h = <<>>
  BY <1>1, <1>2 DEF InWindow, OldestRetained
<1>3. CASE h # <<>>
  <2>1. Len(h) >= 1 /\ Head(h) = h[1] /\ 1 \in 1..Len(h)
    BY <1>1, <1>3
  <2>2. h[1].revision = s.revision - Len(h) + 1
    BY <2>1 DEF Serves
  <2>3. OldestRetained(s) = (s.revision - Len(h) + 1) - 1
    BY <1>3, <2>1, <2>2 DEF OldestRetained
  <2> HIDE DEF h
  <2>4. OldestRetained(s) = s.revision - Len(h)
    BY <1>1, <2>3
  <2> QED BY <2>4 DEF InWindow, h
<1> QED BY <1>2, <1>3

\* The server rebases an op that was written at revision since to what its author
\* will have outstanding when it has read everything.
LEMMA RebaseIs ==
    ASSUME NEW s, NEW L, NEW C, Serves(s, L, C), NEW since \in Nat, InWindow(s, since),
           NEW f, Path(f, since, s.revision, L, C)
    PROVE  Rebase(s, since, f[since]) = f[s.revision]
<1> DEFINE h == s.history
           n == Len(h)
           R == s.revision
           at(i) == R - n + i
           Want(i) == IF at(i) <= since THEN f[since] ELSE f[at(i)]
<1>1. n \in Nat /\ R \in Nat /\ n <= R /\ DOMAIN h = 1..n
  BY DEF Serves, Log
<1>2. since <= R /\ since >= R - n
  BY WindowIs
<1>3. PICK g : Rebase(s, since, f[since]) = g[n] /\ Rebases(g, h, n, since, f[since])
  BY <1>1, RebaseGoes
<1>4. \A i \in 1..n : h[i].revision = at(i) /\ h[i].delta = L[at(i)]
  BY DEF Serves
<1> HIDE DEF h, n, R
<1> DEFINE Is == {i \in Nat : i <= n => g[i] = Want(i)}
<1>5. 0 \in Is
  BY <1>1, <1>2, <1>3 DEF Rebases
<1>6. ASSUME NEW i \in Nat, i \in Is PROVE i + 1 \in Is
  <2> SUFFICES ASSUME i + 1 <= n PROVE g[i + 1] = Want(i + 1)
    OBVIOUS
  <2>1. i + 1 \in 1..n /\ (i + 1) - 1 = i /\ at(i + 1) = at(i) + 1 /\ at(i) \in Int /\ at(i + 1) <= R
    BY <1>1
  <2>2. g[i] = Want(i) /\ g[i + 1] = RebaseStep(Want(i), h[i + 1], since)
    BY <1>1, <1>3, <1>6, <2>1 DEF Rebases
  <2>3. h[i + 1].revision = at(i) + 1 /\ h[i + 1].delta = L[at(i) + 1]
    BY <1>4, <2>1
  <2> HIDE DEF at
  <2>4. CASE at(i) + 1 <= since
    <3>1. at(i) <= since /\ ~ (at(i) + 1 > since)
      BY <2>1, <2>4
    <3> QED BY <2>1, <2>2, <2>3, <2>4, <3>1 DEF RebaseStep
  <2>5. CASE at(i) = since
    <3>1. at(i) + 1 > since /\ ~ (at(i) + 1 <= since) /\ at(i) <= since /\ since \in since..(R - 1)
      BY <1>1, <2>1, <2>5
    <3>2. f[since + 1] = OtTransform(L[since + 1], f[since])
      BY <3>1 DEF Path, R
    <3> QED BY <2>1, <2>2, <2>3, <2>5, <3>1, <3>2 DEF RebaseStep
  <2>6. CASE at(i) > since
    <3>1. at(i) + 1 > since /\ ~ (at(i) + 1 <= since) /\ ~ (at(i) <= since) /\ at(i) \in since..(R - 1)
      BY <1>1, <2>1, <2>6
    <3>2. f[at(i) + 1] = OtTransform(L[at(i) + 1], f[at(i)])
      BY <3>1 DEF Path, R
    <3> QED BY <2>1, <2>2, <2>3, <3>1, <3>2 DEF RebaseStep
  <2> QED BY <2>1, <2>4, <2>5, <2>6
<1> HIDE DEF Is, Want
<1>7. n \in Is
  BY <1>1, <1>5, <1>6, AllNumbers
<1>8. g[n] = Want(n)
  BY <1>1, <1>7 DEF Is
<1>9. at(n) = R
  BY <1>1
<1>10. Want(n) = f[R]
  BY <1>1, <1>2, <1>9 DEF Want
<1> QED BY <1>3, <1>8, <1>10 DEF R

\* Whatever is rebased is a change.
LEMMA RebaseIsChange ==
    ASSUME AlgebraLaws, NEW s, NEW L, NEW C, Serves(s, L, C), NEW since, NEW x \in Change
    PROVE  Rebase(s, since, x) \in Change
<1> DEFINE h == s.history
           n == Len(h)
<1>1. n \in Nat /\ DOMAIN h = 1..n /\ h \in Seq(Entry)
  BY DEF Serves, Log
<1>2. PICK g : Rebase(s, since, x) = g[n] /\ Rebases(g, h, n, since, x)
  BY <1>1, RebaseGoes
<1>3. \A i \in 1..n : h[i].delta \in Change
  <2>1. \A i \in 1..n : h[i] \in Entry
    BY <1>1
  <2> QED BY <2>1 DEF Entry
<1> HIDE DEF h, n
<1> DEFINE Is == {i \in Nat : i <= n => g[i] \in Change}
<1>4. 0 \in Is
  BY <1>2 DEF Rebases
<1>5. ASSUME NEW i \in Nat, i \in Is PROVE i + 1 \in Is
  <2> SUFFICES ASSUME i + 1 <= n PROVE g[i + 1] \in Change
    OBVIOUS
  <2>1. i + 1 \in 1..n /\ (i + 1) - 1 = i /\ g[i] \in Change
    BY <1>1, <1>5
  <2>2. OtTransform(h[i + 1].delta, g[i]) \in Change
    BY <1>3, <2>1 DEF AlgebraLaws
  <2> QED BY <1>2, <2>1, <2>2 DEF RebaseStep, Rebases
<1> HIDE DEF Is
<1>6. n \in Is
  BY <1>1, <1>4, <1>5, AllNumbers
<1> QED BY <1>1, <1>2, <1>6 DEF Is

\* The history after one more commit.
OneLonger(H) == IF H + 1 > MaxHistory THEN H ELSE H + 1

\* A commit of a valid change.
LEMMA ApplyServes ==
    ASSUME AlgebraLaws, NEW s, NEW L, NEW C, Serves(s, L, C), NEW x \in Change,
           Valid(x, s.content), NEW q, q = Apply(s, x)
    PROVE  /\ q.revision = s.revision + 1 /\ Len(q.history) = OneLonger(Len(s.history))
           /\ s.revision \in Nat /\ Len(s.history) \in Nat /\ Len(s.history) <= MaxHistory
           /\ Reaches(x, C[s.revision]) /\ Log(s.revision, L, C)
           /\ \E L2, C2 : /\ Serves(q, L2, C2)
                          /\ Grows(s.revision, L, C, L2, C2, x)
<1> DEFINE h == s.history
           n == Len(h)
           R == s.revision
           e == [revision |-> R + 1, delta |-> x, undo |-> OtInvert(x, s.content)]
           k == Trim(Append(h, e))
<1>1. /\ h \in Seq(Entry) /\ n \in Nat /\ R \in Nat /\ n <= R /\ n <= MaxHistory
      /\ s.content = C[R] /\ Log(R, L, C) /\ C[R] \in Doc
  BY DEF Serves, Log
<1>2. Reaches(x, C[R])
  BY <1>1 DEF AlgebraLaws
<1>3. OtInvert(x, s.content) \in Change
  BY <1>1, InvertLaw
<1>4. e \in Entry /\ e.revision = R + 1 /\ e.delta = x
  BY <1>1, <1>3 DEF Entry
<1>5. q = [content |-> OtCompose(C[R], x), revision |-> R + 1, history |-> k]
  BY <1>1 DEF Apply
<1>6. PICK L2, C2 : Log(R + 1, L2, C2) /\ Grows(R, L, C, L2, C2, x)
  BY <1>1, <1>2, LogGrows
<1>7. \A i \in 1..n : h[i].revision = R - n + i /\ h[i].delta = L[R - n + i]
  BY DEF Serves
<1>8. MaxHistory \in Nat /\ MaxHistory >= 1
  BY MaxHistoryAssumption
<1> HIDE DEF h, n, R, e
<1>9. /\ Append(h, e) \in Seq(Entry) /\ Len(Append(h, e)) = n + 1
      /\ \A i \in 1..n : Append(h, e)[i] = h[i]
      /\ Append(h, e)[n + 1] = e
  BY <1>1, <1>4 DEF n
<1> DEFINE a == Append(h, e)
           m == OneLonger(n)
<1> HIDE DEF a
<1>10. /\ a \in Seq(Entry) /\ Len(a) = n + 1
       /\ \A i \in 1..(n + 1) : a[i].revision = R - n + i /\ a[i].delta = L2[R - n + i]
  <2>1. a \in Seq(Entry) /\ Len(a) = n + 1
    BY <1>9 DEF a
  <2>2. ASSUME NEW i \in 1..(n + 1) PROVE a[i].revision = R - n + i /\ a[i].delta = L2[R - n + i]
    <3>1. CASE i = n + 1
      <4>1. a[i] = e /\ R - n + i = R + 1
        BY <1>1, <1>9, <3>1 DEF a
      <4> QED BY <1>4, <1>6, <4>1 DEF Grows
    <3>2. CASE i # n + 1
      <4>1. i \in 1..n /\ a[i] = h[i] /\ R - n + i \in 1..R
        BY <1>1, <1>9, <3>2 DEF a
      <4> QED BY <1>6, <1>7, <4>1 DEF Grows
    <3> QED BY <3>1, <3>2
  <2> QED BY <2>1, <2>2
<1>11. /\ k \in Seq(Entry) /\ Len(k) = m
       /\ \A i \in 1..m : k[i].revision = (R + 1) - m + i /\ k[i].delta = L2[(R + 1) - m + i]
  <2>1. CASE n + 1 > MaxHistory
    <3>1. k = Tail(a) /\ m = n /\ a # <<>>
      BY <1>1, <1>8, <1>10, <2>1 DEF Trim, OneLonger, a
    <3>2. Tail(a) \in Seq(Entry) /\ Len(Tail(a)) = n /\ \A i \in 1..n : Tail(a)[i] = a[i + 1]
      BY <1>1, <1>10, <3>1
    <3>3. ASSUME NEW i \in 1..n
          PROVE  k[i].revision = (R + 1) - n + i /\ k[i].delta = L2[(R + 1) - n + i]
      <4>1. i + 1 \in 1..(n + 1) /\ R - n + (i + 1) = (R + 1) - n + i
        BY <1>1
      <4> QED BY <1>10, <3>1, <3>2, <4>1
    <3> QED BY <3>1, <3>2, <3>3
  <2>2. CASE ~ (n + 1 > MaxHistory)
    <3>1. k = a /\ m = n + 1
      BY <1>10, <2>2 DEF Trim, OneLonger, a
    <3>2. \A i \in 1..(n + 1) : (R + 1) - (n + 1) + i = R - n + i
      BY <1>1
    <3> QED BY <1>10, <3>1, <3>2
  <2> QED BY <2>1, <2>2
<1>12. m \in Nat /\ m <= R + 1 /\ m <= MaxHistory /\ R + 1 \in Nat
  BY <1>1, <1>8 DEF OneLonger
<1> HIDE DEF m, k
<1>13. /\ q = [content |-> q.content, revision |-> q.revision, history |-> q.history]
       /\ q.content = OtCompose(C[R], x) /\ q.revision = R + 1 /\ q.history = k
  BY <1>5
<1>14. C2[R + 1] = OtCompose(C[R], x)
  BY <1>6 DEF Grows
<1>15. Serves(q, L2, C2)
  BY <1>6, <1>11, <1>12, <1>13, <1>14 DEF Serves
<1>16. Len(q.history) = m
  BY <1>11, <1>13
<1> QED BY <1>1, <1>2, <1>6, <1>13, <1>15, <1>16 DEF m, n, h, R

\* What the history keeps, it keeps after a commit.
LEMMA KeptStays ==
    ASSUME NEW r \in Nat, NEW R \in Nat, NEW H \in Nat, H <= MaxHistory, Kept(r, R, H)
    PROVE  Kept(r, R + 1, OneLonger(H)) /\ OneLonger(H) \in Nat
BY MaxHistoryAssumption DEF Kept, OneLonger
-----------------------------------------------------------------------------
(* The messages on their way to one client.                                *)

LEMMA AppendIs ==
    ASSUME NEW S, NEW d \in Seq(S), NEW m \in S
    PROVE  /\ Append(d, m) \in Seq(S) /\ Len(Append(d, m)) = Len(d) + 1 /\ Len(d) \in Nat
           /\ Append(d, m)[Len(d) + 1] = m
           /\ \A i \in 1..Len(d) : Append(d, m)[i] = d[i]
OBVIOUS

LEMMA TailIs ==
    ASSUME NEW S, NEW d \in Seq(S), d # <<>>
    PROVE  /\ Tail(d) \in Seq(S) /\ Len(d) \in Nat /\ Len(d) >= 1 /\ Len(Tail(d)) = Len(d) - 1
           /\ Head(d) = d[1]
           /\ \A i \in 1..(Len(d) - 1) : Tail(d)[i] = d[i + 1]
OBVIOUS

LEMMA MessagesAre ==
    ASSUME NEW r \in Nat, NEW n \in Nat, NEW x \in Change, NEW B \in Doc
    PROVE  /\ Welcome \in Messages /\ Refusal \in Messages /\ Resync \in Messages
           /\ Op(r, x) \in Messages /\ Ack(r, n) \in Messages
           /\ [type |-> "waveState", content |-> B, revision |-> r] \in Messages
BY DEF Messages, Welcome, Refusal, Resync, Op, Ack

\* Nothing of the log changes up to R.
Agree(R, L, C, L2, C2) ==
    (\A r \in 1..R : L2[r] = L[r]) /\ (\A r \in 0..R : C2[r] = C[r])

\* One more message, after which the client will be at revision R2.
Brings(m, R, R2, L2, C2) ==
    \/ m.type = "op" /\ m.revision = R2 /\ R2 = R + 1 /\ m.delta = L2[R2]
    \/ m.type = "ack" /\ m.revision = R2 /\ R2 = R + 1
    \/ m.type = "waveState" /\ m.revision = R2 /\ m.content = C2[R2] /\ R2 = R
    \/ m.type \in {"welcome", "refusal", "resync"} /\ R2 = R

LEMMA ReadsMore ==
    ASSUME NEW R \in Nat, NEW L, NEW C, NEW L2, NEW C2, NEW R2 \in Nat,
           Agree(R, L, C, L2, C2), NEW d \in Seq(Messages), NEW m \in Messages,
           NEW from, NEW on, NEW e, Reads(e, from, on, d, R, L, C),
           on = "on" \/ m.type = "waveState", Brings(m, R, R2, L2, C2)
    PROVE  \E k : Reads(k, from, "on", Append(d, m), R2, L2, C2)
<1> DEFINE n == Len(d)
           q == Append(d, m)
           k == [i \in 0..(n + 1) |-> IF i = n + 1 THEN R2 ELSE e[i]]
<1>1. /\ n \in Nat /\ Len(q) = n + 1 /\ q[n + 1] = m /\ \A i \in 1..n : q[i] = d[i]
  BY AppendIs
<1> HIDE DEF n, q
<1>2. k[n + 1] = R2 /\ \A i \in 0..n : k[i] = e[i]
  BY <1>1
<1> HIDE DEF k
<1>3. R2 >= R /\ R2 <= R + 1
  BY DEF Brings
<1>4. \A i \in 0..n : e[i] \in 0..R /\ e[i] \in 0..R2
  BY <1>3 DEF Reads, n
<1>5. \A i \in 0..Len(q) : k[i] \in 0..R2
  BY <1>1, <1>2, <1>4
<1>6. k[0] = from /\ k[Len(q)] = R2
  BY <1>1, <1>2 DEF Reads
<1>7. ASSUME NEW i \in 1..Len(q)
      PROVE  /\ q[i].type \in {"op", "ack"} => q[i].revision = k[i] /\ k[i] = k[i - 1] + 1
             /\ q[i].type = "op" => q[i].delta = L2[k[i]]
             /\ q[i].type = "waveState" => q[i].revision = k[i] /\ q[i].content = C2[k[i]]
             /\ q[i].type \in {"welcome", "refusal", "resync"} => k[i] = k[i - 1]
  <2>1. CASE i = n + 1
    <3>1. q[i] = m /\ k[i] = R2 /\ i - 1 = n /\ k[i - 1] = e[n]
      BY <1>1, <1>2, <2>1
    <3>2. m.type # "waveState" => e[n] = R
      BY DEF Reads, n
    <3> QED BY <3>1, <3>2 DEF Brings
  <2>2. CASE i # n + 1
    <3>1. i \in 1..n /\ i \in 0..n /\ i - 1 \in 0..n
      BY <1>1, <2>2
    <3>2. q[i] = d[i] /\ k[i] = e[i] /\ k[i - 1] = e[i - 1]
      BY <1>1, <1>2, <3>1
    <3>3. /\ d[i].type \in {"op", "ack"} => d[i].revision = e[i] /\ e[i] = e[i - 1] + 1
          /\ d[i].type = "op" => d[i].delta = L[e[i]]
          /\ d[i].type = "waveState" => d[i].revision = e[i] /\ d[i].content = C[e[i]]
          /\ d[i].type \in {"welcome", "refusal", "resync"} => e[i] = e[i - 1]
      BY <3>1 DEF Reads, n
    <3>4. e[i] \in 0..R /\ e[i - 1] \in 0..R
      BY <1>4, <3>1
    <3>5. C2[e[i]] = C[e[i]] /\ (e[i] = e[i - 1] + 1 => L2[e[i]] = L[e[i]])
      BY <3>4 DEF Agree
    <3> QED BY <3>2, <3>3, <3>5
  <2> QED BY <2>1, <2>2
<1>8. Reads(k, from, "on", q, R2, L2, C2)
  BY <1>5, <1>6, <1>7 DEF Reads
<1> QED BY <1>8 DEF q

\* A client that is not subscribed hears of nothing.
LEMMA ReadsSame ==
    ASSUME NEW R \in Nat, NEW L, NEW C, NEW L2, NEW C2, NEW R2 \in Nat, R <= R2,
           Agree(R, L, C, L2, C2), NEW d \in Seq(Messages),
           NEW from, NEW e, Reads(e, from, "off", d, R, L, C)
    PROVE  Reads(e, from, "off", d, R2, L2, C2)
<1>1. Len(d) \in Nat
  OBVIOUS
<1>2. \A i \in 0..Len(d) : e[i] \in 0..R
  BY DEF Reads
<1>3. \A i \in 0..Len(d) : e[i] \in 0..R2
  BY <1>2
<1>4. ASSUME NEW i \in 1..Len(d)
      PROVE  /\ d[i].type \in {"op", "ack"} => d[i].revision = e[i] /\ e[i] = e[i - 1] + 1
             /\ d[i].type = "op" => d[i].delta = L2[e[i]]
             /\ d[i].type = "waveState" => d[i].revision = e[i] /\ d[i].content = C2[e[i]]
             /\ d[i].type \in {"welcome", "refusal", "resync"} => e[i] = e[i - 1]
  <2>1. /\ d[i].type \in {"op", "ack"} => d[i].revision = e[i] /\ e[i] = e[i - 1] + 1
        /\ d[i].type = "op" => d[i].delta = L[e[i]]
        /\ d[i].type = "waveState" => d[i].revision = e[i] /\ d[i].content = C[e[i]]
        /\ d[i].type \in {"welcome", "refusal", "resync"} => e[i] = e[i - 1]
    BY DEF Reads
  <2>2. i \in 0..Len(d) /\ i - 1 \in 0..Len(d)
    BY <1>1
  <2>3. C2[e[i]] = C[e[i]] /\ (e[i] = e[i - 1] + 1 => L2[e[i]] = L[e[i]])
    BY <1>2, <2>2 DEF Agree
  <2> QED BY <2>1, <2>3
<1> QED BY <1>3, <1>4 DEF Reads

\* The client reads the first message.
ReadsFirst(e, from, on, d, R, L, C) ==
    /\ \E k : Reads(k, e[1], on, Tail(d), R, L, C)
    /\ e[1] \in 0..R /\ from \in 0..R
    /\ d[1].type \in {"op", "ack"} => d[1].revision = e[1] /\ e[1] = from + 1
    /\ d[1].type = "op" => d[1].delta = L[e[1]]
    /\ d[1].type = "waveState" => d[1].revision = e[1] /\ d[1].content = C[e[1]]
    /\ d[1].type \in {"welcome", "refusal", "resync"} => e[1] = from

LEMMA ReadsOne ==
    ASSUME NEW R \in Nat, NEW L, NEW C, NEW d \in Seq(Messages), d # <<>>,
           NEW from, NEW on, NEW e, Reads(e, from, on, d, R, L, C)
    PROVE  ReadsFirst(e, from, on, d, R, L, C)
<1> DEFINE n == Len(d)
           q == Tail(d)
           k == [i \in 0..(n - 1) |-> e[i + 1]]
<1>1. /\ n \in Nat /\ n >= 1 /\ Len(q) = n - 1 /\ \A i \in 1..(n - 1) : q[i] = d[i + 1]
  BY TailIs
<1> HIDE DEF n, q
<1>2. \A i \in 0..(n - 1) : k[i] = e[i + 1]
  BY <1>1
<1> HIDE DEF k
<1>3. \A i \in 0..n : e[i] \in 0..R
  BY DEF Reads, n
<1>4. 1 \in 1..n /\ 1 - 1 = 0 /\ 1 \in 0..n /\ 0 \in 0..n /\ e[0] = from
  BY <1>1 DEF Reads
<1>5. /\ d[1].type \in {"op", "ack"} => d[1].revision = e[1] /\ e[1] = e[0] + 1
      /\ d[1].type = "op" => d[1].delta = L[e[1]]
      /\ d[1].type = "waveState" => d[1].revision = e[1] /\ d[1].content = C[e[1]]
      /\ d[1].type \in {"welcome", "refusal", "resync"} => e[1] = e[0]
  BY <1>4 DEF Reads, n
<1>6. \A i \in 0..Len(q) : k[i] \in 0..R
  <2>1. \A i \in 0..(n - 1) : i + 1 \in 0..n
    BY <1>1
  <2>2. \A i \in 0..(n - 1) : k[i] \in 0..R
    BY <1>2, <1>3, <2>1
  <2> QED BY <1>1, <2>2
<1>7. k[0] = e[1] /\ (on = "on" => k[Len(q)] = R)
  BY <1>1, <1>2 DEF Reads, n
<1>8. ASSUME NEW i \in 1..Len(q)
      PROVE  /\ q[i].type \in {"op", "ack"} => q[i].revision = k[i] /\ k[i] = k[i - 1] + 1
             /\ q[i].type = "op" => q[i].delta = L[k[i]]
             /\ q[i].type = "waveState" => q[i].revision = k[i] /\ q[i].content = C[k[i]]
             /\ q[i].type \in {"welcome", "refusal", "resync"} => k[i] = k[i - 1]
  <2>1. /\ i + 1 \in 1..n /\ (i + 1) - 1 = i /\ (i - 1) + 1 = i
        /\ i \in 1..(n - 1) /\ i \in 0..(n - 1) /\ i - 1 \in 0..(n - 1)
    BY <1>1
  <2>2. q[i] = d[i + 1]
    BY <1>1, <2>1
  <2>4. k[i] = e[i + 1] /\ k[i - 1] = e[(i - 1) + 1]
    BY <1>2, <2>1
  <2>3. LET j == i + 1
        IN /\ d[j].type \in {"op", "ack"} => d[j].revision = e[j] /\ e[j] = e[j - 1] + 1
           /\ d[j].type = "op" => d[j].delta = L[e[j]]
           /\ d[j].type = "waveState" => d[j].revision = e[j] /\ d[j].content = C[e[j]]
           /\ d[j].type \in {"welcome", "refusal", "resync"} => e[j] = e[j - 1]
    BY <2>1 DEF Reads, n
  <2> QED BY <2>1, <2>2, <2>3, <2>4
<1>9. Reads(k, e[1], on, q, R, L, C)
  BY <1>6, <1>7, <1>8 DEF Reads
<1> QED BY <1>3, <1>4, <1>5, <1>9 DEF q, ReadsFirst

\* The shape of what is on its way, with one message more or less.
LEMMA ShapeMore ==
    ASSUME NEW d \in Seq(Messages), NEW m \in Messages
    PROVE  /\ \A k \in Nat \ {0} : m.type = "op" /\ OpsFrom(d, k) => OpsFrom(Append(d, m), k)
           /\ \A j \in 1..Len(d) : m.type = "op" /\ Lone(d, j) => Lone(Append(d, m), j)
           /\ m.type # "op" /\ OpsFrom(d, 1) => Lone(Append(d, m), Len(d) + 1)
<1> DEFINE n == Len(d)
           q == Append(d, m)
<1>1. /\ n \in Nat /\ Len(q) = n + 1 /\ q[n + 1] = m /\ \A i \in 1..n : q[i] = d[i]
  BY AppendIs
<1> HIDE DEF n, q
<1>2. \A k \in Nat \ {0} : \A i \in k..(n + 1) : i = n + 1 \/ (i \in k..n /\ i \in 1..n)
  BY <1>1
<1>3. ASSUME NEW k \in Nat \ {0}, m.type = "op", OpsFrom(d, k) PROVE OpsFrom(q, k)
  BY <1>1, <1>2, <1>3 DEF OpsFrom, n
<1>4. \A i \in 1..(n + 1) : i = n + 1 \/ (i \in 1..n /\ i # n + 1)
  BY <1>1
<1>5. ASSUME NEW j \in 1..n, m.type = "op", Lone(d, j) PROVE Lone(q, j)
  <2>1. j \in 1..(n + 1) /\ j # n + 1
    BY <1>1
  <2> QED BY <1>1, <1>4, <1>5, <2>1 DEF Lone, n
<1>6. ASSUME m.type # "op", OpsFrom(d, 1) PROVE Lone(q, n + 1)
  <2>1. n + 1 \in 1..(n + 1)
    BY <1>1
  <2> QED BY <1>1, <1>4, <1>6, <2>1 DEF Lone, OpsFrom, n
<1> QED BY <1>3, <1>5, <1>6 DEF n, q

LEMMA ShapeLess ==
    ASSUME NEW d \in Seq(Messages), d # <<>>
    PROVE  /\ \A k \in Nat \ {0} : OpsFrom(d, k + 1) => OpsFrom(Tail(d), k)
           /\ OpsFrom(d, 1) => OpsFrom(Tail(d), 1) /\ d[1].type = "op"
           /\ Lone(d, 1) => OpsFrom(Tail(d), 1) /\ d[1].type # "op"
           /\ \A j \in 1..Len(d) : Lone(d, j) /\ j # 1 =>
                /\ j - 1 \in 1..Len(Tail(d)) /\ Lone(Tail(d), j - 1) /\ Tail(d)[j - 1] = d[j]
                /\ d[1].type = "op"
<1> DEFINE n == Len(d)
           q == Tail(d)
<1>1. /\ n \in Nat /\ n >= 1 /\ Len(q) = n - 1 /\ \A i \in 1..(n - 1) : q[i] = d[i + 1]
  BY TailIs
<1> HIDE DEF n, q
<1>2. \A k \in Nat \ {0} : \A i \in k..(n - 1) : i \in 1..(n - 1) /\ i + 1 \in (k + 1)..n
  BY <1>1
<1>3. ASSUME NEW k \in Nat \ {0}, OpsFrom(d, k + 1) PROVE OpsFrom(q, k)
  <2>1. ASSUME NEW i \in k..Len(q) PROVE q[i].type = "op"
    <3>1. i \in 1..(n - 1) /\ i + 1 \in (k + 1)..n
      BY <1>1, <1>2
    <3>2. q[i] = d[i + 1]
      BY <1>1, <3>1
    <3> QED BY <1>3, <3>1, <3>2 DEF OpsFrom, n
  <2> QED BY <2>1 DEF OpsFrom
<1>4. \A i \in 1..(n - 1) : i + 1 \in 1..n /\ i + 1 # 1 /\ i + 1 \in 2..n
  BY <1>1
<1>5. 1 \in 1..n
  BY <1>1
<1>6. OpsFrom(d, 1) => OpsFrom(q, 1) /\ d[1].type = "op"
  BY <1>1, <1>4, <1>5 DEF OpsFrom, n
<1>7. Lone(d, 1) => OpsFrom(q, 1) /\ d[1].type # "op"
  BY <1>1, <1>4, <1>5 DEF OpsFrom, Lone, n
<1>8. ASSUME NEW j \in 1..n, Lone(d, j), j # 1
      PROVE  j - 1 \in 1..Len(q) /\ Lone(q, j - 1) /\ q[j - 1] = d[j] /\ d[1].type = "op"
  <2>1. j - 1 \in 1..(n - 1) /\ (j - 1) + 1 = j
    BY <1>1, <1>8
  <2>3. ASSUME NEW i \in 1..(n - 1) PROVE q[i].type = "op" <=> i # j - 1
    <3>1. (i # j - 1 <=> i + 1 # j) /\ i + 1 \in 1..n
      BY <1>1
    <3>2. q[i] = d[i + 1]
      BY <1>1
    <3> QED BY <1>8, <3>1, <3>2 DEF Lone, n
  <2>4. d[1].type = "op"
    BY <1>5, <1>8 DEF Lone, n
  <2> QED BY <1>1, <2>1, <2>3, <2>4 DEF Lone
<1> QED BY <1>3, <1>6, <1>7, <1>8 DEF n, q
-----------------------------------------------------------------------------
(* What each step does to a client.                                        *)

LEMMA KeptLater ==
    ASSUME NEW r \in Nat, NEW s \in Nat, r <= s, NEW R \in Nat, NEW H \in Nat, Kept(r, R, H)
    PROVE  Kept(s, R, H)
BY DEF Kept

\* The phase looks at the op in flight and the revision only.
LEMMA PhaseSame ==
    ASSUME NEW b, NEW q, q.outstanding = b.outstanding, q.opId = b.opId, q.revision = b.revision,
           NEW lk, NEW on, NEW u, NEW d, NEW R, NEW H, NEW L, NEW C,
           Phase(b, lk, on, u, d, R, H, L, C)
    PROVE  Phase(q, lk, on, u, d, R, H, L, C)
BY DEF Phase, AtRest, InFlight, Acked, Refused, Asking, Reopening

\* A commit of somebody else's op.
LEMMA PhaseCommit ==
    ASSUME AlgebraLaws, NEW R \in Nat, NEW H \in Nat, H <= MaxHistory, NEW L, NEW C, NEW L2, NEW C2,
           NEW x \in Change, Log(R + 1, L2, C2), Grows(R, L, C, L2, C2, x),
           NEW b \in BlipDocs, NEW lk, NEW u, NEW d \in Seq(Messages),
           Phase(b, lk, "on", u, d, R, H, L, C), NEW m \in Messages, m.type = "op"
    PROVE  Phase(b, lk, "on", u, Append(d, m), R + 1, OneLonger(H), L2, C2)
<1> DEFINE q == Append(d, m)
           R2 == R + 1
           H2 == OneLonger(H)
<1>1. /\ Len(d) \in Nat /\ q \in Seq(Messages) /\ Len(q) = Len(d) + 1
      /\ \A i \in 1..Len(d) : q[i] = d[i] /\ i \in 1..Len(q)
  BY AppendIs
<1>2. /\ \A k \in Nat \ {0} : OpsFrom(d, k) => OpsFrom(q, k)
      /\ \A j \in 1..Len(d) : Lone(d, j) => Lone(q, j)
  BY ShapeMore
<1>3. b.revision \in Nat /\ R2 \in Nat
  BY DEF BlipDocs
<1>4. \A r \in Nat : Kept(r, R, H) => Kept(r, R2, H2)
  BY KeptStays
<1>5. \A i \in 1..Len(d) : d[i].type = "waveState" => d[i].revision \in Nat
  <2>1. \A i \in 1..Len(d) : d[i] \in Messages
    OBVIOUS
  <2> QED BY <2>1 DEF Messages
<1> HIDE DEF q, R2, H2
<1>6. CASE Greeted(lk, u, d, R, H)
  <2>1. PICK k \in 1..2 :
           /\ lk = IF k = 2 THEN "greeting" ELSE "shell"
           /\ k <= Len(d) /\ (k = 2 => d[1].type = "welcome")
           /\ d[k].type = "waveState" /\ Kept(d[k].revision, R, H) /\ OpsFrom(d, k + 1)
           /\ R = d[k].revision + (Len(d) - k)
    BY <1>6 DEF Greeted
  <2>2. k \in 1..Len(d) /\ k + 1 \in Nat \ {0} /\ 1 \in 1..Len(d)
    BY <1>1, <2>1
  <2>3. q[k] = d[k] /\ q[1] = d[1] /\ d[k].revision \in Nat /\ k <= Len(q)
    BY <1>1, <1>5, <2>1, <2>2
  <2>4. R2 = q[k].revision + (Len(q) - k)
    <3> DEFINE z == Len(d)
               t == d[k].revision
    <3>1. z \in Nat /\ t \in Nat /\ R = t + (z - k) /\ Len(q) = z + 1 /\ q[k].revision = t
      BY <1>1, <2>1, <2>3
    <3> HIDE DEF z, t
    <3> QED BY <3>1 DEF R2
  <2>5. Greeted(lk, u, q, R2, H2)
    BY <1>2, <1>4, <1>6, <2>1, <2>2, <2>3, <2>4 DEF Greeted
  <2> QED BY <2>5 DEF Phase, q, R2, H2
<1>7. CASE lk = "ready" /\ AtRest(b, u, d, R, H)
  <2>1. R = b.revision + Len(d) /\ Kept(b.revision, R, H) /\ OpsFrom(d, 1)
    BY <1>7 DEF AtRest
  <2>2. R2 = b.revision + Len(q)
    BY <1>1, <1>3, <2>1 DEF R2
  <2>3. AtRest(b, u, q, R2, H2)
    BY <1>2, <1>3, <1>4, <1>7, <2>1, <2>2 DEF AtRest
  <2> QED BY <1>7, <2>3 DEF Phase, q, R2, H2
<1>8. CASE lk = "ready" /\ InFlight(b, u, d, R, H, L, C)
  <2>1. PICK s \in Submission : \E f :
           /\ u = <<s>> /\ s.opId = b.opId
           /\ s.revision <= b.revision /\ Kept(s.revision, R, H)
           /\ Path(f, s.revision, R, L, C)
           /\ f[s.revision] = s.delta /\ f[b.revision] = b.outstanding
    BY <1>8 DEF InFlight
  <2>2. PICK f :
           /\ u = <<s>> /\ s.opId = b.opId
           /\ s.revision <= b.revision /\ Kept(s.revision, R, H)
           /\ Path(f, s.revision, R, L, C)
           /\ f[s.revision] = s.delta /\ f[b.revision] = b.outstanding
    BY <2>1
  <2>3. s.revision \in Nat /\ OpsFrom(d, 1) /\ R = b.revision + Len(d) /\ b.outstanding # NoChange
    BY <1>8 DEF Submission, InFlight
  <2> DEFINE t == b.revision
             v == s.revision
             z == Len(d)
  <2>4. s.revision <= R /\ R <= R /\ R < R + 1 /\ s.revision \in s.revision..R /\ b.revision \in s.revision..R
    <3>1. t \in Nat /\ v \in Nat /\ z \in Nat /\ v <= t /\ R = t + z
      BY <1>1, <1>3, <2>2, <2>3
    <3> HIDE DEF t, v, z
    <3>2. v <= R /\ R <= R /\ R < R + 1 /\ v \in v..R /\ t \in v..R
      BY <3>1
    <3> QED BY <3>2 DEF t, v, z
  <2>5. Path(f, s.revision, R, L2, C2)
    BY <2>2, <2>3, <2>4, PathStays
  <2>6. PICK k : Path(k, s.revision, R + 1, L2, C2) /\ \A i \in s.revision..R : k[i] = f[i]
    BY <2>3, <2>4, <2>5, PathGoesOn
  <2>7. k[s.revision] = s.delta /\ k[b.revision] = b.outstanding
    BY <2>2, <2>4, <2>6
  <2>8. Kept(s.revision, R2, H2) /\ OpsFrom(q, 1) /\ R2 = b.revision + Len(q)
    BY <1>1, <1>2, <1>3, <1>4, <2>2, <2>3 DEF R2
  <2>9. InFlight(b, u, q, R2, H2, L2, C2)
    BY <2>2, <2>3, <2>6, <2>7, <2>8 DEF InFlight, R2
  <2> QED BY <1>8, <2>9 DEF Phase, q, R2, H2
<1>9. CASE lk = "ready" /\ Acked(b, u, d, R, H, L, C)
  <2>1. /\ u = <<>> /\ b.outstanding # NoChange
        /\ R = b.revision + Len(d) /\ Kept(b.revision, R, H)
    BY <1>9 DEF Acked
  <2>2. PICK j \in 1..Len(d) : \E f :
           /\ Lone(d, j) /\ d[j].type = "ack" /\ d[j].opId = b.opId
           /\ d[j].revision = b.revision + j
           /\ Path(f, b.revision, d[j].revision - 1, L, C)
           /\ f[b.revision] = b.outstanding /\ f[d[j].revision - 1] = L[d[j].revision]
    BY <1>9 DEF Acked
  <2>3. PICK f :
           /\ Lone(d, j) /\ d[j].type = "ack" /\ d[j].opId = b.opId
           /\ d[j].revision = b.revision + j
           /\ Path(f, b.revision, d[j].revision - 1, L, C)
           /\ f[b.revision] = b.outstanding /\ f[d[j].revision - 1] = L[d[j].revision]
    BY <2>2
  <2> DEFINE w == d[j].revision
             t == b.revision
             z == Len(d)
  <2>4. d[j].revision - 1 \in Nat /\ d[j].revision - 1 <= R /\ d[j].revision \in 1..R
    <3>1. t \in Nat /\ z \in Nat
      BY <1>1, <1>3
    <3>2. j \in 1..z /\ w = t + j /\ R = t + z
      BY <2>1, <2>3
    <3> HIDE DEF w, t, z
    <3>3. w - 1 \in Nat /\ w - 1 <= R /\ w \in 1..R
      BY <3>1, <3>2
    <3> QED BY <3>3 DEF w
  <2>5. Path(f, b.revision, d[j].revision - 1, L2, C2)
    BY <1>3, <2>3, <2>4, PathStays
  <2>6. L2[d[j].revision] = L[d[j].revision]
    BY <2>4 DEF Grows
  <2>7. j \in 1..Len(q) /\ q[j] = d[j] /\ Lone(q, j)
    BY <1>1, <1>2, <2>3
  <2>8. R2 = b.revision + Len(q) /\ Kept(b.revision, R2, H2)
    BY <1>1, <1>3, <1>4, <2>1 DEF R2
  <2>9. Acked(b, u, q, R2, H2, L2, C2)
    BY <2>1, <2>3, <2>5, <2>6, <2>7, <2>8 DEF Acked
  <2> QED BY <1>9, <2>9 DEF Phase, q, R2, H2
<1>10. CASE lk = "ready" /\ Refused(b, u, d)
  <2>1. Refused(b, u, q)
    BY <1>1, <1>2, <1>10 DEF Refused
  <2> QED BY <1>10, <2>1 DEF Phase, q, R2, H2
<1>11. CASE lk = "ready" /\ Asking(b, u, d)
  <2>1. Asking(b, u, q)
    BY <1>1, <1>2, <1>11 DEF Asking
  <2> QED BY <1>11, <2>1 DEF Phase, q, R2, H2
<1>12. CASE lk = "ready" /\ Reopening(b, u, d, R, H)
  <2>1. PICK j \in 1..Len(d) : /\ Lone(d, j) /\ d[j].type = "waveState"
                               /\ Kept(d[j].revision, R, H) /\ R = d[j].revision + (Len(d) - j)
    BY <1>12 DEF Reopening
  <2>2. q[j] = d[j] /\ j \in 1..Len(q) /\ Lone(q, j) /\ d[j].revision \in Nat
    BY <1>1, <1>2, <1>5, <2>1
  <2>3. R2 = q[j].revision + (Len(q) - j) /\ Kept(q[j].revision, R2, H2)
    <3> DEFINE z == Len(d)
               t == d[j].revision
    <3>1. z \in Nat /\ t \in Nat /\ R = t + (z - j) /\ Len(q) = z + 1 /\ q[j].revision = t
      BY <1>1, <2>1, <2>2
    <3>2. Kept(t, R2, H2)
      BY <1>4, <2>1, <2>2
    <3> HIDE DEF z, t
    <3> QED BY <3>1, <3>2 DEF R2
  <2>4. Reopening(b, u, q, R2, H2)
    BY <1>12, <2>1, <2>2, <2>3 DEF Reopening
  <2> QED BY <1>12, <2>4 DEF Phase, q, R2, H2
<1> QED BY <1>6, <1>7, <1>8, <1>9, <1>10, <1>11, <1>12 DEF Phase

\* A commit that this client did not make.
LEMMA TracksCommit ==
    ASSUME AlgebraLaws, NEW R \in Nat, NEW H \in Nat, H <= MaxHistory, NEW L, NEW C, NEW L2, NEW C2,
           NEW x \in Change, Log(R + 1, L2, C2), Grows(R, L, C, L2, C2, x),
           NEW b, NEW n, NEW lk, NEW on \in {"on", "off"}, NEW u, NEW d,
           Tracks(b, n, lk, on, u, d, R, H, L, C),
           NEW q, q = IF on = "on" THEN Append(d, Op(R + 1, x)) ELSE d
    PROVE  Tracks(b, n, lk, on, u, q, R + 1, OneLonger(H), L2, C2)
<1> DEFINE m == Op(R + 1, x)
<1>1. /\ b \in BlipDocs /\ n \in Nat /\ b.opId <= n /\ b.revision <= R
      /\ (b.outstanding = NoChange <=> b.opId = NoOp)
      /\ Follows(b, C[b.revision]) /\ d \in Seq(Messages)
      /\ Phase(b, lk, on, u, d, R, H, L, C)
  BY DEF Tracks
<1>2. PICK e : Reads(e, b.revision, on, d, R, L, C)
  BY DEF Tracks
<1>3. b.revision \in 0..R /\ b.revision <= R + 1 /\ R + 1 \in Nat /\ R <= R + 1
  BY <1>1 DEF BlipDocs
<1>4. Agree(R, L, C, L2, C2) /\ C2[b.revision] = C[b.revision] /\ L2[R + 1] = x
  BY <1>3 DEF Agree, Grows
<1>5. (\E y : y \in Doc)
  BY EmptyDocAssumption
<1>6. m \in Messages /\ m.type = "op" /\ m.revision = R + 1 /\ m.delta = x
  BY <1>3, <1>5, MessagesAre DEF Op
<1> HIDE DEF m
<1>7. CASE on = "on"
  <2>1. q = Append(d, m) /\ q \in Seq(Messages)
    BY <1>1, <1>6, <1>7 DEF m
  <2>2. Brings(m, R, R + 1, L2, C2)
    BY <1>4, <1>6 DEF Brings
  <2>3. \E k : Reads(k, b.revision, "on", q, R + 1, L2, C2)
    BY <1>1, <1>2, <1>3, <1>4, <1>6, <1>7, <2>1, <2>2, ReadsMore
  <2>4. Phase(b, lk, "on", u, q, R + 1, OneLonger(H), L2, C2)
    BY <1>1, <1>6, <1>7, <2>1, PhaseCommit
  <2> QED BY <1>1, <1>3, <1>4, <1>7, <2>1, <2>3, <2>4 DEF Tracks
<1>8. CASE on = "off"
  <2>1. q = d
    BY <1>8
  <2>2. Reads(e, b.revision, "off", d, R + 1, L2, C2)
    BY <1>1, <1>2, <1>3, <1>4, <1>8, ReadsSame
  <2>3. Phase(b, lk, on, u, d, R + 1, OneLonger(H), L2, C2)
    BY <1>1, <1>8 DEF Phase
  <2> QED BY <1>1, <1>3, <1>4, <1>8, <2>1, <2>2, <2>3 DEF Tracks
<1> QED BY <1>7, <1>8

\* At most one message is on its way up.
Lifted(b, lk, on, u, d, R, H, L, C) ==
    /\ u # <<>> => Tail(u) = <<>>
    /\ \/ u = <<>>
       \/ u = <<OpenCommand>> /\ (on = "on" => lk = "ready" /\ Asking(b, u, d))
       \/ /\ \E m \in Submission : u = <<m>>
          /\ on = "on" /\ lk = "ready" /\ InFlight(b, u, d, R, H, L, C)

LEMMA Upward ==
    ASSUME NEW b, NEW lk, NEW on \in {"on", "off"}, NEW u, NEW d, NEW R, NEW H, NEW L, NEW C,
           Phase(b, lk, on, u, d, R, H, L, C)
    PROVE  Lifted(b, lk, on, u, d, R, H, L, C)
<1>1. \A m : <<m>> # <<>> /\ Tail(<<m>>) = <<>>
  OBVIOUS
<1>2. CASE on = "off"
  BY <1>1, <1>2 DEF Phase, Away, Lifted
<1>3. on = "on" => \/ u = <<>>
                   \/ lk = "ready" /\ InFlight(b, u, d, R, H, L, C)
                   \/ lk = "ready" /\ Asking(b, u, d)
  BY DEF Phase, Greeted, AtRest, Acked, Refused, Reopening
<1>4. CASE on = "on" /\ lk = "ready" /\ InFlight(b, u, d, R, H, L, C)
  BY <1>1, <1>4 DEF InFlight, Lifted
<1>5. CASE on = "on" /\ lk = "ready" /\ Asking(b, u, d)
  BY <1>1, <1>5 DEF Asking, Lifted
<1>6. CASE on = "on" /\ u = <<>>
  BY <1>6 DEF Lifted
<1> QED BY <1>2, <1>3, <1>4, <1>5, <1>6

LEMMA SubmitIs ==
    ASSUME NEW b, NEW lk, NEW on \in {"on", "off"}, NEW u, NEW d, NEW R, NEW H, NEW L, NEW C,
           Phase(b, lk, on, u, d, R, H, L, C), u # <<>>, Head(u).type = "submit"
    PROVE  /\ on = "on" /\ lk = "ready" /\ InFlight(b, u, d, R, H, L, C)
           /\ Head(u) \in Submission /\ Tail(u) = <<>>
<1>1. OpenCommand.type = "open" /\ Head(<<OpenCommand>>) = OpenCommand
  BY DEF OpenCommand
<1>2. u # <<OpenCommand>>
  BY <1>1
<1>3. /\ \E m \in Submission : u = <<m>>
      /\ on = "on" /\ lk = "ready" /\ InFlight(b, u, d, R, H, L, C)
      /\ Tail(u) = <<>>
  <2> DEFINE One == \E m \in Submission : u = <<m>>
  <2>1. /\ u # <<>> => Tail(u) = <<>>
        /\ \/ u = <<>>
           \/ u = <<OpenCommand>> /\ (on = "on" => lk = "ready" /\ Asking(b, u, d))
           \/ One /\ on = "on" /\ lk = "ready" /\ InFlight(b, u, d, R, H, L, C)
    <3>1. Lifted(b, lk, on, u, d, R, H, L, C)
      BY Upward
    <3> QED BY <3>1, Zenon DEF Lifted
  <2> HIDE DEF One
  <2>2. One /\ on = "on" /\ lk = "ready" /\ InFlight(b, u, d, R, H, L, C) /\ Tail(u) = <<>>
    BY <1>2, <2>1
  <2> QED BY <2>2 DEF One
<1> QED BY <1>3

LEMMA OpenIs ==
    ASSUME NEW b, NEW lk, NEW on \in {"on", "off"}, NEW u, NEW d, NEW R, NEW H, NEW L, NEW C,
           Phase(b, lk, on, u, d, R, H, L, C), u # <<>>, Head(u).type = "open"
    PROVE  /\ \/ on = "off" /\ lk = "greeting" /\ d = <<Welcome>>
              \/ on = "off" /\ lk = "shell" /\ d = <<>>
              \/ on = "on" /\ lk = "ready" /\ Asking(b, u, d)
           /\ Tail(u) = <<>>
<1>1. \A m \in Submission : m.type = "submit" /\ Head(<<m>>) = m
  BY DEF Submission
<1>2. ~ \E m \in Submission : u = <<m>>
  BY <1>1
<1>3. u = <<OpenCommand>> /\ (on = "on" => lk = "ready" /\ Asking(b, u, d)) /\ Tail(u) = <<>>
  <2> DEFINE One == \E m \in Submission : u = <<m>>
  <2>1. /\ u # <<>> => Tail(u) = <<>>
        /\ \/ u = <<>>
           \/ u = <<OpenCommand>> /\ (on = "on" => lk = "ready" /\ Asking(b, u, d))
           \/ One /\ on = "on" /\ lk = "ready" /\ InFlight(b, u, d, R, H, L, C)
    <3>1. Lifted(b, lk, on, u, d, R, H, L, C)
      BY Upward
    <3> QED BY <3>1, Zenon DEF Lifted
  <2>2. ~One
    BY <1>2
  <2> HIDE DEF One
  <2> QED BY <2>1, <2>2
<1>4. CASE on = "off"
  <2>1. Away(lk, u, d)
    BY <1>4 DEF Phase
  <2> QED BY <1>3, <1>4, <2>1 DEF Away
<1> QED BY <1>3, <1>4

\* The phases in which a browser reads a message of each kind.
Reading(b, lk, on, u, d, R, H, L, C) ==
    /\ d[1].type = "welcome" =>
         \/ on = "off" /\ lk = "greeting" /\ u = <<OpenCommand>> /\ d = <<Welcome>>
         \/ on = "on" /\ Greeted(lk, u, d, R, H)
    /\ d[1].type # "welcome" => on = "on"
    /\ d[1].type \in {"op", "ack", "refusal", "resync"} => lk = "ready" /\ ~Greeted(lk, u, d, R, H)
    /\ d[1].type \in {"refusal", "resync"} => Refused(b, u, d) /\ Lone(d, 1)
    /\ d[1].type = "ack" => Acked(b, u, d, R, H, L, C) /\ Lone(d, 1)
    /\ d[1].type = "waveState" =>
         \/ Greeted(lk, u, d, R, H)
         \/ lk = "ready" /\ Reopening(b, u, d, R, H) /\ Lone(d, 1)

LEMMA Downward ==
    ASSUME NEW b, NEW lk, NEW on \in {"on", "off"}, NEW u, NEW d \in Seq(Messages), d # <<>>,
           NEW R, NEW H, NEW L, NEW C, Phase(b, lk, on, u, d, R, H, L, C)
    PROVE  Reading(b, lk, on, u, d, R, H, L, C)
<1>1. 1 \in 1..Len(d)
  BY TailIs
<1>2. Welcome.type = "welcome" /\ <<Welcome>>[1] = Welcome
  BY DEF Welcome
<1>3. CASE on = "off"
  BY <1>2, <1>3 DEF Phase, Away, Reading
<1>4. CASE on = "on" /\ Greeted(lk, u, d, R, H)
  BY <1>1, <1>4 DEF Greeted, Reading
<1>5. CASE on = "on" /\ ~Greeted(lk, u, d, R, H)
  <2>1. lk = "ready"
    BY <1>5 DEF Phase
  <2>2. CASE OpsFrom(d, 1)
    BY <1>1, <1>5, <2>1, <2>2 DEF OpsFrom, Reading
  <2>3. CASE Acked(b, u, d, R, H, L, C)
    <3>1. PICK j \in 1..Len(d) : Lone(d, j) /\ d[j].type = "ack"
      BY <2>3 DEF Acked
    <3>2. d[1].type = "op" \/ j = 1
      BY <1>1, <3>1 DEF Lone
    <3> QED BY <1>5, <2>1, <2>3, <3>1, <3>2 DEF Reading
  <2>4. CASE Refused(b, u, d)
    <3>1. PICK j \in 1..Len(d) : Lone(d, j) /\ d[j].type \in {"refusal", "resync"}
      BY <2>4 DEF Refused
    <3>2. d[1].type = "op" \/ j = 1
      BY <1>1, <3>1 DEF Lone
    <3> QED BY <1>5, <2>1, <2>4, <3>1, <3>2 DEF Reading
  <2>5. CASE Reopening(b, u, d, R, H)
    <3>1. PICK j \in 1..Len(d) : Lone(d, j) /\ d[j].type = "waveState"
      BY <2>5 DEF Reopening
    <3>2. d[1].type = "op" \/ j = 1
      BY <1>1, <3>1 DEF Lone
    <3> QED BY <1>5, <2>1, <2>5, <3>1, <3>2 DEF Reading
  <2>6. OpsFrom(d, 1) \/ Acked(b, u, d, R, H, L, C) \/ Refused(b, u, d) \/ Reopening(b, u, d, R, H)
    BY <1>5 DEF Phase, AtRest, InFlight, Asking
  <2> QED BY <2>2, <2>3, <2>4, <2>5, <2>6
<1> QED BY <1>3, <1>4, <1>5

\* The client's own op is committed: what the server stored is what the client will
\* have outstanding when it reads the Ack.
LEMMA TracksOwn ==
    ASSUME AlgebraLaws, NEW s, NEW L, NEW C, Serves(s, L, C), NEW L2, NEW C2,
           NEW R, R = s.revision, NEW H, H = Len(s.history),
           NEW b, NEW n, NEW lk, NEW on \in {"on", "off"}, NEW u, NEW d,
           Tracks(b, n, lk, on, u, d, R, H, L, C),
           u # <<>>, Head(u).type = "submit", InWindow(s, Head(u).revision),
           NEW x \in Change, x = Rebase(s, Head(u).revision, Head(u).delta),
           Grows(R, L, C, L2, C2, x), NEW q, q = Append(d, Ack(R + 1, Head(u).opId))
    PROVE  on = "on" /\ Tracks(b, n, lk, on, Tail(u), q, R + 1, OneLonger(H), L2, C2)
<1>1. /\ b \in BlipDocs /\ n \in Nat /\ b.opId <= n /\ b.revision <= R
      /\ (b.outstanding = NoChange <=> b.opId = NoOp)
      /\ Follows(b, C[b.revision]) /\ d \in Seq(Messages)
      /\ Phase(b, lk, on, u, d, R, H, L, C)
  BY DEF Tracks
<1>2. PICK e : Reads(e, b.revision, on, d, R, L, C)
  BY DEF Tracks
<1>3. /\ on = "on" /\ lk = "ready" /\ InFlight(b, u, d, R, H, L, C)
      /\ Head(u) \in Submission /\ Tail(u) = <<>>
  BY <1>1, SubmitIs
<1> DEFINE m == Head(u)
           a == Ack(R + 1, m.opId)
<1>4. /\ OpsFrom(d, 1) /\ R = b.revision + Len(d) /\ b.outstanding # NoChange
      /\ \E f : /\ m.opId = b.opId
                /\ m.revision <= b.revision /\ Kept(m.revision, R, H)
                /\ Path(f, m.revision, R, L, C)
                /\ f[m.revision] = m.delta /\ f[b.revision] = b.outstanding
  BY <1>3 DEF InFlight
<1>5. PICK f : /\ m.opId = b.opId
               /\ m.revision <= b.revision /\ Kept(m.revision, R, H)
               /\ Path(f, m.revision, R, L, C)
               /\ f[m.revision] = m.delta /\ f[b.revision] = b.outstanding
  BY <1>4
<1>6. /\ m.revision \in Nat /\ m.opId \in Nat /\ b.revision \in Nat /\ R \in Nat /\ H \in Nat
      /\ H <= MaxHistory /\ Len(d) \in Nat
  BY <1>1, <1>3 DEF Submission, BlipDocs, Serves, Log
<1>7. x = f[R]
  BY <1>5, <1>6, RebaseIs
<1>8. Path(f, b.revision, R, L2, C2)
  <2>1. Path(f, b.revision, R, L, C)
    BY <1>5, <1>6, PathShortens
  <2> QED BY <1>6, <2>1, PathStays
<1>9. Kept(b.revision, R + 1, OneLonger(H))
  BY <1>5, <1>6, KeptStays, KeptLater
<1>10. a \in Messages /\ a.type = "ack" /\ a.revision = R + 1 /\ a.opId = b.opId
  <2>1. R + 1 \in Nat
    BY <1>6
  <2>2. a \in Messages
    BY <1>6, <2>1, EmptyDocAssumption, MessagesAre
  <2> QED BY <1>5, <2>2 DEF Ack
<1> HIDE DEF m, a
<1>11. q = Append(d, a) /\ q \in Seq(Messages) /\ Len(q) = Len(d) + 1 /\ q[Len(d) + 1] = a
  BY <1>1, <1>10, AppendIs DEF a, m
<1>12. Lone(q, Len(d) + 1) /\ Len(d) + 1 \in 1..Len(q)
  BY <1>1, <1>4, <1>6, <1>10, <1>11, ShapeMore
<1>13. Brings(a, R, R + 1, L2, C2) /\ Agree(R, L, C, L2, C2) /\ R + 1 \in Nat
  BY <1>6, <1>10 DEF Brings, Agree, Grows
<1>14. \E k : Reads(k, b.revision, "on", q, R + 1, L2, C2)
  BY <1>1, <1>2, <1>3, <1>6, <1>10, <1>11, <1>13, ReadsMore
<1>15. /\ R + 1 = b.revision + (Len(d) + 1) /\ (R + 1) - 1 = R /\ b.revision <= R + 1
       /\ b.revision \in 0..R
  BY <1>1, <1>4, <1>6
<1>16. L2[R + 1] = x /\ C2[b.revision] = C[b.revision]
  BY <1>15 DEF Grows
<1>17. Acked(b, <<>>, q, R + 1, OneLonger(H), L2, C2)
  <2> DEFINE j == Len(d) + 1
  <2>1. /\ j \in 1..Len(q) /\ Lone(q, j) /\ q[j].type = "ack" /\ q[j].opId = b.opId
        /\ q[j].revision = b.revision + j /\ q[j].revision - 1 = R /\ q[j].revision = R + 1
        /\ R + 1 = b.revision + Len(q)
    BY <1>10, <1>11, <1>12, <1>15
  <2> HIDE DEF j
  <2> QED BY <1>4, <1>5, <1>7, <1>8, <1>9, <1>16, <2>1 DEF Acked
<1>18. Phase(b, lk, on, <<>>, q, R + 1, OneLonger(H), L2, C2)
  BY <1>3, <1>17 DEF Phase
<1> QED BY <1>1, <1>3, <1>11, <1>14, <1>15, <1>16, <1>18 DEF Tracks

\* The greeting is read.
LEMMA TracksWelcome ==
    ASSUME NEW R \in Nat, NEW H, NEW L, NEW C,
           NEW b, NEW n, NEW lk, NEW on \in {"on", "off"}, NEW u, NEW d,
           Tracks(b, n, lk, on, u, d, R, H, L, C), d # <<>>, Head(d).type = "welcome"
    PROVE  Tracks(b, n, "shell", on, u, Tail(d), R, H, L, C)
<1>1. /\ b \in BlipDocs /\ n \in Nat /\ b.opId <= n /\ b.revision <= R
      /\ (b.outstanding = NoChange <=> b.opId = NoOp)
      /\ Follows(b, C[b.revision]) /\ d \in Seq(Messages)
      /\ Phase(b, lk, on, u, d, R, H, L, C)
  BY DEF Tracks
<1>2. PICK e : Reads(e, b.revision, on, d, R, L, C)
  BY DEF Tracks
<1> DEFINE q == Tail(d)
<1>3. /\ q \in Seq(Messages) /\ Len(d) \in Nat /\ Len(d) >= 1 /\ Len(q) = Len(d) - 1
      /\ d[1].type = "welcome" /\ \A i \in 1..(Len(d) - 1) : q[i] = d[i + 1]
  BY <1>1, TailIs
<1>4. \E k : Reads(k, b.revision, on, q, R, L, C)
  <2>1. ReadsFirst(e, b.revision, on, d, R, L, C)
    BY <1>1, <1>2, ReadsOne
  <2> QED BY <1>3, <2>1 DEF ReadsFirst
<1>5. CASE on = "off" /\ lk = "greeting" /\ u = <<OpenCommand>> /\ d = <<Welcome>>
  <2>1. q = <<>>
    BY <1>5
  <2>2. Phase(b, "shell", on, u, q, R, H, L, C)
    BY <1>5, <2>1 DEF Phase, Away
  <2> HIDE DEF q
  <2> QED BY <1>1, <1>3, <1>4, <2>2 DEF Tracks, q
<1>6. CASE on = "on" /\ Greeted(lk, u, d, R, H)
  <2>1. PICK k \in 1..2 :
           /\ lk = IF k = 2 THEN "greeting" ELSE "shell"
           /\ k <= Len(d) /\ (k = 2 => d[1].type = "welcome")
           /\ d[k].type = "waveState" /\ Kept(d[k].revision, R, H) /\ OpsFrom(d, k + 1)
           /\ R = d[k].revision + (Len(d) - k)
    BY <1>6 DEF Greeted
  <2>2. k = 2
    BY <1>3, <2>1
  <2>3. 2 <= Len(d) /\ OpsFrom(d, 2 + 1) /\ 2 \in Nat \ {0} /\ Len(d) - 2 = Len(q) - 1 /\ 1 <= Len(q)
    BY <1>3, <2>1, <2>2
  <2>4. q[1] = d[2] /\ OpsFrom(q, 1 + 1)
    <3>1. OpsFrom(q, 2)
      BY <1>1, <2>3, ShapeLess
    <3>2. 1 \in 1..(Len(d) - 1) /\ 1 + 1 = 2
      BY <1>3, <2>3
    <3> QED BY <1>3, <3>1, <3>2
  <2> HIDE DEF q
  <2>5. Greeted("shell", u, q, R, H)
    <3>1. u = <<>>
      BY <1>6 DEF Greeted
    <3>2. 1 \in 1..2 /\ 1 # 2 /\ R = q[1].revision + (Len(q) - 1)
      BY <2>1, <2>2, <2>3, <2>4
    <3> QED BY <2>1, <2>2, <2>3, <2>4, <3>1, <3>2 DEF Greeted
  <2>6. Phase(b, "shell", on, u, q, R, H, L, C)
    BY <1>6, <2>5 DEF Phase
  <2> QED BY <1>1, <1>3, <1>4, <2>6 DEF Tracks, q
<1>7. Reading(b, lk, on, u, d, R, H, L, C)
  BY <1>1, Downward
<1> QED BY <1>3, <1>5, <1>6, <1>7 DEF Reading

\* An op of somebody else is read.
LEMMA PhaseOp ==
    ASSUME NEW R \in Nat, NEW H \in Nat, NEW L, NEW C,
           NEW b \in BlipDocs, NEW q \in BlipDocs, NEW u, NEW d \in Seq(Messages), d # <<>>,
           d[1].type = "op", Phase(b, "ready", "on", u, d, R, H, L, C),
           ~Greeted("ready", u, d, R, H),
           q.revision = b.revision + 1, b.revision + 1 <= R, q.opId = b.opId,
           (q.outstanding = NoChange <=> b.outstanding = NoChange),
           b.outstanding # NoChange => q.outstanding = OtTransform(L[q.revision], b.outstanding)
    PROVE  Phase(q, "ready", "on", u, Tail(d), R, H, L, C)
<1> DEFINE t == Tail(d)
           r == b.revision
           z == Len(d)
<1>1. /\ t \in Seq(Messages) /\ z \in Nat /\ z >= 1 /\ Len(t) = z - 1 /\ r \in Nat
  BY TailIs DEF BlipDocs
<1>2. /\ OpsFrom(d, 1) => OpsFrom(t, 1)
      /\ Lone(d, 1) => d[1].type # "op"
      /\ \A j \in 1..z : Lone(d, j) /\ j # 1 =>
                j - 1 \in 1..Len(t) /\ Lone(t, j - 1) /\ t[j - 1] = d[j]
  BY ShapeLess
<1> HIDE DEF t, z
<1>3. Kept(r, R, H) => Kept(r + 1, R, H)
  BY <1>1, KeptLater
<1>4. R = r + z => R = (r + 1) + Len(t)
  BY <1>1
<1>5. CASE AtRest(b, u, d, R, H)
  <2>1. AtRest(q, u, t, R, H)
    BY <1>2, <1>3, <1>4, <1>5 DEF AtRest, z
  <2> QED BY <2>1 DEF Phase, t
<1>6. CASE InFlight(b, u, d, R, H, L, C)
  <2>1. PICK s \in Submission : \E f :
           /\ u = <<s>> /\ s.opId = b.opId
           /\ s.revision <= b.revision /\ Kept(s.revision, R, H)
           /\ Path(f, s.revision, R, L, C)
           /\ f[s.revision] = s.delta /\ f[b.revision] = b.outstanding
    BY <1>6 DEF InFlight
  <2>2. PICK f :
           /\ u = <<s>> /\ s.opId = b.opId
           /\ s.revision <= b.revision /\ Kept(s.revision, R, H)
           /\ Path(f, s.revision, R, L, C)
           /\ f[s.revision] = s.delta /\ f[b.revision] = b.outstanding
    BY <2>1
  <2>3. s.revision \in Nat /\ OpsFrom(d, 1) /\ R = r + z /\ b.outstanding # NoChange
    BY <1>6 DEF Submission, InFlight, z
  <2>4. r \in s.revision..(R - 1) /\ s.revision <= q.revision
    BY <1>1, <2>2, <2>3
  <2>5. f[r + 1] = OtTransform(L[r + 1], f[r])
    BY <2>2, <2>4 DEF Path
  <2>6. f[q.revision] = q.outstanding
    BY <2>2, <2>3, <2>5
  <2>7. InFlight(q, u, t, R, H, L, C)
    BY <1>2, <1>4, <2>2, <2>3, <2>4, <2>6 DEF InFlight
  <2> QED BY <2>7 DEF Phase, t
<1>7. CASE Acked(b, u, d, R, H, L, C)
  <2>1. /\ u = <<>> /\ b.outstanding # NoChange
        /\ R = r + z /\ Kept(r, R, H)
    BY <1>7 DEF Acked, z
  <2>2. PICK j \in 1..z : \E f :
           /\ Lone(d, j) /\ d[j].type = "ack" /\ d[j].opId = b.opId
           /\ d[j].revision = b.revision + j
           /\ Path(f, b.revision, d[j].revision - 1, L, C)
           /\ f[b.revision] = b.outstanding /\ f[d[j].revision - 1] = L[d[j].revision]
    BY <1>7 DEF Acked, z
  <2>3. PICK f :
           /\ Lone(d, j) /\ d[j].type = "ack" /\ d[j].opId = b.opId
           /\ d[j].revision = b.revision + j
           /\ Path(f, b.revision, d[j].revision - 1, L, C)
           /\ f[b.revision] = b.outstanding /\ f[d[j].revision - 1] = L[d[j].revision]
    BY <2>2
  <2>4. j # 1 /\ j - 1 \in 1..Len(t) /\ Lone(t, j - 1) /\ t[j - 1] = d[j]
    BY <1>2, <2>3
  <2>5. /\ r \in r..((r + j - 1) - 1) /\ r + j - 1 \in Nat /\ r <= r + 1 /\ r + 1 \in Nat
        /\ r + j = (r + 1) + (j - 1) /\ (r + j) - 1 = r + j - 1
    <3>1. r \in Nat /\ j \in Nat /\ j >= 2
      BY <1>1, <2>4
    <3> HIDE DEF r
    <3> QED BY <3>1
  <2>6. (r + j) - 1 = r + j - 1
    BY <2>5
  <2>7. Path(f, r, r + j - 1, L, C)
    BY <2>3, <2>6
  <2>8. f[r + 1] = OtTransform(L[r + 1], f[r]) /\ Path(f, r + 1, r + j - 1, L, C)
    <3>1. f[r + 1] = OtTransform(L[r + 1], f[r])
      BY <2>5, <2>7 DEF Path
    <3>2. Path(f, r + 1, r + j - 1, L, C)
      BY <1>1, <2>5, <2>7, PathShortens
    <3> QED BY <3>1, <3>2
  <2>9. f[q.revision] = q.outstanding /\ Path(f, q.revision, d[j].revision - 1, L, C)
    BY <2>1, <2>3, <2>6, <2>8
  <2>10. d[j].revision = q.revision + (j - 1) /\ R = q.revision + Len(t) /\ Kept(q.revision, R, H)
    BY <1>3, <1>4, <2>1, <2>3, <2>5
  <2>11. Acked(q, u, t, R, H, L, C)
    BY <2>1, <2>3, <2>4, <2>9, <2>10 DEF Acked
  <2> QED BY <2>11 DEF Phase, t
<1>8. CASE Refused(b, u, d)
  <2>1. PICK j \in 1..z : Lone(d, j) /\ d[j].type \in {"refusal", "resync"}
    BY <1>8 DEF Refused, z
  <2>2. j - 1 \in 1..Len(t) /\ Lone(t, j - 1) /\ t[j - 1] = d[j]
    BY <1>2, <2>1
  <2>3. Refused(q, u, t)
    BY <1>8, <2>1, <2>2 DEF Refused
  <2> QED BY <2>3 DEF Phase, t
<1>9. CASE Asking(b, u, d)
  <2>1. Asking(q, u, t)
    BY <1>2, <1>9 DEF Asking
  <2> QED BY <2>1 DEF Phase, t
<1>10. CASE Reopening(b, u, d, R, H)
  <2>1. PICK j \in 1..z : /\ Lone(d, j) /\ d[j].type = "waveState"
                          /\ Kept(d[j].revision, R, H) /\ R = d[j].revision + (z - j)
    BY <1>10 DEF Reopening, z
  <2>2. j - 1 \in 1..Len(t) /\ Lone(t, j - 1) /\ t[j - 1] = d[j]
    BY <1>2, <2>1
  <2>3. z - j = Len(t) - (j - 1)
    BY <1>1
  <2>4. Reopening(q, u, t, R, H)
    BY <1>10, <2>1, <2>2, <2>3 DEF Reopening
  <2> QED BY <2>4 DEF Phase, t
<1> QED BY <1>5, <1>6, <1>7, <1>8, <1>9, <1>10 DEF Phase

LEMMA TracksOp ==
    ASSUME AlgebraLaws, NEW R \in Nat, NEW H \in Nat, NEW L, NEW C, Log(R, L, C),
           NEW b, NEW n, NEW lk, NEW on \in {"on", "off"}, NEW u, NEW d,
           Tracks(b, n, lk, on, u, d, R, H, L, C), d # <<>>, Head(d).type = "op",
           NEW q, q = ApplyRemote(b, Head(d).delta, Head(d).revision)
    PROVE  Tracks(q, n, lk, on, u, Tail(d), R, H, L, C)
<1>1. /\ b \in BlipDocs /\ n \in Nat /\ b.opId <= n /\ b.revision <= R
      /\ (b.outstanding = NoChange <=> b.opId = NoOp)
      /\ Follows(b, C[b.revision]) /\ d \in Seq(Messages)
      /\ Phase(b, lk, on, u, d, R, H, L, C)
  BY DEF Tracks
<1>2. PICK e : Reads(e, b.revision, on, d, R, L, C)
  BY DEF Tracks
<1>3. Tail(d) \in Seq(Messages) /\ Head(d) = d[1] /\ d[1].type = "op"
  BY <1>1, TailIs
<1>4. on = "on" /\ lk = "ready" /\ ~Greeted(lk, u, d, R, H)
  <2>1. Reading(b, lk, on, u, d, R, H, L, C)
    BY <1>1, Downward
  <2> QED BY <1>3, <2>1 DEF Reading
<1>5. /\ \E k : Reads(k, e[1], on, Tail(d), R, L, C)
      /\ e[1] \in 0..R /\ d[1].revision = e[1] /\ e[1] = b.revision + 1 /\ d[1].delta = L[e[1]]
  <2>1. ReadsFirst(e, b.revision, on, d, R, L, C)
    BY <1>1, <1>2, ReadsOne
  <2> QED BY <1>3, <2>1 DEF ReadsFirst
<1> DEFINE r == e[1]
<1>6. r \in 1..R /\ r \in Nat /\ r - 1 = b.revision /\ r <= R /\ b.revision \in 0..R
  BY <1>1, <1>5 DEF BlipDocs
<1>7. L[r] \in Change /\ Reaches(L[r], C[b.revision]) /\ C[r] = OtCompose(C[b.revision], L[r])
      /\ C[b.revision] \in Doc
  BY <1>6 DEF Log
<1>8. q = ApplyRemote(b, L[r], r)
  BY <1>3, <1>5
<1> HIDE DEF r
<1>9. /\ q \in BlipDocs /\ Follows(q, C[r]) /\ q.revision = r
      /\ q.opId = b.opId /\ (q.outstanding = NoChange <=> b.outstanding = NoChange)
      /\ b.outstanding # NoChange => q.outstanding = OtTransform(L[r], b.outstanding)
  BY <1>1, <1>6, <1>7, <1>8, RemoteFollows
<1>10. q.revision = b.revision + 1 /\ b.revision + 1 <= R
  BY <1>5, <1>6, <1>9 DEF r
<1>11. Phase(q, "ready", "on", u, Tail(d), R, H, L, C)
  BY <1>1, <1>3, <1>4, <1>9, <1>10, PhaseOp
<1>12. \E k : Reads(k, q.revision, on, Tail(d), R, L, C)
  BY <1>5, <1>9 DEF r
<1> QED BY <1>1, <1>3, <1>4, <1>6, <1>9, <1>11, <1>12 DEF Tracks

\* What Update makes of a client's ids and of what is on its way up.
Sends(b, q, n, lk, u, n2, u2) ==
    IF q.opId # NoOp /\ q.opId # b.opId
    THEN n2 = n + 1 /\ u2 = IF lk = "down" THEN u ELSE Append(u, SubmitCommand(q))
    ELSE n2 = n /\ u2 = u

\* An op that is sent has a way to the server.
LEMMA PhaseSent ==
    ASSUME AlgebraLaws, NEW R \in Nat, NEW H, NEW L, NEW C, Log(R, L, C), NEW q \in BlipDocs,
           q.outstanding # NoChange, q.revision <= R, Follows(q, C[q.revision]),
           NEW d, OpsFrom(d, 1), R = q.revision + Len(d), Kept(q.revision, R, H)
    PROVE  InFlight(q, Append(<<>>, SubmitCommand(q)), d, R, H, L, C)
<1>1. /\ q.outstanding \in Change /\ Reaches(q.outstanding, C[q.revision])
      /\ q.revision \in Nat /\ q.revision \in 0..R /\ q.opId \in Nat /\ q.revision <= q.revision
  BY DEF BlipDocs, Pending, Follows
<1>2. PICK f : Path(f, q.revision, R, L, C) /\ f[q.revision] = q.outstanding
  BY <1>1, PathExists
<1> DEFINE m == SubmitCommand(q)
<1>3. /\ m \in Submission /\ m.opId = q.opId /\ m.revision = q.revision
      /\ m.delta = q.outstanding /\ Append(<<>>, m) = <<m>>
  BY <1>1 DEF SubmitCommand, Submission
<1> HIDE DEF m
<1>4. InFlight(q, Append(<<>>, m), d, R, H, L, C)
  BY <1>1, <1>2, <1>3 DEF InFlight
<1> QED BY <1>4 DEF m

\* The Ack is read: the op in flight is what the server stored, and the buffer is sent.
LEMMA TracksAck ==
    ASSUME AlgebraLaws, NEW R \in Nat, NEW H \in Nat, NEW L, NEW C, Log(R, L, C),
           NEW b, NEW n, NEW lk, NEW on \in {"on", "off"}, NEW u, NEW d,
           Tracks(b, n, lk, on, u, d, R, H, L, C), d # <<>>, Head(d).type = "ack",
           NEW q, q = Acknowledge(b, Head(d).revision, n + 1),
           NEW n2, NEW u2, Sends(b, q, n, lk, u, n2, u2)
    PROVE  Tracks(q, n2, lk, on, u2, Tail(d), R, H, L, C)
<1>1. /\ b \in BlipDocs /\ n \in Nat /\ b.opId <= n /\ b.revision <= R
      /\ (b.outstanding = NoChange <=> b.opId = NoOp)
      /\ Follows(b, C[b.revision]) /\ d \in Seq(Messages)
      /\ Phase(b, lk, on, u, d, R, H, L, C)
  BY DEF Tracks
<1>2. PICK e : Reads(e, b.revision, on, d, R, L, C)
  BY DEF Tracks
<1>3. /\ Tail(d) \in Seq(Messages) /\ Head(d) = d[1] /\ d[1].type = "ack"
      /\ Len(d) \in Nat /\ Len(d) >= 1 /\ Len(Tail(d)) = Len(d) - 1
  BY <1>1, TailIs
<1>4. on = "on" /\ lk = "ready" /\ Acked(b, u, d, R, H, L, C) /\ Lone(d, 1)
  <2>1. Reading(b, lk, on, u, d, R, H, L, C)
    BY <1>1, Downward
  <2> QED BY <1>3, <2>1 DEF Reading
<1>5. /\ \E k : Reads(k, e[1], on, Tail(d), R, L, C)
      /\ e[1] \in 0..R /\ d[1].revision = e[1] /\ e[1] = b.revision + 1
  <2>1. ReadsFirst(e, b.revision, on, d, R, L, C)
    BY <1>1, <1>2, ReadsOne
  <2> QED BY <1>3, <2>1 DEF ReadsFirst
<1> DEFINE r == b.revision
           t == Tail(d)
<1>6. /\ u = <<>> /\ b.outstanding # NoChange /\ R = r + Len(d) /\ Kept(r, R, H)
      /\ \E j \in 1..Len(d) : \E f :
           /\ Lone(d, j) /\ d[j].type = "ack" /\ d[j].opId = b.opId
           /\ d[j].revision = r + j
           /\ Path(f, r, d[j].revision - 1, L, C)
           /\ f[r] = b.outstanding /\ f[d[j].revision - 1] = L[d[j].revision]
  BY <1>4 DEF Acked
<1>7. r \in Nat /\ r + 1 \in 1..R /\ (r + 1) - 1 = r /\ r \in 0..R /\ R = (r + 1) + Len(t) /\ r + 1 <= R
  <2>1. r \in Nat /\ r + 1 \in 0..R /\ R = r + Len(d)
    BY <1>1, <1>5, <1>6 DEF BlipDocs
  <2> HIDE DEF r
  <2> QED BY <1>3, <2>1
<1>8. b.outstanding = L[r + 1]
  <2>1. PICK j \in 1..Len(d) : \E f :
           /\ Lone(d, j) /\ d[j].type = "ack" /\ d[j].opId = b.opId
           /\ d[j].revision = r + j
           /\ Path(f, r, d[j].revision - 1, L, C)
           /\ f[r] = b.outstanding /\ f[d[j].revision - 1] = L[d[j].revision]
    BY <1>6
  <2>2. PICK f : f[r] = b.outstanding /\ f[d[j].revision - 1] = L[d[j].revision]
    BY <2>1
  <2>3. j = 1
    BY <1>4, <2>1 DEF Lone
  <2> QED BY <1>5, <1>7, <2>2, <2>3
<1>9. /\ C[r] \in Doc /\ C[r + 1] = OtCompose(C[r], b.outstanding)
  BY <1>7, <1>8 DEF Log
<1>10. n + 1 \in Nat /\ n + 1 # NoOp /\ n + 1 # b.opId /\ NoOp = 0 /\ r + 1 \in Nat
  <2>1. b.opId \in Nat /\ NoOp = 0
    BY <1>1 DEF AlgebraLaws, BlipDocs
  <2>2. r + 1 \in Nat
    BY <1>7
  <2> QED BY <1>1, <2>1, <2>2
<1>11. q = Acknowledge(b, r + 1, n + 1)
  BY <1>3, <1>5
<1>12. /\ q \in BlipDocs /\ Follows(q, C[r + 1]) /\ q.revision = r + 1
       /\ q.outstanding = b.buffer /\ q.opId = (IF b.buffer = NoChange THEN NoOp ELSE n + 1)
  BY <1>1, <1>6, <1>9, <1>10, <1>11, AckFollows, SMTT(30)
<1>13. Kept(r + 1, R, H) /\ OpsFrom(t, 1)
  BY <1>1, <1>3, <1>4, <1>6, <1>7, <1>10, KeptLater, ShapeLess
<1>14. /\ n2 \in Nat /\ q.opId <= n2 /\ (q.outstanding = NoChange <=> q.opId = NoOp)
  BY <1>1, <1>10, <1>12 DEF Sends
<1> HIDE DEF r, t
<1>15. Phase(q, lk, on, u2, t, R, H, L, C)
  <2>1. CASE b.buffer = NoChange
    <3>1. u2 = <<>> /\ q.outstanding = NoChange
      BY <1>6, <1>12, <2>1 DEF Sends
    <3>2. AtRest(q, u2, t, R, H)
      BY <1>7, <1>12, <1>13, <3>1 DEF AtRest
    <3> QED BY <1>4, <3>2 DEF Phase
  <2>2. CASE b.buffer # NoChange
    <3>1. u2 = Append(<<>>, SubmitCommand(q)) /\ q.outstanding # NoChange
      BY <1>4, <1>6, <1>10, <1>12, <2>2 DEF Sends
    <3>2. InFlight(q, u2, t, R, H, L, C)
      BY <1>7, <1>12, <1>13, <3>1, PhaseSent
    <3> QED BY <1>4, <3>2 DEF Phase
  <2> QED BY <2>1, <2>2
<1>16. \E k : Reads(k, q.revision, on, t, R, L, C)
  BY <1>5, <1>12 DEF r, t
<1>17. t \in Seq(Messages)
  BY <1>3 DEF t
<1> QED BY <1>7, <1>12, <1>14, <1>15, <1>16, <1>17 DEF Tracks, t

\* The snapshot is read; what was rescued is sent anew.
LEMMA TracksState ==
    ASSUME AlgebraLaws, NEW R \in Nat, NEW H \in Nat, NEW L, NEW C, Log(R, L, C),
           NEW b, NEW n, NEW lk, NEW on \in {"on", "off"}, NEW u, NEW d,
           Tracks(b, n, lk, on, u, d, R, H, L, C), d # <<>>, Head(d).type = "waveState",
           NEW fresh, fresh = NewBlipDoc(Head(d).content, Head(d).revision),
           NEW q, \/ q = fresh
                  \/ \E w \in Change : Reaches(w, fresh.doc) /\ q = ApplyLocal(fresh, w, n + 1),
           NEW n2, NEW u2, Sends(b, q, n, lk, u, n2, u2)
    PROVE  Tracks(q, n2, "ready", on, u2, Tail(d), R, H, L, C)
<1>1. /\ b \in BlipDocs /\ n \in Nat /\ b.opId <= n /\ b.revision <= R
      /\ (b.outstanding = NoChange <=> b.opId = NoOp)
      /\ Follows(b, C[b.revision]) /\ d \in Seq(Messages)
      /\ Phase(b, lk, on, u, d, R, H, L, C)
  BY DEF Tracks
<1>2. PICK e : Reads(e, b.revision, on, d, R, L, C)
  BY DEF Tracks
<1>3. /\ Tail(d) \in Seq(Messages) /\ Head(d) = d[1] /\ d[1].type = "waveState"
      /\ Len(d) \in Nat /\ Len(d) >= 1 /\ Len(Tail(d)) = Len(d) - 1
  BY <1>1, TailIs
<1> DEFINE r == e[1]
           t == Tail(d)
<1>4. /\ \E k : Reads(k, r, on, t, R, L, C)
      /\ r \in 0..R /\ d[1].revision = r /\ d[1].content = C[r]
  <2>1. ReadsFirst(e, b.revision, on, d, R, L, C)
    BY <1>1, <1>2, ReadsOne
  <2> QED BY <1>3, <2>1 DEF ReadsFirst
<1>5. /\ on = "on" /\ lk # "down" /\ u = <<>> /\ OpsFrom(t, 1)
      /\ Kept(d[1].revision, R, H) /\ R = d[1].revision + (Len(d) - 1)
  <2>1. Reading(b, lk, on, u, d, R, H, L, C)
    BY <1>1, Downward
  <2>2. on = "on"
    BY <1>3, <2>1 DEF Reading
  <2>3. CASE Greeted(lk, u, d, R, H)
    <3>1. PICK k \in 1..2 :
             /\ lk = IF k = 2 THEN "greeting" ELSE "shell"
             /\ k <= Len(d) /\ (k = 2 => d[1].type = "welcome")
             /\ d[k].type = "waveState" /\ Kept(d[k].revision, R, H) /\ OpsFrom(d, k + 1)
             /\ R = d[k].revision + (Len(d) - k)
      BY <2>3 DEF Greeted
    <3>2. k = 1 /\ u = <<>>
      BY <1>3, <2>3, <3>1 DEF Greeted
    <3>3. OpsFrom(d, 1 + 1) /\ 1 \in Nat \ {0}
      BY <3>1, <3>2
    <3>4. OpsFrom(t, 1)
      BY <1>1, <3>3, ShapeLess
    <3> QED BY <2>2, <3>1, <3>2, <3>4
  <2>4. CASE lk = "ready" /\ Reopening(b, u, d, R, H) /\ Lone(d, 1)
    <3>1. PICK j \in 1..Len(d) : /\ Lone(d, j) /\ d[j].type = "waveState"
                                 /\ Kept(d[j].revision, R, H) /\ R = d[j].revision + (Len(d) - j)
      BY <2>4 DEF Reopening
    <3>2. j = 1 /\ u = <<>>
      BY <2>4, <3>1 DEF Lone, Reopening
    <3>3. OpsFrom(t, 1)
      BY <1>1, <2>4, ShapeLess
    <3> QED BY <2>2, <2>4, <3>1, <3>2, <3>3
  <2> QED BY <1>3, <2>1, <2>3, <2>4 DEF Reading
<1>6. C[r] \in Doc /\ r \in Nat /\ r <= R
  BY <1>4 DEF Log
<1>7. fresh = NewBlipDoc(C[r], r)
  BY <1>3, <1>4
<1> HIDE DEF r
<1>8. /\ fresh \in BlipDocs /\ Follows(fresh, C[r]) /\ fresh.revision = r
      /\ fresh.outstanding = NoChange /\ fresh.opId = NoOp /\ fresh.doc = C[r]
  BY <1>6, <1>7, SnapshotFollows
<1>9. n + 1 \in Nat /\ n + 1 # NoOp /\ n + 1 # b.opId /\ NoOp = 0
  BY <1>1 DEF AlgebraLaws, BlipDocs
<1>10. /\ q \in BlipDocs /\ Follows(q, C[r]) /\ q.revision = r
       /\ \/ q.outstanding = NoChange /\ q.opId = NoOp
          \/ q.outstanding # NoChange /\ q.opId = n + 1
  <2>1. CASE q = fresh
    BY <1>8, <2>1
  <2>2. CASE \E w \in Change : Reaches(w, fresh.doc) /\ q = ApplyLocal(fresh, w, n + 1)
    <3>1. PICK w \in Change : Reaches(w, fresh.doc) /\ q = ApplyLocal(fresh, w, n + 1)
      BY <2>2
    <3> QED BY <1>6, <1>8, <1>9, <3>1, LocalFollows
  <2> QED BY <2>1, <2>2
<1> HIDE DEF t
<1>11. Kept(r, R, H) /\ R = r + Len(t)
  BY <1>3, <1>4, <1>5 DEF r, t
<1>12. /\ n2 \in Nat /\ q.opId <= n2 /\ (q.outstanding = NoChange <=> q.opId = NoOp)
  BY <1>1, <1>9, <1>10 DEF Sends
<1>13. Phase(q, "ready", on, u2, t, R, H, L, C)
  <2>1. CASE q.outstanding = NoChange
    <3>1. u2 = <<>>
      BY <1>5, <1>12, <2>1 DEF Sends
    <3>2. AtRest(q, u2, t, R, H)
      BY <1>5, <1>10, <1>11, <2>1, <3>1 DEF AtRest
    <3> QED BY <1>5, <3>2 DEF Phase
  <2>2. CASE q.outstanding # NoChange
    <3>1. u2 = Append(<<>>, SubmitCommand(q))
      BY <1>5, <1>9, <1>10, <2>2 DEF Sends
    <3>2. InFlight(q, u2, t, R, H, L, C)
      BY <1>5, <1>6, <1>10, <1>11, <2>2, <3>1, PhaseSent
    <3> QED BY <1>5, <3>2 DEF Phase
  <2> QED BY <2>1, <2>2
<1>14. \E k : Reads(k, q.revision, on, t, R, L, C)
  BY <1>4, <1>10 DEF r, t
<1>15. t \in Seq(Messages)
  BY <1>3 DEF t
<1> QED BY <1>6, <1>10, <1>12, <1>13, <1>14, <1>15 DEF Tracks, t

\* A refusal is read, and the wave is opened again.
Reopens(b, n, lk, on, u, d, R, H, L, C) ==
    /\ lk # "down" /\ PendingWork(b) # NoChange
    /\ Tracks(b, n, lk, on, Append(u, OpenCommand), Tail(d), R, H, L, C)

LEMMA TracksReject ==
    ASSUME AlgebraLaws, NEW R \in Nat, NEW H \in Nat, NEW L, NEW C,
           NEW b, NEW n, NEW lk, NEW on \in {"on", "off"}, NEW u, NEW d,
           Tracks(b, n, lk, on, u, d, R, H, L, C), d # <<>>, Head(d).type \in {"refusal", "resync"}
    PROVE  Reopens(b, n, lk, on, u, d, R, H, L, C)
<1>1. /\ b \in BlipDocs /\ n \in Nat /\ b.opId <= n /\ b.revision <= R
      /\ (b.outstanding = NoChange <=> b.opId = NoOp)
      /\ Follows(b, C[b.revision]) /\ d \in Seq(Messages)
      /\ Phase(b, lk, on, u, d, R, H, L, C)
  BY DEF Tracks
<1>2. PICK e : Reads(e, b.revision, on, d, R, L, C)
  BY DEF Tracks
<1>3. Tail(d) \in Seq(Messages) /\ Head(d) = d[1] /\ d[1].type \in {"refusal", "resync"}
  BY <1>1, TailIs
<1>4. on = "on" /\ lk = "ready" /\ Refused(b, u, d) /\ Lone(d, 1)
  <2>1. Reading(b, lk, on, u, d, R, H, L, C)
    BY <1>1, Downward
  <2> QED BY <1>3, <2>1 DEF Reading
<1>5. \E k : Reads(k, b.revision, on, Tail(d), R, L, C)
  <2>1. ReadsFirst(e, b.revision, on, d, R, L, C)
    BY <1>1, <1>2, ReadsOne
  <2> QED BY <1>3, <2>1 DEF ReadsFirst
<1>6. u = <<>> /\ b.outstanding # NoChange
  BY <1>4 DEF Refused
<1>7. PendingWork(b) # NoChange
  BY <1>1, <1>6, WorkIs DEF AlgebraLaws
<1>8. OpsFrom(Tail(d), 1)
  BY <1>1, <1>4, ShapeLess
<1> DEFINE v == Append(u, OpenCommand)
<1>9. v = <<OpenCommand>>
  BY <1>6
<1> HIDE DEF v
<1>10. Phase(b, lk, on, v, Tail(d), R, H, L, C)
  BY <1>4, <1>6, <1>8, <1>9 DEF Phase, Asking
<1>11. Tracks(b, n, lk, on, v, Tail(d), R, H, L, C)
  BY <1>1, <1>3, <1>5, <1>10 DEF Tracks
<1> QED BY <1>4, <1>7, <1>11 DEF v, Reopens

\* The user types: the edit is sent when nothing is in flight, else buffered.
LEMMA TracksType ==
    ASSUME AlgebraLaws, NEW R \in Nat, NEW H \in Nat, NEW L, NEW C, Log(R, L, C),
           NEW b, NEW n, NEW lk, NEW on \in {"on", "off"}, NEW u, NEW d,
           Tracks(b, n, lk, on, u, d, R, H, L, C), lk # "shell", lk # "greeting",
           NEW a \in Change, Reaches(a, b.doc), NEW q, q = ApplyLocal(b, a, n + 1),
           NEW n2, NEW u2, Sends(b, q, n, lk, u, n2, u2)
    PROVE  Tracks(q, n2, lk, on, u2, d, R, H, L, C)
<1>1. /\ b \in BlipDocs /\ n \in Nat /\ b.opId <= n /\ b.revision <= R
      /\ (b.outstanding = NoChange <=> b.opId = NoOp)
      /\ Follows(b, C[b.revision]) /\ d \in Seq(Messages)
      /\ Phase(b, lk, on, u, d, R, H, L, C)
      /\ \E e : Reads(e, b.revision, on, d, R, L, C)
  BY DEF Tracks
<1>2. b.revision \in 0..R /\ b.opId \in Nat /\ NoOp = 0 /\ n + 1 \in Nat
  BY <1>1 DEF BlipDocs, AlgebraLaws
<1>3. C[b.revision] \in Doc
  BY <1>2 DEF Log
<1>4. /\ q \in BlipDocs /\ Follows(q, C[b.revision]) /\ q.revision = b.revision
      /\ q.outstanding # NoChange
      /\ b.outstanding # NoChange => q.outstanding = b.outstanding /\ q.opId = b.opId
      /\ b.outstanding = NoChange => q.outstanding = a /\ q.opId = n + 1
  BY <1>1, <1>2, <1>3, LocalFollows
<1>5. CASE b.outstanding # NoChange
  <2>1. n2 = n /\ u2 = u
    BY <1>4, <1>5 DEF Sends
  <2>2. Phase(q, lk, on, u, d, R, H, L, C)
    BY <1>1, <1>4, <1>5, PhaseSame
  <2> QED BY <1>1, <1>4, <1>5, <2>1, <2>2 DEF Tracks
<1>6. CASE b.outstanding = NoChange
  <2>1. n + 1 # NoOp /\ n + 1 # b.opId /\ n + 1 <= n + 1
    BY <1>1, <1>2
  <2>2. n2 = n + 1 /\ u2 = (IF lk = "down" THEN u ELSE Append(u, SubmitCommand(q)))
    BY <1>4, <1>6, <2>1 DEF Sends
  <2>3. Phase(q, lk, on, u2, d, R, H, L, C)
    <3>1. CASE on = "off"
      BY <1>1, <2>2, <3>1 DEF Phase, Away
    <3>2. CASE on = "on"
      <4>1. lk = "ready" /\ AtRest(b, u, d, R, H)
        BY <1>1, <1>6, <3>2 DEF Phase, Greeted, InFlight, Acked, Refused, Asking, Reopening
      <4>2. u2 = Append(<<>>, SubmitCommand(q))
        BY <2>2, <4>1 DEF AtRest
      <4>3. OpsFrom(d, 1) /\ R = q.revision + Len(d) /\ Kept(q.revision, R, H)
        BY <1>4, <4>1 DEF AtRest
      <4>4. InFlight(q, u2, d, R, H, L, C)
        BY <1>1, <1>4, <4>2, <4>3, PhaseSent
      <4> QED BY <3>2, <4>1, <4>4 DEF Phase
    <3> QED BY <3>1, <3>2
  <2> QED BY <1>1, <1>2, <1>4, <2>1, <2>2, <2>3 DEF Tracks
<1> QED BY <1>5, <1>6

\* The server reads an open, subscribes the client and sends the snapshot.
LEMMA TracksOpen ==
    ASSUME NEW R \in Nat, NEW H \in Nat, NEW L, NEW C, Log(R, L, C),
           NEW b, NEW n, NEW lk, NEW on \in {"on", "off"}, NEW u, NEW d,
           Tracks(b, n, lk, on, u, d, R, H, L, C), u # <<>>, Head(u).type = "open",
           NEW m, m = [type |-> "waveState", content |-> C[R], revision |-> R]
    PROVE  Tracks(b, n, lk, "on", Tail(u), Append(d, m), R, H, L, C)
<1>1. /\ b \in BlipDocs /\ n \in Nat /\ b.opId <= n /\ b.revision <= R
      /\ (b.outstanding = NoChange <=> b.opId = NoOp)
      /\ Follows(b, C[b.revision]) /\ d \in Seq(Messages)
      /\ Phase(b, lk, on, u, d, R, H, L, C)
  BY DEF Tracks
<1>2. PICK e : Reads(e, b.revision, on, d, R, L, C)
  BY DEF Tracks
<1>3. /\ \/ on = "off" /\ lk = "greeting" /\ d = <<Welcome>>
         \/ on = "off" /\ lk = "shell" /\ d = <<>>
         \/ on = "on" /\ lk = "ready" /\ Asking(b, u, d)
      /\ Tail(u) = <<>>
  BY <1>1, OpenIs
<1>4. m \in Messages /\ m.type = "waveState" /\ m.revision = R /\ m.content = C[R]
  BY DEF Messages, Log
<1> DEFINE q == Append(d, m)
<1>5. /\ q \in Seq(Messages) /\ Len(q) = Len(d) + 1 /\ Len(d) \in Nat /\ q[Len(d) + 1] = m
      /\ \A i \in 1..Len(d) : q[i] = d[i]
  BY <1>1, <1>4, AppendIs
<1>6. Agree(R, L, C, L, C) /\ Brings(m, R, R, L, C)
  BY <1>4 DEF Agree, Brings
<1>7. \E k : Reads(k, b.revision, "on", q, R, L, C)
  BY <1>1, <1>2, <1>4, <1>6, ReadsMore
<1>8. Kept(R, R, H)
  BY DEF Kept
<1>9. CASE on = "off" /\ lk = "greeting" /\ d = <<Welcome>>
  <2>1. Len(d) = 1 /\ d[1].type = "welcome"
    BY <1>9 DEF Welcome
  <2> HIDE DEF q
  <2>2. Len(q) = 2 /\ q[2] = m /\ q[1].type = "welcome" /\ R = m.revision + (Len(q) - 2)
    BY <1>4, <1>5, <2>1
  <2>3. OpsFrom(q, 2 + 1) /\ 2 \in 1..2
    BY <2>2 DEF OpsFrom
  <2>4. Greeted(lk, <<>>, q, R, H)
    <3>1. /\ lk = (IF 2 = 2 THEN "greeting" ELSE "shell") /\ 2 <= Len(q)
          /\ (2 = 2 => q[1].type = "welcome") /\ q[2].type = "waveState"
          /\ Kept(q[2].revision, R, H) /\ R = q[2].revision + (Len(q) - 2)
      BY <1>4, <1>8, <1>9, <2>2
    <3> QED BY <2>3, <3>1 DEF Greeted
  <2>5. Phase(b, lk, "on", Tail(u), q, R, H, L, C)
    BY <1>3, <2>4 DEF Phase
  <2> QED BY <1>1, <1>5, <1>7, <2>5 DEF Tracks, q
<1>10. CASE on = "off" /\ lk = "shell" /\ d = <<>>
  <2>1. Len(d) = 0
    BY <1>10
  <2> HIDE DEF q
  <2>2. Len(q) = 1 /\ q[1] = m /\ R = m.revision + (Len(q) - 1)
    BY <1>4, <1>5, <2>1
  <2>3. OpsFrom(q, 1 + 1) /\ 1 \in 1..2
    BY <2>2 DEF OpsFrom
  <2>4. Greeted(lk, <<>>, q, R, H)
    BY <1>4, <1>8, <1>10, <2>2, <2>3 DEF Greeted
  <2>5. Phase(b, lk, "on", Tail(u), q, R, H, L, C)
    BY <1>3, <2>4 DEF Phase
  <2> QED BY <1>1, <1>5, <1>7, <2>5 DEF Tracks, q
<1>11. CASE on = "on" /\ lk = "ready" /\ Asking(b, u, d)
  <2>1. OpsFrom(d, 1) /\ b.outstanding # NoChange
    BY <1>11 DEF Asking
  <2>2. Lone(q, Len(d) + 1)
    BY <1>1, <1>4, <2>1, ShapeMore
  <2> HIDE DEF q
  <2>3. Len(d) + 1 \in 1..Len(q) /\ R = m.revision + (Len(q) - (Len(d) + 1))
    BY <1>4, <1>5
  <2>4. Reopening(b, <<>>, q, R, H)
    BY <1>4, <1>5, <1>8, <2>1, <2>2, <2>3 DEF Reopening
  <2>5. Phase(b, lk, "on", Tail(u), q, R, H, L, C)
    BY <1>3, <1>11, <2>4 DEF Phase
  <2> QED BY <1>1, <1>5, <1>7, <2>5 DEF Tracks, q
<1> QED BY <1>3, <1>9, <1>10, <1>11

\* The server refuses an op.
LEMMA TracksRefuse ==
    ASSUME NEW R \in Nat, NEW H \in Nat, NEW L, NEW C,
           NEW b, NEW n, NEW lk, NEW on \in {"on", "off"}, NEW u, NEW d,
           Tracks(b, n, lk, on, u, d, R, H, L, C), u # <<>>, Head(u).type = "submit",
           NEW m \in {Refusal, Resync}
    PROVE  Tracks(b, n, lk, on, Tail(u), Append(d, m), R, H, L, C)
<1>1. /\ b \in BlipDocs /\ n \in Nat /\ b.opId <= n /\ b.revision <= R
      /\ (b.outstanding = NoChange <=> b.opId = NoOp)
      /\ Follows(b, C[b.revision]) /\ d \in Seq(Messages)
      /\ Phase(b, lk, on, u, d, R, H, L, C)
  BY DEF Tracks
<1>2. PICK e : Reads(e, b.revision, on, d, R, L, C)
  BY DEF Tracks
<1>3. on = "on" /\ lk = "ready" /\ InFlight(b, u, d, R, H, L, C) /\ Tail(u) = <<>>
  BY <1>1, SubmitIs
<1>4. m \in Messages /\ m.type \in {"refusal", "resync"}
  BY DEF Messages, Refusal, Resync
<1> DEFINE q == Append(d, m)
<1>5. /\ q \in Seq(Messages) /\ Len(q) = Len(d) + 1 /\ Len(d) \in Nat /\ q[Len(d) + 1] = m
  BY <1>1, <1>4, AppendIs
<1>6. Agree(R, L, C, L, C) /\ Brings(m, R, R, L, C)
  BY <1>4 DEF Agree, Brings
<1>7. \E k : Reads(k, b.revision, "on", q, R, L, C)
  BY <1>1, <1>2, <1>3, <1>4, <1>6, ReadsMore
<1>8. OpsFrom(d, 1) /\ b.outstanding # NoChange
  BY <1>3 DEF InFlight
<1>9. Lone(q, Len(d) + 1)
  BY <1>1, <1>4, <1>8, ShapeMore
<1> HIDE DEF q
<1>10. Len(d) + 1 \in 1..Len(q)
  BY <1>5
<1>11. Refused(b, <<>>, q)
  BY <1>4, <1>5, <1>8, <1>9, <1>10 DEF Refused
<1>12. Phase(b, lk, on, Tail(u), q, R, H, L, C)
  BY <1>3, <1>11 DEF Phase
<1> QED BY <1>1, <1>3, <1>5, <1>7, <1>12 DEF Tracks, q

\* The socket is lost, or a new one is opened: nothing is on its way down but a
\* greeting.
LEMMA TracksAway ==
    ASSUME NEW R \in Nat, NEW H, NEW H2, NEW L, NEW C,
           NEW b, NEW n, NEW lk, NEW on, NEW u, NEW d,
           Tracks(b, n, lk, on, u, d, R, H, L, C)
    PROVE  /\ Tracks(b, n, "down", "off", <<>>, <<>>, R, H2, L, C)
           /\ Tracks(b, n, "greeting", "off", <<OpenCommand>>, <<Welcome>>, R, H2, L, C)
<1>1. /\ b \in BlipDocs /\ n \in Nat /\ b.opId <= n /\ b.revision <= R
      /\ (b.outstanding = NoChange <=> b.opId = NoOp)
      /\ Follows(b, C[b.revision])
  BY DEF Tracks
<1>2. b.revision \in 0..R
  BY <1>1 DEF BlipDocs
<1> DEFINE e == [i \in 0..1 |-> b.revision]
<1>3. e[0] = b.revision /\ e[1] = b.revision
  OBVIOUS
<1> HIDE DEF e
<1>4. <<>> \in Seq(Messages) /\ Len(<<>>) = 0 /\ 1..0 = {} /\ 0..0 = {0}
  OBVIOUS
<1>5. Reads(e, b.revision, "off", <<>>, R, L, C)
  BY <1>2, <1>3, <1>4 DEF Reads
<1> DEFINE w == <<Welcome>>
<1>6. w \in Seq(Messages) /\ Len(w) = 1 /\ w[1] = Welcome
  BY DEF Messages, Welcome
<1>7. Welcome.type = "welcome"
  BY DEF Welcome
<1> HIDE DEF w
<1>8. Reads(e, b.revision, "off", w, R, L, C)
  <2>1. \A i \in 0..Len(w) : e[i] \in 0..R
    BY <1>2, <1>3, <1>6
  <2>2. \A i \in 1..Len(w) : i = 1 /\ i - 1 = 0
    BY <1>6
  <2> QED BY <1>3, <1>6, <1>7, <2>1, <2>2 DEF Reads
<1>9. Phase(b, "down", "off", <<>>, <<>>, R, H2, L, C)
  BY DEF Phase, Away
<1>10. Phase(b, "greeting", "off", <<OpenCommand>>, w, R, H2, L, C)
  BY DEF Phase, Away, w
<1>11. Tracks(b, n, "down", "off", <<>>, <<>>, R, H2, L, C)
  BY <1>1, <1>4, <1>5, <1>9 DEF Tracks
<1>12. Tracks(b, n, "greeting", "off", <<OpenCommand>>, w, R, H2, L, C)
  BY <1>1, <1>6, <1>8, <1>10 DEF Tracks
<1> QED BY <1>11, <1>12 DEF w

\* A client without a subscription does not care for the history.
LEMMA TracksOff ==
    ASSUME NEW R, NEW H, NEW H2, NEW L, NEW C, NEW b, NEW n, NEW lk, NEW u, NEW d,
           Tracks(b, n, lk, "off", u, d, R, H, L, C)
    PROVE  Tracks(b, n, lk, "off", u, d, R, H2, L, C)
BY DEF Tracks, Phase

\* A client without a socket is not subscribed.
LEMMA DownIsOff ==
    ASSUME NEW R, NEW H, NEW L, NEW C, NEW b, NEW n, NEW on \in {"on", "off"}, NEW u, NEW d,
           Tracks(b, n, "down", on, u, d, R, H, L, C)
    PROVE  on = "off"
BY DEF Tracks, Phase, Greeted
-----------------------------------------------------------------------------
(* The steps of the specification.                                         *)

\* A step of client c, or of the server for it, that commits nothing.
Moves(c) ==
    /\ client' = [client EXCEPT ![c] = client'[c]]
    /\ opCounter' = [opCounter EXCEPT ![c] = opCounter'[c]]
    /\ link' = [link EXCEPT ![c] = link'[c]]
    /\ up' = [up EXCEPT ![c] = up'[c]] /\ down' = [down EXCEPT ![c] = down'[c]]
    /\ subs' \subseteq Clients /\ \A x \in Clients : x # c => (x \in subs' <=> x \in subs)
    /\ stale' \in [Clients -> Seq(Submission \cup {OpenCommand})]
    /\ server' = server

Fits(c, L, C) ==
    Tracks(client'[c], opCounter'[c], link'[c], Subscribed(subs', c), up'[c], down'[c],
           server.revision, Len(server.history), L, C)

LEMMA OneMoves ==
    ASSUME Maps, NEW c \in Clients, NEW L, NEW C, Serves(server, L, C),
           \A x \in Clients : TracksAt(x, L, C), Moves(c), Fits(c, L, C)
    PROVE  IInv'
<1>1. Maps'
  BY DEF Maps, Moves
<1>2. ASSUME NEW x \in Clients PROVE TracksAt(x, L, C)'
  <2>1. CASE x = c
    BY <2>1 DEF TracksAt, Fits, Moves
  <2>2. CASE x # c
    <3>1. /\ client'[x] = client[x] /\ opCounter'[x] = opCounter[x] /\ link'[x] = link[x]
          /\ up'[x] = up[x] /\ down'[x] = down[x] /\ server' = server
          /\ Subscribed(subs', x) = Subscribed(subs, x)
      BY <2>2 DEF Maps, Moves, Subscribed
    <3>2. TracksAt(x, L, C)
      OBVIOUS
    <3> QED BY <3>1, <3>2 DEF TracksAt
  <2> QED BY <2>1, <2>2
<1>3. Serves(server, L, C)'
  BY DEF Moves
<1> QED BY <1>1, <1>2, <1>3 DEF IInv

\* The server's numbers.
LEMMA ServerIs ==
    ASSUME NEW L, NEW C, Serves(server, L, C)
    PROVE  /\ server.revision \in Nat /\ Len(server.history) \in Nat
           /\ Len(server.history) <= MaxHistory /\ Log(server.revision, L, C)
           /\ server.content = C[server.revision]
BY DEF Serves, Log

LEMMA OnOrOff ==
    ASSUME NEW S, NEW c
    PROVE  Subscribed(S, c) \in {"on", "off"} /\ (Subscribed(S, c) = "on" <=> c \in S)
BY DEF Subscribed

\* Sending to one client.
LEMMA ExceptIs ==
    ASSUME NEW f, NEW S, f = [x \in S |-> f[x]], NEW c \in S, NEW v,
           NEW g, g = [f EXCEPT ![c] = v] \/ (g = f /\ v = f[c])
    PROVE  g = [f EXCEPT ![c] = g[c]] /\ g[c] = v /\ g = [x \in S |-> g[x]]
OBVIOUS

LEMMA UpdateIs ==
    ASSUME Maps, NEW c \in Clients, NEW b, Update(c, b)
    PROVE  /\ client' = [client EXCEPT ![c] = client'[c]] /\ client'[c] = b
           /\ opCounter' = [opCounter EXCEPT ![c] = opCounter'[c]]
           /\ up' = [up EXCEPT ![c] = up'[c]]
           /\ Sends(client[c], b, opCounter[c], link[c], up[c], opCounter'[c], up'[c])
<1>1. /\ client = [x \in Clients |-> client[x]] /\ opCounter = [x \in Clients |-> opCounter[x]]
      /\ up = [x \in Clients |-> up[x]]
  BY DEF Maps
<1>2. client' = [client EXCEPT ![c] = client'[c]] /\ client'[c] = b
  BY <1>1 DEF Update
<1>3. CASE b.opId # NoOp /\ b.opId # client[c].opId
  <2>1. opCounter' = [opCounter EXCEPT ![c] = opCounter'[c]] /\ opCounter'[c] = opCounter[c] + 1
    BY <1>1, <1>3 DEF Update
  <2>2. /\ up' = [up EXCEPT ![c] = up'[c]]
        /\ up'[c] = IF link[c] = "down" THEN up[c] ELSE Append(up[c], SubmitCommand(b))
    BY <1>1, <1>3 DEF Update, Send
  <2> QED BY <1>2, <1>3, <2>1, <2>2 DEF Sends
<1>4. CASE ~ (b.opId # NoOp /\ b.opId # client[c].opId)
  <2>1. opCounter' = opCounter /\ up' = up
    BY <1>4 DEF Update
  <2> QED BY <1>1, <1>2, <1>4, <2>1 DEF Sends
<1> QED BY <1>3, <1>4

LEMMA StepType ==
    ASSUME AlgebraLaws, EditorLaw, EditsWhileGreeting = FALSE, IInv, NEW c \in Clients,
           NEW a \in Edits(c, client[c].doc), Type(c, a)
    PROVE  IInv'
<1>1. Maps
  BY DEF IInv
<1>2. PICK L, C : Serves(server, L, C) /\ \A x \in Clients : TracksAt(x, L, C)
  BY DEF IInv
<1> DEFINE on == Subscribed(subs, c)
<1>3. Tracks(client[c], opCounter[c], link[c], on, up[c], down[c],
             server.revision, Len(server.history), L, C)
  BY <1>2 DEF TracksAt
<1>4. client[c] \in BlipDocs /\ client[c].doc \in Doc
  BY <1>3 DEF Tracks, BlipDocs
<1>5. a \in Change /\ Reaches(a, client[c].doc)
  BY <1>4 DEF EditorLaw
<1>6. /\ link[c] # "shell" /\ link[c] # "greeting"
      /\ Update(c, ApplyLocal(client[c], a, opCounter[c] + 1))
      /\ UNCHANGED <<server, link, subs, down, zombies, stale, doomed>>
  BY DEF Type, NewOpId, dead
<1> DEFINE b == ApplyLocal(client[c], a, opCounter[c] + 1)
<1>7. /\ client' = [client EXCEPT ![c] = client'[c]] /\ client'[c] = b
      /\ opCounter' = [opCounter EXCEPT ![c] = opCounter'[c]]
      /\ up' = [up EXCEPT ![c] = up'[c]]
      /\ Sends(client[c], b, opCounter[c], link[c], up[c], opCounter'[c], up'[c])
  BY <1>1, <1>6, UpdateIs
<1>8. on \in {"on", "off"}
  BY OnOrOff
<1> HIDE DEF b, on
<1>9. Tracks(b, opCounter'[c], link[c], on, up'[c], down[c],
             server.revision, Len(server.history), L, C)
  <2>1. /\ server.revision \in Nat /\ Len(server.history) \in Nat
        /\ Log(server.revision, L, C)
    BY <1>2, ServerIs
  <2>2. b = ApplyLocal(client[c], a, opCounter[c] + 1)
    BY DEF b
  <2>3. link[c] # "shell" /\ link[c] # "greeting"
    BY <1>6
  <2>4. Sends(client[c], b, opCounter[c], link[c], up[c], opCounter'[c], up'[c])
    BY <1>7
  <2> QED BY <1>3, <1>5, <1>8, <2>1, <2>2, <2>3, <2>4, TracksType
<1>10. Fits(c, L, C)
  BY <1>6, <1>7, <1>9 DEF Fits, on
<1>11. Moves(c)
  BY <1>1, <1>6, <1>7 DEF Moves, Maps
<1> QED BY <1>1, <1>2, <1>10, <1>11, OneMoves

LEMMA StepWelcome ==
    ASSUME IInv, NEW c \in Clients, OnWelcome(c)
    PROVE  IInv'
<1>1. Maps
  BY DEF IInv
<1>2. PICK L, C : Serves(server, L, C) /\ \A x \in Clients : TracksAt(x, L, C)
  BY DEF IInv
<1> DEFINE on == Subscribed(subs, c)
           R == server.revision
           H == Len(server.history)
<1>3. Tracks(client[c], opCounter[c], link[c], on, up[c], down[c], R, H, L, C)
  BY <1>2 DEF TracksAt
<1>4. R \in Nat /\ H \in Nat /\ H <= MaxHistory /\ Log(R, L, C) /\ server.content = C[R]
  BY <1>2, ServerIs
<1>5. on \in {"on", "off"} /\ (on = "on" <=> c \in subs)
  BY OnOrOff
<1>6. /\ down[c] # <<>> /\ Head(down[c]).type = "welcome"
      /\ UNCHANGED <<server, client, opCounter, subs, up, stale>>
      /\ down' = [down EXCEPT ![c] = down'[c]] /\ down'[c] = Tail(down[c])
      /\ link' = [link EXCEPT ![c] = link'[c]] /\ link'[c] = "shell"
  BY <1>1 DEF OnWelcome, Receives, Consume, browser, dead, Maps
<1> HIDE DEF on, R, H
<1>7. Tracks(client[c], opCounter[c], "shell", on, up[c], Tail(down[c]), R, H, L, C)
  <2>1. down[c] # <<>> /\ Head(down[c]).type = "welcome"
    BY <1>6
  <2> QED BY <1>3, <1>4, <1>5, <2>1, TracksWelcome
<1>8. Fits(c, L, C)
  BY <1>6, <1>7 DEF Fits, on, R, H
<1>9. Moves(c)
  BY <1>1, <1>6 DEF Moves, Maps
<1> QED BY <1>1, <1>2, <1>8, <1>9, OneMoves

LEMMA StepOp ==
    ASSUME AlgebraLaws, IInv, NEW c \in Clients, OnOp(c)
    PROVE  IInv'
<1>1. Maps
  BY DEF IInv
<1>2. PICK L, C : Serves(server, L, C) /\ \A x \in Clients : TracksAt(x, L, C)
  BY DEF IInv
<1> DEFINE on == Subscribed(subs, c)
           R == server.revision
           H == Len(server.history)
<1>3. Tracks(client[c], opCounter[c], link[c], on, up[c], down[c], R, H, L, C)
  BY <1>2 DEF TracksAt
<1>4. R \in Nat /\ H \in Nat /\ H <= MaxHistory /\ Log(R, L, C) /\ server.content = C[R]
  BY <1>2, ServerIs
<1>5. on \in {"on", "off"} /\ (on = "on" <=> c \in subs)
  BY OnOrOff
<1> DEFINE b == ApplyRemote(client[c], Head(down[c]).delta, Head(down[c]).revision)
<1>6. /\ down[c] # <<>> /\ Head(down[c]).type = "op"
      /\ UNCHANGED <<server, link, opCounter, subs, up, stale>>
      /\ down' = [down EXCEPT ![c] = down'[c]] /\ down'[c] = Tail(down[c])
      /\ client' = [client EXCEPT ![c] = client'[c]] /\ client'[c] = b
  BY <1>1 DEF OnOp, Receives, Consume, dead, Maps
<1> HIDE DEF on, R, H
<1>7. Tracks(b, opCounter[c], link[c], on, up[c], Tail(down[c]), R, H, L, C)
  <2>1. down[c] # <<>> /\ Head(down[c]).type = "op"
    BY <1>6
  <2> QED BY <1>3, <1>4, <1>5, <2>1, TracksOp
<1>8. Fits(c, L, C)
  BY <1>6, <1>7 DEF Fits, on, R, H
<1>9. Moves(c)
  BY <1>1, <1>6 DEF Moves, Maps
<1> QED BY <1>1, <1>2, <1>8, <1>9, OneMoves

LEMMA StepAck ==
    ASSUME AlgebraLaws, IInv, NEW c \in Clients, OnAck(c)
    PROVE  IInv'
<1>1. Maps
  BY DEF IInv
<1>2. PICK L, C : Serves(server, L, C) /\ \A x \in Clients : TracksAt(x, L, C)
  BY DEF IInv
<1> DEFINE on == Subscribed(subs, c)
           R == server.revision
           H == Len(server.history)
<1>3. Tracks(client[c], opCounter[c], link[c], on, up[c], down[c], R, H, L, C)
  BY <1>2 DEF TracksAt
<1>4. R \in Nat /\ H \in Nat /\ H <= MaxHistory /\ Log(R, L, C) /\ server.content = C[R]
  BY <1>2, ServerIs
<1>5. on \in {"on", "off"} /\ (on = "on" <=> c \in subs)
  BY OnOrOff
<1> DEFINE b == Acknowledge(client[c], Head(down[c]).revision, opCounter[c] + 1)
<1>6. /\ down[c] # <<>> /\ Head(down[c]).type = "ack"
      /\ UNCHANGED <<server, link, subs, stale>>
      /\ down' = [down EXCEPT ![c] = down'[c]] /\ down'[c] = Tail(down[c])
      /\ client' = [client EXCEPT ![c] = client'[c]] /\ client'[c] = b
      /\ opCounter' = [opCounter EXCEPT ![c] = opCounter'[c]]
      /\ up' = [up EXCEPT ![c] = up'[c]]
      /\ Sends(client[c], b, opCounter[c], link[c], up[c], opCounter'[c], up'[c])
  <2>1. Update(c, b)
    BY DEF OnAck, NewOpId
  <2>2. /\ down[c] # <<>> /\ Head(down[c]).type = "ack"
        /\ UNCHANGED <<server, link, subs, stale>>
        /\ down' = [down EXCEPT ![c] = down'[c]] /\ down'[c] = Tail(down[c])
    BY <1>1 DEF OnAck, Receives, Consume, dead, Maps
  <2> HIDE DEF b
  <2> QED BY <1>1, <2>1, <2>2, UpdateIs
<1> HIDE DEF on, R, H
<1>7. Tracks(b, opCounter'[c], link[c], on, up'[c], Tail(down[c]), R, H, L, C)
  <2>1. down[c] # <<>> /\ Head(down[c]).type = "ack"
    BY <1>6
  <2>2. Sends(client[c], b, opCounter[c], link[c], up[c], opCounter'[c], up'[c])
    BY <1>6
  <2> QED BY <1>3, <1>4, <1>5, <2>1, <2>2, TracksAck
<1>8. Fits(c, L, C)
  BY <1>6, <1>7 DEF Fits, on, R, H
<1>9. Moves(c)
  BY <1>1, <1>6 DEF Moves, Maps
<1> QED BY <1>1, <1>2, <1>8, <1>9, OneMoves

LEMMA StepState ==
    ASSUME AlgebraLaws, IInv, NEW c \in Clients, OnWaveState(c)
    PROVE  IInv'
<1>1. Maps
  BY DEF IInv
<1>2. PICK L, C : Serves(server, L, C) /\ \A x \in Clients : TracksAt(x, L, C)
  BY DEF IInv
<1> DEFINE on == Subscribed(subs, c)
           R == server.revision
           H == Len(server.history)
<1>3. Tracks(client[c], opCounter[c], link[c], on, up[c], down[c], R, H, L, C)
  BY <1>2 DEF TracksAt
<1>4. R \in Nat /\ H \in Nat /\ H <= MaxHistory /\ Log(R, L, C) /\ server.content = C[R]
  BY <1>2, ServerIs
<1>5. on \in {"on", "off"} /\ (on = "on" <=> c \in subs)
  BY OnOrOff
<1> DEFINE work == Rescued(c)
           fresh == NewBlipDoc(Head(down[c]).content, Head(down[c]).revision)
           replays == work \notin {NoChange, EmptyChange} /\ Reaches(work, fresh.doc)
           b == IF replays THEN ApplyLocal(fresh, work, opCounter[c] + 1) ELSE fresh
<1>6. /\ down[c] # <<>> /\ Head(down[c]).type = "waveState"
      /\ UNCHANGED <<server, subs, stale>>
      /\ down' = [down EXCEPT ![c] = down'[c]] /\ down'[c] = Tail(down[c])
      /\ link' = [link EXCEPT ![c] = link'[c]] /\ link'[c] = "ready"
      /\ client' = [client EXCEPT ![c] = client'[c]] /\ client'[c] = b
      /\ opCounter' = [opCounter EXCEPT ![c] = opCounter'[c]]
      /\ up' = [up EXCEPT ![c] = up'[c]]
      /\ Sends(client[c], b, opCounter[c], link[c], up[c], opCounter'[c], up'[c])
  <2>1. Update(c, b)
    BY DEF OnWaveState, NewOpId
  <2>2. /\ down[c] # <<>> /\ Head(down[c]).type = "waveState"
        /\ UNCHANGED <<server, subs, stale>>
        /\ down' = [down EXCEPT ![c] = down'[c]] /\ down'[c] = Tail(down[c])
        /\ link' = [link EXCEPT ![c] = link'[c]] /\ link'[c] = "ready"
    BY <1>1 DEF OnWaveState, Receives, Consume, dead, Maps
  <2> HIDE DEF b
  <2> QED BY <1>1, <2>1, <2>2, UpdateIs
<1> HIDE DEF on, R, H
<1>7. Tracks(b, opCounter'[c], "ready", on, up'[c], Tail(down[c]), R, H, L, C)
  <2>1. down[c] # <<>> /\ Head(down[c]).type = "waveState"
    BY <1>6
  <2>2. Sends(client[c], b, opCounter[c], link[c], up[c], opCounter'[c], up'[c])
    BY <1>6
  <2>3. work # NoChange => work \in Change
    <3>1. client[c] \in BlipDocs /\ Follows(client[c], C[client[c].revision])
      BY <1>3 DEF Tracks
    <3>2. PendingWork(client[c]) \in Pending
      BY <3>1, WorkIs
    <3> QED BY <3>2 DEF Rescued, Pending
  <2> HIDE DEF work, fresh
  <2>4. \/ b = fresh
        \/ \E w \in Change : Reaches(w, fresh.doc) /\ b = ApplyLocal(fresh, w, opCounter[c] + 1)
    BY <2>3
  <2>5. fresh = NewBlipDoc(Head(down[c]).content, Head(down[c]).revision)
    BY DEF fresh
  <2> HIDE DEF b
  <2> QED BY <1>3, <1>4, <1>5, <2>1, <2>2, <2>4, <2>5, TracksState
<1>8. Fits(c, L, C)
  BY <1>6, <1>7 DEF Fits, on, R, H
<1>9. Moves(c)
  BY <1>1, <1>6 DEF Moves, Maps
<1> QED BY <1>1, <1>2, <1>8, <1>9, OneMoves

LEMMA StepRefusal ==
    ASSUME AlgebraLaws, IInv, NEW c \in Clients, OnRefusal(c)
    PROVE  IInv'
<1>1. Maps
  BY DEF IInv
<1>2. PICK L, C : Serves(server, L, C) /\ \A x \in Clients : TracksAt(x, L, C)
  BY DEF IInv
<1> DEFINE on == Subscribed(subs, c)
           R == server.revision
           H == Len(server.history)
<1>3. Tracks(client[c], opCounter[c], link[c], on, up[c], down[c], R, H, L, C)
  BY <1>2 DEF TracksAt
<1>4. R \in Nat /\ H \in Nat /\ H <= MaxHistory /\ Log(R, L, C) /\ server.content = C[R]
  BY <1>2, ServerIs
<1>5. on \in {"on", "off"} /\ (on = "on" <=> c \in subs)
  BY OnOrOff
<1>6. /\ down[c] # <<>> /\ Head(down[c]).type = "refusal"
      /\ UNCHANGED <<server, client, link, opCounter, subs, stale>>
      /\ down' = [down EXCEPT ![c] = down'[c]] /\ down'[c] = Tail(down[c])
  BY <1>1 DEF OnRefusal, Receives, Consume, browser, dead, Maps
<1> HIDE DEF on, R, H
<1>7. Tracks(client[c], opCounter[c], link[c], on, Append(up[c], OpenCommand), Tail(down[c]), R, H, L, C)
      /\ link[c] # "down" /\ PendingWork(client[c]) # NoChange
  <2>1. down[c] # <<>> /\ Head(down[c]).type \in {"refusal", "resync"}
    BY <1>6
  <2>2. Reopens(client[c], opCounter[c], link[c], on, up[c], down[c], R, H, L, C)
    BY <1>3, <1>4, <1>5, <2>1, TracksReject
  <2> QED BY <2>2 DEF Reopens
<1>8. up' = [up EXCEPT ![c] = up'[c]] /\ up'[c] = Append(up[c], OpenCommand)
  BY <1>1, <1>7 DEF OnRefusal, Send, Maps
<1>9. Fits(c, L, C)
  BY <1>6, <1>7, <1>8 DEF Fits, on, R, H
<1>10. Moves(c)
  BY <1>1, <1>6, <1>8 DEF Moves, Maps
<1> QED BY <1>1, <1>2, <1>9, <1>10, OneMoves

LEMMA StepResync ==
    ASSUME AlgebraLaws, IInv, NEW c \in Clients, OnResync(c)
    PROVE  IInv'
<1>1. Maps
  BY DEF IInv
<1>2. PICK L, C : Serves(server, L, C) /\ \A x \in Clients : TracksAt(x, L, C)
  BY DEF IInv
<1> DEFINE on == Subscribed(subs, c)
           R == server.revision
           H == Len(server.history)
<1>3. Tracks(client[c], opCounter[c], link[c], on, up[c], down[c], R, H, L, C)
  BY <1>2 DEF TracksAt
<1>4. R \in Nat /\ H \in Nat /\ H <= MaxHistory /\ Log(R, L, C) /\ server.content = C[R]
  BY <1>2, ServerIs
<1>5. on \in {"on", "off"} /\ (on = "on" <=> c \in subs)
  BY OnOrOff
<1>6. /\ down[c] # <<>> /\ Head(down[c]).type = "resync"
      /\ UNCHANGED <<server, client, link, opCounter, subs, stale>>
      /\ down' = [down EXCEPT ![c] = down'[c]] /\ down'[c] = Tail(down[c])
  BY <1>1 DEF OnResync, Receives, Consume, browser, dead, Maps
<1> HIDE DEF on, R, H
<1>7. Tracks(client[c], opCounter[c], link[c], on, Append(up[c], OpenCommand), Tail(down[c]), R, H, L, C)
      /\ link[c] # "down" /\ PendingWork(client[c]) # NoChange
  <2>1. down[c] # <<>> /\ Head(down[c]).type \in {"refusal", "resync"}
    BY <1>6
  <2>2. Reopens(client[c], opCounter[c], link[c], on, up[c], down[c], R, H, L, C)
    BY <1>3, <1>4, <1>5, <2>1, TracksReject
  <2> QED BY <2>2 DEF Reopens
<1>8. up' = [up EXCEPT ![c] = up'[c]] /\ up'[c] = Append(up[c], OpenCommand)
  BY <1>1, <1>7 DEF OnResync, Send, Maps
<1>9. Fits(c, L, C)
  BY <1>6, <1>7, <1>8 DEF Fits, on, R, H
<1>10. Moves(c)
  BY <1>1, <1>6, <1>8 DEF Moves, Maps
<1> QED BY <1>1, <1>2, <1>9, <1>10, OneMoves

LEMMA StepOpen ==
    ASSUME IInv, NEW c \in Clients, ServeOpen(c)
    PROVE  IInv'
<1>1. Maps
  BY DEF IInv
<1>2. PICK L, C : Serves(server, L, C) /\ \A x \in Clients : TracksAt(x, L, C)
  BY DEF IInv
<1> DEFINE on == Subscribed(subs, c)
           R == server.revision
           H == Len(server.history)
<1>3. Tracks(client[c], opCounter[c], link[c], on, up[c], down[c], R, H, L, C)
  BY <1>2 DEF TracksAt
<1>4. R \in Nat /\ H \in Nat /\ H <= MaxHistory /\ Log(R, L, C) /\ server.content = C[R]
  BY <1>2, ServerIs
<1>5. on \in {"on", "off"} /\ (on = "on" <=> c \in subs)
  BY OnOrOff
<1> DEFINE m == [type |-> "waveState", content |-> server.content, revision |-> server.revision]
<1>6. /\ up[c] # <<>> /\ Head(up[c]).type = "open"
      /\ UNCHANGED <<server, client, link, opCounter, stale>>
      /\ down' = [down EXCEPT ![c] = down'[c]] /\ down'[c] = Append(down[c], m)
      /\ up' = [up EXCEPT ![c] = up'[c]] /\ up'[c] = Tail(up[c])
      /\ subs' \subseteq Clients /\ (\A x \in Clients : x # c => (x \in subs' <=> x \in subs))
      /\ Subscribed(subs', c) = "on"
  BY <1>1 DEF ServeOpen, WaveState, browser, dead, Maps, Subscribed
<1> HIDE DEF on, R, H
<1>7. Tracks(client[c], opCounter[c], link[c], "on", Tail(up[c]), Append(down[c], m), R, H, L, C)
  <2>1. m = [type |-> "waveState", content |-> C[R], revision |-> R]
    BY <1>4 DEF R
  <2>2. up[c] # <<>> /\ Head(up[c]).type = "open"
    BY <1>6
  <2> HIDE DEF m
  <2> QED BY <1>3, <1>4, <1>5, <2>1, <2>2, TracksOpen
<1>8. Fits(c, L, C)
  BY <1>6, <1>7 DEF Fits, on, R, H
<1>9. Moves(c)
  BY <1>1, <1>6 DEF Moves, Maps
<1> QED BY <1>1, <1>2, <1>8, <1>9, OneMoves

LEMMA StepRefuse ==
    ASSUME IInv, NEW c \in Clients, RefuseStaleRevision(c) \/ RefuseSubmit(c)
    PROVE  IInv'
<1>1. Maps
  BY DEF IInv
<1>2. PICK L, C : Serves(server, L, C) /\ \A x \in Clients : TracksAt(x, L, C)
  BY DEF IInv
<1> DEFINE on == Subscribed(subs, c)
           R == server.revision
           H == Len(server.history)
<1>3. Tracks(client[c], opCounter[c], link[c], on, up[c], down[c], R, H, L, C)
  BY <1>2 DEF TracksAt
<1>4. R \in Nat /\ H \in Nat /\ H <= MaxHistory /\ Log(R, L, C) /\ server.content = C[R]
  BY <1>2, ServerIs
<1>5. on \in {"on", "off"} /\ (on = "on" <=> c \in subs)
  BY OnOrOff
<1>6. PICK m \in {Refusal, Resync} :
      /\ up[c] # <<>> /\ Head(up[c]).type = "submit"
      /\ UNCHANGED <<server, client, link, opCounter, subs, stale>>
      /\ down' = [down EXCEPT ![c] = down'[c]] /\ down'[c] = Append(down[c], m)
      /\ up' = [up EXCEPT ![c] = up'[c]] /\ up'[c] = Tail(up[c])
  <2>1. CASE RefuseStaleRevision(c)
    BY <1>1, <2>1 DEF RefuseStaleRevision, browser, dead, Maps
  <2>2. CASE RefuseSubmit(c)
    <3>1. PICK m \in {Refusal, Resync} : down' = [down EXCEPT ![c] = Append(@, m)]
      BY <2>2 DEF RefuseSubmit
    <3> QED BY <1>1, <2>2, <3>1 DEF RefuseSubmit, browser, dead, Maps
  <2> QED BY <2>1, <2>2
<1> HIDE DEF on, R, H
<1>7. Tracks(client[c], opCounter[c], link[c], on, Tail(up[c]), Append(down[c], m), R, H, L, C)
  <2>1. up[c] # <<>> /\ Head(up[c]).type = "submit"
    BY <1>6
  <2> QED BY <1>3, <1>4, <1>5, <2>1, TracksRefuse
<1>8. Fits(c, L, C)
  BY <1>6, <1>7 DEF Fits, on, R, H
<1>9. Moves(c)
  BY <1>1, <1>6 DEF Moves, Maps
<1> QED BY <1>1, <1>2, <1>8, <1>9, OneMoves

LEMMA StepDisconnect ==
    ASSUME IInv, NEW c \in Clients, Disconnect(c)
    PROVE  IInv'
<1>1. Maps
  BY DEF IInv
<1>2. PICK L, C : Serves(server, L, C) /\ \A x \in Clients : TracksAt(x, L, C)
  BY DEF IInv
<1> DEFINE on == Subscribed(subs, c)
           R == server.revision
           H == Len(server.history)
<1>3. Tracks(client[c], opCounter[c], link[c], on, up[c], down[c], R, H, L, C)
  BY <1>2 DEF TracksAt
<1>4. R \in Nat /\ H \in Nat /\ H <= MaxHistory /\ Log(R, L, C) /\ server.content = C[R]
  BY <1>2, ServerIs
<1>5. on \in {"on", "off"} /\ (on = "on" <=> c \in subs)
  BY OnOrOff
<1>6. /\ UNCHANGED <<server, client, opCounter>>
      /\ down' = [down EXCEPT ![c] = down'[c]] /\ down'[c] = <<>>
      /\ up' = [up EXCEPT ![c] = up'[c]] /\ up'[c] = <<>>
      /\ link' = [link EXCEPT ![c] = link'[c]] /\ link'[c] = "down"
      /\ subs' \subseteq Clients /\ (\A x \in Clients : x # c => (x \in subs' <=> x \in subs))
      /\ Subscribed(subs', c) = "off"
  BY <1>1 DEF Disconnect, browser, Maps, Subscribed
<1>10. stale' \in [Clients -> Seq(Submission \cup {OpenCommand})]
  <2>1. up[c] \in Seq(Submission \cup {OpenCommand})
    <3> DEFINE u == up[c]
    <3>1. Phase(client[c], link[c], on, u, down[c], R, H, L, C)
      BY <1>3 DEF Tracks
    <3> HIDE DEF u, on, R, H
    <3>2. Lifted(client[c], link[c], on, u, down[c], R, H, L, C)
      BY <1>5, <3>1, Upward
    <3>3. u = <<>> \/ u = <<OpenCommand>> \/ \E m \in Submission : u = <<m>>
      BY <3>2 DEF Lifted
    <3>4. \A S : \A m \in S : <<m>> \in Seq(S)
      OBVIOUS
    <3>5. CASE \E m \in Submission : u = <<m>>
      BY <3>4, <3>5 DEF u
    <3>6. CASE u = <<OpenCommand>>
      BY <3>4, <3>6 DEF u
    <3>7. CASE u = <<>>
      BY <3>7 DEF u
    <3> QED BY <3>3, <3>5, <3>6, <3>7
  <2>2. stale' = [stale EXCEPT ![c] = up[c]] /\ stale \in [Clients -> Seq(Submission \cup {OpenCommand})]
    BY <1>1 DEF Disconnect, Maps
  <2> QED BY <2>1, <2>2
<1> HIDE DEF on, R, H
<1>7. Tracks(client[c], opCounter[c], "down", "off", <<>>, <<>>, R, H, L, C)
  BY <1>3, <1>4, TracksAway
<1>8. Fits(c, L, C)
  BY <1>6, <1>7 DEF Fits, on, R, H
<1>9. Moves(c)
  BY <1>1, <1>6, <1>10 DEF Moves, Maps
<1> QED BY <1>1, <1>2, <1>8, <1>9, OneMoves

LEMMA StepReconnect ==
    ASSUME IInv, NEW c \in Clients, Reconnect(c)
    PROVE  IInv'
<1>1. Maps
  BY DEF IInv
<1>2. PICK L, C : Serves(server, L, C) /\ \A x \in Clients : TracksAt(x, L, C)
  BY DEF IInv
<1> DEFINE on == Subscribed(subs, c)
           R == server.revision
           H == Len(server.history)
<1>3. Tracks(client[c], opCounter[c], link[c], on, up[c], down[c], R, H, L, C)
  BY <1>2 DEF TracksAt
<1>4. R \in Nat /\ H \in Nat /\ H <= MaxHistory /\ Log(R, L, C) /\ server.content = C[R]
  BY <1>2, ServerIs
<1>5. on \in {"on", "off"} /\ (on = "on" <=> c \in subs)
  BY OnOrOff
<1>6. /\ UNCHANGED <<server, client, opCounter, subs, stale>> /\ link[c] = "down"
      /\ down' = [down EXCEPT ![c] = down'[c]] /\ down'[c] = <<Welcome>>
      /\ up' = [up EXCEPT ![c] = up'[c]] /\ up'[c] = <<OpenCommand>>
      /\ link' = [link EXCEPT ![c] = link'[c]] /\ link'[c] = "greeting"
  BY <1>1 DEF Reconnect, browser, dead, Maps
<1> HIDE DEF on, R, H
<1>10. on = "off"
  BY <1>3, <1>5, <1>6, DownIsOff
<1>7. Tracks(client[c], opCounter[c], "greeting", on, <<OpenCommand>>, <<Welcome>>, R, H, L, C)
  BY <1>3, <1>4, <1>10, TracksAway
<1>8. Fits(c, L, C)
  BY <1>6, <1>7 DEF Fits, on, R, H
<1>9. Moves(c)
  BY <1>1, <1>6 DEF Moves, Maps
<1> QED BY <1>1, <1>2, <1>8, <1>9, OneMoves

\* A commit, for the server and for a client that did not make it.
Commits(x, L, C, L2, C2) ==
    /\ Serves(server', L2, C2) /\ Grows(server.revision, L, C, L2, C2, x)
    /\ Log(server.revision + 1, L2, C2)
    /\ server'.revision = server.revision + 1
    /\ Len(server'.history) = OneLonger(Len(server.history))

LEMMA Committed ==
    ASSUME AlgebraLaws, NEW L, NEW C, Serves(server, L, C), NEW x \in Change,
           Valid(x, server.content), server' = Apply(server, x)
    PROVE  \E L2, C2 : Commits(x, L, C, L2, C2)
<1>1. /\ server'.revision = server.revision + 1
      /\ Len(server'.history) = OneLonger(Len(server.history))
      /\ \E L2, C2 : Serves(server', L2, C2) /\ Grows(server.revision, L, C, L2, C2, x)
  BY ApplyServes
<1>2. PICK L2, C2 : Serves(server', L2, C2) /\ Grows(server.revision, L, C, L2, C2, x)
  BY <1>1
<1>3. Log(server.revision + 1, L2, C2)
  BY <1>1, <1>2 DEF Serves
<1> QED BY <1>1, <1>2, <1>3 DEF Commits

LEMMA OthersHear ==
    ASSUME AlgebraLaws, NEW L, NEW C, Serves(server, L, C), NEW x \in Change, NEW L2, NEW C2,
           Commits(x, L, C, L2, C2), NEW y \in Clients, TracksAt(y, L, C),
           UNCHANGED <<client, opCounter, link, subs>>, up'[y] = up[y],
           down'[y] = IF y \in subs THEN Append(down[y], Op(server.revision + 1, x)) ELSE down[y]
    PROVE  TracksAt(y, L2, C2)'
<1> DEFINE on == Subscribed(subs, y)
           R == server.revision
           H == Len(server.history)
           q == down'[y]
<1>1. Tracks(client[y], opCounter[y], link[y], on, up[y], down[y], R, H, L, C)
  BY DEF TracksAt
<1>2. R \in Nat /\ H \in Nat /\ H <= MaxHistory
  BY ServerIs
<1>3. on \in {"on", "off"} /\ (on = "on" <=> y \in subs)
  BY OnOrOff
<1>4. Log(R + 1, L2, C2) /\ Grows(R, L, C, L2, C2, x)
  BY DEF Commits
<1> HIDE DEF on, R, H
<1>5. q = IF on = "on" THEN Append(down[y], Op(R + 1, x)) ELSE down[y]
  BY <1>3 DEF R
<1> HIDE DEF q
<1>6. Tracks(client[y], opCounter[y], link[y], on, up[y], q, R + 1, OneLonger(H), L2, C2)
  <2> DEFINE b == client[y]
             n == opCounter[y]
             lk == link[y]
             u == up[y]
             d == down[y]
  <2>1. on \in {"on", "off"}
    BY <1>3
  <2>2. Tracks(b, n, lk, on, u, d, R, H, L, C)
    BY <1>1
  <2>3. q = IF on = "on" THEN Append(d, Op(R + 1, x)) ELSE d
    BY <1>5
  <2>4. R \in Nat
    BY <1>2
  <2>5. H \in Nat
    BY <1>2
  <2>6. H <= MaxHistory
    BY <1>2
  <2>7. Log(R + 1, L2, C2)
    BY <1>4
  <2>8. Grows(R, L, C, L2, C2, x)
    BY <1>4
  <2> HIDE DEF b, n, lk, u, d
  <2>9. Tracks(b, n, lk, on, u, q, R + 1, OneLonger(H), L2, C2)
    BY <2>1, <2>2, <2>3, <2>4, <2>5, <2>6, <2>7, <2>8, TracksCommit, ZenonT(60)
  <2> QED BY <2>9 DEF b, n, lk, u, d
<1> QED BY <1>6 DEF TracksAt, Commits, on, R, H, q

LEMMA StepSubmit ==
    ASSUME AlgebraLaws, IInv, NEW c \in Clients, ServeSubmit(c)
    PROVE  IInv'
<1>1. Maps
  BY DEF IInv
<1>2. PICK L, C : Serves(server, L, C) /\ \A x \in Clients : TracksAt(x, L, C)
  BY DEF IInv
<1> DEFINE on == Subscribed(subs, c)
           R == server.revision
           H == Len(server.history)
           m == Head(up[c])
           x == Rebase(server, m.revision, m.delta)
<1>3. Tracks(client[c], opCounter[c], link[c], on, up[c], down[c], R, H, L, C)
  BY <1>2 DEF TracksAt
<1>4. on \in {"on", "off"} /\ (on = "on" <=> c \in subs)
  BY OnOrOff
<1>5. up[c] # <<>> /\ m.type = "submit" /\ InWindow(server, m.revision) /\ Valid(x, server.content)
  BY DEF ServeSubmit, Acceptable, Rebased
<1>6. m \in Submission /\ m.delta \in Change
  <2>1. Phase(client[c], link[c], on, up[c], down[c], R, H, L, C)
    BY <1>3 DEF Tracks
  <2> HIDE DEF on, R, H
  <2>2. m \in Submission
    BY <1>4, <1>5, <2>1, SubmitIs
  <2> QED BY <2>2 DEF Submission
<1>7. x \in Change
  BY <1>2, <1>6, RebaseIsChange
<1>8. /\ server' = Apply(server, x)
      /\ UNCHANGED <<client, opCounter, link, subs, stale>>
      /\ up' = [up EXCEPT ![c] = Tail(@)]
      /\ down' = [y \in Clients |->
           CASE y \in subs /\ y # c -> Append(down[y], Op(R + 1, x))
             [] y \in subs /\ y = c -> Append(down[y], Ack(R + 1, m.opId))
             [] OTHER -> down[y]]
  BY DEF ServeSubmit, Broadcast, Rebased, browser, dead
<1> HIDE DEF x, m
<1>9. PICK L2, C2 : Commits(x, L, C, L2, C2)
  BY <1>2, <1>5, <1>7, <1>8, Committed
<1>10. ASSUME NEW y \in Clients, y # c PROVE TracksAt(y, L2, C2)'
  <2>1. up'[y] = up[y]
    BY <1>1, <1>8, <1>10 DEF Maps
  <2>2. down'[y] = IF y \in subs THEN Append(down[y], Op(server.revision + 1, x)) ELSE down[y]
    BY <1>8, <1>10
  <2> QED BY <1>2, <1>7, <1>8, <1>9, <2>1, <2>2, OthersHear
<1>11. TracksAt(c, L2, C2)'
  <2> DEFINE q == Append(down[c], Ack(R + 1, m.opId))
  <2>1. Grows(R, L, C, L2, C2, x)
    BY <1>9 DEF Commits
  <2>2. x = Rebase(server, Head(up[c]).revision, Head(up[c]).delta)
    BY DEF x, m
  <2>3. up[c] # <<>> /\ Head(up[c]).type = "submit" /\ InWindow(server, Head(up[c]).revision)
    BY <1>5 DEF m
  <2>4. q = Append(down[c], Ack(R + 1, Head(up[c]).opId)) /\ R = server.revision /\ H = Len(server.history)
    BY DEF m
  <2> HIDE DEF on, R, H, q
  <2>5. /\ on = "on"
        /\ Tracks(client[c], opCounter[c], link[c], on, Tail(up[c]), q, R + 1, OneLonger(H), L2, C2)
    BY <1>2, <1>3, <1>4, <1>7, <2>1, <2>2, <2>3, <2>4, TracksOwn
  <2>6. down'[c] = q /\ up'[c] = Tail(up[c])
    BY <1>1, <1>4, <1>8, <2>5 DEF Maps, q
  <2> QED BY <1>8, <1>9, <2>5, <2>6 DEF TracksAt, Commits, on, R, H
<1>12. Maps'
  BY <1>1, <1>8 DEF Maps
<1>13. \A y \in Clients : TracksAt(y, L2, C2)'
  BY <1>10, <1>11
<1>14. Serves(server, L2, C2)'
  BY <1>9 DEF Commits
<1> QED BY <1>12, <1>13, <1>14 DEF IInv

LEMMA StepStale ==
    ASSUME AlgebraLaws, IInv, NEW c \in Clients, ServeStale(c)
    PROVE  IInv'
<1>1. Maps
  BY DEF IInv
<1>2. PICK L, C : Serves(server, L, C) /\ \A x \in Clients : TracksAt(x, L, C)
  BY DEF IInv
<1> DEFINE m == Head(stale[c])
           x == Rebase(server, m.revision, m.delta)
           good == m.type = "submit" /\ Acceptable(m)
<1>3. /\ stale[c] \in Seq(Submission \cup {OpenCommand}) /\ stale[c] # <<>>
      /\ stale' = [stale EXCEPT ![c] = Tail(@)]
      /\ UNCHANGED <<client, opCounter, link, subs, up>>
  BY <1>1 DEF ServeStale, browser, Maps
<1>4. m \in Submission \cup {OpenCommand} /\ Tail(stale[c]) \in Seq(Submission \cup {OpenCommand})
  BY <1>3
<1>5. stale' \in [Clients -> Seq(Submission \cup {OpenCommand})]
  BY <1>1, <1>3, <1>4 DEF Maps
<1>6. CASE good
  <2>1. m \in Submission /\ m.delta \in Change
    BY <1>4, <1>6 DEF OpenCommand, Submission
  <2>2. x \in Change
    BY <1>2, <2>1, RebaseIsChange
  <2>3. /\ Valid(x, server.content) /\ server' = Apply(server, x)
        /\ down' = [y \in Clients |-> IF y \in subs
             THEN Append(down[y], Op(server.revision + 1, x)) ELSE down[y]]
    BY <1>6 DEF ServeStale, Acceptable, Rebased
  <2> HIDE DEF x
  <2>4. PICK L2, C2 : Commits(x, L, C, L2, C2)
    BY <1>2, <2>2, <2>3, Committed
  <2>5. ASSUME NEW y \in Clients PROVE TracksAt(y, L2, C2)'
    <3>1. up'[y] = up[y] /\ UNCHANGED <<client, opCounter, link, subs>>
      BY <1>3
    <3>2. down'[y] = IF y \in subs THEN Append(down[y], Op(server.revision + 1, x)) ELSE down[y]
      BY <2>3
    <3> QED BY <1>2, <2>2, <2>4, <3>1, <3>2, OthersHear
  <2>6. Maps'
    BY <1>1, <1>3, <1>5, <2>3 DEF Maps
  <2>7. Serves(server, L2, C2)'
    BY <2>4 DEF Commits
  <2> QED BY <2>5, <2>6, <2>7 DEF IInv
<1>7. CASE ~good
  <2>1. UNCHANGED <<server, down>>
    BY <1>7 DEF ServeStale
  <2>2. Moves(c)
    BY <1>1, <1>3, <1>5, <2>1 DEF Moves, Maps
  <2>3. Fits(c, L, C)
    BY <1>2, <1>3, <2>1 DEF Fits, TracksAt
  <2> QED BY <1>1, <1>2, <2>2, <2>3, OneMoves
<1> QED BY <1>6, <1>7

LEMMA StepHangup ==
    ASSUME IInv, NEW c \in Clients, Hangup(c)
    PROVE  IInv'
<1>1. Maps
  BY DEF IInv
<1>2. PICK L, C : Serves(server, L, C) /\ \A x \in Clients : TracksAt(x, L, C)
  BY DEF IInv
<1>3. UNCHANGED <<client, opCounter, link, subs, up, down>> /\ stale' = [stale EXCEPT ![c] = <<>>]
  BY DEF Hangup, browser
<1>4. stale' \in [Clients -> Seq(Submission \cup {OpenCommand})]
  <2>1. <<>> \in Seq(Submission \cup {OpenCommand})
    OBVIOUS
  <2> QED BY <1>1, <1>3, <2>1 DEF Maps
<1>5. Maps'
  BY <1>1, <1>3, <1>4 DEF Maps
<1>6. CASE server' = server
  <2>1. Moves(c)
    BY <1>1, <1>3, <1>4, <1>6 DEF Moves, Maps
  <2>2. Fits(c, L, C)
    BY <1>2, <1>3, <1>6 DEF Fits, TracksAt
  <2> QED BY <1>1, <1>2, <2>1, <2>2, OneMoves
<1>7. CASE subs = {} /\ server' = FromSnapshot(server.content, server.revision)
  <2>1. /\ server'.content = server.content /\ server'.revision = server.revision
        /\ server'.history = <<>> /\ Len(server'.history) = 0
        /\ server' = [content |-> server'.content, revision |-> server'.revision,
                      history |-> server'.history]
    BY <1>7 DEF FromSnapshot
  <2>2. Serves(server, L, C)'
    <3>1. Log(server.revision, L, C) /\ server.content = C[server.revision] /\ server.revision \in Nat
      BY <1>2 DEF Serves, Log
    <3>2. <<>> \in Seq(Entry) /\ 0 <= MaxHistory /\ 1..0 = {}
      BY MaxHistoryAssumption
    <3> QED BY <2>1, <3>1, <3>2 DEF Serves
  <2>3. ASSUME NEW y \in Clients PROVE TracksAt(y, L, C)'
    <3>1. Subscribed(subs, y) = "off"
      BY <1>7 DEF Subscribed
    <3>2. Tracks(client[y], opCounter[y], link[y], "off", up[y], down[y],
                 server.revision, Len(server.history), L, C)
      BY <1>2, <3>1 DEF TracksAt
    <3>3. Tracks(client[y], opCounter[y], link[y], "off", up[y], down[y],
                 server.revision, 0, L, C)
      BY <3>2, TracksOff
    <3> QED BY <1>3, <2>1, <3>1, <3>3 DEF TracksAt
  <2> QED BY <1>5, <2>2, <2>3 DEF IInv
<1> QED BY <1>6, <1>7 DEF Hangup

\* Nothing changes.
LEMMA StepStutters ==
    ASSUME IInv, UNCHANGED vars
    PROVE  IInv'
<1>1. UNCHANGED <<server, client, opCounter, link, subs, up, down, stale>>
  BY DEF vars
<1>2. PICK L, C : Serves(server, L, C) /\ \A x \in Clients : TracksAt(x, L, C)
  BY DEF IInv
<1>3. Serves(server, L, C)' /\ \A x \in Clients : TracksAt(x, L, C)'
  BY <1>1, <1>2 DEF TracksAt
<1>4. Maps'
  BY <1>1 DEF IInv, Maps
<1> QED BY <1>3, <1>4 DEF IInv

LEMMA NextKeeps ==
    ASSUME AlgebraLaws, EditorLaw, EditsWhileGreeting = FALSE, IInv, [Next]_vars
    PROVE  IInv'
<1>1. CASE UNCHANGED vars
  BY <1>1, StepStutters
<1>2. CASE Next
  <2>1. PICK c \in Clients :
          \/ \E change \in Edits(c, client[c].doc) : Type(c, change)
          \/ Receive(c) \/ Serve(c) \/ RefuseSubmit(c)
          \/ Disconnect(c) \/ Hangup(c) \/ Reconnect(c)
    BY <1>2 DEF Next
  <2>2. CASE \E change \in Edits(c, client[c].doc) : Type(c, change)
    BY <2>2, StepType
  <2>3. CASE Receive(c)
    BY <2>3, StepWelcome, StepOp, StepAck, StepState, StepRefusal, StepResync DEF Receive
  <2>4. CASE Serve(c)
    BY <2>4, StepOpen, StepSubmit, StepStale, StepRefuse DEF Serve
  <2>5. CASE RefuseSubmit(c)
    BY <2>5, StepRefuse
  <2>6. CASE Disconnect(c)
    BY <2>6, StepDisconnect
  <2>7. CASE Hangup(c)
    BY <2>7, StepHangup
  <2>8. CASE Reconnect(c)
    BY <2>8, StepReconnect
  <2> QED BY <2>1, <2>2, <2>3, <2>4, <2>5, <2>6, <2>7, <2>8
<1> QED BY <1>1, <1>2

LEMMA InitTracks ==
    ASSUME AlgebraLaws, Init
    PROVE  IInv
<1> DEFINE L == <<>>
           C == [r \in {0} |-> EmptyDoc]
<1>1. C[0] = EmptyDoc /\ EmptyDoc \in Doc /\ 1..0 = {} /\ 0..0 = {0}
  BY EmptyDocAssumption
<1> HIDE DEF L, C
<1>2. Log(0, L, C)
  BY <1>1 DEF Log
<1>3. /\ server = [content |-> server.content, revision |-> server.revision, history |-> server.history]
      /\ server.content = EmptyDoc /\ server.revision = 0 /\ server.history = <<>>
      /\ Len(server.history) = 0
  BY DEF Init, FromSnapshot
<1>4. Serves(server, L, C)
  <2>1. <<>> \in Seq(Entry) /\ 0 <= MaxHistory /\ 0 <= 0
    BY MaxHistoryAssumption
  <2> QED BY <1>1, <1>2, <1>3, <2>1 DEF Serves
<1>5. ASSUME NEW c \in Clients PROVE TracksAt(c, L, C)
  <2> DEFINE b == client[c]
  <2>1. /\ b = NewBlipDoc(EmptyDoc, 0) /\ opCounter[c] = 0 /\ link[c] = "ready" /\ c \in subs
        /\ up[c] = <<>> /\ down[c] = <<>>
    BY DEF Init
  <2> HIDE DEF b
  <2>2. /\ b \in BlipDocs /\ Follows(b, EmptyDoc) /\ b.revision = 0 /\ b.outstanding = NoChange
        /\ b.opId = NoOp
    BY <1>1, <2>1, SnapshotFollows
  <2>3. NoOp = 0
    BY DEF AlgebraLaws
  <2> DEFINE e == [i \in {0} |-> 0]
  <2>4. e[0] = 0 /\ <<>> \in Seq(Messages) /\ Len(<<>>) = 0 /\ 0 \in 0..0
    OBVIOUS
  <2> HIDE DEF e
  <2>5. Reads(e, 0, "on", <<>>, 0, L, C)
    BY <1>1, <2>4 DEF Reads
  <2>6. AtRest(b, <<>>, <<>>, 0, 0)
    <3>1. OpsFrom(<<>>, 1)
      BY <1>1, <2>4 DEF OpsFrom
    <3>2. Kept(0, 0, 0)
      BY DEF Kept
    <3> QED BY <2>2, <2>4, <3>1, <3>2 DEF AtRest
  <2>7. Phase(b, "ready", "on", <<>>, <<>>, 0, 0, L, C)
    BY <2>6 DEF Phase
  <2>8. Tracks(b, 0, "ready", "on", <<>>, <<>>, 0, 0, L, C)
    BY <1>1, <2>2, <2>3, <2>4, <2>5, <2>7 DEF Tracks
  <2> QED BY <1>3, <2>1, <2>8 DEF TracksAt, Subscribed, b
<1>6. Maps
  BY DEF Init, Maps
<1> QED BY <1>4, <1>5, <1>6 DEF IInv
-----------------------------------------------------------------------------
(* What follows from the invariant.                                        *)

\* Where an Ack is on its way, everything else is an op, and the op in flight comes to
\* be what the server stored: f says what it is after each message.
AckComes(b, d, f, L, C) ==
    \A k \in 1..Len(d) : d[k].type = "ack" =>
        /\ \A i \in 1..Len(d) : i # k => d[i].type = "op"
        /\ Path(f, b.revision, b.revision + (k - 1), L, C)
        /\ f[b.revision] = b.outstanding /\ f[b.revision + (k - 1)] = L[b.revision + k]

\* What a client has when it has read i messages follows the server's document
\* i revisions later.
SettledTo(b, q, i, d, f, C) ==
    /\ q \in BlipDocs /\ q.revision = b.revision + i /\ Follows(q, C[b.revision + i])
    /\ \A k \in (i + 1)..Len(d) : d[k].type = "ack" => q.outstanding = f[b.revision + i]

LEMMA Between ==
    ASSUME NEW r \in Nat, NEW i \in Nat, NEW k \in Nat, k >= i + 2, NEW s, s = r + i
    PROVE  s \in r..(r + (k - 1)) /\ s \in r..((r + (k - 1)) - 1)
  OBVIOUS

LEMMA SettlesOne ==
    ASSUME AlgebraLaws, NEW R \in Nat, NEW L, NEW C, Log(R, L, C),
           NEW b, b.revision \in Nat, NEW d \in Seq(Messages), R = b.revision + Len(d), NEW f,
           AckComes(b, d, f, L, C), NEW i \in Nat, i + 1 <= Len(d), NEW q,
           SettledTo(b, q, i, d, f, C), NEW id \in Nat, id # NoOp,
           d[i + 1].type \in {"op", "ack"}, d[i + 1].revision = b.revision + (i + 1),
           d[i + 1].type = "op" => d[i + 1].delta = L[b.revision + (i + 1)],
           NEW p, p = ReadStep(q, d[i + 1], id)
    PROVE  SettledTo(b, p, i + 1, d, f, C)
<1> DEFINE r == b.revision
           z == Len(d)
           j == i + 1
           s == r + i
           t == r + j
<1>1. /\ r \in Nat /\ z \in Nat /\ j \in 1..z /\ s \in 0..R /\ t \in 1..R /\ t - 1 = s
      /\ t \in Nat /\ t = s + 1
  <2>1. r \in Nat /\ z \in Nat /\ R = r + z /\ j <= z
    OBVIOUS
  <2> HIDE DEF r, z
  <2> QED BY <2>1
<1>2. C[s] \in Doc /\ L[t] \in Change /\ Reaches(L[t], C[s]) /\ C[t] = OtCompose(C[s], L[t])
  BY <1>1 DEF Log
<1>3. /\ q \in BlipDocs /\ q.revision = s /\ Follows(q, C[s])
      /\ \A k \in (i + 1)..z : d[k].type = "ack" => q.outstanding = f[s]
  BY DEF SettledTo
<1>4. CASE d[j].type = "op"
  <2>1. p = ApplyRemote(q, L[t], t)
    BY <1>4 DEF ReadStep
  <2> HIDE DEF s, t
  <2>2. /\ p \in BlipDocs /\ Follows(p, C[t]) /\ p.revision = t
        /\ q.outstanding # NoChange => p.outstanding = OtTransform(L[t], q.outstanding)
    BY <1>1, <1>2, <1>3, <2>1, RemoteFollows, SMTT(30)
  <2>3. ASSUME NEW k \in (j + 1)..z, d[k].type = "ack" PROVE p.outstanding = f[t]
    <3>1. k \in (i + 1)..z /\ k \in 1..z /\ k > j
      BY <1>1
    <3>2. q.outstanding = f[s]
      BY <1>3, <2>3, <3>1
    <3>3. Path(f, r, r + (k - 1), L, C)
      BY <2>3, <3>1 DEF AckComes
    <3>4. s \in r..(r + (k - 1)) /\ s \in r..((r + (k - 1)) - 1)
      <4>1. k \in Nat /\ k >= i + 2
        BY <3>1
      <4>2. s = r + i
        BY DEF s
      <4>3. r \in Nat
        BY <1>1
      <4> HIDE DEF r
      <4> QED BY <4>1, <4>2, <4>3, Between
    <3>5. f[s] \in Change /\ f[s + 1] = OtTransform(L[s + 1], f[s])
      BY <3>3, <3>4 DEF Path
    <3>6. f[s] # NoChange
      BY <3>5 DEF AlgebraLaws
    <3> QED BY <1>1, <2>2, <3>2, <3>5, <3>6
  <2> QED BY <2>2, <2>3 DEF SettledTo, t
<1>5. CASE d[j].type = "ack"
  <2>1. p = Acknowledge(q, t, id)
    BY <1>5 DEF ReadStep
  <2>2. q.outstanding = f[s]
    <3>1. j \in (i + 1)..z
      BY <1>1
    <3> QED BY <1>3, <1>5, <3>1
  <2>3. Path(f, r, r + (j - 1), L, C) /\ f[r + (j - 1)] = L[r + j]
    BY <1>1, <1>5 DEF AckComes
  <2>4. r + (j - 1) = s /\ s \in r..s
    <3>1. r \in Nat /\ i \in Nat
      BY <1>1
    <3> HIDE DEF r
    <3> QED BY <3>1
  <2>5. q.outstanding = L[t] /\ q.outstanding # NoChange
    <3>1. L[t] # NoChange
      BY <1>2 DEF AlgebraLaws
    <3> QED BY <2>2, <2>3, <2>4, <3>1
  <2>6. \A k \in (j + 1)..z : d[k].type # "ack"
    <3>1. \A k \in 1..z : k # j => d[k].type = "op"
      BY <1>1, <1>5 DEF AckComes
    <3>2. \A k \in (j + 1)..z : k \in 1..z /\ k # j
      BY <1>1
    <3> QED BY <3>1, <3>2
  <2> HIDE DEF s, t
  <2>7. p \in BlipDocs /\ Follows(p, OtCompose(C[s], q.outstanding)) /\ p.revision = t
    BY <1>1, <1>2, <1>3, <2>1, <2>5, AckFollows
  <2>8. Follows(p, C[t])
    BY <1>2, <2>5, <2>7
  <2> QED BY <2>6, <2>7, <2>8 DEF SettledTo, t
<1> QED BY <1>4, <1>5

OpsAndAcks(d) == \A i \in 1..Len(d) : d[i].type \in {"op", "ack"}
Settling(g, b, d, id, e, f, R, L, C) ==
    /\ R \in Nat /\ Log(R, L, C) /\ b \in BlipDocs /\ Follows(b, C[b.revision])
    /\ d \in Seq(Messages) /\ Reads(e, b.revision, "on", d, R, L, C)
    /\ OpsAndAcks(d) /\ AckComes(b, d, f, L, C) /\ id \in Nat /\ id # NoOp
    /\ g[0] = b /\ \A i \in 1..Len(d) : g[i] = ReadStep(g[i - 1], d[i], id)

LEMMA Settles ==
    ASSUME AlgebraLaws, NEW R, NEW L, NEW C, NEW b, NEW d, NEW e, NEW f, NEW g, NEW id,
           Settling(g, b, d, id, e, f, R, L, C)
    PROVE  Follows(g[Len(d)], C[R]) /\ g[Len(d)].revision = R
<1> USE DEF Settling
<1> DEFINE r == b.revision
           z == Len(d)
<1>1. r \in Nat /\ z \in Nat
  BY DEF BlipDocs
<1>2. e[0] = r /\ e[z] = R
  BY DEF Reads
<1>3. \A i \in 1..z : d[i].revision = e[i] /\ e[i] = e[i - 1] + 1 /\ (d[i].type = "op" => d[i].delta = L[e[i]])
  BY DEF Reads, OpsAndAcks
<1> HIDE DEF r, z
<1>4. \A i \in 0..z : e[i] = r + i
  <2> DEFINE Is == {i \in Nat : i <= z => e[i] = r + i}
  <2>1. 0 \in Is
    BY <1>1, <1>2
  <2>2. ASSUME NEW i \in Nat, i \in Is PROVE i + 1 \in Is
    <3> SUFFICES ASSUME i + 1 <= z PROVE e[i + 1] = r + (i + 1)
      OBVIOUS
    <3>1. i + 1 \in 1..z /\ (i + 1) - 1 = i /\ e[i] = r + i
      BY <1>1, <2>2
    <3>2. e[i + 1] = (r + i) + 1
      BY <1>3, <3>1
    <3> QED BY <1>1, <3>2
  <2> HIDE DEF Is
  <2>3. \A i \in Nat : i \in Is
    BY <2>1, <2>2, AllNumbers
  <2> QED BY <1>1, <2>3 DEF Is
<1>5. R = r + z
  BY <1>1, <1>2, <1>4
<1> DEFINE Is == {i \in Nat : i <= z => SettledTo(b, g[i], i, d, f, C)}
<1>6. 0 \in Is
  <2>1. r + 0 = r /\ Follows(b, C[r])
    BY <1>1 DEF r
  <2>2. ASSUME NEW k \in (0 + 1)..z, d[k].type = "ack" PROVE b.outstanding = f[r]
    BY <2>2 DEF AckComes, r, z
  <2>3. SettledTo(b, b, 0, d, f, C)
    BY <2>1, <2>2 DEF SettledTo, r, z
  <2> QED BY <2>3 DEF Settling
<1>7. ASSUME NEW i \in Nat, i \in Is PROVE i + 1 \in Is
  <2> SUFFICES ASSUME i + 1 <= z PROVE SettledTo(b, g[i + 1], i + 1, d, f, C)
    OBVIOUS
  <2>1. i + 1 \in 1..z /\ (i + 1) - 1 = i /\ i + 1 \in 0..z /\ i <= z
    BY <1>1
  <2>2. SettledTo(b, g[i], i, d, f, C) /\ g[i + 1] = ReadStep(g[i], d[i + 1], id)
    BY <1>7, <2>1 DEF z, Settling
  <2>3. /\ d[i + 1].type \in {"op", "ack"} /\ d[i + 1].revision = b.revision + (i + 1)
        /\ d[i + 1].type = "op" => d[i + 1].delta = L[b.revision + (i + 1)]
    BY <1>3, <1>4, <2>1 DEF r, z, OpsAndAcks
  <2>4. i + 1 <= Len(d) /\ R = b.revision + Len(d) /\ b.revision \in Nat
    BY <1>1, <1>5 DEF r, z
  <2> QED BY <2>2, <2>3, <2>4, SettlesOne
<1> HIDE DEF Is
<1>8. z \in Is
  BY <1>1, <1>6, <1>7, AllNumbers
<1>9. SettledTo(b, g[z], z, d, f, C)
  BY <1>1, <1>8 DEF Is
<1> QED BY <1>5, <1>9 DEF SettledTo, r, z

\* A client that is in step has nothing but its Ack, if any, between ops.
LEMMA InStepIs ==
    ASSUME NEW b \in BlipDocs, NEW u, NEW d \in Seq(Messages), NEW R, NEW H, NEW L, NEW C,
           Phase(b, "ready", "on", u, d, R, H, L, C),
           \A i \in DOMAIN u : u[i].type = "submit",
           \A i \in 1..Len(d) : d[i].type \in {"op", "ack"}
    PROVE  \E f : AckComes(b, d, f, L, C)
<1>1. ~Greeted("ready", u, d, R, H) /\ ~Refused(b, u, d) /\ ~Reopening(b, u, d, R, H)
  BY DEF Greeted, Refused, Reopening
<1>2. ~Asking(b, u, d)
  <2>1. OpenCommand.type = "open" /\ 1 \in DOMAIN <<OpenCommand>> /\ <<OpenCommand>>[1] = OpenCommand
    BY DEF OpenCommand
  <2> QED BY <2>1 DEF Asking
<1>3. CASE OpsFrom(d, 1)
  <2>1. \A k \in 1..Len(d) : d[k].type # "ack"
    BY <1>3 DEF OpsFrom
  <2> QED BY <2>1 DEF AckComes
<1>4. CASE Acked(b, u, d, R, H, L, C)
  <2>1. PICK j \in 1..Len(d) : \E f :
           /\ Lone(d, j) /\ d[j].type = "ack" /\ d[j].opId = b.opId
           /\ d[j].revision = b.revision + j
           /\ Path(f, b.revision, d[j].revision - 1, L, C)
           /\ f[b.revision] = b.outstanding /\ f[d[j].revision - 1] = L[d[j].revision]
    BY <1>4 DEF Acked
  <2>2. PICK f :
           /\ Lone(d, j) /\ d[j].type = "ack" /\ d[j].opId = b.opId
           /\ d[j].revision = b.revision + j
           /\ Path(f, b.revision, d[j].revision - 1, L, C)
           /\ f[b.revision] = b.outstanding /\ f[d[j].revision - 1] = L[d[j].revision]
    BY <2>1
  <2>3. d[j].revision - 1 = b.revision + (j - 1)
    <3>1. b.revision \in Nat /\ j \in Nat
      BY DEF BlipDocs
    <3> QED BY <2>2, <3>1
  <2>4. \A k \in 1..Len(d) : d[k].type = "ack" => k = j
    BY <2>2 DEF Lone
  <2>5. \A i \in 1..Len(d) : i # j => d[i].type = "op"
    BY <2>2 DEF Lone
  <2>6. /\ Path(f, b.revision, b.revision + (j - 1), L, C)
        /\ f[b.revision] = b.outstanding /\ f[b.revision + (j - 1)] = L[b.revision + j]
    BY <2>2, <2>3
  <2>7. AckComes(b, d, f, L, C)
    BY <2>4, <2>5, <2>6 DEF AckComes
  <2> QED BY <2>7
<1> QED BY <1>1, <1>2, <1>3, <1>4 DEF Phase, AtRest, InFlight

LEMMA Tracking ==
    ASSUME AlgebraLaws, IInv
    PROVE  ClientTracksServer
<1> SUFFICES ASSUME NEW c \in Clients, InStep(c)
             PROVE  LET b == Settled(c)
                    IN  /\ b.doc = Applied(Applied(server.content, b.outstanding), b.buffer)
                        /\ b.revision = server.revision
  BY DEF ClientTracksServer
<1>1. PICK L, C : Serves(server, L, C) /\ TracksAt(c, L, C)
  BY DEF IInv
<1> DEFINE R == server.revision
           H == Len(server.history)
           b == client[c]
           d == down[c]
           n == opCounter[c]
<1>2. R \in Nat /\ Log(R, L, C) /\ server.content = C[R]
  BY <1>1, ServerIs
<1>3. /\ b \in BlipDocs /\ n \in Nat /\ Follows(b, C[b.revision]) /\ d \in Seq(Messages)
      /\ \E e : Reads(e, b.revision, "on", d, R, L, C)
      /\ Phase(b, "ready", "on", up[c], d, R, H, L, C)
  BY <1>1 DEF TracksAt, Tracks, InStep, Subscribed
<1>4. PICK e : Reads(e, b.revision, "on", d, R, L, C)
  BY <1>3
<1>5. DOMAIN d = 1..Len(d) /\ Len(d) \in Nat
  BY <1>3
<1>6. /\ \A i \in DOMAIN up[c] : up[c][i].type = "submit"
      /\ \A i \in 1..Len(d) : d[i].type \in {"op", "ack"}
  BY <1>5 DEF InStep
<1>7. PICK g : /\ g[0] = b /\ Settled(c) = g[Len(d)]
               /\ \A i \in 1..Len(d) : g[i] = ReadStep(g[i - 1], d[i], n + 1)
  BY <1>5, SettledGoes DEF NewOpId
<1>8. n + 1 \in Nat /\ n + 1 # NoOp
  BY <1>3 DEF AlgebraLaws
<1> HIDE DEF R, H, b, d, n
<1>9. PICK f : AckComes(b, d, f, L, C)
  BY <1>3, <1>6, InStepIs
<1>10. Follows(g[Len(d)], C[R]) /\ g[Len(d)].revision = R
  <2>1. OpsAndAcks(d)
    BY <1>6 DEF OpsAndAcks
  <2>2. Settling(g, b, d, n + 1, e, f, R, L, C)
    BY <1>2, <1>3, <1>4, <1>7, <1>8, <1>9, <2>1 DEF Settling
  <2> QED BY <2>2, Settles
<1> QED BY <1>2, <1>7, <1>10 DEF Follows, R

LEMMA Answering ==
    ASSUME IInv
    PROVE  AckIsForOutstanding
<1> SUFFICES ASSUME NEW c \in Clients, NEW i \in DOMAIN down[c], down[c][i].type = "ack"
             PROVE  /\ down[c][i].opId = client[c].opId
                    /\ \A j \in DOMAIN down[c] : down[c][j].type = "ack" => i = j
                    /\ up[c] = <<>>
  BY DEF AckIsForOutstanding
<1>1. PICK L, C : Serves(server, L, C) /\ TracksAt(c, L, C)
  BY DEF IInv
<1> DEFINE R == server.revision
           H == Len(server.history)
           b == client[c]
           d == down[c]
           u == up[c]
           on == Subscribed(subs, c)
           lk == link[c]
<1>2. d \in Seq(Messages) /\ Phase(b, lk, on, u, d, R, H, L, C)
  BY <1>1 DEF TracksAt, Tracks
<1>3. DOMAIN d = 1..Len(d) /\ Len(d) \in Nat
  BY <1>2
<1>4. on \in {"on", "off"}
  BY OnOrOff
<1> HIDE DEF R, H, b, d, u, on, lk
<1>5. i \in 1..Len(d) /\ d[i].type = "ack"
  BY <1>3 DEF d
<1>6. on = "on"
  <2>1. Welcome.type = "welcome" /\ Len(<<Welcome>>) = 1 /\ <<Welcome>>[1] = Welcome /\ Len(<<>>) = 0
    BY DEF Welcome
  <2>2. d # <<>> /\ d # <<Welcome>>
    BY <1>5, <2>1
  <2> QED BY <1>2, <1>4, <2>2 DEF Phase, Away
<1>7. ~OpsFrom(d, 1) /\ ~Refused(b, u, d) /\ ~Reopening(b, u, d, R, H)
  BY <1>5 DEF OpsFrom, Refused, Reopening, Lone
<1>8. ~Greeted(lk, u, d, R, H)
  <2> SUFFICES ASSUME Greeted(lk, u, d, R, H) PROVE FALSE
    OBVIOUS
  <2>1. PICK k \in 1..2 : /\ k = 2 => d[1].type = "welcome"
                          /\ d[k].type = "waveState" /\ OpsFrom(d, k + 1)
    BY DEF Greeted
  <2>2. i = k \/ i \in (k + 1)..Len(d) \/ (k = 2 /\ i = 1)
    BY <1>3, <1>5
  <2> QED BY <1>5, <2>1, <2>2 DEF OpsFrom
<1>9. Acked(b, u, d, R, H, L, C)
  BY <1>2, <1>6, <1>7, <1>8 DEF Phase, AtRest, InFlight, Asking
<1>10. PICK j \in 1..Len(d) : Lone(d, j) /\ d[j].opId = b.opId
  BY <1>9 DEF Acked
<1>11. \A k \in 1..Len(d) : d[k].type = "ack" => k = j
  BY <1>10 DEF Lone
<1>12. u = <<>>
  BY <1>9 DEF Acked
<1>13. /\ d[i].opId = b.opId /\ \A k \in DOMAIN d : d[k].type = "ack" => i = k
  BY <1>3, <1>5, <1>10, <1>11
<1> QED BY <1>12, <1>13 DEF b, d, u

LEMMA Accepting ==
    ASSUME WholeCharacters, IInv
    PROVE  SubmitsAreAccepted
<1> SUFFICES ASSUME NEW c \in Clients, NEW i \in DOMAIN up[c], up[c][i].type = "submit",
                    server.revision - up[c][i].revision <= MaxHistory
             PROVE  Acceptable(up[c][i])
  BY DEF SubmitsAreAccepted
<1>1. PICK L, C : Serves(server, L, C) /\ TracksAt(c, L, C)
  BY DEF IInv
<1> DEFINE R == server.revision
           H == Len(server.history)
           b == client[c]
           d == down[c]
           u == up[c]
           on == Subscribed(subs, c)
           lk == link[c]
<1>2. b \in BlipDocs /\ Phase(b, lk, on, u, d, R, H, L, C) /\ d \in Seq(Messages)
  BY <1>1 DEF TracksAt, Tracks
<1>3. R \in Nat /\ H \in Nat /\ H <= MaxHistory /\ Log(R, L, C) /\ server.content = C[R]
  BY <1>1, ServerIs
<1>4. on \in {"on", "off"}
  BY OnOrOff
<1>5. i \in DOMAIN u /\ u[i].type = "submit"
  OBVIOUS
<1> HIDE DEF R, H, b, d, u, on, lk
<1>6. Lifted(b, lk, on, u, d, R, H, L, C)
  BY <1>2, <1>4, Upward
<1>7. \A m : DOMAIN <<m>> = {1} /\ <<m>>[1] = m
  OBVIOUS
<1>8. OpenCommand.type = "open" /\ DOMAIN <<>> = {}
  BY DEF OpenCommand
<1>9. InFlight(b, u, d, R, H, L, C)
  BY <1>5, <1>6, <1>7, <1>8 DEF Lifted
<1>10. PICK m \in Submission : \E f :
           /\ u = <<m>> /\ m.opId = b.opId
           /\ m.revision <= b.revision /\ Kept(m.revision, R, H)
           /\ Path(f, m.revision, R, L, C)
           /\ f[m.revision] = m.delta /\ f[b.revision] = b.outstanding
  BY <1>9 DEF InFlight
<1>11. PICK f :
           /\ u = <<m>> /\ m.opId = b.opId
           /\ m.revision <= b.revision /\ Kept(m.revision, R, H)
           /\ Path(f, m.revision, R, L, C)
           /\ f[m.revision] = m.delta /\ f[b.revision] = b.outstanding
  BY <1>10
<1>12. up[c][i] = m
  BY <1>5, <1>7, <1>11 DEF u
<1>13. m.revision \in Nat /\ m.revision <= R
  <2>1. m.revision \in Nat /\ b.revision \in Nat /\ R = b.revision + Len(d) /\ Len(d) \in Nat
    BY <1>2, <1>9 DEF Submission, InFlight, BlipDocs
  <2> QED BY <1>3, <1>11, <2>1
<1>14. R - m.revision <= MaxHistory
  BY <1>12 DEF R
<1>15. m.revision >= R - H
  BY <1>3, <1>11, <1>13, <1>14, MaxHistoryAssumption DEF Kept
<1>16. InWindow(server, m.revision)
  BY <1>1, <1>13, <1>15, WindowIs DEF R, H
<1>17. Rebase(server, m.revision, m.delta) = f[R]
  BY <1>1, <1>11, <1>13, <1>16, RebaseIs DEF R
<1>18. f[R] \in Change /\ Reaches(f[R], C[R]) /\ C[R] \in Doc
  <2>1. R \in m.revision..R /\ R \in 0..R
    BY <1>3, <1>13
  <2> QED BY <1>3, <1>11, <2>1 DEF Path, Log
<1>19. Valid(f[R], server.content)
  BY <1>3, <1>18 DEF WholeCharacters
<1> QED BY <1>12, <1>16, <1>17, <1>19 DEF Acceptable, Rebased

LEMMA Converging ==
    ASSUME IInv
    PROVE  Converges
<1> SUFFICES ASSUME NEW c \in Clients, Quiet(c) PROVE client[c].doc = server.content
  BY DEF Converges
<1>1. PICK L, C : Serves(server, L, C) /\ TracksAt(c, L, C)
  BY DEF IInv
<1> DEFINE R == server.revision
           b == client[c]
<1>2. server.content = C[R]
  BY <1>1, ServerIs
<1>3. Follows(b, C[b.revision]) /\ \E e : Reads(e, b.revision, "on", <<>>, R, L, C)
  BY <1>1 DEF TracksAt, Tracks, Quiet, InStep, Subscribed
<1>4. b.revision = R
  <2>1. PICK e : Reads(e, b.revision, "on", <<>>, R, L, C)
    BY <1>3
  <2>2. Len(<<>>) = 0
    OBVIOUS
  <2> QED BY <2>1, <2>2 DEF Reads
<1>5. b.outstanding = NoChange /\ b.buffer = NoChange
  BY DEF Quiet, Synchronised
<1> QED BY <1>2, <1>3, <1>4, <1>5 DEF Follows, Applied

\* Every client is in one of the phases of the protocol, and what is on its way to it
\* leads from its document to the server's.
THEOREM CollabInvariant ==
    ASSUME AlgebraLaws, EditorLaw, EditsWhileGreeting = FALSE
    PROVE  Spec => []IInv
<1>1. Init => IInv
  BY InitTracks
<1>2. IInv /\ [Next]_vars => IInv'
  BY NextKeeps
<1> QED BY <1>1, <1>2, PTL DEF Spec

\* Whatever the clients type and however commits, acknowledgements, refusals, lost
\* sockets, replays and evictions interleave, a browser that has read what is on its
\* way shows the server's document with its own unconfirmed edits on top: for any
\* number of clients and edits, and every algebra with the laws above.
THEOREM ClientTracksServerAlways ==
    ASSUME AlgebraLaws, EditorLaw, EditsWhileGreeting = FALSE
    PROVE  Spec => []ClientTracksServer
<1>1. IInv => ClientTracksServer
  BY Tracking
<1> QED BY <1>1, CollabInvariant, PTL

\* A connected client's op is refused only when the history has lost its revision,
\* and the Ack a browser reads is for the op it has in flight, which the handler does
\* not check.
THEOREM SubmitsAreAnsweredAlways ==
    ASSUME AlgebraLaws, EditorLaw, WholeCharacters, EditsWhileGreeting = FALSE
    PROVE  Spec => []SubmitsAreAnswered
<1>1. IInv => SubmitsAreAnswered
  BY Accepting, Answering DEF SubmitsAreAnswered
<1> QED BY <1>1, CollabInvariant, PTL

\* Browsers with nothing in flight show the server's document, provided that nobody
\* types between the opening of a socket and its greeting.
THEOREM ConvergesAlways ==
    ASSUME AlgebraLaws, EditorLaw, EditsWhileGreeting = FALSE
    PROVE  Spec => []Converges
<1>1. IInv => Converges
  BY Converging
<1> QED BY <1>1, CollabInvariant, PTL
=============================================================================

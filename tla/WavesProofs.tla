---------------------------- MODULE WavesProofs ----------------------------
(***************************************************************************)
(* Proofs about Waves, for every set of accounts and connections, private  *)
(* replies, comment ids, modes and titles, and any number of messages.     *)
(***************************************************************************)
EXTENDS Waves, FiniteSetTheorems, WellFoundedInduction, TLAPS

-----------------------------------------------------------------------------
(* The inductive invariant.                                                *)

BlipMaps == UNION {[S -> Blip] : S \in SUBSET Blips}
ThreadMaps == UNION {[S -> Thread] : S \in SUBSET Threads}
WaveRecords == [creator : Users \cup {NoUser}, mode : AllModes,
                members : [Wavelets -> SUBSET Users],
                title : [Wavelets -> Titles \cup {FirstTitle}],
                anchor : [Privates -> {NoBlip} \cup Blips],
                blips : BlipMaps, threads : ThreadMaps]

\* Messages are numbered as they are written, and a message's place is below
\* its number, as no wavelet has more messages than were written before it.
Numbered(k, m) == \A b \in DOMAIN k.blips : b <= m /\ k.blips[b].seq < b

\* A private reply nobody has started has no people and no messages.
Begun(k) ==
    \A p \in Privates : k.anchor[p] = NoBlip =>
      k.members[p] = {} /\ \A b \in DOMAIN k.blips : k.blips[b].wavelet # p

Inside(k) == \A p \in Privates : k.members[p] \subseteq k.members[Root]

Distinct(k) ==
    \A a, b \in DOMAIN k.blips :
      k.blips[a].wavelet = k.blips[b].wavelet /\ k.blips[a].seq = k.blips[b].seq => a = b

\* What a message answers is a message proper, never a remark; a remark answers
\* the message of its thread, and both are of its wavelet.
Hung(k) ==
    /\ \A b \in DOMAIN k.blips :
         LET x == k.blips[b]
         IN /\ x.parent # NoBlip => /\ x.parent \in DOMAIN k.blips
                                    /\ k.blips[x.parent].wavelet = x.wavelet
                                    /\ k.blips[x.parent].thread = NoThread
            /\ x.thread # NoThread => /\ x.thread \in DOMAIN k.threads
                                      /\ x.parent = k.threads[x.thread].blip
    /\ \A p \in Privates : k.anchor[p] # NoBlip => k.anchor[p] \in DOMAIN k.blips
    /\ \A t \in DOMAIN k.threads :
         /\ k.threads[t].blip \in DOMAIN k.blips
         /\ k.blips[k.threads[t].blip].thread = NoThread
         /\ k.blips[k.threads[t].blip].wavelet = k.threads[t].wavelet
         /\ \E b \in DOMAIN k.blips : k.blips[b].thread = t

\* The copy, when there is one, is what is stored; whoever has found it has found
\* that one.
Cache ==
    /\ resident \in BOOLEAN /\ held \in [Conns -> {"none", "live"}]
    /\ subs \subseteq Conns /\ subscribed \subseteq Conns
    /\ changed \in [Conns -> SUBSET Wavelets]
    /\ orphan = Blank /\ live = IF resident THEN db ELSE Blank
    /\ (\E c \in Conns : held[c] = "live") \/ subs # {} => resident
    /\ ~Created => db = Blank /\ minted = 0 /\ ~resident /\ subscribed = {}

IsScreen(s) ==
    /\ s = [shown |-> s.shown, mode |-> s.mode, title |-> s.title, members |-> s.members,
            blips |-> s.blips, threads |-> s.threads]
    /\ s.shown \subseteq Wavelets

Shapes ==
    /\ minted \in 0..MaxBlips /\ db \in WaveRecords /\ Numbered(db, minted)
    /\ screen = [c \in Conns |-> screen[c]] /\ \A c \in Conns : IsScreen(screen[c])

Rows == Begun(db) /\ Inside(db) /\ Distinct(db)

IInv == Shapes /\ Cache /\ Rows

\* The screen s has the mode, the people and the titles of the wave k, for the
\* wavelets S; it shows no private reply before there is one.
Heads(s, k, S) ==
    /\ s.shown # {} /\ S \subseteq s.shown /\ s.mode = k.mode
    /\ DOMAIN s.title = s.shown /\ DOMAIN s.members = s.shown
    /\ \A w \in S : s.members[w] = k.members[w] /\ s.title[w] = k.title[w]
    /\ \A p \in Privates : p \in s.shown => k.anchor[p] # NoBlip

\* All it ever heard of is among the first m messages, and of a wavelet it shows.
Heard(s, m) ==
    /\ \A b \in DOMAIN s.blips : b \in Nat /\ b <= m /\ s.blips[b].wavelet \in s.shown
    /\ \A t \in DOMAIN s.threads : /\ s.threads[t] \in Thread /\ s.threads[t].blip <= m
                                   /\ s.threads[t].wavelet \in s.shown

\* It has the messages of S, and no other.
HasBlips(s, k, S) ==
    /\ \A b \in DOMAIN k.blips : k.blips[b].wavelet \in S =>
         b \in DOMAIN s.blips /\ s.blips[b] = k.blips[b]
    /\ \A b \in DOMAIN s.blips : s.blips[b].wavelet \in S =>
         b \in DOMAIN k.blips /\ s.blips[b] = k.blips[b]

\* It has the threads of S, and no other whose message it has: a client keeps the
\* threads of a message that was deleted.
HasThreads(s, k, S) ==
    /\ \A t \in DOMAIN k.threads : k.threads[t].wavelet \in S =>
         t \in DOMAIN s.threads /\ s.threads[t] = k.threads[t]
    /\ \A t \in DOMAIN s.threads : s.threads[t].wavelet \in S /\ s.threads[t].blip \in DOMAIN s.blips =>
         t \in DOMAIN k.threads /\ s.threads[t] = k.threads[t]

Shows(s, k, S, m) ==
    IsScreen(s) /\ Heads(s, k, S) /\ Heard(s, m) /\ HasBlips(s, k, S) /\ HasThreads(s, k, S)

\* The screen s of someone (u) who joined or left the wavelets ch since the snapshot.
ServedBy(s, k, u, ch, m) == MayView(k, u) /\ Shows(s, k, Visible(k, u) \ ch, m)
Served == \A d \in subs : ServedBy(screen[d], db, UserOf[d], changed[d], minted)

\* What every step does, as long as nobody waits for the lock of a copy that is
\* evicted: the invariant is kept, the rows stay linked unless a client leaves
\* them dangling, the watchers stay served and the rules are kept.
Links == Dangling = FALSE /\ Hung(db) => Hung(db')
Serves == Hung(db) /\ Served => Served'
Good == IInv' /\ Links /\ Serves /\ NothingLeaks /\ FrozenStaysFrozen

-----------------------------------------------------------------------------
(* Numbers.                                                                *)

\* A nonempty set of numbers below m has a greatest one.
LEMMA MaxIsIn ==
    ASSUME NEW m \in Nat, NEW S, S \subseteq 0..m, S # {}
    PROVE  Max(S) \in S /\ \A y \in S : Max(S) >= y
<1> DEFINE Below == {p \in Nat \X Nat : p[1] < p[2]}
           Above == {n \in Nat : \A y \in S : y <= n}
<1>1. IsWellFoundedOn(Below, Nat)
  BY NatLessThanWellFounded DEF OpToRel
<1>2. Above \subseteq Nat /\ m \in Above
  OBVIOUS
<1> HIDE DEF Below
<1>3. PICK u \in Above : \A n \in Above : ~ (<<n, u>> \in Below)
  BY <1>1, <1>2, WFMin
<1>4. u \in S
  <2> SUFFICES ASSUME u \notin S PROVE FALSE
    OBVIOUS
  <2>1. \A y \in S : y < u /\ y \in Nat
    BY <1>2
  <2>2. PICK z \in S : z \in Nat
    BY <2>1
  <2>3. u \in Nat /\ u >= 1
    BY <2>1, <2>2
  <2>4. u - 1 \in Above
    BY <2>1, <2>3
  <2>5. <<u - 1, u>> \in Nat \X Nat /\ <<u - 1, u>>[1] = u - 1 /\ <<u - 1, u>>[2] = u
    BY <2>3
  <2>6. <<u - 1, u>> \in Below
    BY <2>3, <2>5 DEF Below
  <2> QED BY <1>3, <2>4, <2>6
<1>5. \A y \in S : u >= y
  OBVIOUS
<1> QED BY <1>4, <1>5 DEF Max

\* The place of a new message: past every message of its wavelet, and no further
\* than the number of messages written.
LEMMA NextSeqIsPast ==
    ASSUME NEW k, NEW m \in Nat, Numbered(k, m), DOMAIN k.blips \subseteq Nat,
           \A b \in DOMAIN k.blips : k.blips[b].seq \in Nat, NEW w
    PROVE  /\ NextSeq(k, w) \in 0..m
           /\ \A b \in DOMAIN k.blips : k.blips[b].wavelet = w => k.blips[b].seq < NextSeq(k, w)
<1> DEFINE seqs == {k.blips[b].seq : b \in {x \in DOMAIN k.blips : k.blips[x].wavelet = w}}
<1>1. NextSeq(k, w) = IF seqs = {} THEN 0 ELSE Max(seqs) + 1
  BY DEF NextSeq
<1>2. seqs \subseteq 0..m /\ \A y \in seqs : y < m /\ y \in Nat
  BY DEF Numbered
<1>3. \A b \in DOMAIN k.blips : k.blips[b].wavelet = w => k.blips[b].seq \in seqs
  OBVIOUS
<1> HIDE DEF seqs
<1>4. CASE seqs = {}
  BY <1>1, <1>3, <1>4
<1>5. CASE seqs # {}
  <2>1. Max(seqs) \in seqs /\ \A y \in seqs : Max(seqs) >= y
    BY <1>2, <1>5, MaxIsIn
  <2>2. Max(seqs) \in Nat /\ Max(seqs) < m
    BY <1>2, <2>1
  <2>3. NextSeq(k, w) = Max(seqs) + 1
    BY <1>1, <1>5
  <2> QED BY <1>2, <1>3, <2>1, <2>2, <2>3
<1> QED BY <1>4, <1>5

-----------------------------------------------------------------------------
(* The records and tables of a wave.                                       *)

LEMMA BlipMapIs ==
    ASSUME NEW f \in BlipMaps
    PROVE  /\ DOMAIN f \subseteq Blips /\ \A b \in DOMAIN f : f[b] \in Blip
           /\ \A S \in SUBSET (DOMAIN f) : Restrict(f, S) \in BlipMaps
           /\ \A b \in Blips, x \in Blip :
                [y \in DOMAIN f \cup {b} |-> IF y = b THEN x ELSE f[y]] \in BlipMaps
<1>1. DOMAIN f \subseteq Blips /\ \A b \in DOMAIN f : f[b] \in Blip
  BY DEF BlipMaps
<1>2. ASSUME NEW S \in SUBSET (DOMAIN f) PROVE Restrict(f, S) \in BlipMaps
  <2>1. Restrict(f, S) \in [S -> Blip] /\ S \in SUBSET Blips
    BY <1>1 DEF Restrict
  <2> QED BY <2>1 DEF BlipMaps
<1>3. ASSUME NEW b \in Blips, NEW x \in Blip
      PROVE  [y \in DOMAIN f \cup {b} |-> IF y = b THEN x ELSE f[y]] \in BlipMaps
  <2>1. /\ [y \in DOMAIN f \cup {b} |-> IF y = b THEN x ELSE f[y]] \in [DOMAIN f \cup {b} -> Blip]
        /\ DOMAIN f \cup {b} \in SUBSET Blips
    BY <1>1
  <2> QED BY <2>1 DEF BlipMaps
<1> QED BY <1>1, <1>2, <1>3

LEMMA ThreadMapIs ==
    ASSUME NEW f \in ThreadMaps
    PROVE  /\ DOMAIN f \subseteq Threads /\ \A t \in DOMAIN f : f[t] \in Thread
           /\ \A S \in SUBSET (DOMAIN f) : Restrict(f, S) \in ThreadMaps
           /\ \A t \in Threads, x \in Thread :
                [y \in DOMAIN f \cup {t} |-> IF y = t THEN x ELSE f[y]] \in ThreadMaps
<1>1. DOMAIN f \subseteq Threads /\ \A t \in DOMAIN f : f[t] \in Thread
  BY DEF ThreadMaps
<1>2. ASSUME NEW S \in SUBSET (DOMAIN f) PROVE Restrict(f, S) \in ThreadMaps
  <2>1. Restrict(f, S) \in [S -> Thread] /\ S \in SUBSET Threads
    BY <1>1 DEF Restrict
  <2> QED BY <2>1 DEF ThreadMaps
<1>3. ASSUME NEW t \in Threads, NEW x \in Thread
      PROVE  [y \in DOMAIN f \cup {t} |-> IF y = t THEN x ELSE f[y]] \in ThreadMaps
  <2>1. /\ [y \in DOMAIN f \cup {t} |-> IF y = t THEN x ELSE f[y]] \in [DOMAIN f \cup {t} -> Thread]
        /\ DOMAIN f \cup {t} \in SUBSET Threads
    BY <1>1
  <2> QED BY <2>1 DEF ThreadMaps
<1> QED BY <1>1, <1>2, <1>3

\* What a wave holds.
LEMMA WaveIs ==
    ASSUME NEW k \in WaveRecords
    PROVE  /\ k.creator \in Users \cup {NoUser} /\ k.mode \in AllModes
           /\ k.members \in [Wavelets -> SUBSET Users]
           /\ k.title \in [Wavelets -> Titles \cup {FirstTitle}]
           /\ k.anchor \in [Privates -> {NoBlip} \cup Blips]
           /\ k.blips \in BlipMaps /\ k.threads \in ThreadMaps
           /\ DOMAIN k.blips \subseteq Blips /\ DOMAIN k.blips \subseteq Nat
           /\ DOMAIN k.threads \subseteq Threads
           /\ \A b \in DOMAIN k.blips :
                /\ k.blips[b] \in Blip /\ k.blips[b].wavelet \in Wavelets
                /\ k.blips[b].seq \in Nat
           /\ \A t \in DOMAIN k.threads :
                k.threads[t] \in Thread /\ k.threads[t].wavelet \in Wavelets /\ k.threads[t].blip \in Blips
<1>1. k.blips \in BlipMaps /\ k.threads \in ThreadMaps
  BY DEF WaveRecords
<1>2. DOMAIN k.blips \subseteq Blips /\ \A b \in DOMAIN k.blips : k.blips[b] \in Blip
  BY <1>1, BlipMapIs
<1>3. DOMAIN k.threads \subseteq Threads /\ \A t \in DOMAIN k.threads : k.threads[t] \in Thread
  BY <1>1, ThreadMapIs
<1>4. \A x \in Blip : x.wavelet \in Wavelets /\ x.seq \in Nat
  BY WavesAssumption DEF Blip
<1>5. \A x \in Thread : x.wavelet \in Wavelets /\ x.blip \in Blips
  BY DEF Thread
<1>6. Blips \subseteq Nat
  BY WavesAssumption DEF Blips
<1>7. /\ k.creator \in Users \cup {NoUser} /\ k.mode \in AllModes
      /\ k.members \in [Wavelets -> SUBSET Users]
      /\ k.title \in [Wavelets -> Titles \cup {FirstTitle}]
      /\ k.anchor \in [Privates -> {NoBlip} \cup Blips]
  BY DEF WaveRecords
<1> QED BY <1>1, <1>2, <1>3, <1>4, <1>5, <1>6, <1>7

LEMMA WithBlipIs ==
    ASSUME NEW k \in WaveRecords, NEW b \in Blips, NEW x \in Blip
    PROVE  LET q == WithBlip(k, b, x)
           IN /\ q \in WaveRecords /\ q.creator = k.creator /\ q.mode = k.mode
              /\ q.members = k.members /\ q.title = k.title /\ q.anchor = k.anchor
              /\ q.threads = k.threads
              /\ DOMAIN q.blips = DOMAIN k.blips \cup {b} /\ q.blips[b] = x
              /\ \A y \in DOMAIN k.blips \ {b} : q.blips[y] = k.blips[y]
<1> DEFINE f == [y \in DOMAIN k.blips \cup {b} |-> IF y = b THEN x ELSE k.blips[y]]
<1>1. f \in BlipMaps
  BY WaveIs, BlipMapIs
<1>2. DOMAIN f = DOMAIN k.blips \cup {b} /\ f[b] = x /\ \A y \in DOMAIN k.blips \ {b} : f[y] = k.blips[y]
  OBVIOUS
<1>3. WithBlip(k, b, x) = [k EXCEPT !.blips = f]
  BY DEF WithBlip
<1> HIDE DEF f
<1> QED BY <1>1, <1>2, <1>3 DEF WaveRecords

LEMMA WithThreadIs ==
    ASSUME NEW k \in WaveRecords, NEW t \in Threads, NEW x \in Thread
    PROVE  LET q == WithThread(k, t, x)
           IN /\ q \in WaveRecords /\ q.creator = k.creator /\ q.mode = k.mode
              /\ q.members = k.members /\ q.title = k.title /\ q.anchor = k.anchor
              /\ q.blips = k.blips
              /\ DOMAIN q.threads = DOMAIN k.threads \cup {t} /\ q.threads[t] = x
              /\ \A y \in DOMAIN k.threads \ {t} : q.threads[y] = k.threads[y]
<1> DEFINE f == [y \in DOMAIN k.threads \cup {t} |-> IF y = t THEN x ELSE k.threads[y]]
<1>1. f \in ThreadMaps
  BY WaveIs, ThreadMapIs
<1>2. DOMAIN f = DOMAIN k.threads \cup {t} /\ f[t] = x
      /\ \A y \in DOMAIN k.threads \ {t} : f[y] = k.threads[y]
  OBVIOUS
<1>3. WithThread(k, t, x) = [k EXCEPT !.threads = f]
  BY DEF WithThread
<1> HIDE DEF f
<1> QED BY <1>1, <1>2, <1>3 DEF WaveRecords

-----------------------------------------------------------------------------
(* What each command does to the rows.                                     *)

\* The rows q are those of k and one more message, b.
OneMore(k, q, b, x) ==
    /\ q \in WaveRecords /\ q.creator = k.creator
    /\ DOMAIN q.blips = DOMAIN k.blips \cup {b} /\ q.blips[b] = x /\ b \notin DOMAIN k.blips
    /\ \A y \in DOMAIN k.blips : q.blips[y] = k.blips[y]

\* A new message at the end of its wavelet, one that was started.
LEMMA OneMoreRows ==
    ASSUME NEW k \in WaveRecords, NEW q, NEW m \in Nat, NEW x \in Blip, OneMore(k, q, m + 1, x),
           q.members = k.members, q.anchor = k.anchor, k.members[x.wavelet] # {},
           x.seq <= m, \A b \in DOMAIN k.blips : k.blips[b].wavelet = x.wavelet => k.blips[b].seq < x.seq,
           Numbered(k, m), Begun(k), Inside(k), Distinct(k)
    PROVE  Numbered(q, m + 1) /\ Begun(q) /\ Inside(q) /\ Distinct(q)
<1>1. x.seq \in Nat /\ DOMAIN k.blips \subseteq Nat /\ \A b \in DOMAIN k.blips : k.blips[b].seq \in Nat
  BY WaveIs, WavesAssumption DEF Blip
<1>2. Numbered(q, m + 1)
  BY <1>1 DEF Numbered, OneMore
<1>3. Begun(q)
  BY DEF Begun, OneMore
<1>4. Inside(q)
  BY DEF Inside
<1>5. Distinct(q)
  <2> SUFFICES ASSUME NEW a \in DOMAIN q.blips, NEW b \in DOMAIN q.blips,
                      q.blips[a].wavelet = q.blips[b].wavelet, q.blips[a].seq = q.blips[b].seq
               PROVE  a = b
    BY DEF Distinct
  <2>1. CASE a = m + 1 /\ b # m + 1
    BY <1>1, <2>1 DEF OneMore
  <2>2. CASE a # m + 1 /\ b = m + 1
    BY <1>1, <2>2 DEF OneMore
  <2>3. CASE a # m + 1 /\ b # m + 1
    BY <2>3 DEF OneMore, Distinct
  <2> QED BY <2>1, <2>2, <2>3
<1> QED BY <1>2, <1>3, <1>4, <1>5

\* A message that answers a message proper of its wavelet; a remark comes with its
\* thread or to it.
LEMMA OneMoreHung ==
    ASSUME NEW k, NEW q, NEW b, NEW x, OneMore(k, q, b, x), Hung(k), q.anchor = k.anchor,
           x.parent # NoBlip => /\ x.parent \in DOMAIN k.blips
                                /\ k.blips[x.parent].wavelet = x.wavelet
                                /\ k.blips[x.parent].thread = NoThread,
           DOMAIN k.threads \subseteq DOMAIN q.threads,
           \A t \in DOMAIN k.threads : q.threads[t] = k.threads[t],
           \A t \in DOMAIN q.threads : t \in DOMAIN k.threads \/ t = x.thread,
           x.thread # NoThread => /\ x.thread \in DOMAIN q.threads /\ x.parent # NoBlip
                                  /\ q.threads[x.thread].blip = x.parent
                                  /\ q.threads[x.thread].wavelet = x.wavelet,
           NoThread \notin DOMAIN q.threads
    PROVE  Hung(q)
<1>1. ASSUME NEW a \in DOMAIN q.blips
      PROVE  /\ q.blips[a].parent # NoBlip => /\ q.blips[a].parent \in DOMAIN q.blips
                                              /\ q.blips[q.blips[a].parent].wavelet = q.blips[a].wavelet
                                              /\ q.blips[q.blips[a].parent].thread = NoThread
             /\ q.blips[a].thread # NoThread => /\ q.blips[a].thread \in DOMAIN q.threads
                                                /\ q.blips[a].parent = q.threads[q.blips[a].thread].blip
  <2>1. CASE a = b
    BY <2>1 DEF OneMore
  <2>2. CASE a # b
    <3>1. a \in DOMAIN k.blips /\ q.blips[a] = k.blips[a]
      BY <2>2 DEF OneMore
    <3> QED BY <3>1 DEF OneMore, Hung
  <2> QED BY <2>1, <2>2
<1>2. \A p \in Privates : q.anchor[p] # NoBlip => q.anchor[p] \in DOMAIN q.blips
  BY DEF OneMore, Hung
<1>3. ASSUME NEW t \in DOMAIN q.threads
      PROVE  /\ q.threads[t].blip \in DOMAIN q.blips
             /\ q.blips[q.threads[t].blip].thread = NoThread
             /\ q.blips[q.threads[t].blip].wavelet = q.threads[t].wavelet
             /\ \E a \in DOMAIN q.blips : q.blips[a].thread = t
  <2>1. CASE t \in DOMAIN k.threads
    <3>1. PICK a \in DOMAIN k.blips : k.blips[a].thread = t
      BY <2>1 DEF Hung
    <3>2. a \in DOMAIN q.blips /\ q.blips[a].thread = t
      BY <3>1 DEF OneMore
    <3>3. /\ q.threads[t].blip \in DOMAIN k.blips
          /\ k.blips[q.threads[t].blip].thread = NoThread
          /\ k.blips[q.threads[t].blip].wavelet = q.threads[t].wavelet
      BY <2>1 DEF Hung
    <3> QED BY <3>2, <3>3 DEF OneMore
  <2>2. CASE t \notin DOMAIN k.threads
    <3>1. t = x.thread /\ x.thread # NoThread
      BY <2>2
    <3> QED BY <3>1 DEF OneMore
  <2> QED BY <2>1, <2>2
<1> QED BY <1>1, <1>2, <1>3 DEF Hung

\* A change that leaves the messages where they are and what they hang off.
LEMMA SameHung ==
    ASSUME NEW k, NEW q, Hung(k), q.blips = k.blips, q.anchor = k.anchor,
           DOMAIN q.threads = DOMAIN k.threads,
           \A t \in DOMAIN k.threads : /\ q.threads[t].blip = k.threads[t].blip
                                       /\ q.threads[t].wavelet = k.threads[t].wavelet
    PROVE  Hung(q)
<1>1. \A b \in DOMAIN q.blips :
        /\ q.blips[b].parent # NoBlip => /\ q.blips[b].parent \in DOMAIN q.blips
                                         /\ q.blips[q.blips[b].parent].wavelet = q.blips[b].wavelet
                                         /\ q.blips[q.blips[b].parent].thread = NoThread
        /\ q.blips[b].thread # NoThread => /\ q.blips[b].thread \in DOMAIN q.threads
                                           /\ q.blips[b].parent = q.threads[q.blips[b].thread].blip
  BY DEF Hung
<1>2. \A t \in DOMAIN q.threads :
        /\ q.threads[t].blip \in DOMAIN q.blips
        /\ q.blips[q.threads[t].blip].thread = NoThread
        /\ q.blips[q.threads[t].blip].wavelet = q.threads[t].wavelet
        /\ \E b \in DOMAIN q.blips : q.blips[b].thread = t
  BY DEF Hung
<1>3. \A p \in Privates : q.anchor[p] # NoBlip => q.anchor[p] \in DOMAIN q.blips
  BY DEF Hung
<1> QED BY <1>1, <1>2, <1>3 DEF Hung

\* The rows q are those of k without a message and the threads on it.
Without(k, b) ==
    LET gone == {t \in DOMAIN k.threads : k.threads[t].blip = b}
    IN [k EXCEPT !.blips = Restrict(k.blips, DOMAIN k.blips \ ({b} \cup Remarks(k, gone))),
                 !.threads = Restrict(k.threads, DOMAIN k.threads \ gone)]

\* Storage and the resident copy lose the same rows.
LEMMA DeleteRowsIs ==
    ASSUME NEW k \in WaveRecords, NEW b
    PROVE  /\ DeleteRows(k, b) = Without(k, b)
           /\ LET q == Without(k, b)
                  gone == {t \in DOMAIN k.threads : k.threads[t].blip = b}
              IN /\ q \in WaveRecords /\ q.creator = k.creator /\ q.mode = k.mode
                 /\ q.members = k.members /\ q.title = k.title /\ q.anchor = k.anchor
                 /\ DOMAIN q.threads = DOMAIN k.threads \ gone
                 /\ \A t \in DOMAIN q.threads : q.threads[t] = k.threads[t]
                 /\ DOMAIN q.blips = {x \in DOMAIN k.blips : x # b /\ k.blips[x].thread \notin gone}
                 /\ \A x \in DOMAIN q.blips : q.blips[x] = k.blips[x]
<1> DEFINE gone == {t \in DOMAIN k.threads : k.threads[t].blip = b}
           kept == {x \in DOMAIN k.blips : x # b /\ k.blips[x].thread \notin gone}
           f == Restrict(k.blips, kept)
           g == Restrict(k.threads, DOMAIN k.threads \ gone)
<1>1. DOMAIN k.blips \ ({b} \cup Remarks(k, gone)) = kept
  BY DEF Remarks
<1>2. DeleteRows(k, b) = [k EXCEPT !.blips = f, !.threads = g]
  BY DEF DeleteRows
<1>3. Without(k, b) = [k EXCEPT !.blips = f, !.threads = g]
  BY <1>1 DEF Without
<1>4. DOMAIN f = kept /\ \A x \in kept : f[x] = k.blips[x]
  BY DEF Restrict
<1>5. DOMAIN g = DOMAIN k.threads \ gone /\ \A t \in DOMAIN k.threads \ gone : g[t] = k.threads[t]
  BY DEF Restrict
<1>6. f \in BlipMaps /\ g \in ThreadMaps
  <2>1. kept \in SUBSET (DOMAIN k.blips) /\ DOMAIN k.threads \ gone \in SUBSET (DOMAIN k.threads)
    OBVIOUS
  <2> QED BY <2>1, WaveIs, BlipMapIs, ThreadMapIs
<1> HIDE DEF f, g, kept, gone
<1>7. LET q == [k EXCEPT !.blips = f, !.threads = g]
      IN /\ q \in WaveRecords /\ q.creator = k.creator /\ q.mode = k.mode
         /\ q.members = k.members /\ q.title = k.title /\ q.anchor = k.anchor
         /\ q.blips = f /\ q.threads = g
  BY <1>6 DEF WaveRecords
<1> QED BY <1>2, <1>3, <1>4, <1>5, <1>7 DEF kept, gone

LEMMA DeleteKeepsRows ==
    ASSUME NEW k \in WaveRecords, NEW b, NEW m \in Nat, Numbered(k, m), Begun(k), Inside(k), Distinct(k)
    PROVE  LET q == DeleteRows(k, b) IN Numbered(q, m) /\ Begun(q) /\ Inside(q) /\ Distinct(q)
<1> DEFINE q == DeleteRows(k, b)
<1>1. /\ q.members = k.members /\ q.anchor = k.anchor /\ DOMAIN q.blips \subseteq DOMAIN k.blips
      /\ \A x \in DOMAIN q.blips : q.blips[x] = k.blips[x]
  BY DeleteRowsIs
<1> HIDE DEF q
<1>2. Numbered(q, m) /\ Begun(q)
  BY <1>1 DEF Numbered, Begun
<1>3. Inside(q) /\ Distinct(q)
  BY <1>1 DEF Inside, Distinct
<1> QED BY <1>2, <1>3 DEF q

\* A message proper without replies or private replies goes with the threads on
\* it, and nothing is left that hung off them.
LEMMA DeleteKeepsLinks ==
    ASSUME NEW k \in WaveRecords, NEW b \in DOMAIN k.blips, Hung(k),
           k.blips[b].thread = NoThread, ~HasReplies(k, b),
           LET gone == {t \in DOMAIN k.threads : k.threads[t].blip = b}
           IN \A p \in Privates : k.anchor[p] \notin {b} \cup Remarks(k, gone)
    PROVE  Hung(DeleteRows(k, b))
<1> DEFINE q == DeleteRows(k, b)
           gone == {t \in DOMAIN k.threads : k.threads[t].blip = b}
<1>1. /\ q.anchor = k.anchor /\ DOMAIN q.threads = DOMAIN k.threads \ gone
      /\ \A t \in DOMAIN q.threads : q.threads[t] = k.threads[t]
      /\ \A x : x \in DOMAIN q.blips <=> x \in DOMAIN k.blips /\ x # b /\ k.blips[x].thread \notin gone
      /\ \A x \in DOMAIN q.blips : q.blips[x] = k.blips[x]
  BY DeleteRowsIs
<1>2. NoThread \notin gone
  BY WaveIs, WavesAssumption
<1>3. \A t \in DOMAIN k.threads : t \in gone <=> k.threads[t].blip = b
  OBVIOUS
<1>4. \A p \in Privates : k.anchor[p] # b /\ (k.anchor[p] \in DOMAIN k.blips => k.blips[k.anchor[p]].thread \notin gone)
  BY DEF Remarks
<1> HIDE DEF q, gone
<1>5. ASSUME NEW x \in DOMAIN q.blips
      PROVE  /\ q.blips[x].parent # NoBlip => /\ q.blips[x].parent \in DOMAIN q.blips
                                              /\ q.blips[q.blips[x].parent].wavelet = q.blips[x].wavelet
                                              /\ q.blips[q.blips[x].parent].thread = NoThread
             /\ q.blips[x].thread # NoThread => /\ q.blips[x].thread \in DOMAIN q.threads
                                                /\ q.blips[x].parent = q.threads[q.blips[x].thread].blip
  <2>1. x \in DOMAIN k.blips /\ q.blips[x] = k.blips[x] /\ k.blips[x].thread \notin gone
    BY <1>1
  <2>2. /\ k.blips[x].parent # NoBlip => /\ k.blips[x].parent \in DOMAIN k.blips
                                         /\ k.blips[k.blips[x].parent].wavelet = k.blips[x].wavelet
                                         /\ k.blips[k.blips[x].parent].thread = NoThread
        /\ k.blips[x].thread # NoThread => /\ k.blips[x].thread \in DOMAIN k.threads
                                           /\ k.blips[x].parent = k.threads[k.blips[x].thread].blip
    BY <2>1 DEF Hung
  <2>3. k.blips[x].parent # b
    <3>1. CASE k.blips[x].thread = NoThread
      BY <2>1, <3>1 DEF HasReplies
    <3>2. CASE k.blips[x].thread # NoThread
      BY <1>3, <2>1, <2>2, <3>2
    <3> QED BY <3>1, <3>2
  <2>4. k.blips[x].parent # NoBlip => /\ k.blips[x].parent \in DOMAIN q.blips
                                      /\ q.blips[k.blips[x].parent] = k.blips[k.blips[x].parent]
    BY <1>1, <1>2, <2>2, <2>3
  <2>5. k.blips[x].thread # NoThread => /\ k.blips[x].thread \in DOMAIN q.threads
                                        /\ q.threads[k.blips[x].thread] = k.threads[k.blips[x].thread]
    BY <1>1, <2>1, <2>2
  <2> QED BY <2>1, <2>2, <2>4, <2>5
<1>6. \A p \in Privates : q.anchor[p] # NoBlip => q.anchor[p] \in DOMAIN q.blips
  BY <1>1, <1>4 DEF Hung
<1>7. ASSUME NEW t \in DOMAIN q.threads
      PROVE  /\ q.threads[t].blip \in DOMAIN q.blips
             /\ q.blips[q.threads[t].blip].thread = NoThread
             /\ q.blips[q.threads[t].blip].wavelet = q.threads[t].wavelet
             /\ \E a \in DOMAIN q.blips : q.blips[a].thread = t
  <2>1. t \in DOMAIN k.threads /\ q.threads[t] = k.threads[t] /\ k.threads[t].blip # b /\ t \notin gone
    BY <1>1, <1>3
  <2>2. /\ k.threads[t].blip \in DOMAIN k.blips
        /\ k.blips[k.threads[t].blip].thread = NoThread
        /\ k.blips[k.threads[t].blip].wavelet = k.threads[t].wavelet
    BY <2>1 DEF Hung
  <2>3. PICK a \in DOMAIN k.blips : k.blips[a].thread = t
    BY <2>1 DEF Hung
  <2>4. t # NoThread
    BY <2>1, WaveIs, WavesAssumption
  <2>5. a \in DOMAIN q.blips /\ q.blips[a].thread = t
    BY <1>1, <2>1, <2>3, <2>4
  <2> QED BY <1>1, <1>2, <2>1, <2>2, <2>5
<1>8. Hung(q)
  BY <1>5, <1>6, <1>7 DEF Hung
<1> QED BY <1>8 DEF q

\* Only the mode, a title or a settled thread changes.
LEMMA SameRows ==
    ASSUME NEW k, NEW q, NEW m, Numbered(k, m), Begun(k), Inside(k), Distinct(k),
           q.blips = k.blips, q.anchor = k.anchor, q.members = k.members
    PROVE  Numbered(q, m) /\ Begun(q) /\ Inside(q) /\ Distinct(q)
<1>1. Numbered(q, m) /\ Begun(q)
  BY DEF Numbered, Begun
<1>2. Inside(q) /\ Distinct(q)
  BY DEF Inside, Distinct
<1> QED BY <1>1, <1>2

LEMMA RetitledIs ==
    ASSUME NEW k \in WaveRecords, NEW w \in Wavelets, NEW title \in Titles
    PROVE  LET q == [k EXCEPT !.title[w] = title]
           IN /\ q \in WaveRecords /\ q.creator = k.creator /\ q.mode = k.mode
              /\ q.members = k.members /\ q.anchor = k.anchor
              /\ q.blips = k.blips /\ q.threads = k.threads
              /\ q.title = [k.title EXCEPT ![w] = title]
<1> DEFINE f == [k.title EXCEPT ![w] = title]
<1>1. [k EXCEPT !.title[w] = title] = [k EXCEPT !.title = f]
  BY DEF WaveRecords
<1>2. f \in [Wavelets -> Titles \cup {FirstTitle}]
  BY WaveIs
<1> HIDE DEF f
<1>3. LET q == [k EXCEPT !.title = f]
      IN /\ q \in WaveRecords /\ q.creator = k.creator /\ q.mode = k.mode
         /\ q.members = k.members /\ q.anchor = k.anchor
         /\ q.blips = k.blips /\ q.threads = k.threads /\ q.title = f
  BY <1>2 DEF WaveRecords
<1> QED BY <1>1, <1>3 DEF f

LEMMA RemodedIs ==
    ASSUME NEW k \in WaveRecords, NEW mode \in AllModes
    PROVE  LET q == [k EXCEPT !.mode = mode]
           IN /\ q \in WaveRecords /\ q.creator = k.creator /\ q.mode = mode
              /\ q.members = k.members /\ q.title = k.title /\ q.anchor = k.anchor
              /\ q.blips = k.blips /\ q.threads = k.threads
BY DEF WaveRecords

\* A thread is settled or open again, and nothing else.
OneSettled(k, q, t, resolved) ==
    /\ q \in WaveRecords /\ q.creator = k.creator /\ q.mode = k.mode
    /\ q.members = k.members /\ q.title = k.title /\ q.anchor = k.anchor
    /\ q.blips = k.blips /\ DOMAIN q.threads = DOMAIN k.threads
    /\ q.threads[t] = [k.threads[t] EXCEPT !.resolved = resolved]
    /\ \A x \in DOMAIN k.threads \ {t} : q.threads[x] = k.threads[x]
    /\ \A x \in DOMAIN k.threads : /\ q.threads[x].blip = k.threads[x].blip
                                   /\ q.threads[x].wavelet = k.threads[x].wavelet

LEMMA ResolvedIs ==
    ASSUME NEW k \in WaveRecords, NEW t \in DOMAIN k.threads, NEW resolved \in BOOLEAN
    PROVE  OneSettled(k, [k EXCEPT !.threads[t].resolved = resolved], t, resolved)
<1> DEFINE x == [k.threads[t] EXCEPT !.resolved = resolved]
           f == [k.threads EXCEPT ![t] = x]
<1>1. [k EXCEPT !.threads[t].resolved = resolved] = [k EXCEPT !.threads = f]
  BY DEF WaveRecords
<1>2. k.threads \in ThreadMaps /\ k.threads[t] \in Thread /\ t \in Threads
  BY WaveIs
<1>3. x \in Thread /\ x.blip = k.threads[t].blip /\ x.wavelet = k.threads[t].wavelet
  BY <1>2 DEF Thread
<1> HIDE DEF x
<1>4. DOMAIN f = DOMAIN k.threads /\ f[t] = x /\ \A y \in DOMAIN k.threads \ {t} : f[y] = k.threads[y]
  OBVIOUS
<1>5. f \in ThreadMaps
  <2>1. k.threads \in [DOMAIN k.threads -> Thread] /\ DOMAIN k.threads \in SUBSET Threads
    BY <1>2 DEF ThreadMaps
  <2>2. f \in [DOMAIN k.threads -> Thread]
    BY <1>3, <2>1
  <2> QED BY <2>1, <2>2 DEF ThreadMaps
<1> HIDE DEF f
<1>6. LET q == [k EXCEPT !.threads = f]
      IN /\ q \in WaveRecords /\ q.creator = k.creator /\ q.mode = k.mode
         /\ q.members = k.members /\ q.title = k.title /\ q.anchor = k.anchor
         /\ q.blips = k.blips /\ q.threads = f
  BY <1>5 DEF WaveRecords
<1>7. \A y \in DOMAIN k.threads : f[y].blip = k.threads[y].blip /\ f[y].wavelet = k.threads[y].wavelet
  BY <1>3, <1>4
<1> DEFINE q == [k EXCEPT !.threads = f]
<1> HIDE DEF q
<1>8. OneSettled(k, q, t, resolved)
  BY <1>4, <1>6, <1>7 DEF OneSettled, q, x
<1> QED BY <1>1, <1>8 DEF q

\* The people of a wave change and nothing else.
LEMMA PeopledIs ==
    ASSUME NEW k \in WaveRecords, NEW f \in [Wavelets -> SUBSET Users]
    PROVE  LET q == [k EXCEPT !.members = f]
           IN /\ q \in WaveRecords /\ q.creator = k.creator /\ q.mode = k.mode
              /\ q.members = f /\ q.title = k.title /\ q.anchor = k.anchor
              /\ q.blips = k.blips /\ q.threads = k.threads
BY DEF WaveRecords

LEMMA PeopledRows ==
    ASSUME NEW k, NEW q, NEW m, Numbered(k, m), Begun(k), Inside(q), Distinct(k),
           q.blips = k.blips, q.anchor = k.anchor,
           \A w \in Wavelets : k.members[w] = {} => q.members[w] = {}
    PROVE  Numbered(q, m) /\ Begun(q) /\ Distinct(q)
<1>1. Privates \subseteq Wavelets
  BY DEF Wavelets
<1>2. Numbered(q, m) /\ Distinct(q)
  BY DEF Numbered, Distinct
<1>3. Begun(q)
  BY <1>1 DEF Begun
<1> QED BY <1>2, <1>3

\* The rows q are those of k but for who is in which wavelet, and make sense.
OtherPeople(k, q, m) ==
    /\ q \in WaveRecords /\ q.creator = k.creator /\ q.mode = k.mode
    /\ q.title = k.title /\ q.anchor = k.anchor
    /\ q.blips = k.blips /\ q.threads = k.threads
    /\ Numbered(q, m) /\ Begun(q) /\ Inside(q) /\ Distinct(q)

\* Someone inside the conversation joins a wavelet that has people.
LEMMA JoinRows ==
    ASSUME NEW k \in WaveRecords, NEW m, NEW w \in Wavelets, NEW u \in k.members[w], NEW v \in Users,
           w \in Privates => v \in k.members[Root],
           Numbered(k, m), Begun(k), Inside(k), Distinct(k)
    PROVE  OtherPeople(k, [k EXCEPT !.members[w] = @ \cup {v}], m)
<1> DEFINE f == [k.members EXCEPT ![w] = k.members[w] \cup {v}]
           q == [k EXCEPT !.members = f]
<1>1. [k EXCEPT !.members[w] = @ \cup {v}] = q
  BY DEF WaveRecords
<1>2. k.members \in [Wavelets -> SUBSET Users]
  BY WaveIs
<1>3. /\ f \in [Wavelets -> SUBSET Users] /\ f[w] = k.members[w] \cup {v}
      /\ \A x \in Wavelets \ {w} : f[x] = k.members[x]
  BY <1>2
<1> HIDE DEF f
<1>4. /\ q \in WaveRecords /\ q.creator = k.creator /\ q.mode = k.mode
      /\ q.members = f /\ q.title = k.title /\ q.anchor = k.anchor
      /\ q.blips = k.blips /\ q.threads = k.threads
  BY <1>3, PeopledIs
<1> HIDE DEF q
<1>5. Root \in Wavelets /\ Privates \subseteq Wavelets /\ Root \notin Privates
  BY WavesAssumption DEF Wavelets
<1>6. Inside(q)
  BY <1>3, <1>4, <1>5 DEF Inside
<1>7. \A x \in Wavelets : k.members[x] = {} => q.members[x] = {}
  BY <1>3, <1>4
<1>8. Numbered(q, m) /\ Begun(q) /\ Distinct(q)
  BY <1>4, <1>6, <1>7, PeopledRows
<1>9. OtherPeople(k, q, m)
  BY <1>4, <1>6, <1>8 DEF OtherPeople
<1> QED BY <1>1, <1>9

\* Someone leaves a wavelet, and the private replies with the conversation; the
\* resident copy loses the same people.
LEMMA LeaveRows ==
    ASSUME NEW k \in WaveRecords, NEW m, NEW w \in Wavelets, NEW v,
           Numbered(k, m), Begun(k), Inside(k), Distinct(k)
    PROVE  /\ OtherPeople(k, RemoveRows(k, w, v), m)
           /\ RemoveRows(k, w, v) = [k EXCEPT !.members = [x \in Wavelets |->
                IF x \in {w} \cup Cascaded(k, w, v) THEN k.members[x] \ {v} ELSE k.members[x]]]
<1> DEFINE gone == {w} \cup Cascaded(k, w, v)
           f == [x \in Wavelets |-> IF x \in gone THEN k.members[x] \ {v} ELSE k.members[x]]
           g == [x \in Wavelets |->
                  IF x = w \/ (w = Root /\ x \in Privates) THEN k.members[x] \ {v} ELSE k.members[x]]
           q == [k EXCEPT !.members = f]
<1>1. k.members \in [Wavelets -> SUBSET Users]
  BY WaveIs
<1>2. ASSUME NEW x \in Wavelets PROVE f[x] = g[x]
  <2>1. x \in Cascaded(k, w, v) <=> x \in Privates /\ w = Root /\ v \in k.members[x]
    BY DEF Cascaded
  <2>2. v \notin k.members[x] => k.members[x] \ {v} = k.members[x]
    OBVIOUS
  <2> QED BY <2>1, <2>2
<1>3. f = g
  BY <1>2
<1>4. RemoveRows(k, w, v) = q
  BY <1>3 DEF RemoveRows
<1>5. f \in [Wavelets -> SUBSET Users]
      /\ \A x \in Wavelets : f[x] = IF x \in gone THEN k.members[x] \ {v} ELSE k.members[x]
  BY <1>1
<1>6. \A x \in Wavelets : f[x] = IF x = w \/ (w = Root /\ x \in Privates) THEN k.members[x] \ {v} ELSE k.members[x]
  BY <1>3
<1>7. q = [k EXCEPT !.members = [x \in Wavelets |->
                        IF x \in gone THEN k.members[x] \ {v} ELSE k.members[x]]]
  OBVIOUS
<1> HIDE DEF f, g
<1>8. /\ q \in WaveRecords /\ q.creator = k.creator /\ q.mode = k.mode
      /\ q.members = f /\ q.title = k.title /\ q.anchor = k.anchor
      /\ q.blips = k.blips /\ q.threads = k.threads
  BY <1>5, PeopledIs
<1> HIDE DEF q
<1>9. Root \in Wavelets /\ Privates \subseteq Wavelets /\ Root \notin Privates
  BY WavesAssumption DEF Wavelets
<1>10. Inside(q)
  <2> SUFFICES ASSUME NEW p \in Privates PROVE f[p] \subseteq f[Root]
    BY <1>8 DEF Inside
  <2>1. k.members[p] \subseteq k.members[Root]
    BY DEF Inside
  <2>2. CASE w = Root
    BY <1>6, <1>9, <2>1, <2>2
  <2>3. CASE w # Root
    BY <1>6, <1>9, <2>1, <2>3
  <2> QED BY <2>2, <2>3
<1>11. \A x \in Wavelets : k.members[x] = {} => q.members[x] = {}
  BY <1>6, <1>8
<1>12. Numbered(q, m) /\ Begun(q) /\ Distinct(q)
  BY <1>8, <1>10, <1>11, PeopledRows
<1>13. OtherPeople(k, q, m)
  BY <1>8, <1>10, <1>12 DEF OtherPeople
<1> QED BY <1>4, <1>7, <1>13

\* The rows q are those of k and a private reply, with its first message b.
OnePrivate(k, q, p, anchor, people, title, b, x) ==
    /\ q \in WaveRecords /\ q.creator = k.creator /\ q.mode = k.mode
    /\ q.members = [k.members EXCEPT ![p] = people]
    /\ q.anchor = [k.anchor EXCEPT ![p] = anchor]
    /\ q.title = [k.title EXCEPT ![p] = title] /\ q.threads = k.threads
    /\ DOMAIN q.blips = DOMAIN k.blips \cup {b} /\ q.blips[b] = x
    /\ \A y \in DOMAIN k.blips \ {b} : q.blips[y] = k.blips[y]

LEMMA PrivateIs ==
    ASSUME NEW k \in WaveRecords, NEW m \in Nat, m + 1 \in Blips, NEW p \in Privates,
           NEW anchor \in DOMAIN k.blips, NEW u \in Users, NEW people \in SUBSET Users,
           NEW title \in Titles \cup {FirstTitle}
    PROVE  OnePrivate(k, WithPrivate(k, p, anchor, u, people, title, m + 1), p, anchor,
                      people \cup {u}, title, m + 1, NewBlip(p, u, NoBlip, NoThread, 0))
<1> DEFINE x == NewBlip(p, u, NoBlip, NoThread, 0)
           h == WithBlip(k, m + 1, x)
           f == [k.members EXCEPT ![p] = people \cup {u}]
           g == [k.anchor EXCEPT ![p] = anchor]
           e == [k.title EXCEPT ![p] = title]
<1>0. p \in Wavelets /\ anchor \in Blips
  BY WaveIs DEF Wavelets
<1>1. x \in Blip
  BY <1>0, WavesAssumption DEF NewBlip, Blip
<1>2. /\ h \in WaveRecords /\ h.creator = k.creator /\ h.mode = k.mode
      /\ h.members = k.members /\ h.title = k.title /\ h.anchor = k.anchor
      /\ h.threads = k.threads
      /\ DOMAIN h.blips = DOMAIN k.blips \cup {m + 1} /\ h.blips[m + 1] = x
      /\ \A y \in DOMAIN k.blips \ {m + 1} : h.blips[y] = k.blips[y]
  BY <1>1, WithBlipIs
<1>3. WithPrivate(k, p, anchor, u, people, title, m + 1) =
        [h EXCEPT !.members[p] = people \cup {u}, !.anchor[p] = anchor, !.title[p] = title]
  BY DEF WithPrivate
<1> HIDE DEF h, x
<1>4. [h EXCEPT !.members[p] = people \cup {u}, !.anchor[p] = anchor, !.title[p] = title] =
        [h EXCEPT !.members = f, !.anchor = g, !.title = e]
  BY <1>2 DEF WaveRecords
<1>5. /\ f \in [Wavelets -> SUBSET Users] /\ g \in [Privates -> {NoBlip} \cup Blips]
      /\ e \in [Wavelets -> Titles \cup {FirstTitle}]
  BY <1>0, WaveIs
<1> HIDE DEF f, g, e
<1>6. LET q == [h EXCEPT !.members = f, !.anchor = g, !.title = e]
      IN /\ q \in WaveRecords /\ q.creator = h.creator /\ q.mode = h.mode
         /\ q.members = f /\ q.anchor = g /\ q.title = e /\ q.threads = h.threads
         /\ q.blips = h.blips
  BY <1>2, <1>5 DEF WaveRecords
<1> DEFINE q == [h EXCEPT !.members = f, !.anchor = g, !.title = e]
<1> HIDE DEF q
<1>7. /\ q \in WaveRecords /\ q.creator = k.creator /\ q.mode = k.mode
      /\ q.members = f /\ q.anchor = g /\ q.title = e /\ q.threads = k.threads
      /\ q.blips = h.blips
  BY <1>2, <1>6 DEF q
<1>8. OnePrivate(k, q, p, anchor, people \cup {u}, title, m + 1, x)
  BY <1>2, <1>7 DEF OnePrivate, f, g, e
<1>9. q = WithPrivate(k, p, anchor, u, people, title, m + 1)
  BY <1>3, <1>4 DEF q
<1> QED BY <1>8, <1>9 DEF x

\* A private reply starts: its people are inside the wavelet it hangs off, so inside
\* the conversation, and its first message has the first place.
LEMMA PrivateRows ==
    ASSUME NEW k \in WaveRecords, NEW m \in Nat, m + 1 \in Blips, NEW p \in Privates,
           NEW w \in Wavelets, NEW anchor \in DOMAIN k.blips, NEW u \in k.members[w],
           NEW people, people \subseteq k.members[w], NEW title \in Titles \cup {FirstTitle},
           k.anchor[p] = NoBlip, Numbered(k, m), Begun(k), Inside(k), Distinct(k)
    PROVE  LET q == WithPrivate(k, p, anchor, u, people, title, m + 1)
           IN /\ Numbered(q, m + 1) /\ Begun(q) /\ Inside(q) /\ Distinct(q)
              /\ Hung(k) => Hung(q)
<1> DEFINE q == WithPrivate(k, p, anchor, u, people, title, m + 1)
           x == NewBlip(p, u, NoBlip, NoThread, 0)
<1>0. /\ k.members \in [Wavelets -> SUBSET Users] /\ k.anchor \in [Privates -> {NoBlip} \cup Blips]
      /\ DOMAIN k.blips \subseteq Nat /\ anchor \in Blips /\ k.threads \in ThreadMaps
      /\ \A b \in DOMAIN k.blips : k.blips[b].seq \in Nat
  BY WaveIs
<1>1. u \in Users /\ people \in SUBSET Users
  BY <1>0
<1>2. /\ q \in WaveRecords /\ q.creator = k.creator
      /\ q.members = [k.members EXCEPT ![p] = people \cup {u}]
      /\ q.anchor = [k.anchor EXCEPT ![p] = anchor] /\ q.threads = k.threads
      /\ DOMAIN q.blips = DOMAIN k.blips \cup {m + 1} /\ q.blips[m + 1] = x
      /\ \A y \in DOMAIN k.blips \ {m + 1} : q.blips[y] = k.blips[y]
  <2>1. OnePrivate(k, q, p, anchor, people \cup {u}, title, m + 1, x)
    BY <1>1, PrivateIs
  <2> HIDE DEF q, x
  <2> QED BY <2>1 DEF OnePrivate
<1>3. x.seq = 0 /\ x.wavelet = p /\ x.parent = NoBlip /\ x.thread = NoThread
  BY DEF NewBlip
<1> HIDE DEF q, x
<1>4. Root \in Wavelets /\ Privates \subseteq Wavelets /\ Root \notin Privates /\ anchor # NoBlip
  BY <1>0, WavesAssumption DEF Wavelets, Blips, NoBlip
<1>5. /\ q.members[p] = people \cup {u} /\ \A y \in Wavelets \ {p} : q.members[y] = k.members[y]
      /\ q.anchor[p] = anchor /\ \A y \in Privates \ {p} : q.anchor[y] = k.anchor[y]
  BY <1>0, <1>2, <1>4
<1>6. m + 1 \notin DOMAIN k.blips
  BY <1>0 DEF Numbered
<1>7. OneMore(k, q, m + 1, x)
  BY <1>2, <1>6 DEF OneMore
<1>8. Numbered(q, m + 1)
  BY <1>0, <1>3, <1>7 DEF Numbered, OneMore
<1>9. Begun(q)
  <2> SUFFICES ASSUME NEW y \in Privates, q.anchor[y] = NoBlip
               PROVE  q.members[y] = {} /\ \A b \in DOMAIN q.blips : q.blips[b].wavelet # y
    BY DEF Begun
  <2>1. y # p /\ k.anchor[y] = NoBlip /\ q.members[y] = k.members[y]
    BY <1>4, <1>5
  <2> QED BY <1>3, <1>7, <2>1 DEF Begun, OneMore
<1>10. Inside(q)
  <2>1. k.members[w] \subseteq k.members[Root]
    <3>1. CASE w = Root
      BY <3>1
    <3>2. CASE w # Root
      BY <3>2 DEF Inside, Wavelets
    <3> QED BY <3>1, <3>2
  <2> QED BY <1>4, <1>5, <2>1 DEF Inside
<1>11. Distinct(q)
  <2>1. \A b \in DOMAIN k.blips : k.blips[b].wavelet # p
    BY DEF Begun
  <2> QED BY <1>3, <1>7, <2>1 DEF Distinct, OneMore
<1>12. ASSUME Hung(k) PROVE Hung(q)
  <2>1. ASSUME NEW a \in DOMAIN q.blips
        PROVE  /\ q.blips[a].parent # NoBlip => /\ q.blips[a].parent \in DOMAIN q.blips
                                                /\ q.blips[q.blips[a].parent].wavelet = q.blips[a].wavelet
                                                /\ q.blips[q.blips[a].parent].thread = NoThread
               /\ q.blips[a].thread # NoThread => /\ q.blips[a].thread \in DOMAIN q.threads
                                                  /\ q.blips[a].parent = q.threads[q.blips[a].thread].blip
    <3>1. CASE a = m + 1
      BY <1>3, <1>7, <3>1 DEF OneMore
    <3>2. CASE a # m + 1
      <4>1. a \in DOMAIN k.blips /\ q.blips[a] = k.blips[a]
        BY <1>7, <3>2 DEF OneMore
      <4> QED BY <1>2, <1>7, <1>12, <4>1 DEF OneMore, Hung
    <3> QED BY <3>1, <3>2
  <2>2. \A y \in Privates : q.anchor[y] # NoBlip => q.anchor[y] \in DOMAIN q.blips
    BY <1>2, <1>5, <1>12 DEF Hung
  <2>3. ASSUME NEW t \in DOMAIN q.threads
        PROVE  /\ q.threads[t].blip \in DOMAIN q.blips
               /\ q.blips[q.threads[t].blip].thread = NoThread
               /\ q.blips[q.threads[t].blip].wavelet = q.threads[t].wavelet
               /\ \E a \in DOMAIN q.blips : q.blips[a].thread = t
    <3>1. /\ k.threads[t].blip \in DOMAIN k.blips
          /\ k.blips[k.threads[t].blip].thread = NoThread
          /\ k.blips[k.threads[t].blip].wavelet = k.threads[t].wavelet
      BY <1>2, <1>12 DEF Hung
    <3>2. PICK a \in DOMAIN k.blips : k.blips[a].thread = t
      BY <1>2, <1>12 DEF Hung
    <3>3. a \in DOMAIN q.blips /\ q.blips[a].thread = t
      BY <1>7, <3>2 DEF OneMore
    <3> QED BY <1>2, <1>7, <3>1, <3>3 DEF OneMore
  <2> QED BY <2>1, <2>2, <2>3 DEF Hung
<1> QED BY <1>8, <1>9, <1>10, <1>11, <1>12 DEF q

\* A wave before it is created, and as it is created.
LEMMA BlankIs ==
    /\ Blank \in WaveRecords /\ Blank.creator = NoUser /\ Blank.mode = "document"
    /\ DOMAIN Blank.blips = {} /\ DOMAIN Blank.threads = {}
    /\ Blank.members = [w \in Wavelets |-> {}] /\ Blank.anchor = [p \in Privates |-> NoBlip]
    /\ Blank.title = [w \in Wavelets |-> FirstTitle]
    /\ Numbered(Blank, 0) /\ Begun(Blank) /\ Inside(Blank) /\ Distinct(Blank) /\ Hung(Blank)
<1> DEFINE f == [b \in {} |-> 0]
           k == Blank
<1>1. f \in BlipMaps /\ f \in ThreadMaps /\ DOMAIN f = {}
  <2>1. f \in [{} -> Blip] /\ f \in [{} -> Thread] /\ {} \in SUBSET Blips /\ {} \in SUBSET Threads
    OBVIOUS
  <2> QED BY <2>1 DEF BlipMaps, ThreadMaps
<1>2. [t \in {} |-> 0] = f
  OBVIOUS
<1> HIDE DEF f
<1>3. k = [creator |-> NoUser, mode |-> "document", members |-> [w \in Wavelets |-> {}],
           title |-> [w \in Wavelets |-> FirstTitle], anchor |-> [p \in Privates |-> NoBlip],
           blips |-> f, threads |-> f]
  BY <1>2 DEF Blank, f
<1>4. /\ k \in WaveRecords /\ k.creator = NoUser /\ k.mode = "document" /\ k.blips = f /\ k.threads = f
      /\ k.members = [w \in Wavelets |-> {}] /\ k.anchor = [p \in Privates |-> NoBlip]
      /\ k.title = [w \in Wavelets |-> FirstTitle]
  BY <1>1, <1>3 DEF WaveRecords, AllModes
<1> HIDE DEF k
<1>5. Root \in Wavelets /\ Privates \subseteq Wavelets
  BY DEF Wavelets
<1>6. \A w \in Wavelets : k.members[w] = {}
  BY <1>4
<1>7. \A p \in Privates : k.anchor[p] = NoBlip
  BY <1>4
<1>8. Numbered(k, 0) /\ Begun(k) /\ Inside(k) /\ Distinct(k)
  BY <1>1, <1>4, <1>5, <1>6 DEF Numbered, Begun, Inside, Distinct
<1>9. Hung(k)
  BY <1>1, <1>4, <1>7 DEF Hung
<1> QED BY <1>1, <1>4, <1>8, <1>9 DEF k

LEMMA WaveRowsAre ==
    ASSUME NEW u \in Users, NEW mode \in AllModes, NEW invited \in SUBSET Users, 1 \in Blips
    PROVE  LET q == WaveRows(u, mode, invited)
           IN /\ q \in WaveRecords /\ q.creator = u /\ q.mode = mode /\ u \in q.members[Root]
              /\ Numbered(q, 1) /\ Begun(q) /\ Inside(q) /\ Distinct(q) /\ Hung(q)
              /\ \A w \in Wavelets : w = Root \/ q.members[w] = {}
              /\ \A b \in DOMAIN q.blips : q.blips[b].wavelet = Root
<1> DEFINE q == WaveRows(u, mode, invited)
           x == NewBlip(Root, u, NoBlip, NoThread, 0)
           e == [b \in {1} |-> x]
           f == [Blank.members EXCEPT ![Root] = invited \cup {u}]
<1>0. Root \in Wavelets /\ Privates \subseteq Wavelets /\ Root \notin Privates
  BY WavesAssumption DEF Wavelets
<1>1. x \in Blip /\ x.wavelet = Root /\ x.parent = NoBlip /\ x.thread = NoThread /\ x.seq = 0
  BY <1>0, WavesAssumption DEF NewBlip, Blip
<1> HIDE DEF x
<1>2. DOMAIN e = {1} /\ e[1] = x /\ e \in BlipMaps
  <2>1. e \in [{1} -> Blip] /\ {1} \in SUBSET Blips
    BY <1>1
  <2> QED BY <2>1 DEF BlipMaps
<1>3. q = [Blank EXCEPT !.creator = u, !.mode = mode, !.members = f, !.blips = e]
  <2>1. q = [Blank EXCEPT !.creator = u, !.mode = mode, !.members[Root] = invited \cup {u}, !.blips = e]
    BY DEF WaveRows, x
  <2> QED BY <2>1, BlankIs DEF WaveRecords
<1>4. f \in [Wavelets -> SUBSET Users] /\ f[Root] = invited \cup {u} /\ \A w \in Wavelets \ {Root} : f[w] = {}
  BY <1>0, BlankIs
<1> HIDE DEF q, e, f
<1>5. /\ q \in WaveRecords /\ q.creator = u /\ q.mode = mode /\ q.members = f /\ q.blips = e
      /\ q.threads = Blank.threads /\ q.anchor = Blank.anchor
  BY <1>2, <1>3, <1>4, BlankIs DEF WaveRecords
<1>6. DOMAIN q.threads = {} /\ \A p \in Privates : q.anchor[p] = NoBlip /\ q.members[p] = {}
  BY <1>0, <1>4, <1>5, BlankIs
<1>7. Numbered(q, 1) /\ Begun(q) /\ Inside(q) /\ Distinct(q)
  BY <1>0, <1>1, <1>2, <1>4, <1>5, <1>6 DEF Numbered, Begun, Inside, Distinct
<1>8. Hung(q)
  BY <1>1, <1>2, <1>5, <1>6 DEF Hung
<1> QED BY <1>1, <1>2, <1>4, <1>5, <1>7, <1>8 DEF q

-----------------------------------------------------------------------------
(* What each message does to a screen.                                     *)

\* Nothing of w comes to a screen.
Hides(s, z, w) ==
    /\ w \in z.shown => w \in s.shown
    /\ {b \in DOMAIN z.blips : z.blips[b].wavelet = w} \subseteq
         {b \in DOMAIN s.blips : s.blips[b].wavelet = w}

\* A message about w leaves a screen a screen and brings nothing of another wavelet.
Follows(s, z, w) == IsScreen(z) /\ \A v \in Wavelets \ {w} : Hides(s, z, v)

\* A message that brings nothing at all.
LEMMA SameBlips ==
    ASSUME NEW s, NEW z, IsScreen(z), z.shown = s.shown, z.blips = s.blips
    PROVE  \A v : Hides(s, z, v)
BY DEF Hides

LEMMA OnBlipAddedIs ==
    ASSUME NEW s, IsScreen(s), NEW w, NEW b, NEW x, x.wavelet = w
    PROVE  /\ Follows(s, OnBlipAdded(s, w, b, x), w)
           /\ OnBlipAdded(s, w, b, x).threads = s.threads /\ OnBlipAdded(s, w, b, x).shown = s.shown
<1> DEFINE f == [y \in DOMAIN s.blips \cup {b} |-> IF y = b THEN x ELSE s.blips[y]]
           z == OnBlipAdded(s, w, b, x)
<1>1. CASE w \notin s.shown \/ b \in DOMAIN s.blips
  <2>1. z = s
    BY <1>1 DEF OnBlipAdded
  <2> QED BY <2>1, SameBlips DEF Follows
<1>2. CASE ~(w \notin s.shown \/ b \in DOMAIN s.blips)
  <2>1. z = [s EXCEPT !.blips = f]
    BY <1>2 DEF OnBlipAdded
  <2>2. DOMAIN f = DOMAIN s.blips \cup {b} /\ f[b] = x /\ \A y \in DOMAIN s.blips \ {b} : f[y] = s.blips[y]
    OBVIOUS
  <2> HIDE DEF f, z
  <2>3. IsScreen(z) /\ z.blips = f /\ z.shown = s.shown /\ z.threads = s.threads
    BY <2>1 DEF IsScreen
  <2>4. \A v \in Wavelets \ {w} : Hides(s, z, v)
    BY <1>2, <2>2, <2>3 DEF Hides
  <2> QED BY <2>3, <2>4 DEF Follows, z
<1> QED BY <1>1, <1>2

LEMMA OnCommentAddedIs ==
    ASSUME NEW s, IsScreen(s), NEW w, NEW t, NEW y, NEW b, NEW x, x.wavelet = w
    PROVE  Follows(s, OnCommentAdded(s, w, t, y, b, x), w)
<1> DEFINE g == [r \in DOMAIN s.threads \cup {t} |-> IF r = t THEN y ELSE s.threads[r]]
           o == OnBlipAdded(s, w, b, x)
           z == OnCommentAdded(s, w, t, y, b, x)
<1>1. CASE w \notin s.shown
  <2>1. z = s
    BY <1>1 DEF OnCommentAdded
  <2> QED BY <2>1, SameBlips DEF Follows
<1>2. CASE w \in s.shown
  <2>1. z = [o EXCEPT !.threads = g]
    BY <1>2 DEF OnCommentAdded
  <2>2. Follows(s, o, w)
    BY OnBlipAddedIs
  <2> HIDE DEF o, g, z
  <2>3. IsScreen(z) /\ z.blips = o.blips /\ z.shown = o.shown
    BY <2>1, <2>2 DEF IsScreen, Follows
  <2> QED BY <2>2, <2>3 DEF Follows, Hides, z
<1> QED BY <1>1, <1>2

LEMMA OnCommentResolvedIs ==
    ASSUME NEW s, IsScreen(s), NEW t, NEW resolved
    PROVE  IsScreen(OnCommentResolved(s, t, resolved)) /\ \A v : Hides(s, OnCommentResolved(s, t, resolved), v)
<1> DEFINE z == OnCommentResolved(s, t, resolved)
<1>1. IsScreen(z) /\ z.shown = s.shown /\ z.blips = s.blips
  BY DEF OnCommentResolved, IsScreen
<1> QED BY <1>1, SameBlips

LEMMA OnBlipsRemovedIs ==
    ASSUME NEW s, IsScreen(s), NEW gone
    PROVE  IsScreen(OnBlipsRemoved(s, gone)) /\ \A v : Hides(s, OnBlipsRemoved(s, gone), v)
<1> DEFINE f == Restrict(s.blips, DOMAIN s.blips \ gone)
           z == OnBlipsRemoved(s, gone)
<1>1. DOMAIN f = DOMAIN s.blips \ gone /\ \A b \in DOMAIN f : f[b] = s.blips[b]
  BY DEF Restrict
<1>2. z = [s EXCEPT !.blips = f]
  BY DEF OnBlipsRemoved
<1> HIDE DEF f, z
<1>3. IsScreen(z) /\ z.shown = s.shown /\ z.blips = f
  BY <1>2 DEF IsScreen
<1>4. \A v : Hides(s, z, v)
  BY <1>1, <1>3 DEF Hides
<1> QED BY <1>3, <1>4 DEF z

LEMMA OnModeChangedIs ==
    ASSUME NEW s, IsScreen(s), NEW mode
    PROVE  IsScreen(OnModeChanged(s, mode)) /\ \A v : Hides(s, OnModeChanged(s, mode), v)
<1> DEFINE z == OnModeChanged(s, mode)
<1>1. IsScreen(z) /\ z.shown = s.shown /\ z.blips = s.blips
  BY DEF OnModeChanged, IsScreen
<1> QED BY <1>1, SameBlips

LEMMA OnTitleChangedIs ==
    ASSUME NEW s, IsScreen(s), NEW w, NEW title
    PROVE  IsScreen(OnTitleChanged(s, w, title)) /\ \A v : Hides(s, OnTitleChanged(s, w, title), v)
<1> DEFINE z == OnTitleChanged(s, w, title)
<1>1. IsScreen(z) /\ z.shown = s.shown /\ z.blips = s.blips
  BY DEF OnTitleChanged, IsScreen
<1> QED BY <1>1, SameBlips

LEMMA OnParticipantAddedIs ==
    ASSUME NEW s, IsScreen(s), NEW w, NEW u
    PROVE  IsScreen(OnParticipantAdded(s, w, u)) /\ \A v : Hides(s, OnParticipantAdded(s, w, u), v)
<1> DEFINE z == OnParticipantAdded(s, w, u)
<1>1. IsScreen(z) /\ z.shown = s.shown /\ z.blips = s.blips
  BY DEF OnParticipantAdded, IsScreen
<1> QED BY <1>1, SameBlips

LEMMA OnParticipantRemovedIs ==
    ASSUME NEW s, IsScreen(s), NEW ws, NEW u
    PROVE  IsScreen(OnParticipantRemoved(s, ws, u)) /\ \A v : Hides(s, OnParticipantRemoved(s, ws, u), v)
<1> DEFINE f == [w \in s.shown |-> s.members[w] \ (IF w \in ws THEN {u} ELSE {})]
           z == OnParticipantRemoved(s, ws, u)
<1>1. z = [s EXCEPT !.members = f]
  BY DEF OnParticipantRemoved
<1> HIDE DEF f, z
<1>2. IsScreen(z) /\ z.shown = s.shown /\ z.blips = s.blips
  BY <1>1 DEF IsScreen
<1>3. \A v : Hides(s, z, v)
  BY <1>2, SameBlips
<1> QED BY <1>2, <1>3 DEF z

LEMMA OnWaveletAddedIs ==
    ASSUME NEW s, IsScreen(s), NEW k, NEW w \in Wavelets
    PROVE  Follows(s, OnWaveletAdded(s, k, w), w)
<1> DEFINE z == OnWaveletAdded(s, k, w)
           f == [b \in DOMAIN s.blips \cup {b \in DOMAIN k.blips : k.blips[b].wavelet = w} |->
                   IF b \in DOMAIN s.blips THEN s.blips[b] ELSE k.blips[b]]
           e == [x \in s.shown \cup {w} |-> IF x = w THEN k.title[w] ELSE s.title[x]]
           g == [x \in s.shown \cup {w} |-> IF x = w THEN k.members[w] ELSE s.members[x]]
<1>1. CASE s.shown = {} \/ w \in s.shown
  <2>1. z = s
    BY <1>1 DEF OnWaveletAdded
  <2> QED BY <2>1, SameBlips DEF Follows
<1>2. CASE ~(s.shown = {} \/ w \in s.shown)
  <2>1. z = [shown |-> s.shown \cup {w}, mode |-> s.mode, title |-> e, members |-> g,
             blips |-> f, threads |-> s.threads]
    BY <1>2 DEF OnWaveletAdded
  <2>2. /\ DOMAIN f = DOMAIN s.blips \cup {b \in DOMAIN k.blips : k.blips[b].wavelet = w}
        /\ \A b \in DOMAIN s.blips : f[b] = s.blips[b]
        /\ \A b \in DOMAIN f \ DOMAIN s.blips : f[b].wavelet = w
    OBVIOUS
  <2> HIDE DEF e, f, g, z
  <2>3. IsScreen(z) /\ z.shown = s.shown \cup {w} /\ z.blips = f
    BY <2>1 DEF IsScreen
  <2>4. \A v \in Wavelets \ {w} : Hides(s, z, v)
    BY <2>2, <2>3 DEF Hides
  <2> QED BY <2>3, <2>4 DEF Follows, z
<1> QED BY <1>1, <1>2

\* A snapshot shows what its reader is in.
LEMMA ViewIs ==
    ASSUME NEW k, NEW u
    PROVE  /\ IsScreen(View(k, u))
           /\ \A s : \A w \in Wavelets : u \notin k.members[w] => Hides(s, View(k, u), w)
<1> DEFINE seen == Visible(k, u)
           blips == {b \in DOMAIN k.blips : k.blips[b].wavelet \in seen}
           z == View(k, u)
           f == Restrict(k.blips, blips)
           e == Restrict(k.title, seen)
           g == Restrict(k.members, seen)
           h == Restrict(k.threads, {t \in DOMAIN k.threads : k.threads[t].wavelet \in seen})
<1>1. z = [shown |-> seen, mode |-> k.mode, title |-> e, members |-> g, blips |-> f, threads |-> h]
  BY DEF View
<1>2. DOMAIN f = blips /\ \A b \in blips : f[b] = k.blips[b] /\ k.blips[b].wavelet \in seen
  BY DEF Restrict
<1>3. seen \subseteq Wavelets /\ \A w \in Wavelets : w \in seen <=> u \in k.members[w]
  BY DEF Visible, MayAccess
<1> HIDE DEF e, f, g, h, z, blips, seen
<1>4. IsScreen(z) /\ z.shown = seen /\ z.blips = f
  BY <1>1, <1>3 DEF IsScreen
<1>5. \A s : \A w \in Wavelets : u \notin k.members[w] => Hides(s, z, w)
  BY <1>2, <1>3, <1>4 DEF Hides
<1> QED BY <1>4, <1>5 DEF z

LEMMA DarkIs == IsScreen(Dark) /\ \A w, s : Hides(s, Dark, w)
<1> DEFINE f == [b \in {} |-> 0]
<1>1. Dark.shown = {} /\ DOMAIN Dark.blips = {}
  BY DEF Dark
<1>2. IsScreen(Dark)
  BY DEF Dark, IsScreen
<1> QED BY <1>1, <1>2 DEF Hides

-----------------------------------------------------------------------------
(* What the watchers see.                                                  *)

LEMMA ShowsLess ==
    ASSUME NEW s, NEW k, NEW S, NEW m, Shows(s, k, S, m), NEW T, T \subseteq S
    PROVE  Shows(s, k, T, m)
<1>1. Heads(s, k, T)
  BY DEF Shows, Heads
<1>2. HasBlips(s, k, T)
  BY DEF Shows, HasBlips
<1>3. HasThreads(s, k, T)
  BY DEF Shows, HasThreads
<1> QED BY <1>1, <1>2, <1>3 DEF Shows

\* What one more message does to a watcher's screen, whatever it does to threads.
Arrives(s, z, q, S, m) ==
    /\ IsScreen(z) /\ Heads(z, q, S) /\ Heard(z, m) /\ HasBlips(z, q, S)
    /\ z.threads = s.threads /\ z.shown = s.shown /\ z.title = s.title /\ z.members = s.members /\ z.mode = s.mode
    /\ \A y \in DOMAIN z.blips : y \in DOMAIN s.blips \/ y = m

LEMMA BlipArrives ==
    ASSUME NEW k, NEW q, NEW s, NEW S, NEW m \in Nat, NEW x, Shows(s, k, S, m),
           OneMore(k, q, m + 1, x), q.mode = k.mode, q.members = k.members,
           q.title = k.title, q.anchor = k.anchor,
           NEW z, z = OnBlipAdded(s, x.wavelet, m + 1, x) \/ (z = s /\ x.wavelet \notin S)
    PROVE  Arrives(s, z, q, S, m + 1)
<1> DEFINE w == x.wavelet
           b == m + 1
           f == [y \in DOMAIN s.blips \cup {b} |-> IF y = b THEN x ELSE s.blips[y]]
<1>0. /\ IsScreen(s) /\ S \subseteq s.shown /\ HasBlips(s, k, S) /\ Heard(s, m)
      /\ \A y \in DOMAIN s.blips : y \in Nat /\ y <= m /\ s.blips[y].wavelet \in s.shown
      /\ \A t \in DOMAIN s.threads : s.threads[t].blip \in Nat
  <2>1. \A y \in Thread : y.blip \in Nat
    BY WavesAssumption DEF Thread, Blips
  <2> QED BY <2>1 DEF Shows, Heads, Heard
<1>1. b \notin DOMAIN s.blips /\ \A i \in Nat : i <= m => i <= m + 1
  BY <1>0
<1>2. /\ DOMAIN q.blips = DOMAIN k.blips \cup {b} /\ q.blips[b] = x /\ b \notin DOMAIN k.blips
      /\ \A y \in DOMAIN k.blips : q.blips[y] = k.blips[y]
  BY DEF OneMore
<1>3. DOMAIN f = DOMAIN s.blips \cup {b} /\ f[b] = x /\ \A y \in DOMAIN s.blips : f[y] = s.blips[y]
  BY <1>1
<1>4. Heads(s, q, S)
  BY DEF Shows, Heads
<1>5. Heard(s, m + 1)
  BY <1>0, <1>1 DEF Heard
<1> HIDE DEF b, f
<1>6. CASE w \in s.shown /\ z = OnBlipAdded(s, w, b, x)
  <2>1. z = [s EXCEPT !.blips = f]
    BY <1>1, <1>6 DEF OnBlipAdded, f
  <2>2. /\ IsScreen(z) /\ z.blips = f /\ z.shown = s.shown /\ z.threads = s.threads
        /\ z.title = s.title /\ z.members = s.members /\ z.mode = s.mode
    BY <1>0, <2>1 DEF IsScreen
  <2>3. Heads(z, q, S)
    BY <1>4, <2>2 DEF Heads
  <2>4. Heard(z, b)
    <3>1. b \in Nat /\ b <= b
      BY DEF b
    <3>2. Heard(s, b)
      BY <1>5 DEF b
    <3> QED BY <1>3, <1>6, <2>2, <3>1, <3>2 DEF Heard
  <2>5. HasBlips(z, q, S)
    BY <1>0, <1>1, <1>2, <1>3, <2>2 DEF HasBlips
  <2> QED BY <1>3, <2>2, <2>3, <2>4, <2>5 DEF Arrives, b
<1>7. CASE z = s /\ w \notin S
  <2>1. HasBlips(s, q, S)
    BY <1>0, <1>2, <1>7 DEF HasBlips
  <2> QED BY <1>0, <1>4, <1>5, <1>7, <2>1 DEF Arrives
<1>8. w \notin s.shown => OnBlipAdded(s, w, b, x) = s /\ w \notin S
  BY <1>0 DEF OnBlipAdded
<1> QED BY <1>6, <1>7, <1>8 DEF b

\* A client that is told of a message has it.
LEMMA ShowsBlip ==
    ASSUME NEW k, NEW q, NEW s, NEW S, NEW m \in Nat, NEW x, Shows(s, k, S, m),
           OneMore(k, q, m + 1, x), q.mode = k.mode, q.members = k.members,
           q.title = k.title, q.anchor = k.anchor, q.threads = k.threads,
           NEW z, z = OnBlipAdded(s, x.wavelet, m + 1, x) \/ (z = s /\ x.wavelet \notin S)
    PROVE  Shows(z, q, S, m + 1)
<1>1. Arrives(s, z, q, S, m + 1)
  BY BlipArrives
<1>2. \A t \in DOMAIN s.threads : s.threads[t].blip # m + 1
  <2>1. \A y \in Thread : y.blip \in Nat
    BY WavesAssumption DEF Thread, Blips
  <2> QED BY <2>1 DEF Shows, Heard
<1>3. HasThreads(z, q, S)
  BY <1>1, <1>2 DEF Shows, HasThreads, Arrives
<1> QED BY <1>1, <1>3 DEF Shows, Arrives

\* A client that is told of a thread has it, with its remark.
LEMMA ShowsComment ==
    ASSUME NEW k, NEW q, NEW s, NEW S, NEW m \in Nat, NEW x, Shows(s, k, S, m),
           OneMore(k, q, m + 1, x), q.mode = k.mode, q.members = k.members,
           q.title = k.title, q.anchor = k.anchor,
           NEW t, NEW y \in Thread, t \notin DOMAIN k.threads,
           DOMAIN q.threads = DOMAIN k.threads \cup {t}, q.threads[t] = y,
           \A r \in DOMAIN k.threads : q.threads[r] = k.threads[r],
           y.wavelet = x.wavelet, y.blip <= m,
           NEW z, \/ z = OnCommentAdded(s, x.wavelet, t, y, m + 1, x)
                  \/ z = s /\ x.wavelet \notin S
    PROVE  Shows(z, q, S, m + 1)
<1> DEFINE w == x.wavelet
           o == OnBlipAdded(s, w, m + 1, x)
           g == [r \in DOMAIN s.threads \cup {t} |-> IF r = t THEN y ELSE s.threads[r]]
<1>0. HasThreads(s, k, S) /\ S \subseteq s.shown
  BY DEF Shows, Heads
<1>1. /\ \A r \in DOMAIN s.threads : s.threads[r].blip # m + 1
      /\ y.blip \in Nat /\ y.blip <= m + 1
  <2>1. \A v \in Thread : v.blip \in Nat
    BY WavesAssumption DEF Thread, Blips
  <2> QED BY <2>1 DEF Shows, Heard
<1>2. DOMAIN g = DOMAIN s.threads \cup {t} /\ g[t] = y /\ \A r \in DOMAIN s.threads \ {t} : g[r] = s.threads[r]
  OBVIOUS
<1>3. CASE w \in s.shown /\ z = OnCommentAdded(s, w, t, y, m + 1, x)
  <2>1. z = [o EXCEPT !.threads = g]
    BY <1>3 DEF OnCommentAdded
  <2>2. Arrives(s, o, q, S, m + 1)
    BY BlipArrives
  <2> HIDE DEF o, g
  <2>3. /\ IsScreen(z) /\ z.blips = o.blips /\ z.shown = o.shown /\ z.threads = g
        /\ z.title = o.title /\ z.members = o.members /\ z.mode = o.mode
    BY <2>1, <2>2 DEF IsScreen, Arrives
  <2>4. Heads(z, q, S)
    BY <2>2, <2>3 DEF Heads, Arrives
  <2>5. Heard(z, m + 1)
    <3>1. Heard(o, m + 1) /\ o.threads = s.threads /\ o.shown = s.shown
      BY <2>2 DEF Arrives
    <3> QED BY <1>1, <1>2, <1>3, <2>3, <3>1 DEF Heard
  <2>6. HasBlips(z, q, S)
    BY <2>2, <2>3 DEF HasBlips, Arrives
  <2>7. HasThreads(z, q, S)
    <3>1. \A i \in DOMAIN z.blips : i \in DOMAIN s.blips \/ i = m + 1
      BY <2>2, <2>3 DEF Arrives
    <3> QED BY <1>0, <1>1, <1>2, <2>3, <3>1 DEF HasThreads
  <2> QED BY <2>3, <2>4, <2>5, <2>6, <2>7 DEF Shows
<1>4. CASE z = s /\ w \notin S
  <2>1. Arrives(s, z, q, S, m + 1)
    BY <1>4, BlipArrives
  <2>2. HasThreads(s, q, S)
    BY <1>0, <1>4 DEF HasThreads
  <2> QED BY <1>4, <2>1, <2>2 DEF Shows, Arrives
<1>5. w \notin s.shown => OnCommentAdded(s, w, t, y, m + 1, x) = s /\ w \notin S
  BY <1>0 DEF OnCommentAdded
<1> QED BY <1>3, <1>4, <1>5

\* A client that is told that a thread is settled, or open again, shows it so.
LEMMA ShowsResolved ==
    ASSUME NEW k, NEW q, NEW s, NEW S, NEW m, Shows(s, k, S, m), NEW t \in DOMAIN k.threads,
           NEW resolved \in BOOLEAN, OneSettled(k, q, t, resolved),
           NEW z, z = OnCommentResolved(s, t, resolved) \/ (z = s /\ k.threads[t].wavelet \notin S)
    PROVE  Shows(z, q, S, m)
<1>0. /\ IsScreen(s) /\ HasThreads(s, k, S) /\ HasBlips(s, k, S) /\ Heard(s, m)
      /\ q.mode = k.mode /\ q.members = k.members /\ q.title = k.title /\ q.anchor = k.anchor
      /\ q.blips = k.blips /\ DOMAIN q.threads = DOMAIN k.threads
      /\ q.threads[t] = [k.threads[t] EXCEPT !.resolved = resolved]
      /\ \A r \in DOMAIN k.threads \ {t} : q.threads[r] = k.threads[r]
      /\ q.threads[t].wavelet = k.threads[t].wavelet
  BY DEF Shows, OneSettled
<1>1. Heads(s, q, S) /\ HasBlips(s, q, S)
  BY <1>0 DEF Shows, Heads, HasBlips
<1>2. CASE z = s /\ (t \notin DOMAIN s.threads \/ k.threads[t].wavelet \notin S)
  <2>1. HasThreads(s, q, S)
    BY <1>0, <1>2 DEF HasThreads
  <2> QED BY <1>0, <1>1, <1>2, <2>1 DEF Shows
<1>3. CASE t \in DOMAIN s.threads /\ z = OnCommentResolved(s, t, resolved)
  <2> DEFINE y == [s.threads[t] EXCEPT !.resolved = resolved]
             g == [s.threads EXCEPT ![t] = y]
  <2>1. z = [s EXCEPT !.threads = g]
    BY <1>0, <1>3 DEF OnCommentResolved, IsScreen
  <2>2. s.threads[t] \in Thread
    BY <1>0, <1>3 DEF Heard
  <2>3. /\ y \in Thread /\ y.wavelet = s.threads[t].wavelet /\ y.blip = s.threads[t].blip
        /\ s.threads[t] = k.threads[t] => y = q.threads[t]
    BY <1>0, <2>2 DEF Thread
  <2> HIDE DEF y
  <2>4. DOMAIN g = DOMAIN s.threads /\ g[t] = y /\ \A r \in DOMAIN s.threads \ {t} : g[r] = s.threads[r]
    BY <1>3
  <2> HIDE DEF g
  <2>5. /\ IsScreen(z) /\ z.blips = s.blips /\ z.shown = s.shown /\ z.threads = g
        /\ z.title = s.title /\ z.members = s.members /\ z.mode = s.mode
    BY <1>0, <2>1 DEF IsScreen
  <2>6. Heads(z, q, S) /\ HasBlips(z, q, S)
    BY <1>1, <2>5 DEF Heads, HasBlips
  <2>7. Heard(z, m)
    BY <1>0, <1>3, <2>3, <2>4, <2>5 DEF Heard
  <2>8. HasThreads(z, q, S)
    <3>1. ASSUME NEW r \in DOMAIN q.threads, q.threads[r].wavelet \in S
          PROVE  r \in DOMAIN g /\ g[r] = q.threads[r]
      <4>1. CASE r = t
        BY <1>0, <1>3, <2>3, <2>4, <3>1, <4>1 DEF HasThreads
      <4>2. CASE r # t
        BY <1>0, <1>3, <2>4, <3>1, <4>2 DEF HasThreads
      <4> QED BY <4>1, <4>2
    <3>2. ASSUME NEW r \in DOMAIN g, g[r].wavelet \in S, g[r].blip \in DOMAIN s.blips
          PROVE  r \in DOMAIN q.threads /\ g[r] = q.threads[r]
      <4>1. CASE r = t
        BY <1>0, <1>3, <2>3, <2>4, <3>2, <4>1 DEF HasThreads
      <4>2. CASE r # t
        BY <1>0, <1>3, <2>4, <3>2, <4>2 DEF HasThreads
      <4> QED BY <4>1, <4>2
    <3> QED BY <2>5, <3>1, <3>2 DEF HasThreads
  <2> QED BY <2>5, <2>6, <2>7, <2>8 DEF Shows
<1>4. t \notin DOMAIN s.threads => OnCommentResolved(s, t, resolved) = s
  BY DEF OnCommentResolved
<1> QED BY <1>2, <1>3, <1>4

\* The rows that go with a message all belong to its wavelet.
LEMMA GoneTogether ==
    ASSUME NEW k \in WaveRecords, Hung(k), NEW b \in DOMAIN k.blips
    PROVE  LET gone == {t \in DOMAIN k.threads : k.threads[t].blip = b}
           IN /\ \A t \in gone : k.threads[t].wavelet = k.blips[b].wavelet
              /\ \A x \in Remarks(k, gone) :
                   x \in DOMAIN k.blips /\ k.blips[x].wavelet = k.blips[b].wavelet
<1> DEFINE gone == {t \in DOMAIN k.threads : k.threads[t].blip = b}
<1>1. \A t \in gone : k.threads[t].wavelet = k.blips[b].wavelet
  BY DEF Hung
<1>2. NoThread \notin DOMAIN k.threads /\ b # NoBlip
  BY WaveIs, WavesAssumption DEF Blips, NoBlip
<1>3. ASSUME NEW x \in Remarks(k, gone)
      PROVE  x \in DOMAIN k.blips /\ k.blips[x].wavelet = k.blips[b].wavelet
  <2>1. x \in DOMAIN k.blips /\ k.blips[x].thread \in DOMAIN k.threads /\ k.threads[k.blips[x].thread].blip = b
    BY <1>3 DEF Remarks
  <2>2. k.blips[x].parent = b
    BY <1>2, <2>1 DEF Hung
  <2> QED BY <1>2, <2>1, <2>2 DEF Hung
<1> QED BY <1>1, <1>3

\* A client that is told of a deletion shows neither the message nor its threads.
LEMMA ShowsRemoved ==
    ASSUME NEW k \in WaveRecords, NEW s, NEW S, NEW m, Shows(s, k, S, m), Hung(k),
           NEW b \in DOMAIN k.blips, NEW z,
           LET gone == {t \in DOMAIN k.threads : k.threads[t].blip = b}
           IN \/ z = OnBlipsRemoved(s, {b} \cup Remarks(k, gone))
              \/ z = s /\ k.blips[b].wavelet \notin S
    PROVE  Shows(z, Without(k, b), S, m)
<1> DEFINE gone == {t \in DOMAIN k.threads : k.threads[t].blip = b}
           G == {b} \cup Remarks(k, gone)
           w == k.blips[b].wavelet
           q == Without(k, b)
           f == Restrict(s.blips, DOMAIN s.blips \ G)
<1>0. /\ IsScreen(s) /\ HasThreads(s, k, S) /\ HasBlips(s, k, S) /\ Heard(s, m)
  BY DEF Shows
<1>1. /\ q.mode = k.mode /\ q.members = k.members /\ q.title = k.title /\ q.anchor = k.anchor
      /\ DOMAIN q.threads = DOMAIN k.threads \ gone
      /\ \A t \in DOMAIN q.threads : q.threads[t] = k.threads[t]
      /\ DOMAIN q.blips = {x \in DOMAIN k.blips : x # b /\ k.blips[x].thread \notin gone}
      /\ \A x \in DOMAIN q.blips : q.blips[x] = k.blips[x]
  BY DeleteRowsIs
<1>2. DOMAIN q.blips = DOMAIN k.blips \ G
  BY <1>1 DEF Remarks
<1>3. /\ \A t \in gone : k.threads[t].wavelet = w
      /\ \A x \in G : k.blips[x].wavelet = w
  BY GoneTogether
<1>4. \A t \in DOMAIN k.threads : t \in gone <=> k.threads[t].blip = b
  OBVIOUS
<1>5. b \in G
  OBVIOUS
<1>6. z = OnBlipsRemoved(s, G) \/ (z = s /\ w \notin S)
  OBVIOUS
<1>7. DOMAIN f = DOMAIN s.blips \ G /\ \A x \in DOMAIN f : f[x] = s.blips[x]
  BY DEF Restrict
<1>8. OnBlipsRemoved(s, G) = [s EXCEPT !.blips = f]
  BY DEF OnBlipsRemoved
<1> SUFFICES Shows(z, q, S, m)
  OBVIOUS
<1> HIDE DEF gone, G, w, q, f
<1>9. Heads(s, q, S)
  BY <1>1 DEF Shows, Heads
<1>10. CASE z = [s EXCEPT !.blips = f]
  <2>1. /\ IsScreen(z) /\ z.blips = f /\ z.shown = s.shown /\ z.threads = s.threads
        /\ z.title = s.title /\ z.members = s.members /\ z.mode = s.mode
    BY <1>0, <1>10 DEF IsScreen
  <2>2. Heads(z, q, S)
    BY <1>9, <2>1 DEF Heads
  <2>3. Heard(z, m)
    BY <1>0, <1>7, <2>1 DEF Heard
  <2>4. HasBlips(z, q, S)
    BY <1>0, <1>1, <1>2, <1>7, <2>1 DEF HasBlips
  <2>5. HasThreads(z, q, S)
    BY <1>0, <1>1, <1>4, <1>5, <1>7, <2>1 DEF HasThreads
  <2> QED BY <2>1, <2>2, <2>3, <2>4, <2>5 DEF Shows
<1>11. CASE z = s /\ w \notin S
  <2>1. HasBlips(s, q, S)
    BY <1>0, <1>1, <1>2, <1>3, <1>11 DEF HasBlips
  <2>2. HasThreads(s, q, S)
    BY <1>0, <1>1, <1>3, <1>11 DEF HasThreads
  <2> QED BY <1>0, <1>9, <1>11, <2>1, <2>2 DEF Shows
<1> QED BY <1>6, <1>8, <1>10, <1>11

\* The people and the mode, or a title, change and nothing else: the rest of the
\* screen is right already.
LEMMA ShowsHeads ==
    ASSUME NEW k, NEW q, NEW s, NEW z, NEW S, NEW m, Shows(s, k, S, m),
           q.blips = k.blips, q.threads = k.threads,
           IsScreen(z), z.shown = s.shown, z.blips = s.blips, z.threads = s.threads,
           NEW T, T \subseteq S, Heads(z, q, T)
    PROVE  Shows(z, q, T, m)
<1>1. HasBlips(z, q, T) /\ HasThreads(z, q, T)
  BY DEF Shows, HasBlips, HasThreads
<1>2. Heard(z, m)
  BY DEF Shows, Heard
<1> QED BY <1>1, <1>2 DEF Shows

LEMMA ShowsTitle ==
    ASSUME NEW k \in WaveRecords, NEW s, NEW S, NEW m, Shows(s, k, S, m),
           NEW w \in Wavelets, NEW title \in Titles, S \subseteq Wavelets,
           NEW z, z = OnTitleChanged(s, w, title) \/ (z = s /\ w \notin S)
    PROVE  Shows(z, [k EXCEPT !.title[w] = title], S, m)
<1> DEFINE q == [k EXCEPT !.title[w] = title]
           e == [s.title EXCEPT ![w] = title]
<1>0. /\ q.mode = k.mode /\ q.members = k.members /\ q.anchor = k.anchor
      /\ q.blips = k.blips /\ q.threads = k.threads
      /\ q.title = [k.title EXCEPT ![w] = title] /\ DOMAIN k.title = Wavelets
  BY RetitledIs, WaveIs
<1>1. IsScreen(s) /\ Heads(s, k, S)
  BY DEF Shows
<1>2. q.title[w] = title /\ \A x \in Wavelets \ {w} : q.title[x] = k.title[x]
  BY <1>0
<1> SUFFICES Shows(z, q, S, m)
  OBVIOUS
<1> HIDE DEF q
<1>3. CASE z = s /\ w \notin S
  <2>1. Heads(s, q, S)
    BY <1>0, <1>1, <1>2, <1>3 DEF Heads
  <2> QED BY <1>0, <1>1, <1>3, <2>1, ShowsHeads
<1>4. CASE w \in s.shown /\ z = OnTitleChanged(s, w, title)
  <2>1. z = [s EXCEPT !.title = e]
    BY <1>1, <1>4 DEF OnTitleChanged, IsScreen
  <2>2. DOMAIN e = s.shown /\ e[w] = title /\ \A x \in s.shown \ {w} : e[x] = s.title[x]
    BY <1>1, <1>4 DEF Heads
  <2> HIDE DEF e
  <2>3. /\ IsScreen(z) /\ z.blips = s.blips /\ z.shown = s.shown /\ z.threads = s.threads
        /\ z.title = e /\ z.members = s.members /\ z.mode = s.mode
    BY <1>1, <2>1 DEF IsScreen
  <2>4. Heads(z, q, S)
    BY <1>0, <1>1, <1>2, <2>2, <2>3 DEF Heads
  <2> QED BY <1>0, <2>3, <2>4, ShowsHeads
<1>5. w \notin s.shown => OnTitleChanged(s, w, title) = s /\ w \notin S
  BY <1>1 DEF OnTitleChanged, Heads
<1> QED BY <1>3, <1>4, <1>5

LEMMA ShowsMode ==
    ASSUME NEW k \in WaveRecords, NEW s, NEW S, NEW m, Shows(s, k, S, m), NEW mode \in AllModes
    PROVE  Shows(OnModeChanged(s, mode), [k EXCEPT !.mode = mode], S, m)
<1> DEFINE q == [k EXCEPT !.mode = mode]
           z == OnModeChanged(s, mode)
<1>0. /\ q.mode = mode /\ q.members = k.members /\ q.anchor = k.anchor
      /\ q.blips = k.blips /\ q.threads = k.threads /\ q.title = k.title
  BY RemodedIs
<1>1. IsScreen(s) /\ Heads(s, k, S)
  BY DEF Shows
<1>2. /\ IsScreen(z) /\ z.blips = s.blips /\ z.shown = s.shown /\ z.threads = s.threads
      /\ z.title = s.title /\ z.members = s.members /\ z.mode = mode
  BY <1>1 DEF IsScreen, OnModeChanged
<1> HIDE DEF q, z
<1>3. Heads(z, q, S)
  BY <1>0, <1>1, <1>2 DEF Heads
<1>4. Shows(z, q, S, m)
  BY <1>0, <1>2, <1>3, ShowsHeads
<1> QED BY <1>4 DEF q, z

\* The people of the wavelets change; T is what the watcher still follows.
Gains(k, q, T, w, v) ==
    /\ q.mode = k.mode /\ q.title = k.title /\ q.anchor = k.anchor
    /\ q.blips = k.blips /\ q.threads = k.threads
    /\ w \in T => q.members[w] = k.members[w] \cup {v}
    /\ \A x \in T \ {w} : q.members[x] = k.members[x]

LEMMA ShowsJoin ==
    ASSUME NEW k, NEW q, NEW s, NEW S, NEW m, Shows(s, k, S, m), NEW w, NEW v,
           NEW T, T \subseteq S, Gains(k, q, T, w, v),
           NEW z, z = OnParticipantAdded(s, w, v) \/ (z = s /\ w \notin T)
    PROVE  Shows(z, q, T, m)
<1> DEFINE g == [s.members EXCEPT ![w] = s.members[w] \cup {v}]
<1>1. IsScreen(s) /\ Heads(s, k, S)
  BY DEF Shows
<1>2. /\ q.mode = k.mode /\ q.title = k.title /\ q.anchor = k.anchor
      /\ q.blips = k.blips /\ q.threads = k.threads
      /\ w \in T => q.members[w] = k.members[w] \cup {v}
      /\ \A x \in T \ {w} : q.members[x] = k.members[x]
  BY DEF Gains
<1>3. CASE z = s /\ w \notin T
  <2>1. Heads(s, q, T)
    BY <1>1, <1>2, <1>3 DEF Heads
  <2> QED BY <1>1, <1>2, <1>3, <2>1, ShowsHeads
<1>4. CASE w \in s.shown /\ z = OnParticipantAdded(s, w, v)
  <2>1. z = [s EXCEPT !.members = g]
    BY <1>1, <1>4 DEF OnParticipantAdded, IsScreen
  <2>2. DOMAIN g = s.shown /\ g[w] = s.members[w] \cup {v} /\ \A x \in s.shown \ {w} : g[x] = s.members[x]
    BY <1>1, <1>4 DEF Heads
  <2> HIDE DEF g
  <2>3. /\ IsScreen(z) /\ z.blips = s.blips /\ z.shown = s.shown /\ z.threads = s.threads
        /\ z.title = s.title /\ z.members = g /\ z.mode = s.mode
    BY <1>1, <2>1 DEF IsScreen
  <2>4. Heads(z, q, T)
    BY <1>1, <1>2, <2>2, <2>3 DEF Heads
  <2> QED BY <1>2, <2>3, <2>4, ShowsHeads
<1>5. w \notin s.shown => OnParticipantAdded(s, w, v) = s /\ w \notin T
  BY <1>1 DEF OnParticipantAdded, Heads
<1> QED BY <1>3, <1>4, <1>5

LEMMA ShowsLeave ==
    ASSUME NEW k, NEW q, NEW s, NEW S, NEW m, Shows(s, k, S, m),
           q.mode = k.mode, q.title = k.title, q.anchor = k.anchor,
           q.blips = k.blips, q.threads = k.threads, NEW ws, NEW v,
           NEW T, T \subseteq S, \A x \in T \cap ws : q.members[x] = k.members[x] \ {v},
           \A x \in T \ ws : q.members[x] = k.members[x],
           NEW z, z = OnParticipantRemoved(s, ws, v) \/ (z = s /\ ws = {})
    PROVE  Shows(z, q, T, m)
<1> DEFINE g == [w \in s.shown |-> s.members[w] \ (IF w \in ws THEN {v} ELSE {})]
<1>1. IsScreen(s) /\ Heads(s, k, S)
  BY DEF Shows
<1>2. CASE z = s /\ ws = {}
  <2>1. Heads(s, q, T)
    BY <1>1, <1>2 DEF Heads
  <2> QED BY <1>1, <1>2, <2>1, ShowsHeads
<1>3. CASE z = OnParticipantRemoved(s, ws, v)
  <2>1. z = [s EXCEPT !.members = g]
    BY <1>3 DEF OnParticipantRemoved
  <2>2. /\ DOMAIN g = s.shown /\ \A x \in s.shown \cap ws : g[x] = s.members[x] \ {v}
        /\ \A x \in s.shown \ ws : g[x] = s.members[x]
    OBVIOUS
  <2> HIDE DEF g
  <2>3. /\ IsScreen(z) /\ z.blips = s.blips /\ z.shown = s.shown /\ z.threads = s.threads
        /\ z.title = s.title /\ z.members = g /\ z.mode = s.mode
    BY <1>1, <2>1 DEF IsScreen
  <2>4. ASSUME NEW x \in T PROVE g[x] = q.members[x]
    <3>1. x \in s.shown /\ s.members[x] = k.members[x]
      BY <1>1 DEF Heads
    <3>2. CASE x \in ws
      BY <2>2, <3>1, <3>2, ZenonT(60)
    <3>3. CASE x \notin ws
      BY <2>2, <3>1, <3>3
    <3> QED BY <3>2, <3>3
  <2>5. Heads(z, q, T)
    BY <1>1, <2>2, <2>3, <2>4 DEF Heads
  <2> QED BY <2>3, <2>5, ShowsHeads
<1> QED BY <1>2, <1>3

\* A client that is told of a private reply has it with its first message.
LEMMA ShowsPrivate ==
    ASSUME NEW k \in WaveRecords, NEW q, NEW s, NEW S, NEW m \in Nat, Shows(s, k, S, m),
           Hung(k), Begun(k), Numbered(k, m), NEW p \in Privates, k.anchor[p] = NoBlip,
           NEW anchor, anchor # NoBlip, NEW people, NEW title, NEW x, x.wavelet = p,
           OnePrivate(k, q, p, anchor, people, title, m + 1, x),
           NEW T, T \subseteq S \cup {p}, T \subseteq Wavelets,
           NEW z, z = OnWaveletAdded(s, q, p) \/ (z = s /\ p \notin T)
    PROVE  Shows(z, q, T, m + 1)
<1> DEFINE b == m + 1
           new == {y \in DOMAIN q.blips : q.blips[y].wavelet = p}
           f == [y \in DOMAIN s.blips \cup new |-> IF y \in DOMAIN s.blips THEN s.blips[y] ELSE q.blips[y]]
           e == [w \in s.shown \cup {p} |-> IF w = p THEN q.title[p] ELSE s.title[w]]
           g == [w \in s.shown \cup {p} |-> IF w = p THEN q.members[p] ELSE s.members[w]]
<1>0. /\ IsScreen(s) /\ Heads(s, k, S) /\ HasThreads(s, k, S) /\ HasBlips(s, k, S) /\ Heard(s, m)
      /\ p \notin s.shown /\ s.shown # {} /\ S \subseteq s.shown
  BY DEF Shows, Heads
<1>1. /\ \A y \in DOMAIN s.blips : y # b /\ s.blips[y].wavelet # p
      /\ \A t \in DOMAIN s.threads : s.threads[t].blip # b /\ s.threads[t].wavelet # p
      /\ b \notin DOMAIN k.blips /\ b \in Nat /\ b <= b /\ \A i \in Nat : i <= m => i <= b
      /\ \A y \in Thread : y.blip \in Nat
  <2>1. \A y \in Thread : y.blip \in Nat
    BY WavesAssumption DEF Thread, Blips
  <2>2. DOMAIN k.blips \subseteq Nat
    BY WaveIs
  <2> QED BY <1>0, <2>1, <2>2 DEF Heard, Numbered
<1>2. /\ \A y \in DOMAIN k.blips : k.blips[y].wavelet # p
      /\ \A t \in DOMAIN k.threads : k.threads[t].wavelet # p
  BY DEF Begun, Hung
<1>3. /\ q.mode = k.mode /\ q.threads = k.threads
      /\ \A w \in Wavelets \ {p} : q.members[w] = k.members[w] /\ q.title[w] = k.title[w]
      /\ q.anchor[p] # NoBlip /\ \A y \in Privates \ {p} : q.anchor[y] = k.anchor[y]
      /\ DOMAIN q.blips = DOMAIN k.blips \cup {b} /\ q.blips[b] = x
      /\ \A y \in DOMAIN k.blips : q.blips[y] = k.blips[y]
  <2>1. /\ DOMAIN k.members = Wavelets /\ DOMAIN k.title = Wavelets /\ DOMAIN k.anchor = Privates
    BY WaveIs
  <2> HIDE DEF b
  <2> QED BY <1>1, <2>1 DEF OnePrivate, b
<1> HIDE DEF b
<1>4. new = {b}
  BY <1>2, <1>3
<1>5. DOMAIN f = DOMAIN s.blips \cup {b} /\ f[b] = x /\ \A y \in DOMAIN s.blips : f[y] = s.blips[y]
  BY <1>1, <1>3, <1>4
<1>6. /\ DOMAIN e = s.shown \cup {p} /\ e[p] = q.title[p] /\ \A w \in s.shown : e[w] = s.title[w]
      /\ DOMAIN g = s.shown \cup {p} /\ g[p] = q.members[p] /\ \A w \in s.shown : g[w] = s.members[w]
  BY <1>0
<1>7. OnWaveletAdded(s, q, p) = [shown |-> s.shown \cup {p}, mode |-> s.mode, title |-> e,
                                 members |-> g, blips |-> f, threads |-> s.threads]
  BY <1>0 DEF OnWaveletAdded
<1> HIDE DEF new, e, f, g
<1>8. CASE z = OnWaveletAdded(s, q, p)
  <2>0. p \in Wavelets
    BY DEF Wavelets
  <2>1. /\ IsScreen(z) /\ z.blips = f /\ z.shown = s.shown \cup {p} /\ z.threads = s.threads
        /\ z.title = e /\ z.members = g /\ z.mode = s.mode
    BY <1>0, <1>7, <1>8, <2>0 DEF IsScreen
  <2>2. Heads(z, q, T)
    <3>1. \A w \in T : z.members[w] = q.members[w] /\ z.title[w] = q.title[w]
      <4> SUFFICES ASSUME NEW w \in T PROVE z.members[w] = q.members[w] /\ z.title[w] = q.title[w]
        OBVIOUS
      <4>1. CASE w = p
        BY <1>6, <2>1, <4>1
      <4>2. CASE w # p
        <5>1. w \in S /\ w \in s.shown /\ w \in Wavelets
          BY <1>0, <4>2
        <5> QED BY <1>0, <1>3, <1>6, <2>1, <4>2, <5>1 DEF Heads
      <4> QED BY <4>1, <4>2
    <3>2. T \subseteq z.shown /\ z.shown # {} /\ z.mode = q.mode
      BY <1>0, <1>3, <2>1 DEF Heads
    <3>3. \A y \in Privates : y \in z.shown => q.anchor[y] # NoBlip
      BY <1>0, <1>3, <2>1 DEF Heads
    <3> QED BY <1>6, <2>1, <3>1, <3>2, <3>3 DEF Heads
  <2>3. Heard(z, b)
    BY <1>0, <1>1, <1>5, <2>1 DEF Heard
  <2>4. HasBlips(z, q, T)
    BY <1>0, <1>1, <1>2, <1>3, <1>5, <2>1 DEF HasBlips
  <2>5. HasThreads(z, q, T)
    BY <1>0, <1>1, <1>2, <1>3, <1>5, <2>1 DEF HasThreads
  <2> QED BY <2>1, <2>2, <2>3, <2>4, <2>5 DEF Shows, b
<1>9. CASE z = s /\ p \notin T
  <2>0. T \subseteq S
    BY <1>9
  <2>1. Heads(s, q, T)
    BY <1>0, <1>3, <1>9, <2>0 DEF Heads
  <2>2. Heard(s, b)
    BY <1>0, <1>1 DEF Heard
  <2>3. HasBlips(s, q, T)
    BY <1>0, <1>1, <1>3, <1>9, <2>0 DEF HasBlips
  <2>4. HasThreads(s, q, T)
    BY <1>0, <1>3, <2>0 DEF HasThreads
  <2> QED BY <1>0, <1>9, <2>1, <2>2, <2>3, <2>4 DEF Shows, b
<1> QED BY <1>8, <1>9

\* A snapshot shows its reader the wave as it is.
LEMMA ShowsView ==
    ASSUME NEW k \in WaveRecords, NEW u, NEW m \in Nat, Hung(k), Begun(k), Numbered(k, m), MayView(k, u)
    PROVE  \A ch : ServedBy(View(k, u), k, u, ch, m)
<1> DEFINE seen == Visible(k, u)
           blips == {b \in DOMAIN k.blips : k.blips[b].wavelet \in seen}
           threads == {t \in DOMAIN k.threads : k.threads[t].wavelet \in seen}
           z == View(k, u)
           f == Restrict(k.blips, blips)
           e == Restrict(k.title, seen)
           g == Restrict(k.members, seen)
           h == Restrict(k.threads, threads)
<1>1. z = [shown |-> seen, mode |-> k.mode, title |-> e, members |-> g, blips |-> f, threads |-> h]
  BY DEF View
<1>2. /\ DOMAIN f = blips /\ \A b \in blips : f[b] = k.blips[b]
      /\ DOMAIN h = threads /\ \A t \in threads : h[t] = k.threads[t]
      /\ DOMAIN e = seen /\ \A w \in seen : e[w] = k.title[w]
      /\ DOMAIN g = seen /\ \A w \in seen : g[w] = k.members[w]
  BY DEF Restrict
<1>3. /\ \A b : b \in blips <=> b \in DOMAIN k.blips /\ k.blips[b].wavelet \in seen
      /\ \A t : t \in threads <=> t \in DOMAIN k.threads /\ k.threads[t].wavelet \in seen
  OBVIOUS
<1>4. seen # {} /\ seen \subseteq Wavelets /\ \A w \in seen : u \in k.members[w]
  BY DEF Visible, MayAccess, MayView
<1>5. /\ DOMAIN k.blips \subseteq Nat /\ \A t \in DOMAIN k.threads : k.threads[t] \in Thread
  BY WaveIs
<1> HIDE DEF e, f, g, h, z, blips, threads, seen
<1>6. /\ IsScreen(z) /\ z.shown = seen /\ z.blips = f /\ z.threads = h /\ z.title = e /\ z.members = g
      /\ z.mode = k.mode
  BY <1>1, <1>4 DEF IsScreen
<1>7. Heads(z, k, seen)
  BY <1>2, <1>4, <1>6 DEF Heads, Begun
<1>8. Heard(z, m)
  <2>1. ASSUME NEW t \in threads PROVE k.threads[t].blip <= m
    BY <1>3, <2>1 DEF Hung, Numbered
  <2> QED BY <1>2, <1>3, <1>5, <1>6, <2>1 DEF Heard, Numbered
<1>9. HasBlips(z, k, seen)
  BY <1>2, <1>3, <1>6 DEF HasBlips
<1>10. HasThreads(z, k, seen)
  BY <1>2, <1>3, <1>6 DEF HasThreads
<1>11. Shows(z, k, seen, m)
  BY <1>6, <1>7, <1>8, <1>9, <1>10 DEF Shows
<1>12. \A ch : Shows(z, k, seen \ ch, m)
  BY <1>11, ShowsLess
<1> QED BY <1>12 DEF ServedBy, z, seen

\* A screen that shows the wave is what the server would send.
Current(s, k, u, ch) ==
    LET v == View(k, u)
        same == v.shown \ ch
        In(f) == {x \in DOMAIN f : f[x].wavelet \in same}
    IN /\ s.mode = v.mode /\ same \subseteq s.shown
       /\ \A w \in same : s.members[w] = v.members[w] /\ s.title[w] = v.title[w]
       /\ Restrict(s.blips, In(s.blips)) = Restrict(v.blips, In(v.blips))
       /\ Restrict(Drawn(s), In(Drawn(s))) = Restrict(v.threads, In(v.threads))

LEMMA ShowsAll ==
    ASSUME NEW k \in WaveRecords, NEW u, NEW s, NEW ch, NEW m, Hung(k), ServedBy(s, k, u, ch, m)
    PROVE  Current(s, k, u, ch)
<1> DEFINE seen == Visible(k, u)
           same == seen \ ch
           blips == {b \in DOMAIN k.blips : k.blips[b].wavelet \in seen}
           threads == {t \in DOMAIN k.threads : k.threads[t].wavelet \in seen}
           drawn == {t \in DOMAIN s.threads : s.threads[t].blip \in DOMAIN s.blips}
           v == View(k, u)
           f == Restrict(k.blips, blips)
           e == Restrict(k.title, seen)
           g == Restrict(k.members, seen)
           h == Restrict(k.threads, threads)
           In(r) == {x \in DOMAIN r : r[x].wavelet \in same}
           d == Drawn(s)
<1>1. v = [shown |-> seen, mode |-> k.mode, title |-> e, members |-> g, blips |-> f, threads |-> h]
  BY DEF View
<1>2. /\ DOMAIN f = blips /\ \A b \in blips : f[b] = k.blips[b]
      /\ DOMAIN h = threads /\ \A t \in threads : h[t] = k.threads[t]
      /\ DOMAIN d = drawn /\ \A t \in drawn : d[t] = s.threads[t]
      /\ DOMAIN e = seen /\ \A w \in seen : e[w] = k.title[w]
      /\ DOMAIN g = seen /\ \A w \in seen : g[w] = k.members[w]
  BY DEF Restrict, Drawn
<1>3. /\ \A b : b \in blips <=> b \in DOMAIN k.blips /\ k.blips[b].wavelet \in seen
      /\ \A t : t \in threads <=> t \in DOMAIN k.threads /\ k.threads[t].wavelet \in seen
      /\ \A t : t \in drawn <=> t \in DOMAIN s.threads /\ s.threads[t].blip \in DOMAIN s.blips
      /\ \A w \in same : w \in seen
  OBVIOUS
<1>4. /\ Heads(s, k, same) /\ HasBlips(s, k, same) /\ HasThreads(s, k, same)
  BY DEF ServedBy, Shows
<1> HIDE DEF e, f, g, h, v, d, blips, threads, drawn, seen, same
<1>5. /\ v.shown = seen /\ v.blips = f /\ v.threads = h /\ v.title = e /\ v.members = g
      /\ v.mode = k.mode
  BY <1>1
<1>6. /\ s.mode = v.mode /\ same \subseteq s.shown
      /\ \A w \in same : s.members[w] = v.members[w] /\ s.title[w] = v.title[w]
  BY <1>2, <1>3, <1>4, <1>5 DEF Heads
<1>7. Restrict(s.blips, In(s.blips)) = Restrict(f, In(f))
  <2>1. In(s.blips) = In(f) /\ \A b \in In(f) : s.blips[b] = f[b]
    BY <1>2, <1>3, <1>4 DEF HasBlips
  <2> HIDE DEF In
  <2> QED BY <2>1 DEF Restrict
<1>8. Restrict(d, In(d)) = Restrict(h, In(h))
  <2>1. ASSUME NEW t \in DOMAIN k.threads, k.threads[t].wavelet \in same
        PROVE  k.threads[t].blip \in DOMAIN s.blips
    <3>1. k.threads[t].blip \in DOMAIN k.blips /\ k.blips[k.threads[t].blip].wavelet = k.threads[t].wavelet
      BY DEF Hung
    <3> QED BY <1>4, <2>1, <3>1 DEF HasBlips
  <2>2. In(d) = In(h) /\ \A t \in In(h) : d[t] = h[t]
    BY <1>2, <1>3, <1>4, <2>1 DEF HasThreads
  <2> HIDE DEF In
  <2> QED BY <2>2 DEF Restrict
<1> QED BY <1>5, <1>6, <1>7, <1>8 DEF Current, v, d, seen, same

-----------------------------------------------------------------------------
(* The handlers.                                                           *)

\* The watchers are served after a step, whose changes are all that matters.
LEMMA ServedNext ==
    ASSUME \A d \in subs' : ServedBy(screen'[d], db', UserOf[d], changed'[d], minted')
    PROVE  Served'
BY DEF Served, ServedBy, Shows, Heads, Heard, HasBlips, HasThreads, IsScreen, Visible, MayView,
       MayAccess, Thread, Wavelets, Blips

\* Who is in which wavelet has not changed.
LEMMA SamePeople ==
    ASSUME Served, NEW d \in subs, NEW q, q.members = db.members, NEW z, NEW m,
           Shows(z, q, Visible(db, UserOf[d]) \ changed[d], m)
    PROVE  ServedBy(z, q, UserOf[d], changed[d], m)
<1>1. Visible(q, UserOf[d]) = Visible(db, UserOf[d])
  BY DEF Visible, MayAccess
<1>2. MayView(db, UserOf[d])
  BY DEF Served, ServedBy
<1> QED BY <1>1, <1>2 DEF ServedBy, MayView


\* The handler that runs has found what is stored.
LEMMA FoundIs ==
    ASSUME IInv, NEW c \in Conns, held[c] # "none"
    PROVE  /\ held[c] = "live" /\ resident /\ live = db /\ Found(c) = db /\ Watchers(c) = subs
           /\ Created /\ UserOf[c] \in Users /\ db \in WaveRecords
<1>1. held[c] = "live" /\ resident /\ live = db /\ Created
  BY DEF IInv, Cache
<1> QED BY <1>1, WavesAssumption DEF Found, Watchers, IInv, Shapes

\* There is a number left for a message.
LEMMA RoomIs ==
    ASSUME IInv, Room
    PROVE  minted \in Nat /\ minted + 1 \in Blips /\ minted + 1 \in 0..MaxBlips /\ 1 \in Blips
<1> DEFINE S == {w \in Wavelets : db.title[w] # FirstTitle}
<1>1. IsFiniteSet(Wavelets)
  BY WavesAssumption, FS_Singleton, FS_Union DEF Wavelets
<1>2. S \subseteq Wavelets
  OBVIOUS
<1>3. IsFiniteSet(S)
  BY <1>1, <1>2, FS_Subset
<1>4. Cardinality(S) \in Nat
  BY <1>3, FS_CardinalityType
<1>5. minted + Cardinality(S) < MaxBlips /\ minted \in Nat /\ MaxBlips \in Nat
  BY WavesAssumption DEF Room, IInv, Shapes
<1> QED BY <1>4, <1>5 DEF Blips

\* A message comes at the end of its wavelet.
LEMMA SeqIs ==
    ASSUME IInv, NEW w
    PROVE  /\ NextSeq(db, w) \in 0..minted /\ NextSeq(db, w) \in 0..MaxBlips /\ NextSeq(db, w) <= minted
           /\ \A b \in DOMAIN db.blips : db.blips[b].wavelet = w => db.blips[b].seq < NextSeq(db, w)
           /\ minted + 1 \notin DOMAIN db.blips
<1>1. /\ minted \in 0..MaxBlips /\ minted \in Nat /\ MaxBlips \in Nat /\ Numbered(db, minted)
      /\ DOMAIN db.blips \subseteq Nat /\ \A b \in DOMAIN db.blips : db.blips[b].seq \in Nat
  BY WaveIs, WavesAssumption DEF IInv, Shapes
<1>2. /\ NextSeq(db, w) \in 0..minted
      /\ \A b \in DOMAIN db.blips : db.blips[b].wavelet = w => db.blips[b].seq < NextSeq(db, w)
  BY <1>1, NextSeqIsPast
<1>3. minted + 1 \notin DOMAIN db.blips
  BY <1>1 DEF Numbered
<1> QED BY <1>1, <1>2, <1>3

\* A handler writes, changes its copy in the same way and tells the watchers.
LEMMA CommandGood ==
    ASSUME IInv, NEW c \in Conns, held[c] # "none", NEW q \in WaveRecords, q.creator = db.creator,
           db' = q, Finish(c, q), resident' = resident, subs' \subseteq subs,
           subscribed' = subscribed, changed' \in [Conns -> SUBSET Wavelets],
           minted' \in 0..MaxBlips, Numbered(q, minted'), Begun(q), Inside(q), Distinct(q),
           Dangling = FALSE /\ Hung(db) => Hung(q),
           screen' = [d \in Conns |-> screen'[d]],
           \A d \in Conns :
             /\ IsScreen(screen'[d])
             /\ \A w \in Wavelets : UserOf[d] \notin db.members[w] \cup q.members[w] =>
                  Hides(screen[d], screen'[d], w),
           Hung(db) /\ Served =>
             \A d \in subs' : ServedBy(screen'[d], q, UserOf[d], changed'[d], minted'),
           db.mode = "frozen" /\ q.mode = "frozen" =>
             q.blips = db.blips /\ q.threads = db.threads /\ q.title = db.title /\ q.anchor = db.anchor
    PROVE  Good
<1>1. held[c] = "live" /\ resident /\ live = db /\ Created
  BY FoundIs
<1>2. /\ held' = [held EXCEPT ![c] = "none"] /\ live' = q /\ orphan' = orphan
  BY <1>1 DEF Finish
<1>3. Created'
  BY <1>1 DEF Created
<1>4. resident' = TRUE
  BY <1>1 DEF IInv, Cache
<1>5. held' \in [Conns -> {"none", "live"}] /\ subs' \subseteq Conns /\ subscribed' \subseteq Conns
      /\ orphan' = Blank
  BY <1>2 DEF IInv, Cache
<1>6. Cache'
  BY <1>2, <1>3, <1>4, <1>5 DEF Cache, Blank, Wavelets, Blips
<1>7. Shapes'
  BY DEF Shapes, IsScreen, Numbered, WaveRecords, BlipMaps, ThreadMaps
<1>8. Rows'
  BY DEF Rows, Begun, Inside, Distinct
<1>9. Links
  BY DEF Links
<1>10. NothingLeaks
  BY DEF NothingLeaks, Hides
<1>11. FrozenStaysFrozen
  BY DEF FrozenStaysFrozen
<1>12. Serves
  BY ServedNext DEF Serves
<1> QED BY <1>12, <1>6, <1>7, <1>8, <1>9, <1>10, <1>11 DEF Good, IInv

\* A message about w goes to those who are in w.
LEMMA TellGood ==
    ASSUME IInv, NEW q, NEW w, NEW d \in Conns,
           \/ screen'[d] = screen[d]
           \/ UserOf[d] \in db.members[w] \cup q.members[w] /\ Follows(screen[d], screen'[d], w)
           \/ IsScreen(screen'[d]) /\ \A v : Hides(screen[d], screen'[d], v)
    PROVE  /\ IsScreen(screen'[d])
           /\ \A v \in Wavelets : UserOf[d] \notin db.members[v] \cup q.members[v] =>
                Hides(screen[d], screen'[d], v)
<1>1. IsScreen(screen[d])
  BY DEF IInv, Shapes
<1> QED BY <1>1, SameBlips DEF Follows

LEMMA CreateBlipGood ==
    ASSUME IInv, NEW c \in Conns, NEW w \in Wavelets, NEW parent \in {NoBlip} \cup Blips,
           CreateBlip(c, w, parent)
    PROVE  Good
<1> DEFINE u == UserOf[c]
           b == minted + 1
           x == NewBlip(w, u, parent, NoThread, NextSeq(db, w))
           q == WithBlip(db, b, x)
<1>0. held[c] # "none" /\ Room
  BY DEF CreateBlip
<1>1. /\ Found(c) = db /\ Watchers(c) = subs /\ u \in Users /\ db \in WaveRecords
  BY <1>0, FoundIs
<1>2. /\ u \in db.members[w] /\ Permit(db, u, IF parent = NoBlip THEN "NewMessage" ELSE "Reply")
      /\ parent # NoBlip => /\ parent \in DOMAIN db.blips /\ db.blips[parent].wavelet = w
                            /\ Dangling \/ db.blips[parent].thread = NoThread
      /\ minted' = b /\ db' = q /\ Finish(c, q)
      /\ screen' = [d \in Conns |-> IF d \in subs /\ Told(db, UserOf[d], {w}) # {}
                                    THEN OnBlipAdded(screen[d], w, b, x) ELSE screen[d]]
      /\ UNCHANGED <<resident, subs, subscribed, changed>>
  BY <1>1 DEF CreateBlip, MayAccess, Broadcast
<1>3. /\ minted \in Nat /\ b \in Blips /\ b \in 0..MaxBlips
  BY <1>0, RoomIs
<1>4. /\ x \in Blip /\ x.wavelet = w /\ x.parent = parent /\ x.thread = NoThread /\ x.seq = NextSeq(db, w)
  BY <1>1, SeqIs DEF NewBlip, Blip
<1>5. /\ NextSeq(db, w) <= minted /\ b \notin DOMAIN db.blips
      /\ \A y \in DOMAIN db.blips : db.blips[y].wavelet = w => db.blips[y].seq < NextSeq(db, w)
  BY SeqIs
<1> HIDE DEF x, u
<1>6. /\ q \in WaveRecords /\ q.creator = db.creator /\ q.mode = db.mode
      /\ q.members = db.members /\ q.title = db.title /\ q.anchor = db.anchor
      /\ q.threads = db.threads
      /\ DOMAIN q.blips = DOMAIN db.blips \cup {b} /\ q.blips[b] = x
      /\ \A y \in DOMAIN db.blips \ {b} : q.blips[y] = db.blips[y]
  BY <1>1, <1>3, <1>4, WithBlipIs
<1>7. OneMore(db, q, b, x)
  BY <1>5, <1>6 DEF OneMore
<1> HIDE DEF q
<1>8. Numbered(q, b) /\ Begun(q) /\ Inside(q) /\ Distinct(q)
  BY <1>1, <1>2, <1>3, <1>4, <1>5, <1>6, <1>7, OneMoreRows DEF IInv, Shapes, Rows
<1>9. ASSUME Dangling = FALSE, Hung(db) PROVE Hung(q)
  <2>1. NoThread \notin DOMAIN q.threads
    BY <1>1, <1>6, WaveIs, WavesAssumption
  <2> QED BY <1>2, <1>4, <1>6, <1>7, <1>9, <2>1, OneMoreHung
<1>13. ASSUME Hung(db), Served, NEW d \in subs'
       PROVE  ServedBy(screen'[d], q, UserOf[d], changed'[d], b)
  <2> DEFINE S == Visible(db, UserOf[d]) \ changed[d]
  <2>1. d \in subs /\ d \in Conns /\ changed'[d] = changed[d]
    BY <1>2, <1>13 DEF IInv, Cache
  <2>2. Shows(screen[d], db, S, minted)
    BY <1>13, <2>1 DEF Served, ServedBy
  <2>3. screen'[d] = OnBlipAdded(screen[d], w, b, x) \/ (screen'[d] = screen[d] /\ w \notin S)
    BY <1>2, <2>1 DEF Told
  <2> HIDE DEF S
  <2>4. Shows(screen'[d], q, S, b)
    <3>1. /\ q.mode = db.mode /\ q.members = db.members /\ q.title = db.title
          /\ q.anchor = db.anchor /\ q.threads = db.threads
      BY <1>6
    <3>2. \/ screen'[d] = OnBlipAdded(screen[d], x.wavelet, b, x)
          \/ screen'[d] = screen[d] /\ x.wavelet \notin S
      BY <1>4, <2>3
    <3>3. minted \in Nat
      BY <1>3
    <3> QED BY <1>7, <2>2, <3>1, <3>2, <3>3, ShowsBlip
  <2> QED BY <1>13, <2>1, <2>4, <1>6, SamePeople DEF S
<1> HIDE DEF b
<1>10. screen' = [d \in Conns |-> screen'[d]]
  BY <1>2
<1>11. ASSUME NEW d \in Conns
       PROVE  /\ IsScreen(screen'[d])
              /\ \A v \in Wavelets : UserOf[d] \notin db.members[v] \cup q.members[v] =>
                   Hides(screen[d], screen'[d], v)
  <2>1. IsScreen(screen[d])
    BY DEF IInv, Shapes
  <2>2. Follows(screen[d], OnBlipAdded(screen[d], w, b, x), w)
    BY <1>4, <2>1, OnBlipAddedIs
  <2>3. Told(db, UserOf[d], {w}) # {} => UserOf[d] \in db.members[w]
    BY DEF Told, Visible, MayAccess
  <2> QED BY <1>2, <2>2, <2>3, TellGood
<1>12. db.mode # "frozen"
  BY <1>2 DEF Permit, AllowsNewMessage, AllowsReplies
<1> QED BY <1>13, <1>0, <1>1, <1>2, <1>3, <1>6, <1>8, <1>9, <1>10, <1>11, <1>12, CommandGood DEF IInv, Cache

LEMMA CreateCommentGood ==
    ASSUME IInv, NEW c \in Conns, NEW w \in Wavelets, NEW a \in Blips, NEW t \in Threads,
           CreateComment(c, w, a, t)
    PROVE  Good
<1> DEFINE u == UserOf[c]
           b == minted + 1
           x == NewBlip(w, u, a, t, NextSeq(db, w))
           y == [wavelet |-> w, blip |-> a, resolved |-> FALSE]
           h == WithThread(db, t, y)
           q == WithBlip(h, b, x)
<1>0. held[c] # "none" /\ Room
  BY DEF CreateComment
<1>1. /\ Found(c) = db /\ Watchers(c) = subs /\ u \in Users /\ db \in WaveRecords
  BY <1>0, FoundIs
<1>2. /\ u \in db.members[w] /\ Permit(db, u, "Comment")
      /\ t \notin DOMAIN db.threads
      /\ a \in DOMAIN db.blips /\ db.blips[a].wavelet = w /\ db.blips[a].thread = NoThread
      /\ minted' = b /\ db' = q /\ Finish(c, q)
      /\ screen' = [d \in Conns |-> IF d \in subs /\ Told(db, UserOf[d], {w}) # {}
                                    THEN OnCommentAdded(screen[d], w, t, y, b, x) ELSE screen[d]]
      /\ UNCHANGED <<resident, subs, subscribed, changed>>
  BY <1>1 DEF CreateComment, MayAccess, Broadcast, CommentRows
<1>3. /\ minted \in Nat /\ b \in Blips /\ b \in 0..MaxBlips
  BY <1>0, RoomIs
<1>4. /\ x \in Blip /\ x.wavelet = w /\ x.parent = a /\ x.thread = t /\ x.seq = NextSeq(db, w)
  BY <1>1, SeqIs DEF NewBlip, Blip
<1>5. /\ NextSeq(db, w) <= minted /\ b \notin DOMAIN db.blips
      /\ \A z \in DOMAIN db.blips : db.blips[z].wavelet = w => db.blips[z].seq < NextSeq(db, w)
  BY SeqIs
<1>6. y \in Thread /\ y.wavelet = w /\ y.blip = a
  BY DEF Thread
<1> HIDE DEF x, u, y
<1>7. /\ h \in WaveRecords /\ h.creator = db.creator /\ h.mode = db.mode
      /\ h.members = db.members /\ h.title = db.title /\ h.anchor = db.anchor
      /\ h.blips = db.blips
      /\ DOMAIN h.threads = DOMAIN db.threads \cup {t} /\ h.threads[t] = y
      /\ \A z \in DOMAIN db.threads \ {t} : h.threads[z] = db.threads[z]
  BY <1>1, <1>6, WithThreadIs
<1> HIDE DEF h
<1>8. /\ q \in WaveRecords /\ q.creator = h.creator /\ q.mode = h.mode
      /\ q.members = h.members /\ q.title = h.title /\ q.anchor = h.anchor
      /\ q.threads = h.threads
      /\ DOMAIN q.blips = DOMAIN h.blips \cup {b} /\ q.blips[b] = x
      /\ \A z \in DOMAIN h.blips \ {b} : q.blips[z] = h.blips[z]
  BY <1>3, <1>4, <1>7, WithBlipIs
<1> HIDE DEF q
<1>9. OneMore(db, q, b, x) /\ q.members = db.members /\ q.anchor = db.anchor
  BY <1>5, <1>7, <1>8 DEF OneMore
<1>10. Numbered(q, b) /\ Begun(q) /\ Inside(q) /\ Distinct(q)
  BY <1>1, <1>2, <1>3, <1>4, <1>5, <1>9, OneMoreRows DEF IInv, Shapes, Rows
<1>11. ASSUME Dangling = FALSE, Hung(db) PROVE Hung(q)
  <2>1. NoThread \notin DOMAIN q.threads
    BY <1>7, <1>8, WaveIs, WavesAssumption
  <2>2. /\ DOMAIN db.threads \subseteq DOMAIN q.threads
        /\ \A z \in DOMAIN db.threads : q.threads[z] = db.threads[z]
        /\ \A z \in DOMAIN q.threads : z \in DOMAIN db.threads \/ z = x.thread
        /\ x.thread \in DOMAIN q.threads /\ x.parent # NoBlip
        /\ q.threads[x.thread].blip = x.parent /\ q.threads[x.thread].wavelet = x.wavelet
    BY <1>2, <1>4, <1>6, <1>7, <1>8, WavesAssumption DEF Blips, NoBlip
  <2> QED BY <1>2, <1>4, <1>9, <1>11, <2>1, <2>2, OneMoreHung
<1>15. ASSUME Hung(db), Served, NEW d \in subs'
       PROVE  ServedBy(screen'[d], q, UserOf[d], changed'[d], b)
  <2> DEFINE S == Visible(db, UserOf[d]) \ changed[d]
  <2>1. d \in subs /\ d \in Conns /\ changed'[d] = changed[d]
    BY <1>2, <1>15 DEF IInv, Cache
  <2>2. Shows(screen[d], db, S, minted)
    BY <1>15, <2>1 DEF Served, ServedBy
  <2>3. screen'[d] = OnCommentAdded(screen[d], w, t, y, b, x) \/ (screen'[d] = screen[d] /\ w \notin S)
    BY <1>2, <2>1 DEF Told
  <2> HIDE DEF S
  <2>4. Shows(screen'[d], q, S, b)
    <3>1. /\ q.mode = db.mode /\ q.members = db.members /\ q.title = db.title /\ q.anchor = db.anchor
          /\ DOMAIN q.threads = DOMAIN db.threads \cup {t} /\ q.threads[t] = y
          /\ t \notin DOMAIN db.threads /\ \A r \in DOMAIN db.threads : q.threads[r] = db.threads[r]
      BY <1>2, <1>7, <1>8
    <3>2. /\ \/ screen'[d] = OnCommentAdded(screen[d], x.wavelet, t, y, b, x)
             \/ screen'[d] = screen[d] /\ x.wavelet \notin S
          /\ y.wavelet = x.wavelet /\ y \in Thread
      BY <1>4, <1>6, <2>3
    <3>3. minted \in Nat
      BY <1>3
    <3>4. y.blip <= minted
      BY <1>2, <1>6 DEF IInv, Shapes, Numbered
    <3> QED BY <1>9, <2>2, <3>1, <3>2, <3>3, <3>4, ShowsComment
  <2> QED BY <1>15, <2>1, <2>4, <1>9, SamePeople DEF S
<1> HIDE DEF b
<1>12. screen' = [d \in Conns |-> screen'[d]]
  BY <1>2
<1>13. ASSUME NEW d \in Conns
       PROVE  /\ IsScreen(screen'[d])
              /\ \A v \in Wavelets : UserOf[d] \notin db.members[v] \cup q.members[v] =>
                   Hides(screen[d], screen'[d], v)
  <2>1. IsScreen(screen[d])
    BY DEF IInv, Shapes
  <2>2. Follows(screen[d], OnCommentAdded(screen[d], w, t, y, b, x), w)
    BY <1>4, <2>1, OnCommentAddedIs
  <2>3. Told(db, UserOf[d], {w}) # {} => UserOf[d] \in db.members[w]
    BY DEF Told, Visible, MayAccess
  <2> QED BY <1>2, <2>2, <2>3, TellGood
<1>14. db.mode # "frozen"
  BY <1>2 DEF Permit, AllowsComments
<1> QED BY <1>15, <1>0, <1>2, <1>3, <1>7, <1>8, <1>10, <1>11, <1>12, <1>13, <1>14, CommandGood
        DEF IInv, Cache

LEMMA ReplyToCommentGood ==
    ASSUME IInv, NEW c \in Conns, NEW t \in Threads, ReplyToComment(c, t)
    PROVE  Good
<1> DEFINE u == UserOf[c]
           b == minted + 1
           w == db.threads[t].wavelet
           x == NewBlip(w, u, db.threads[t].blip, t, NextSeq(db, w))
           q == WithBlip(db, b, x)
<1>0. held[c] # "none" /\ Room
  BY DEF ReplyToComment
<1>1. /\ Found(c) = db /\ Watchers(c) = subs /\ u \in Users /\ db \in WaveRecords
  BY <1>0, FoundIs
<1>2. /\ t \in DOMAIN db.threads /\ u \in db.members[w] /\ Permit(db, u, "Comment")
      /\ minted' = b /\ db' = q /\ Finish(c, q)
      /\ screen' = [d \in Conns |-> IF d \in subs /\ Told(db, UserOf[d], {w}) # {}
                                    THEN OnBlipAdded(screen[d], w, b, x) ELSE screen[d]]
      /\ UNCHANGED <<resident, subs, subscribed, changed>>
  BY <1>1 DEF ReplyToComment, MayAccess, Broadcast
<1>3. /\ minted \in Nat /\ b \in Blips /\ b \in 0..MaxBlips
  BY <1>0, RoomIs
<1>4. w \in Wavelets /\ db.threads[t].blip \in Blips
  BY <1>1, <1>2, WaveIs
<1> HIDE DEF w
<1>5. /\ x \in Blip /\ x.wavelet = w /\ x.parent = db.threads[t].blip /\ x.thread = t
      /\ x.seq = NextSeq(db, w)
  BY <1>1, <1>4, SeqIs DEF NewBlip, Blip
<1>6. /\ NextSeq(db, w) <= minted /\ b \notin DOMAIN db.blips
      /\ \A z \in DOMAIN db.blips : db.blips[z].wavelet = w => db.blips[z].seq < NextSeq(db, w)
  BY SeqIs
<1> HIDE DEF x, u
<1>7. /\ q \in WaveRecords /\ q.creator = db.creator /\ q.mode = db.mode
      /\ q.members = db.members /\ q.title = db.title /\ q.anchor = db.anchor
      /\ q.threads = db.threads
      /\ DOMAIN q.blips = DOMAIN db.blips \cup {b} /\ q.blips[b] = x
      /\ \A z \in DOMAIN db.blips \ {b} : q.blips[z] = db.blips[z]
  BY <1>1, <1>3, <1>5, WithBlipIs
<1> HIDE DEF q
<1>8. OneMore(db, q, b, x)
  BY <1>6, <1>7 DEF OneMore
<1>9. Numbered(q, b) /\ Begun(q) /\ Inside(q) /\ Distinct(q)
  <2>1. db.members[x.wavelet] # {}
    BY <1>2, <1>5
  <2>2. x.seq <= minted /\ \A z \in DOMAIN db.blips : db.blips[z].wavelet = x.wavelet => db.blips[z].seq < x.seq
    BY <1>5, <1>6
  <2>3. Numbered(db, minted) /\ Begun(db) /\ Inside(db) /\ Distinct(db)
    BY DEF IInv, Shapes, Rows
  <2>4. x \in Blip /\ q.members = db.members /\ q.anchor = db.anchor
    BY <1>5, <1>7
  <2> QED BY <1>1, <1>3, <1>8, <2>1, <2>2, <2>3, <2>4, OneMoreRows
<1>10. ASSUME Dangling = FALSE, Hung(db) PROVE Hung(q)
  <2>1. NoThread \notin DOMAIN q.threads
    BY <1>7, WaveIs, WavesAssumption
  <2>2. /\ x.parent \in DOMAIN db.blips /\ db.blips[x.parent].wavelet = x.wavelet
        /\ db.blips[x.parent].thread = NoThread /\ db.threads[t].wavelet = x.wavelet
    BY <1>2, <1>5, <1>10 DEF Hung, w
  <2>3. x.parent # NoBlip
    BY <1>4, <1>5, WavesAssumption DEF Blips, NoBlip
  <2> QED BY <1>2, <1>5, <1>7, <1>8, <1>10, <2>1, <2>2, <2>3, OneMoreHung
<1>14. ASSUME Hung(db), Served, NEW d \in subs'
       PROVE  ServedBy(screen'[d], q, UserOf[d], changed'[d], b)
  <2> DEFINE S == Visible(db, UserOf[d]) \ changed[d]
  <2>1. d \in subs /\ d \in Conns /\ changed'[d] = changed[d]
    BY <1>2, <1>14 DEF IInv, Cache
  <2>2. Shows(screen[d], db, S, minted)
    BY <1>14, <2>1 DEF Served, ServedBy
  <2>3. screen'[d] = OnBlipAdded(screen[d], w, b, x) \/ (screen'[d] = screen[d] /\ w \notin S)
    BY <1>2, <2>1 DEF Told
  <2> HIDE DEF S
  <2>4. Shows(screen'[d], q, S, b)
    <3>1. /\ q.mode = db.mode /\ q.members = db.members /\ q.title = db.title
          /\ q.anchor = db.anchor /\ q.threads = db.threads
      BY <1>7
    <3>2. \/ screen'[d] = OnBlipAdded(screen[d], x.wavelet, b, x)
          \/ screen'[d] = screen[d] /\ x.wavelet \notin S
      BY <1>5, <2>3
    <3>3. minted \in Nat
      BY <1>3
    <3> QED BY <1>8, <2>2, <3>1, <3>2, <3>3, ShowsBlip
  <2> QED BY <1>14, <2>1, <2>4, <1>7, SamePeople DEF S
<1> HIDE DEF b
<1>11. screen' = [d \in Conns |-> screen'[d]]
  BY <1>2
<1>12. ASSUME NEW d \in Conns
       PROVE  /\ IsScreen(screen'[d])
              /\ \A v \in Wavelets : UserOf[d] \notin db.members[v] \cup q.members[v] =>
                   Hides(screen[d], screen'[d], v)
  <2>1. IsScreen(screen[d])
    BY DEF IInv, Shapes
  <2>2. Follows(screen[d], OnBlipAdded(screen[d], w, b, x), w)
    BY <1>5, <2>1, OnBlipAddedIs
  <2>3. Told(db, UserOf[d], {w}) # {} => UserOf[d] \in db.members[w]
    BY DEF Told, Visible, MayAccess
  <2> QED BY <1>2, <2>2, <2>3, TellGood
<1>13. db.mode # "frozen"
  BY <1>2 DEF Permit, AllowsComments
<1> QED BY <1>14, <1>0, <1>2, <1>3, <1>7, <1>9, <1>10, <1>11, <1>12, <1>13, CommandGood DEF IInv, Cache

LEMMA ResolveCommentGood ==
    ASSUME IInv, NEW c \in Conns, NEW t \in Threads, NEW resolved \in BOOLEAN,
           ResolveComment(c, t, resolved)
    PROVE  Good
<1> DEFINE q == [db EXCEPT !.threads[t].resolved = resolved]
           w == db.threads[t].wavelet
<1>0. held[c] # "none"
  BY DEF ResolveComment
<1>1. /\ Found(c) = db /\ Watchers(c) = subs /\ db \in WaveRecords
  BY <1>0, FoundIs
<1>2. /\ t \in DOMAIN db.threads /\ Permit(db, UserOf[c], "ResolveComment")
      /\ db' = q /\ Finish(c, q)
      /\ screen' = [d \in Conns |-> IF d \in subs /\ Told(db, UserOf[d], {w}) # {}
                                    THEN OnCommentResolved(screen[d], t, resolved) ELSE screen[d]]
      /\ UNCHANGED <<resident, subs, subscribed, minted, changed>>
  BY <1>1 DEF ResolveComment, SetCommentResolved, Broadcast
<1>9. OneSettled(db, q, t, resolved)
  BY <1>1, <1>2, ResolvedIs
<1> HIDE DEF q
<1>3. /\ q \in WaveRecords /\ q.creator = db.creator /\ q.mode = db.mode
      /\ q.members = db.members /\ q.title = db.title /\ q.anchor = db.anchor
      /\ q.blips = db.blips /\ DOMAIN q.threads = DOMAIN db.threads
      /\ \A x \in DOMAIN db.threads : /\ q.threads[x].blip = db.threads[x].blip
                                      /\ q.threads[x].wavelet = db.threads[x].wavelet
  BY <1>9 DEF OneSettled
<1>10. ASSUME Hung(db), Served, NEW d \in subs'
       PROVE  ServedBy(screen'[d], q, UserOf[d], changed'[d], minted)
  <2> DEFINE S == Visible(db, UserOf[d]) \ changed[d]
  <2>1. d \in subs /\ d \in Conns /\ changed'[d] = changed[d]
    BY <1>2, <1>10 DEF IInv, Cache
  <2>2. Shows(screen[d], db, S, minted)
    BY <1>10, <2>1 DEF Served, ServedBy
  <2>3. screen'[d] = OnCommentResolved(screen[d], t, resolved) \/ (screen'[d] = screen[d] /\ w \notin S)
    BY <1>2, <2>1 DEF Told
  <2> HIDE DEF S
  <2>4. Shows(screen'[d], q, S, minted)
    BY <1>1, <1>2, <2>2, <2>3, <1>9, ShowsResolved
  <2> QED BY <1>10, <2>1, <2>4, <1>3, SamePeople DEF S
<1> HIDE DEF w
<1>4. Numbered(q, minted) /\ Begun(q) /\ Inside(q) /\ Distinct(q)
  BY <1>3, SameRows DEF IInv, Shapes, Rows
<1>5. Hung(db) => Hung(q)
  BY <1>3, SameHung
<1>6. screen' = [d \in Conns |-> screen'[d]]
  BY <1>2
<1>7. ASSUME NEW d \in Conns
      PROVE  /\ IsScreen(screen'[d])
             /\ \A v \in Wavelets : UserOf[d] \notin db.members[v] \cup q.members[v] =>
                  Hides(screen[d], screen'[d], v)
  <2>1. IsScreen(screen[d])
    BY DEF IInv, Shapes
  <2>2. /\ IsScreen(OnCommentResolved(screen[d], t, resolved))
        /\ \A v : Hides(screen[d], OnCommentResolved(screen[d], t, resolved), v)
    BY <2>1, OnCommentResolvedIs
  <2> QED BY <1>2, <2>2, TellGood
<1>8. db.mode # "frozen"
  BY <1>2 DEF Permit, AllowsResolve
<1> QED BY <1>10, <1>0, <1>2, <1>3, <1>4, <1>5, <1>6, <1>7, <1>8, CommandGood DEF IInv, Cache, Shapes

LEMMA DeleteBlipGood ==
    ASSUME IInv, NEW c \in Conns, NEW b \in Blips, DeleteBlip(c, b)
    PROVE  Good
<1> DEFINE threads == {t \in DOMAIN db.threads : db.threads[t].blip = b}
           remarks == Remarks(db, threads)
           w == db.blips[b].wavelet
           q == DeleteRows(db, b)
<1>0. held[c] # "none"
  BY DEF DeleteBlip
<1>1. /\ Found(c) = db /\ Watchers(c) = subs /\ db \in WaveRecords
  BY <1>0, FoundIs
<1>2. /\ b \in DOMAIN db.blips /\ db.blips[b].thread = NoThread /\ ~HasReplies(db, b)
      /\ Permit(db, UserOf[c], "Delete")
      /\ Dangling \/ \A p \in Privates : db.anchor[p] \notin {b} \cup remarks
      /\ db' = q /\ Finish(c, Without(db, b))
      /\ screen' = [d \in Conns |-> IF d \in subs /\ Told(db, UserOf[d], {w}) # {}
                                    THEN OnBlipsRemoved(screen[d], {b} \cup remarks) ELSE screen[d]]
      /\ UNCHANGED <<resident, subs, subscribed, minted, changed>>
  BY <1>1 DEF DeleteBlip, Broadcast, Without
<1>3. q = Without(db, b) /\ q \in WaveRecords /\ q.creator = db.creator /\ q.members = db.members
  BY <1>1, DeleteRowsIs
<1>4. Numbered(q, minted) /\ Begun(q) /\ Inside(q) /\ Distinct(q)
  <2>1. minted \in Nat
    BY WavesAssumption DEF IInv, Shapes
  <2> QED BY <1>1, <2>1, DeleteKeepsRows DEF IInv, Shapes, Rows
<1>5. ASSUME Dangling = FALSE, Hung(db) PROVE Hung(q)
  BY <1>1, <1>2, <1>5, DeleteKeepsLinks
<1>9. ASSUME Hung(db), Served, NEW d \in subs'
       PROVE  ServedBy(screen'[d], q, UserOf[d], changed'[d], minted)
  <2> DEFINE S == Visible(db, UserOf[d]) \ changed[d]
  <2>1. d \in subs /\ d \in Conns /\ changed'[d] = changed[d]
    BY <1>2, <1>9 DEF IInv, Cache
  <2>2. Shows(screen[d], db, S, minted)
    BY <1>9, <2>1 DEF Served, ServedBy
  <2>3. screen'[d] = OnBlipsRemoved(screen[d], {b} \cup remarks) \/ (screen'[d] = screen[d] /\ w \notin S)
    BY <1>2, <2>1 DEF Told
  <2> HIDE DEF S
  <2>4. Shows(screen'[d], q, S, minted)
    BY <1>1, <1>2, <2>2, <2>3, <1>3, <1>9, ShowsRemoved
  <2> QED BY <1>9, <2>1, <2>4, <1>3, SamePeople DEF S
<1> HIDE DEF q, w, remarks, threads
<1>6. screen' = [d \in Conns |-> screen'[d]]
  BY <1>2
<1>7. ASSUME NEW d \in Conns
      PROVE  /\ IsScreen(screen'[d])
             /\ \A v \in Wavelets : UserOf[d] \notin db.members[v] \cup q.members[v] =>
                  Hides(screen[d], screen'[d], v)
  <2>1. IsScreen(screen[d])
    BY DEF IInv, Shapes
  <2>2. /\ IsScreen(OnBlipsRemoved(screen[d], {b} \cup remarks))
        /\ \A v : Hides(screen[d], OnBlipsRemoved(screen[d], {b} \cup remarks), v)
    BY <2>1, OnBlipsRemovedIs
  <2> QED BY <1>2, <2>2, TellGood
<1>8. db.mode # "frozen"
  BY <1>2 DEF Permit, AllowsDelete
<1> QED BY <1>9, <1>0, <1>2, <1>3, <1>4, <1>5, <1>6, <1>7, <1>8, CommandGood DEF IInv, Cache, Shapes

LEMMA SetTitleGood ==
    ASSUME IInv, NEW c \in Conns, NEW w \in Wavelets, NEW title \in Titles, SetTitle(c, w, title)
    PROVE  Good
<1> DEFINE q == [db EXCEPT !.title[w] = title]
<1>0. held[c] # "none"
  BY DEF SetTitle
<1>1. /\ Found(c) = db /\ Watchers(c) = subs /\ db \in WaveRecords
  BY <1>0, FoundIs
<1>2. /\ Permit(db, UserOf[c], "Retitle") /\ db' = q /\ Finish(c, q)
      /\ screen' = [d \in Conns |-> IF d \in subs /\ Told(db, UserOf[d], {w}) # {}
                                    THEN OnTitleChanged(screen[d], w, title) ELSE screen[d]]
      /\ UNCHANGED <<resident, subs, subscribed, minted, changed>>
  BY <1>1 DEF SetTitle, Broadcast
<1>3. /\ q \in WaveRecords /\ q.creator = db.creator
      /\ q.members = db.members /\ q.anchor = db.anchor
      /\ q.blips = db.blips /\ q.threads = db.threads
  BY <1>1, RetitledIs
<1>9. ASSUME Hung(db), Served, NEW d \in subs'
       PROVE  ServedBy(screen'[d], q, UserOf[d], changed'[d], minted)
  <2> DEFINE S == Visible(db, UserOf[d]) \ changed[d]
  <2>1. d \in subs /\ d \in Conns /\ changed'[d] = changed[d]
    BY <1>2, <1>9 DEF IInv, Cache
  <2>2. Shows(screen[d], db, S, minted)
    BY <1>9, <2>1 DEF Served, ServedBy
  <2>3. /\ screen'[d] = OnTitleChanged(screen[d], w, title) \/ (screen'[d] = screen[d] /\ w \notin S)
        /\ S \subseteq Wavelets
    BY <1>2, <2>1 DEF Told, Visible
  <2> HIDE DEF S
  <2>4. Shows(screen'[d], q, S, minted)
    BY <1>1, <1>2, <2>2, <2>3, <1>3, ShowsTitle
  <2> QED BY <1>9, <2>1, <2>4, <1>3, SamePeople DEF S
<1> HIDE DEF q
<1>4. Numbered(q, minted) /\ Begun(q) /\ Inside(q) /\ Distinct(q)
  BY <1>3, SameRows DEF IInv, Shapes, Rows
<1>5. Hung(db) => Hung(q)
  BY <1>3, SameHung
<1>6. screen' = [d \in Conns |-> screen'[d]]
  BY <1>2
<1>7. ASSUME NEW d \in Conns
      PROVE  /\ IsScreen(screen'[d])
             /\ \A v \in Wavelets : UserOf[d] \notin db.members[v] \cup q.members[v] =>
                  Hides(screen[d], screen'[d], v)
  <2>1. IsScreen(screen[d])
    BY DEF IInv, Shapes
  <2>2. /\ IsScreen(OnTitleChanged(screen[d], w, title))
        /\ \A v : Hides(screen[d], OnTitleChanged(screen[d], w, title), v)
    BY <2>1, OnTitleChangedIs
  <2> QED BY <1>2, <2>2, TellGood
<1>8. db.mode # "frozen"
  BY <1>2 DEF Permit, AllowsRetitle
<1> QED BY <1>9, <1>0, <1>2, <1>3, <1>4, <1>5, <1>6, <1>7, <1>8, CommandGood DEF IInv, Cache, Shapes

LEMMA SetModeGood ==
    ASSUME IInv, NEW c \in Conns, NEW mode \in Modes, SetMode(c, mode)
    PROVE  Good
<1> DEFINE q == [db EXCEPT !.mode = mode]
<1>0. held[c] # "none" /\ mode \in AllModes
  BY WavesAssumption DEF SetMode
<1>1. /\ Found(c) = db /\ Watchers(c) = subs /\ db \in WaveRecords
  BY <1>0, FoundIs
<1>2. /\ db' = q /\ Finish(c, q)
      /\ screen' = [d \in Conns |-> IF d \in subs /\ Told(db, UserOf[d], Wavelets) # {}
                                    THEN OnModeChanged(screen[d], mode) ELSE screen[d]]
      /\ UNCHANGED <<resident, subs, subscribed, minted, changed>>
  BY <1>1 DEF SetMode, Broadcast
<1>3. /\ q \in WaveRecords /\ q.creator = db.creator /\ q.title = db.title
      /\ q.members = db.members /\ q.anchor = db.anchor
      /\ q.blips = db.blips /\ q.threads = db.threads
  BY <1>0, <1>1, RemodedIs
<1>8. ASSUME Hung(db), Served, NEW d \in subs'
       PROVE  ServedBy(screen'[d], q, UserOf[d], changed'[d], minted)
  <2> DEFINE S == Visible(db, UserOf[d]) \ changed[d]
  <2>1. d \in subs /\ d \in Conns /\ changed'[d] = changed[d]
    BY <1>2, <1>8 DEF IInv, Cache
  <2>2. Shows(screen[d], db, S, minted)
    BY <1>8, <2>1 DEF Served, ServedBy
  <2>3. screen'[d] = OnModeChanged(screen[d], mode)
    BY <1>2, <2>1, <1>8 DEF Told, Served, ServedBy, MayView, Visible
  <2> HIDE DEF S
  <2>4. Shows(screen'[d], q, S, minted)
    BY <1>1, <1>2, <2>2, <2>3, <1>0, ShowsMode
  <2> QED BY <1>8, <2>1, <2>4, <1>3, SamePeople DEF S
<1> HIDE DEF q
<1>4. Numbered(q, minted) /\ Begun(q) /\ Inside(q) /\ Distinct(q)
  BY <1>3, SameRows DEF IInv, Shapes, Rows
<1>5. Hung(db) => Hung(q)
  BY <1>3, SameHung
<1>6. screen' = [d \in Conns |-> screen'[d]]
  BY <1>2
<1>7. ASSUME NEW d \in Conns
      PROVE  /\ IsScreen(screen'[d])
             /\ \A v \in Wavelets : UserOf[d] \notin db.members[v] \cup q.members[v] =>
                  Hides(screen[d], screen'[d], v)
  <2>1. IsScreen(screen[d])
    BY DEF IInv, Shapes
  <2>2. /\ IsScreen(OnModeChanged(screen[d], mode))
        /\ \A v : Hides(screen[d], OnModeChanged(screen[d], mode), v)
    BY <2>1, OnModeChangedIs
  <2> QED BY <1>2, <2>2, TellGood
<1> QED BY <1>8, <1>0, <1>2, <1>3, <1>4, <1>5, <1>6, <1>7, CommandGood DEF IInv, Cache, Shapes

LEMMA JoinedIs ==
    ASSUME IInv, NEW watchers, NEW w \in Wavelets, NEW v
    PROVE  Joined(watchers, w, v) \in [Conns -> SUBSET Wavelets]
BY DEF Joined, IInv, Cache

LEMMA AddParticipantGood ==
    ASSUME IInv, NEW c \in Conns, NEW w \in Wavelets, NEW v \in Users, AddParticipant(c, w, v)
    PROVE  Good
<1> DEFINE q == [db EXCEPT !.members[w] = @ \cup {v}]
<1>0. held[c] # "none"
  BY DEF AddParticipant
<1>1. /\ Found(c) = db /\ Watchers(c) = subs /\ db \in WaveRecords
  BY <1>0, FoundIs
<1>2. /\ UserOf[c] \in db.members[w] /\ (w \in Privates => v \in db.members[Root])
      /\ db' = q /\ Finish(c, q) /\ changed' = Joined(subs, w, v)
      /\ screen' = [d \in Conns |-> IF d \in subs /\ Told(q, UserOf[d], {w}) # {}
                                    THEN OnParticipantAdded(screen[d], w, v) ELSE screen[d]]
      /\ UNCHANGED <<resident, subs, subscribed, minted>>
  BY <1>1 DEF AddParticipant, Broadcast, MayAccess
<1>3. /\ q \in WaveRecords /\ q.creator = db.creator /\ q.title = db.title /\ q.anchor = db.anchor
      /\ q.blips = db.blips /\ q.threads = db.threads
      /\ Numbered(q, minted) /\ Begun(q) /\ Inside(q) /\ Distinct(q)
  <2>1. Numbered(db, minted) /\ Begun(db) /\ Inside(db) /\ Distinct(db)
    BY DEF IInv, Shapes, Rows
  <2>2. OtherPeople(db, q, minted)
    BY <1>1, <1>2, <2>1, JoinRows
  <2> HIDE DEF q
  <2> QED BY <2>2 DEF OtherPeople
<1>7. /\ q.mode = db.mode /\ q.members[w] = db.members[w] \cup {v}
      /\ \A x \in Wavelets \ {w} : q.members[x] = db.members[x]
  <2> DEFINE f == [db.members EXCEPT ![w] = db.members[w] \cup {v}]
  <2>1. q = [db EXCEPT !.members = f]
    BY <1>1 DEF WaveRecords
  <2>2. /\ f \in [Wavelets -> SUBSET Users] /\ f[w] = db.members[w] \cup {v}
        /\ \A x \in Wavelets \ {w} : f[x] = db.members[x]
    BY <1>1, WaveIs
  <2> HIDE DEF f, q
  <2> QED BY <1>1, <2>1, <2>2, PeopledIs
<1> HIDE DEF q
<1>8. ASSUME Hung(db), Served, NEW d \in subs'
      PROVE  ServedBy(screen'[d], q, UserOf[d], changed'[d], minted)
  <2> DEFINE S == Visible(db, UserOf[d]) \ changed[d]
             T == Visible(q, UserOf[d]) \ changed'[d]
  <2>1. /\ d \in subs /\ d \in Conns
        /\ changed'[d] = IF UserOf[d] = v THEN changed[d] \cup {w} ELSE changed[d]
    BY <1>2, <1>8 DEF IInv, Cache, Joined
  <2>2. Shows(screen[d], db, S, minted) /\ MayView(db, UserOf[d])
    BY <1>8, <2>1 DEF Served, ServedBy
  <2>3. MayView(q, UserOf[d])
    BY <1>7, <2>2 DEF MayView, Visible, MayAccess
  <2>4. T \subseteq S /\ T \subseteq Wavelets
    BY <1>7, <2>1 DEF Visible, MayAccess
  <2>5. screen'[d] = OnParticipantAdded(screen[d], w, v) \/ (screen'[d] = screen[d] /\ w \notin T)
    BY <1>2, <2>1 DEF Told
  <2> HIDE DEF S, T
  <2>6. Shows(screen'[d], q, T, minted)
    <3>1. w \in T => q.members[w] = db.members[w] \cup {v}
      BY <1>7
    <3>2. \A x \in T \ {w} : q.members[x] = db.members[x]
      BY <1>7, <2>4
    <3>3. /\ q.mode = db.mode /\ q.title = db.title /\ q.anchor = db.anchor
          /\ q.blips = db.blips /\ q.threads = db.threads
      BY <1>3, <1>7
    <3>4. Gains(db, q, T, w, v)
      BY <3>1, <3>2, <3>3 DEF Gains
    <3> QED BY <2>2, <2>4, <2>5, <3>4, ShowsJoin
  <2> QED BY <2>3, <2>6 DEF ServedBy, T
<1>4. Hung(db) => Hung(q)
  BY <1>3, SameHung
<1>5. screen' = [d \in Conns |-> screen'[d]] /\ changed' \in [Conns -> SUBSET Wavelets]
  BY <1>2, JoinedIs
<1>6. ASSUME NEW d \in Conns
      PROVE  /\ IsScreen(screen'[d])
             /\ \A x \in Wavelets : UserOf[d] \notin db.members[x] \cup q.members[x] =>
                  Hides(screen[d], screen'[d], x)
  <2>1. IsScreen(screen[d])
    BY DEF IInv, Shapes
  <2>2. /\ IsScreen(OnParticipantAdded(screen[d], w, v))
        /\ \A x : Hides(screen[d], OnParticipantAdded(screen[d], w, v), x)
    BY <2>1, OnParticipantAddedIs
  <2> QED BY <1>2, <2>2, TellGood
<1> QED BY <1>8, <1>0, <1>2, <1>3, <1>4, <1>5, <1>6, CommandGood DEF IInv, Shapes

LEMMA RemoveParticipantGood ==
    ASSUME IInv, NEW c \in Conns, NEW w \in Wavelets, NEW v \in Users, RemoveParticipant(c, w, v)
    PROVE  Good
<1> DEFINE gone == {w} \cup Cascaded(db, w, v)
           q == [db EXCEPT !.members = [x \in Wavelets |->
                  IF x \in gone THEN db.members[x] \ {v} ELSE db.members[x]]]
           out == Out(q, v)
<1>0. held[c] # "none"
  BY DEF RemoveParticipant
<1>1. /\ Found(c) = db /\ Watchers(c) = subs /\ db \in WaveRecords
  BY <1>0, FoundIs
<1>2. /\ db' = RemoveRows(db, w, v) /\ Finish(c, q) /\ changed' = Joined(subs \ out, w, v)
      /\ subs' = subs \ (out \cap subs)
      /\ screen' = [d \in Conns |->
           IF d \in out THEN Dark
           ELSE [e \in Conns |-> IF e \in subs /\ Told(q, UserOf[e], gone) # {}
                                 THEN OnParticipantRemoved(screen[e], Told(q, UserOf[e], gone), v)
                                 ELSE screen[e]][d]]
      /\ UNCHANGED <<resident, subscribed, minted>>
  BY <1>1 DEF RemoveParticipant, Broadcast
<1>3. /\ q \in WaveRecords /\ q.creator = db.creator /\ q.title = db.title /\ q.anchor = db.anchor
      /\ q.blips = db.blips /\ q.threads = db.threads
      /\ Numbered(q, minted) /\ Begun(q) /\ Inside(q) /\ Distinct(q) /\ db' = q
  <2>1. Numbered(db, minted) /\ Begun(db) /\ Inside(db) /\ Distinct(db)
    BY DEF IInv, Shapes, Rows
  <2>2. OtherPeople(db, RemoveRows(db, w, v), minted) /\ RemoveRows(db, w, v) = q
    BY <1>1, <2>1, LeaveRows
  <2> HIDE DEF q
  <2> QED BY <1>2, <2>2 DEF OtherPeople
<1>7. /\ q.mode = db.mode /\ \A x \in Wavelets \cap gone : q.members[x] = db.members[x] \ {v}
      /\ \A x \in Wavelets \ gone : q.members[x] = db.members[x]
  <2> DEFINE f == [x \in Wavelets |-> IF x \in gone THEN db.members[x] \ {v} ELSE db.members[x]]
  <2>1. f \in [Wavelets -> SUBSET Users]
    BY <1>1, WaveIs
  <2> HIDE DEF gone
  <2>2. /\ \A x \in Wavelets \cap gone : f[x] = db.members[x] \ {v}
        /\ \A x \in Wavelets \ gone : f[x] = db.members[x]
    OBVIOUS
  <2>3. q = [db EXCEPT !.members = f]
    OBVIOUS
  <2> HIDE DEF f, q
  <2> QED BY <1>1, <2>1, <2>2, <2>3, PeopledIs
<1>8. \A d \in Conns : UserOf[d] = v /\ d \notin out => MayView(q, v)
  BY DEF Out
<1>9. w \in gone
  OBVIOUS
<1> HIDE DEF q, gone, out
<1>10. ASSUME Hung(db), Served, NEW d \in subs'
       PROVE  ServedBy(screen'[d], q, UserOf[d], changed'[d], minted)
  <2> DEFINE S == Visible(db, UserOf[d]) \ changed[d]
             T == Visible(q, UserOf[d]) \ changed'[d]
             ws == Told(q, UserOf[d], gone)
             z == OnParticipantRemoved(screen[d], ws, v)
  <2>1. /\ d \in subs /\ d \in Conns /\ d \notin out
        /\ changed'[d] = IF UserOf[d] = v THEN changed[d] \cup {w} ELSE changed[d]
    BY <1>2, <1>10 DEF IInv, Cache, Joined
  <2>2. Shows(screen[d], db, S, minted) /\ MayView(db, UserOf[d])
    BY <1>10, <2>1 DEF Served, ServedBy
  <2>3. MayView(q, UserOf[d])
    <3>1. CASE UserOf[d] = v
      BY <1>8, <2>1, <3>1
    <3>2. CASE UserOf[d] # v
      BY <1>7, <2>2, <3>2 DEF MayView, Visible, MayAccess
    <3> QED BY <3>1, <3>2
  <2>4. T \subseteq S /\ T \subseteq Wavelets
    BY <1>7, <2>1 DEF Visible, MayAccess
  <2>5. screen'[d] = z \/ (screen'[d] = screen[d] /\ ws = {})
    BY <1>2, <2>1
  <2>6. \A x \in T : x \in ws <=> x \in gone
    BY DEF Told
  <2> HIDE DEF S, T, ws
  <2>7. /\ \A x \in T \cap ws : q.members[x] = db.members[x] \ {v}
        /\ \A x \in T \ ws : q.members[x] = db.members[x]
    BY <1>7, <2>4, <2>6
  <2>8. Shows(screen'[d], q, T, minted)
    BY <1>3, <1>7, <2>2, <2>4, <2>5, <2>7, ShowsLeave
  <2> QED BY <2>3, <2>8 DEF ServedBy, T
<1>4. Hung(db) => Hung(q)
  BY <1>3, SameHung
<1>5. screen' = [d \in Conns |-> screen'[d]] /\ changed' \in [Conns -> SUBSET Wavelets]
  BY <1>2, JoinedIs
<1>6. ASSUME NEW d \in Conns
      PROVE  /\ IsScreen(screen'[d])
             /\ \A x \in Wavelets : UserOf[d] \notin db.members[x] \cup q.members[x] =>
                  Hides(screen[d], screen'[d], x)
  <2>1. IsScreen(screen[d])
    BY DEF IInv, Shapes
  <2> DEFINE told == Told(q, UserOf[d], gone)
             z == OnParticipantRemoved(screen[d], told, v)
  <2>2. IsScreen(z) /\ \A x : Hides(screen[d], z, x)
    BY <2>1, OnParticipantRemovedIs
  <2>3. screen'[d] = Dark \/ screen'[d] = z \/ screen'[d] = screen[d]
    BY <1>2
  <2> HIDE DEF z
  <2> QED BY <2>2, <2>3, DarkIs, TellGood
<1> QED BY <1>10, <1>0, <1>2, <1>3, <1>4, <1>5, <1>6, CommandGood DEF IInv, Shapes

LEMMA PrivateReplyGood ==
    ASSUME IInv, NEW c \in Conns, NEW w \in Wavelets, NEW anchor \in Blips,
           NEW invited \in SUBSET Users, NEW p \in Privates, PrivateReply(c, w, anchor, invited, p)
    PROVE  Good
<1> DEFINE u == UserOf[c]
           b == minted + 1
           x == NewBlip(p, u, NoBlip, NoThread, 0)
           q == WithPrivate(db, p, anchor, u, invited, db.title[Root], b)
<1>0. held[c] # "none" /\ Room
  BY DEF PrivateReply
<1>1. /\ Found(c) = db /\ Watchers(c) = subs /\ u \in Users /\ db \in WaveRecords
  BY <1>0, FoundIs
<1>2. /\ u \in db.members[w] /\ Permit(db, u, "PrivateReply") /\ db.anchor[p] = NoBlip
      /\ anchor \in DOMAIN db.blips /\ invited \subseteq db.members[w]
      /\ minted' = b /\ db' = q /\ Finish(c, q)
      /\ screen' = [d \in Conns |-> IF d \in subs /\ Told(q, UserOf[d], {p}) # {}
                                    THEN OnWaveletAdded(screen[d], q, p) ELSE screen[d]]
      /\ UNCHANGED <<resident, subs, subscribed, changed>>
  BY <1>1 DEF PrivateReply, MayAccess, Broadcast, Unused
<1>3. /\ minted \in Nat /\ b \in Blips /\ b \in 0..MaxBlips
  BY <1>0, RoomIs
<1>4. p \in Wavelets /\ Root \in Wavelets /\ db.title[Root] \in Titles \cup {FirstTitle}
  BY <1>1, WaveIs DEF Wavelets
<1>5. q \in WaveRecords /\ q.creator = db.creator /\ OnePrivate(db, q, p, anchor, invited \cup {u}, db.title[Root], b, x)
  <2>1. OnePrivate(db, q, p, anchor, invited \cup {u}, db.title[Root], b, x)
    BY <1>1, <1>2, <1>3, <1>4, PrivateIs
  <2> HIDE DEF q
  <2> QED BY <2>1 DEF OnePrivate
<1>6. Numbered(q, b) /\ Begun(q) /\ Inside(q) /\ Distinct(q) /\ (Hung(db) => Hung(q))
  <2>1. Numbered(db, minted) /\ Begun(db) /\ Inside(db) /\ Distinct(db)
    BY DEF IInv, Shapes, Rows
  <2> QED BY <1>1, <1>2, <1>3, <1>4, <2>1, PrivateRows
<1> HIDE DEF q
<1>10. ASSUME Hung(db), Served, NEW d \in subs'
       PROVE  ServedBy(screen'[d], q, UserOf[d], changed'[d], b)
  <2> DEFINE S == Visible(db, UserOf[d]) \ changed[d]
             T == Visible(q, UserOf[d]) \ changed'[d]
  <2>1. d \in subs /\ d \in Conns /\ changed'[d] = changed[d]
    BY <1>2, <1>10 DEF IInv, Cache
  <2>2. Shows(screen[d], db, S, minted) /\ MayView(db, UserOf[d])
    BY <1>10, <2>1 DEF Served, ServedBy
  <2>3. db.members[p] = {} /\ Begun(db) /\ Numbered(db, minted)
    BY <1>2 DEF IInv, Rows, Shapes, Begun
  <2>4. \A v \in Wavelets \ {p} : q.members[v] = db.members[v]
    BY <1>1, <1>5, WaveIs DEF OnePrivate
  <2>5. MayView(q, UserOf[d])
    BY <2>2, <2>3, <2>4 DEF MayView, Visible, MayAccess
  <2>6. T \subseteq S \cup {p} /\ T \subseteq Wavelets
    BY <2>1, <2>4 DEF Visible, MayAccess
  <2>7. screen'[d] = OnWaveletAdded(screen[d], q, p) \/ (screen'[d] = screen[d] /\ p \notin T)
    BY <1>2, <2>1 DEF Told
  <2>8. x.wavelet = p /\ anchor # NoBlip
    BY WavesAssumption DEF NewBlip, Blips, NoBlip
  <2> HIDE DEF S, T, x
  <2>9. Shows(screen'[d], q, T, b)
    BY <1>1, <1>2, <1>3, <1>5, <1>10, <2>2, <2>3, <2>6, <2>7, <2>8, ShowsPrivate, ZenonT(60)
  <2> QED BY <2>5, <2>9 DEF ServedBy, T
<1>7. screen' = [d \in Conns |-> screen'[d]]
  BY <1>2
<1>8. ASSUME NEW d \in Conns
      PROVE  /\ IsScreen(screen'[d])
             /\ \A v \in Wavelets : UserOf[d] \notin db.members[v] \cup q.members[v] =>
                  Hides(screen[d], screen'[d], v)
  <2>1. IsScreen(screen[d])
    BY DEF IInv, Shapes
  <2>2. Follows(screen[d], OnWaveletAdded(screen[d], q, p), p)
    BY <1>4, <2>1, OnWaveletAddedIs
  <2>3. Told(q, UserOf[d], {p}) # {} => UserOf[d] \in q.members[p]
    BY DEF Told, Visible, MayAccess
  <2> QED BY <1>2, <2>2, <2>3, TellGood
<1>9. db.mode # "frozen"
  BY <1>2 DEF Permit, AllowsPrivateReply
<1> HIDE DEF b
<1> QED BY <1>10, <1>0, <1>2, <1>3, <1>5, <1>6, <1>7, <1>8, <1>9, CommandGood DEF IInv, Cache

-----------------------------------------------------------------------------
(* The steps that write nothing, and the creation of the wave.             *)

LEMMA QuietGood ==
    ASSUME IInv, db' = db, minted' = minted, Cache', screen' = [d \in Conns |-> screen'[d]],
           \A d \in Conns :
             /\ IsScreen(screen'[d])
             /\ \A w \in Wavelets : UserOf[d] \notin db.members[w] => Hides(screen[d], screen'[d], w),
           Hung(db) /\ Served =>
             \A d \in subs' : ServedBy(screen'[d], db, UserOf[d], changed'[d], minted)
    PROVE  Good
<1>1. Shapes'
  BY DEF IInv, Shapes, IsScreen, Numbered, WaveRecords, BlipMaps, ThreadMaps
<1>2. Rows'
  BY DEF IInv, Rows, Begun, Inside, Distinct
<1>3. Links
  BY DEF Links
<1>4. NothingLeaks
  BY DEF NothingLeaks, Hides
<1>5. FrozenStaysFrozen
  BY DEF FrozenStaysFrozen
<1>6. Serves
  BY ServedNext DEF Serves
<1> QED BY <1>6, <1>1, <1>2, <1>3, <1>4, <1>5 DEF Good, IInv

\* Screens that stay, or go dark.
LEMMA DarkenGood ==
    ASSUME IInv, db' = db, minted' = minted, Cache', screen' = [d \in Conns |-> screen'[d]],
           \A d \in Conns : screen'[d] = screen[d] \/ screen'[d] = Dark,
           \A d \in subs' : d \in subs /\ screen'[d] = screen[d] /\ changed'[d] = changed[d]
    PROVE  Good
<1>1. ASSUME NEW d \in Conns
      PROVE  IsScreen(screen'[d]) /\ \A w \in Wavelets : Hides(screen[d], screen'[d], w)
  <2>1. IsScreen(screen[d])
    BY DEF IInv, Shapes
  <2> QED BY <2>1, DarkIs, SameBlips
<1>2. Served => \A d \in subs' : ServedBy(screen'[d], db, UserOf[d], changed'[d], minted)
  BY DEF Served
<1> QED BY <1>1, <1>2, QuietGood

LEMMA CreateWaveGood ==
    ASSUME IInv, NEW c \in Conns, NEW mode \in Modes, NEW invited \in SUBSET Users,
           CreateWave(c, mode, invited)
    PROVE  Good
<1> DEFINE u == UserOf[c]
           q == WaveRows(u, mode, invited)
           z == View(q, u)
<1>1. /\ ~Created /\ db' = q /\ live' = q /\ resident' = TRUE /\ minted' = 1
      /\ subs' = {c} /\ subscribed' = {c} /\ screen' = [screen EXCEPT ![c] = z]
      /\ UNCHANGED <<orphan, held, changed>>
  BY DEF CreateWave
<1>2. u \in Users /\ mode \in AllModes /\ 1 \in Blips /\ 1 \in 0..MaxBlips /\ u # NoUser
  BY WavesAssumption DEF Blips
<1>3. /\ q \in WaveRecords /\ q.creator = u /\ u \in q.members[Root]
      /\ Numbered(q, 1) /\ Begun(q) /\ Inside(q) /\ Distinct(q) /\ Hung(q)
  BY <1>2, WaveRowsAre
<1>4. IsScreen(z) /\ \A s : \A w \in Wavelets : u \notin q.members[w] => Hides(s, z, w)
  BY ViewIs
<1>13. ServedBy(z, q, u, changed[c], 1)
  <2>1. MayView(q, u)
    BY <1>3 DEF MayView, Visible, MayAccess, Wavelets
  <2> HIDE DEF q, z, u
  <2> QED BY <1>3, <2>1, ShowsView DEF z
<1> HIDE DEF q, z
<1>5. db = Blank
  BY <1>1 DEF IInv, Cache
<1>6. Created'
  BY <1>1, <1>2, <1>3 DEF Created
<1>7. Cache'
  BY <1>1, <1>6 DEF IInv, Cache, Blank, Wavelets, Blips
<1>8. Shapes'
  <2>1. screen' = [d \in Conns |-> screen'[d]]
    BY <1>1 DEF IInv, Shapes
  <2>2. ASSUME NEW d \in Conns PROVE IsScreen(screen'[d])
    <3>1. screen'[d] = z \/ screen'[d] = screen[d]
      BY <1>1 DEF IInv, Shapes
    <3> QED BY <1>4, <3>1 DEF IInv, Shapes
  <2> QED BY <1>1, <1>2, <1>3, <2>1, <2>2
          DEF Shapes, IsScreen, Numbered, WaveRecords, BlipMaps, ThreadMaps
<1>9. Rows'
  BY <1>1, <1>3 DEF Rows, Begun, Inside, Distinct
<1>10. Links
  BY <1>1, <1>3 DEF Links
<1>11. NothingLeaks
  <2>1. ASSUME NEW d \in Conns, NEW w \in Wavelets, UserOf[d] \notin db'.members[w]
        PROVE  Hides(screen[d], screen'[d], w)
    <3>1. CASE d = c
      <4>1. screen'[d] = z
        BY <1>1, <3>1 DEF IInv, Shapes
      <4> QED BY <1>1, <1>4, <2>1, <3>1, <4>1
    <3>2. CASE d # c
      <4>1. screen'[d] = screen[d]
        BY <1>1, <3>2 DEF IInv, Shapes
      <4> QED BY <4>1 DEF Hides
    <3> QED BY <3>1, <3>2
  <2> QED BY <2>1 DEF NothingLeaks, Hides
<1>12. FrozenStaysFrozen
  BY <1>5, BlankIs DEF FrozenStaysFrozen
<1>14. Serves
  <2>1. \A d \in subs' : ServedBy(screen'[d], db', UserOf[d], changed'[d], minted')
    BY <1>1, <1>13 DEF IInv, Shapes
  <2> QED BY <2>1, ServedNext DEF Serves
<1> QED BY <1>14, <1>7, <1>8, <1>9, <1>10, <1>11, <1>12 DEF Good, IInv

\* What open_wave hands out is what is stored.
LEMMA OpenedIs ==
    ASSUME IInv
    PROVE  OpenedWave = db
BY DEF IInv, Cache, OpenedWave, Loaded

LEMMA OpenGood ==
    ASSUME IInv, NEW c \in Conns, Open(c)
    PROVE  Good
<1> DEFINE u == UserOf[c]
           z == View(db, u)
<1>1. /\ Created /\ live' = db /\ resident' = TRUE
      /\ subs' = subs \cup {c} /\ subscribed' = subscribed \cup {c}
      /\ screen' = [screen EXCEPT ![c] = z] /\ changed' = [changed EXCEPT ![c] = {}]
      /\ db' = db /\ orphan' = orphan /\ held' = held /\ minted' = minted
  BY OpenedIs DEF Open
<1>2. IsScreen(z) /\ \A s : \A w \in Wavelets : u \notin db.members[w] => Hides(s, z, w)
  BY ViewIs
<1>7. Hung(db) => ServedBy(z, db, u, {}, minted)
  <2>1. MayView(db, u) /\ db \in WaveRecords /\ Begun(db) /\ Numbered(db, minted) /\ minted \in Nat
    BY OpenedIs, WavesAssumption DEF Open, IInv, Shapes, Rows
  <2> QED BY <2>1, ShowsView
<1> HIDE DEF z
<1>8. ASSUME Hung(db), Served, NEW d \in subs'
      PROVE  ServedBy(screen'[d], db, UserOf[d], changed'[d], minted)
  <2>1. CASE d = c
    BY <1>1, <1>7, <1>8, <2>1 DEF IInv, Shapes, Cache
  <2>2. CASE d # c
    BY <1>1, <1>8, <2>2 DEF IInv, Shapes, Cache, Served
  <2> QED BY <2>1, <2>2
<1>3. Created' /\ changed' \in [Conns -> SUBSET Wavelets]
  BY <1>1 DEF Created, IInv, Cache
<1>4. Cache'
  BY <1>1, <1>3 DEF IInv, Cache, Blank, Wavelets, Blips
<1>5. screen' = [d \in Conns |-> screen'[d]]
  BY <1>1 DEF IInv, Shapes
<1>6. ASSUME NEW d \in Conns
      PROVE  /\ IsScreen(screen'[d])
             /\ \A w \in Wavelets : UserOf[d] \notin db.members[w] => Hides(screen[d], screen'[d], w)
  <2>1. IsScreen(screen[d])
    BY DEF IInv, Shapes
  <2>2. (d = c /\ screen'[d] = z) \/ screen'[d] = screen[d]
    BY <1>1 DEF IInv, Shapes
  <2> QED BY <1>2, <2>1, <2>2, SameBlips
<1> QED BY <1>8, <1>1, <1>4, <1>5, <1>6, QuietGood

LEMMA CloseGood ==
    ASSUME IInv, NEW c \in Conns, Close(c) \/ Overflow(c)
    PROVE  Good
<1>1. /\ subs' = subs \ {c} /\ subscribed' \subseteq subscribed
      /\ screen' = [screen EXCEPT ![c] = Dark] /\ changed' = [changed EXCEPT ![c] = {}]
      /\ db' = db /\ resident' = resident /\ live' = live /\ orphan' = orphan /\ held' = held
      /\ minted' = minted
  BY DEF Close, Overflow
<1>2. changed' \in [Conns -> SUBSET Wavelets] /\ (Created' <=> Created)
  BY <1>1 DEF Created, IInv, Cache
<1>3. Cache'
  BY <1>1, <1>2 DEF IInv, Cache, Blank, Wavelets, Blips
<1>4. screen' = [d \in Conns |-> screen'[d]] /\ \A d \in Conns : screen'[d] = screen[d] \/ screen'[d] = Dark
  BY <1>1 DEF IInv, Shapes
<1>5. \A d \in subs' : d \in subs /\ screen'[d] = screen[d] /\ changed'[d] = changed[d]
  BY <1>1 DEF IInv, Cache, Shapes
<1> QED BY <1>5, <1>1, <1>3, <1>4, DarkenGood

LEMMA FindGood ==
    ASSUME IInv, NEW c \in Conns, Find(c)
    PROVE  Good
<1>1. /\ c \in subscribed /\ live' = db /\ resident' = TRUE /\ held' = [held EXCEPT ![c] = "live"]
      /\ db' = db /\ orphan' = orphan /\ subs' = subs /\ subscribed' = subscribed
      /\ screen' = screen /\ minted' = minted /\ changed' = changed
  BY OpenedIs DEF Find
<1>2. Created /\ Created'
  BY <1>1 DEF Created, IInv, Cache
<1>3. held' \in [Conns -> {"none", "live"}]
  BY <1>1 DEF IInv, Cache
<1>4. Cache'
  BY <1>1, <1>2, <1>3 DEF IInv, Cache, Blank, Wavelets, Blips
<1>5. screen' = [d \in Conns |-> screen'[d]] /\ \A d \in Conns : screen'[d] = screen[d] \/ screen'[d] = Dark
  BY <1>1 DEF IInv, Shapes
<1>6. \A d \in subs' : d \in subs /\ screen'[d] = screen[d] /\ changed'[d] = changed[d]
  BY <1>1 DEF IInv, Cache, Shapes
<1> QED BY <1>6, <1>1, <1>4, <1>5, DarkenGood

LEMMA RefuseGood ==
    ASSUME IInv, NEW c \in Conns, Refuse(c)
    PROVE  Good
<1>1. held[c] # "none" /\ Finish(c, Found(c)) /\ screen' = screen /\ minted' = minted
      /\ db' = db /\ resident' = resident /\ subs' = subs /\ subscribed' = subscribed /\ changed' = changed
  BY DEF Refuse
<1>2. held[c] = "live" /\ resident /\ live = db /\ Found(c) = db /\ Created
  BY <1>1, FoundIs
<1>3. held' = [held EXCEPT ![c] = "none"] /\ live' = db /\ orphan' = orphan
  BY <1>1, <1>2 DEF Finish
<1>4. Created' /\ held' \in [Conns -> {"none", "live"}]
  BY <1>1, <1>2, <1>3 DEF Created, IInv, Cache
<1>5. Cache'
  BY <1>1, <1>2, <1>3, <1>4 DEF IInv, Cache, Blank, Wavelets, Blips
<1>6. screen' = [d \in Conns |-> screen'[d]] /\ \A d \in Conns : screen'[d] = screen[d] \/ screen'[d] = Dark
  BY <1>1 DEF IInv, Shapes
<1>7. \A d \in subs' : d \in subs /\ screen'[d] = screen[d] /\ changed'[d] = changed[d]
  BY <1>1 DEF IInv, Cache, Shapes
<1> QED BY <1>7, <1>1, <1>5, <1>6, DarkenGood

\* The copy leaves the residency map, and nobody else has found it.
LEMMA StrandIs ==
    ASSUME IInv, LateLocks = FALSE, NEW holders, Strand(holders)
    PROVE  /\ resident' = FALSE /\ live' = Blank /\ orphan' = Blank
           /\ held' = [d \in Conns |-> "none"]
<1>1. /\ holders = {} /\ resident' = FALSE /\ live' = Blank /\ orphan' = orphan
      /\ held' = [d \in Conns |-> IF held[d] = "live" THEN "none" ELSE held[d]]
  BY DEF Strand
<1> QED BY <1>1 DEF IInv, Cache

LEMMA EvictGood ==
    ASSUME IInv, LateLocks = FALSE, MaybeEvict \/ \E c \in Conns : EvictAfterPanic(c)
    PROVE  Good
<1>1. \E holders : Strand(holders)
  BY DEF MaybeEvict, EvictAfterPanic
<1>2. resident' = FALSE /\ live' = Blank /\ orphan' = Blank /\ held' = [d \in Conns |-> "none"]
  BY <1>1, StrandIs
<1>3. /\ resident /\ subs' = {} /\ subscribed' \subseteq subscribed /\ db' = db /\ minted' = minted
      /\ screen' = screen \/ screen' = [d \in Conns |-> Dark]
      /\ changed' = changed \/ changed' = [d \in Conns |-> {}]
  BY DEF MaybeEvict, EvictAfterPanic, IInv, Cache
<1>4. Created /\ Created' /\ changed' \in [Conns -> SUBSET Wavelets]
  BY <1>3 DEF Created, IInv, Cache
<1>5. Cache'
  BY <1>2, <1>3, <1>4 DEF IInv, Cache, Blank, Wavelets, Blips
<1>6. screen' = [d \in Conns |-> screen'[d]] /\ \A d \in Conns : screen'[d] = screen[d] \/ screen'[d] = Dark
  BY <1>3 DEF IInv, Shapes
<1>7. \A d \in subs' : d \in subs /\ screen'[d] = screen[d] /\ changed'[d] = changed[d]
  BY <1>3 DEF IInv, Cache, Shapes
<1> QED BY <1>7, <1>3, <1>5, <1>6, DarkenGood

-----------------------------------------------------------------------------
(* Every step, and the theorems.                                           *)

LEMMA CommandIsGood ==
    ASSUME IInv, NEW c \in Conns, Command(c)
    PROVE  Good
<1>1. CASE \E w \in Wavelets, parent \in {NoBlip} \cup Blips : CreateBlip(c, w, parent)
  BY <1>1, CreateBlipGood
<1>2. CASE \E w \in Wavelets, b \in Blips, t \in Threads : CreateComment(c, w, b, t)
  BY <1>2, CreateCommentGood
<1>3. CASE \E t \in Threads : ReplyToComment(c, t)
  BY <1>3, ReplyToCommentGood
<1>4. CASE \E t \in Threads, resolved \in BOOLEAN : ResolveComment(c, t, resolved)
  BY <1>4, ResolveCommentGood
<1>5. CASE \E b \in Blips : DeleteBlip(c, b)
  BY <1>5, DeleteBlipGood
<1>6. CASE \E w \in Wavelets, title \in Titles : SetTitle(c, w, title)
  BY <1>6, SetTitleGood
<1>7. CASE \E mode \in Modes : SetMode(c, mode)
  BY <1>7, SetModeGood
<1>8. CASE \E w \in Wavelets, v \in Users : AddParticipant(c, w, v)
  BY <1>8, AddParticipantGood
<1>9. CASE \E w \in Wavelets, v \in Users : RemoveParticipant(c, w, v)
  BY <1>9, RemoveParticipantGood
<1>10. CASE \E w \in Wavelets, b \in Blips, invited \in SUBSET Users, p \in Privates :
              PrivateReply(c, w, b, invited, p)
  BY <1>10, PrivateReplyGood
<1> QED BY <1>1, <1>2, <1>3, <1>4, <1>5, <1>6, <1>7, <1>8, <1>9, <1>10 DEF Command

LEMMA StepIsGood ==
    ASSUME IInv, LateLocks = FALSE, Next
    PROVE  Good
<1>1. CASE MaybeEvict
  BY <1>1, EvictGood
<1>2. ASSUME NEW c \in Conns, \E mode \in Modes, invited \in SUBSET Users : CreateWave(c, mode, invited)
      PROVE  Good
  BY <1>2, CreateWaveGood
<1>3. ASSUME NEW c \in Conns, Open(c) PROVE Good
  BY <1>3, OpenGood
<1>4. ASSUME NEW c \in Conns, Close(c) \/ Overflow(c) PROVE Good
  BY <1>4, CloseGood
<1>5. ASSUME NEW c \in Conns, Find(c) PROVE Good
  BY <1>5, FindGood
<1>6. ASSUME NEW c \in Conns, EvictAfterPanic(c) PROVE Good
  BY <1>6, EvictGood
<1>7. ASSUME NEW c \in Conns, Refuse(c) PROVE Good
  BY <1>7, RefuseGood
<1>8. ASSUME NEW c \in Conns, Command(c) PROVE Good
  BY <1>8, CommandIsGood
<1> QED BY <1>1, <1>2, <1>3, <1>4, <1>5, <1>6, <1>7, <1>8 DEF Next

LEMMA StutterIsQuiet ==
    ASSUME IInv, UNCHANGED vars
    PROVE  IInv' /\ Links /\ Serves
<1>1. Shapes'
  BY DEF vars, IInv, Shapes, IsScreen, Numbered, WaveRecords, BlipMaps, ThreadMaps
<1>2. Rows'
  BY DEF vars, IInv, Rows, Begun, Inside, Distinct
<1>3. Cache'
  BY DEF vars, IInv, Cache, Created, Blank, Wavelets, Blips
<1>4. Links
  BY DEF vars, Links, Hung
<1>5. Serves
  BY ServedNext DEF vars, Serves, Served
<1> QED BY <1>5, <1>1, <1>2, <1>3, <1>4 DEF IInv

LEMMA InitIsGood ==
    ASSUME Init
    PROVE  IInv /\ Hung(db)
<1>1. /\ db = Blank /\ live = Blank /\ orphan = Blank /\ resident = FALSE /\ minted = 0
      /\ held = [c \in Conns |-> "none"] /\ subs = {} /\ subscribed = {}
      /\ screen = [c \in Conns |-> Dark] /\ changed = [c \in Conns |-> {}]
  BY DEF Init
<1>2. ~Created
  BY <1>1, BlankIs DEF Created
<1>3. Cache
  BY <1>1, <1>2 DEF Cache
<1>4. Shapes
  BY <1>1, BlankIs, DarkIs, WavesAssumption DEF Shapes
<1> QED BY <1>1, <1>3, <1>4, BlankIs DEF IInv, Rows

\* The copy, the rows and the screens keep their shape and agree, whatever the
\* handlers of ws.rs do in whichever order, as long as no copy is evicted under a
\* handler that waits for its lock.
THEOREM WavesInvariant ==
    ASSUME LateLocks = FALSE
    PROVE  Spec => []IInv
<1>1. Init => IInv
  BY InitIsGood
<1>2. IInv /\ [Next]_vars => IInv'
  BY StepIsGood, StutterIsQuiet DEF Good
<1> QED BY <1>1, <1>2, PTL DEF Spec

\* The modes and participants that a command is checked against, in the copy that
\* open_wave hands out, are the stored ones, however commands, failed writes,
\* evictions and panics interleave, as long as no copy is evicted under a handler
\* that waits for its lock.
THEOREM CacheIsStorageAlways ==
    ASSUME LateLocks = FALSE
    PROVE  Spec => []CacheIsStorage
<1>1. IInv => CacheIsStorage
  BY DEF IInv, Cache, CacheIsStorage
<1> QED BY <1>1, WavesInvariant, PTL

LEMMA WavesType ==
    ASSUME IInv
    PROVE  TypeOK
<1>1. \A k \in WaveRecords : IsWave(k)
  <2> SUFFICES ASSUME NEW k \in WaveRecords PROVE IsWave(k)
    OBVIOUS
  <2>1. DOMAIN k = {"creator", "mode", "members", "title", "anchor", "blips", "threads"}
    BY DEF WaveRecords
  <2> QED BY <2>1, WaveIs DEF IsWave
<1>2. db \in WaveRecords /\ live \in WaveRecords /\ orphan \in WaveRecords
  BY BlankIs DEF IInv, Shapes, Cache
<1>3. \A c \in Conns : screen[c].shown \subseteq Wavelets
  BY DEF IInv, Shapes, IsScreen
<1>4. held \in [Conns -> {"none", "live", "orphan"}]
  BY DEF IInv, Cache
<1> QED BY <1>1, <1>2, <1>3, <1>4 DEF TypeOK, IInv, Shapes, Cache

\* The rows of a wave make sense together after every command: the private replies
\* are inside the conversation, every reply, remark, thread and private reply has what
\* it hangs off, and no two messages of a wavelet have one place, as long as clients
\* neither answer remarks nor delete messages with private replies.
THEOREM RowsAreSoundAlways ==
    ASSUME LateLocks = FALSE, Dangling = FALSE
    PROVE  Spec => []RowsAreSound
<1>1. Init => IInv /\ Hung(db)
  BY InitIsGood
<1>2. (IInv /\ Hung(db)) /\ [Next]_vars => (IInv /\ Hung(db))'
  <2> SUFFICES ASSUME IInv, Hung(db), [Next]_vars PROVE IInv' /\ Hung(db)'
    OBVIOUS
  <2>1. IInv' /\ Links
    BY StepIsGood, StutterIsQuiet DEF Good
  <2> QED BY <2>1 DEF Links, Hung
<1>3. IInv /\ Hung(db) => RowsAreSound
  <2> SUFFICES ASSUME IInv, Hung(db) PROVE RowsAreSound
    OBVIOUS
  <2>1. PrivateInsideConversation
    BY DEF IInv, Rows, Inside, PrivateInsideConversation
  <2>2. NothingIsOrphaned
    BY DEF Hung, NothingIsOrphaned
  <2>3. PlacesAreDistinct
    BY DEF IInv, Rows, Distinct, PlacesAreDistinct
  <2> QED BY <2>1, <2>2, <2>3, WavesType DEF RowsAreSound
<1> QED BY <1>1, <1>2, <1>3, PTL DEF Spec

\* No command puts a wavelet, or a message of it, on the screen of someone who is in
\* it neither before nor after, and none changes the content of a wave that stays
\* frozen.
THEOREM RulesAreKeptAlways ==
    ASSUME LateLocks = FALSE
    PROVE  Spec => RulesAreKept
<1>1. IInv /\ [Next]_vars => [NothingLeaks /\ FrozenStaysFrozen]_vars
  BY StepIsGood DEF Good
<1> QED BY <1>1, WavesInvariant, PTL DEF Spec, RulesAreKept

\* Whoever watches the wave may, and its client, which has its snapshot and what it was
\* told since, shows what the server would send it now: the mode, and of every wavelet
\* it neither joined nor left meanwhile the people, the title, the messages and the
\* threads, whatever the commands of other connections, evictions, panics and full
\* queues do in between, as long as clients leave nothing dangling and no copy is
\* evicted under a handler that waits for its lock.
THEOREM WatchersAreServedAlways ==
    ASSUME LateLocks = FALSE, Dangling = FALSE
    PROVE  Spec => []WatchersAreServed
<1> DEFINE J == IInv /\ Hung(db) /\ Served
<1>1. Init => J
  BY InitIsGood DEF Init, Served
<1>2. J /\ [Next]_vars => J'
  <2> SUFFICES ASSUME IInv, Hung(db), Served, [Next]_vars PROVE IInv' /\ Hung(db)' /\ Served'
    OBVIOUS
  <2>1. IInv' /\ Links /\ Serves
    BY StepIsGood, StutterIsQuiet DEF Good
  <2> QED BY <2>1 DEF Links, Serves, Hung
<1>3. J => WatchersAreServed
  <2> SUFFICES ASSUME IInv, Hung(db), Served PROVE WatchersMayView /\ WatcherIsCurrent
    BY DEF WatchersAreServed
  <2>1. subs # {} => resident /\ live = db
    BY DEF IInv, Cache
  <2>2. db \in WaveRecords
    BY DEF IInv, Shapes
  <2>3. WatchersMayView
    BY <2>1 DEF WatchersMayView, Served, ServedBy
  <2>4. \A d \in subs : ServedBy(screen[d], db, UserOf[d], changed[d], minted)
    BY DEF Served
  <2>5. WatcherIsCurrent
    <3>1. \A c \in subs : Current(screen[c], live, UserOf[c], changed[c])
      BY <2>1, <2>2, <2>4, ShowsAll
    <3> QED BY <3>1 DEF WatcherIsCurrent, Current
  <2> QED BY <2>3, <2>5
<1> QED BY <1>1, <1>2, <1>3, PTL DEF Spec
=============================================================================

--------------------------- MODULE StorageProofs ---------------------------
(***************************************************************************)
(* Proofs about Storage, for every set of messages and uploads, every      *)
(* bound, and whether or not the process may die while it creates a        *)
(* database; and about Limiter, whose allowance is a sum like the quota    *)
(* of the uploads.                                                         *)
(***************************************************************************)
EXTENDS Storage, Limiter, FiniteSetTheorems, WellFoundedInduction, TLAPS

-----------------------------------------------------------------------------
(* The schema.                                                             *)

\* What schema.sql has created after its first n statements.
Prefix(n) == {Baseline[j] : j \in 1..n}

\* What the migration steps before version v have added.
Added(v) == UNION {Adds[i] : i \in 1..(v - 1)}

\* The first layout without its last table, which adopt_legacy does not miss.
Cut == BaselineTables \ {"blip_search"}

LEMMA BaselineFacts ==
    /\ DOMAIN Baseline = 1..10 /\ BaselineTables = Prefix(10) /\ Cut = Prefix(9)
    /\ Baseline[1] = "users" /\ Baseline[9] = "wave_flags" /\ Baseline[10] = "blip_search"
    /\ \A i, j \in 1..10 : Baseline[i] = Baseline[j] => i = j
<1>1. DOMAIN Baseline = 1..10
  BY DEF Baseline
<1>2. Baseline[1] = "users" /\ Baseline[9] = "wave_flags" /\ Baseline[10] = "blip_search"
  BY DEF Baseline
<1>3. \A i, j \in 1..10 : Baseline[i] = Baseline[j] => i = j
  BY DEF Baseline
<1>4. BaselineTables = Prefix(10)
  BY <1>1 DEF BaselineTables, Prefix
<1>5. Cut = Prefix(9)
  <2>1. \A j \in 1..9 : Baseline[j] # Baseline[10]
    BY <1>3
  <2>2. \A j \in 1..10 : j \in 1..9 \/ j = 10
    OBVIOUS
  <2>3. 1..9 \subseteq 1..10
    OBVIOUS
  <2> QED BY <1>2, <1>4, <2>1, <2>2, <2>3 DEF Cut, Prefix
<1> QED BY <1>1, <1>2, <1>3, <1>4, <1>5

\* The next statement of schema.sql is the first whose table is not there.
LEMMA NextStatement ==
    ASSUME NEW n \in 0..9
    PROVE  /\ Min({j \in DOMAIN Baseline : Baseline[j] \notin Prefix(n)}) = n + 1
           /\ Prefix(n) \cup {Baseline[n + 1]} = Prefix(n + 1)
<1> DEFINE S == {j \in DOMAIN Baseline : Baseline[j] \notin Prefix(n)}
<1>1. \A j \in 1..10 : Baseline[j] \in Prefix(n) <=> j <= n
  <2> SUFFICES ASSUME NEW j \in 1..10
               PROVE  Baseline[j] \in Prefix(n) <=> j <= n
    OBVIOUS
  <2>1. ASSUME j <= n
        PROVE  Baseline[j] \in Prefix(n)
    <3>1. j \in 1..n
      BY <2>1
    <3> QED BY <3>1 DEF Prefix
  <2>2. ASSUME Baseline[j] \in Prefix(n)
        PROVE  j <= n
    <3>1. PICK i \in 1..n : Baseline[j] = Baseline[i]
      BY <2>2 DEF Prefix
    <3>2. i \in 1..10
      BY <3>1
    <3> QED BY <3>1, <3>2, BaselineFacts
  <2> QED BY <2>1, <2>2
<1>2. S = (n + 1)..10
  <2>1. \A j \in 1..10 : j <= n \/ j \in (n + 1)..10
    OBVIOUS
  <2>2. \A j \in (n + 1)..10 : j \in 1..10 /\ ~(j <= n)
    OBVIOUS
  <2> QED BY <1>1, <2>1, <2>2, BaselineFacts
<1>3. n + 1 \in S /\ \A y \in S : n + 1 <= y
  BY <1>2
<1>4. Min(S) = n + 1
  <2> HIDE DEF S
  <2>1. S \subseteq Int
    BY <1>2
  <2>2. \A x \in S : (\A y \in S : x <= y) => x = n + 1
    BY <1>3, <2>1
  <2> QED BY <1>3, <2>2 DEF Min
<1>5. Prefix(n) \cup {Baseline[n + 1]} = Prefix(n + 1)
  <2>1. 1..(n + 1) = 1..n \cup {n + 1}
    OBVIOUS
  <2> QED BY <2>1 DEF Prefix
<1> QED BY <1>4, <1>5

\* A step adds what its version adds.
LEMMA AddedStep ==
    ASSUME NEW v \in 1..8
    PROVE  Added(v + 1) = Added(v) \cup Adds[v]
<1>1. 1..((v + 1) - 1) = 1..(v - 1) \cup {v}
  OBVIOUS
<1> QED BY <1>1 DEF Added

LEMMA NoSearchTableAdded == "blip_search" \notin Added(6)
<1>1. \A i \in 1..(6 - 1) : "blip_search" \notin Adds[i]
  BY DEF Adds
<1> QED BY <1>1 DEF Added

\* The file is at a version of this build with the tables of that version, or
\* was cut short in schema.sql; then it never gets past the sixth step, which
\* needs the table that is missing.
Schema ==
    /\ version \in 0..10
    /\ version = 0 => tables = {"users", "blips"} \/ \E n \in 0..10 : tables = Prefix(n)
    /\ version \in 1..9 =>
         \/ tables = BaselineTables \cup Added(version)
         \/ version <= 6 /\ tables = Cut \cup Added(version)
    /\ server.at \in {"down", "adopt", "install", "stamp", "steps", "up", "refused"}
    /\ server.at \in {"adopt", "install", "stamp"} => version = 0
    /\ server.at = "install" => \E n \in 0..10 : tables = Prefix(n)
    /\ server.at = "stamp" => tables = BaselineTables \/ tables = Cut
    /\ server.at = "steps" => version # 0
    /\ server.at = "up" => version = 9

LEMMA SchemaSuffices == Schema => ServesWholeSchema
BY DEF Schema, ServesWholeSchema, Up, SchemaVersion, At, Added

LEMMA InitSchema == Init => Schema
<1> SUFFICES ASSUME Init PROVE Schema
  OBVIOUS
<1>1. PICK g \in Given : tables = g.tables /\ version = g.version
  BY DEF Init
<1>2. server.at = "down"
  BY DEF Init, Down
<1>3. \/ g.tables = {} /\ g.version = 0
      \/ g.tables = BaselineTables /\ g.version = 0
      \/ g.tables = {"users", "blips"} /\ g.version = 0
      \/ g.version = 10
      \/ \E v \in 1..9 : g.tables = At(v) /\ g.version = v
  BY DEF Given, SchemaVersion
<1>4. Prefix(0) = {} /\ BaselineTables = Prefix(10)
  BY BaselineFacts DEF Prefix
<1>5. \A v \in 1..9 : At(v) = BaselineTables \cup Added(v)
  BY DEF At, Added
<1> QED BY <1>1, <1>2, <1>3, <1>4, <1>5 DEF Schema

LEMMA SchemaStep ==
    ASSUME Schema, [Next]_vars
    PROVE  Schema'
<1>0. ASSUME UNCHANGED <<tables, version, server>>
      PROVE  Schema'
  BY <1>0 DEF Schema
<1>1. CASE UNCHANGED vars
  BY <1>0, <1>1 DEF vars
<1>2. CASE Start
  <2>1. \A n \in 0..10 : "users" \notin Prefix(n) => n = 0
    <3>1. \A n \in 1..10 : 1 \in 1..n
      OBVIOUS
    <3>2. \A n \in 1..10 : "users" \in Prefix(n)
      BY <3>1, BaselineFacts DEF Prefix
    <3>3. \A n \in 0..10 : n = 0 \/ n \in 1..10
      OBVIOUS
    <3> QED BY <3>2, <3>3
  <2>2. UNCHANGED <<tables, version>>
    BY <1>2 DEF Start, file
  <2>3. CASE version # 0
    <3>1. server' = [at |-> "steps"]
      BY <1>2, <2>3 DEF Start
    <3> QED BY <2>2, <2>3, <3>1 DEF Schema
  <2>4. CASE version = 0 /\ "users" \in tables
    <3>1. server' = [at |-> "adopt"]
      BY <1>2, <2>4 DEF Start
    <3> QED BY <2>2, <2>4, <3>1 DEF Schema
  <2>5. CASE version = 0 /\ "users" \notin tables
    <3>1. server' = [at |-> "install"]
      BY <1>2, <2>5 DEF Start
    <3>2. \E n \in 0..10 : tables = Prefix(n)
      BY <2>5 DEF Schema
    <3> QED BY <2>2, <2>5, <3>1, <3>2 DEF Schema
  <2> QED BY <2>3, <2>4, <2>5
<1>3. CASE Adopt
  <2>1. UNCHANGED <<tables, version>> /\ server.at = "adopt" /\ version = 0
    BY <1>3 DEF Adopt, file, Schema
  <2>2. CASE ~(Adopted \subseteq tables)
    <3>1. server' = [at |-> "refused"]
      BY <1>3, <2>2 DEF Adopt
    <3> QED BY <2>1, <3>1 DEF Schema
  <2>3. CASE Adopted \subseteq tables
    <3>1. server' = [at |-> "stamp"]
      BY <1>3, <2>3 DEF Adopt
    <3>2. "wave_flags" \in tables
      BY <2>3 DEF Adopted
    <3>3. PICK n \in 0..10 : tables = Prefix(n)
      BY <2>1, <3>2 DEF Schema
    <3>4. PICK i \in 1..n : Baseline[i] = "wave_flags"
      BY <3>2, <3>3 DEF Prefix
    <3>5. i \in 1..10 /\ 9 \in 1..10
      OBVIOUS
    <3>6. i = 9
      BY <3>4, <3>5, BaselineFacts
    <3>7. n = 9 \/ n = 10
      BY <3>6
    <3>8. tables = BaselineTables \/ tables = Cut
      BY <3>3, <3>7, BaselineFacts
    <3> QED BY <2>1, <3>1, <3>8 DEF Schema
  <2> QED BY <2>2, <2>3
<1>4. CASE Install
  <2>1. version' = version /\ version = 0 /\ server.at = "install"
    BY <1>4 DEF Install, Schema
  <2>2. PICK n \in 0..10 : tables = Prefix(n)
    BY <2>1 DEF Schema
  <2>3. CASE BaselineTables \subseteq tables
    <3>1. server' = [at |-> "stamp"] /\ tables' = tables
      BY <1>4, <2>3 DEF Install
    <3>2. \A i \in 0..10 : Prefix(i) \subseteq BaselineTables
      <4>1. \A i \in 0..10 : 1..i \subseteq 1..10
        OBVIOUS
      <4> QED BY <4>1, BaselineFacts DEF Prefix
    <3>3. tables = BaselineTables
      BY <2>2, <2>3, <3>2
    <3> QED BY <2>1, <3>1, <3>3 DEF Schema
  <2>4. CASE ~(BaselineTables \subseteq tables)
    <3>1. n \in 0..9
      BY <2>2, <2>4, BaselineFacts
    <3>2. tables' = Prefix(n + 1) /\ server' = server
      BY <1>4, <2>2, <2>4, <3>1, NextStatement DEF Install
    <3>3. n + 1 \in 0..10
      BY <3>1
    <3> QED BY <2>1, <3>2, <3>3 DEF Schema
  <2> QED BY <2>3, <2>4
<1>5. CASE Stamp
  <2>1. version' = 1 /\ server' = [at |-> "steps"] /\ tables' = tables
    BY <1>5 DEF Stamp
  <2>2. tables = BaselineTables \/ tables = Cut
    BY <1>5 DEF Stamp, Schema
  <2>3. Added(1) = {}
    BY DEF Added
  <2> QED BY <2>1, <2>2, <2>3 DEF Schema
<1>6. CASE MigrateStep
  <2>1. server.at = "steps" /\ version \in 1..8
    BY <1>6 DEF MigrateStep, SchemaVersion
  <2>2. CASE Needs[version] \subseteq tables
    <3>1. tables' = tables \cup Adds[version] /\ version' = version + 1 /\ server' = server
      BY <1>6, <2>2 DEF MigrateStep, NextVersion
    <3>2. Added(version + 1) = Added(version) \cup Adds[version]
      BY <2>1, AddedStep
    <3>3. CASE tables = BaselineTables \cup Added(version)
      BY <2>1, <3>1, <3>2, <3>3 DEF Schema
    <3>4. CASE version <= 6 /\ tables = Cut \cup Added(version)
      <4>1. version # 6
        <5> SUFFICES ASSUME version = 6 PROVE FALSE
          OBVIOUS
        <5>1. "blip_search" \in tables
          BY <2>2 DEF Needs
        <5> QED BY <3>4, <5>1, NoSearchTableAdded DEF Cut
      <4>2. version' <= 6 /\ version' \in 1..9
        BY <2>1, <3>1, <3>4, <4>1
      <4>3. tables' = Cut \cup Added(version')
        BY <3>1, <3>2, <3>4
      <4> QED BY <2>1, <3>1, <4>2, <4>3 DEF Schema
    <3> QED BY <2>1, <3>3, <3>4 DEF Schema
  <2>3. CASE ~(Needs[version] \subseteq tables)
    <3>1. server' = [at |-> "refused"] /\ UNCHANGED <<tables, version>>
      BY <1>6, <2>3 DEF MigrateStep
    <3> QED BY <3>1 DEF Schema
  <2> QED BY <2>2, <2>3
<1>7. CASE Ready
  <2>1. /\ server' = IF version > 9 THEN [at |-> "refused"] ELSE [at |-> "up"]
        /\ version >= 9 /\ UNCHANGED <<tables, version>>
    BY <1>7 DEF Ready, file, SchemaVersion
  <2> QED BY <2>1 DEF Schema
<1>8. CASE Crash
  <2>1. server' = [at |-> "down"] /\ UNCHANGED <<tables, version>>
    BY <1>8 DEF Crash, file, Down
  <2> QED BY <2>1 DEF Schema
<1>9. CASE Tick
  BY <1>0, <1>9 DEF Tick, file
<1>10. ASSUME NEW b \in Blips, CommitOp(b) \/ DeleteBlip(b)
       PROVE  Schema'
  BY <1>0, <1>10 DEF CommitOp, DeleteBlip
<1>11. ASSUME NEW u \in Uploads, CreateAttachment(u) \/ \E s \in Sizes : Upload(u, s)
       PROVE  Schema'
  BY <1>0, <1>11 DEF CreateAttachment, Upload, file
<1> QED BY <1>1, <1>2, <1>3, <1>4, <1>5, <1>6, <1>7, <1>8, <1>9, <1>10, <1>11
        DEF Next, Migrate

-----------------------------------------------------------------------------
(* What the tables hold.                                                   *)

\* Since the sixth step every row of the index has its key; before it the index
\* is the one the file came with.  The rows of the keys are numbered from 1.
Index ==
    /\ rev \in [Blips -> 0..MaxRevision] /\ gone \subseteq Blips
    /\ \A x \in index : /\ x \in [row : Nat, blip : Blips, text : 1..MaxRevision]
                        /\ x.blip \notin gone /\ x.text = rev[x.blip]
    /\ \A x, y \in index : x.blip = y.blip => x = y
    /\ \A b \in Blips \ gone : rev[b] > 0 => \E x \in index : x.blip = b
    /\ keys \subseteq [row : Nat, blip : Blips]
    /\ \A k, l \in keys : k.row = l.row <=> k.blip = l.blip
    /\ \E n \in Nat : {k.row : k \in keys} = 1..n
    /\ version >= 7 => \A x \in index : [row |-> x.row, blip |-> x.blip] \in keys
    /\ version <= 6 => index = {} \/ \E b \in Blips : index = {Row(1, b, 1)}

\* No edit is later than now, or newer than its message.
History ==
    /\ clock \in 0..MaxClock /\ starts \in 0..MaxStarts
    /\ \A x \in ops : /\ x \in [blip : Blips, rev : Nat, at : Nat]
                      /\ x.rev <= rev[x.blip] /\ x.at <= clock
    /\ \A x, y \in ops : x.blip = y.blip /\ x.rev < y.rev => x.at <= y.at

IInv == Schema /\ Index /\ History

LEMMA IInvImplies == IInv => ServesWhatItHas
<1> SUFFICES ASSUME IInv PROVE ServesWhatItHas
  OBVIOUS
<1>1. TypeOK
  BY DEF IInv, Schema, Index, History, TypeOK, SchemaVersion
<1>2. SearchFindsCurrentText
  BY DEF IInv, Index, SearchFindsCurrentText
<1>3. PlaybackInOrder
  BY DEF IInv, History, PlaybackInOrder, Before
<1> QED BY <1>1, <1>2, <1>3, SchemaSuffices DEF IInv, ServesWhatItHas

\* A file of version 7 or more has the table of keys, and no earlier one has.
LEMMA KeysTable ==
    ASSUME NEW g \in Given
    PROVE  /\ g.version \in Nat
           /\ g.version >= 7 => "blip_search_keys" \in g.tables
<1>1. ASSUME NEW v \in 7..9
      PROVE  "blip_search_keys" \in At(v)
  <2>1. 6 \in 1..(v - 1) /\ "blip_search_keys" \in Adds[6]
    BY DEF Adds
  <2> QED BY <2>1 DEF At
<1>2. \A v \in 1..9 : v >= 7 => v \in 7..9
  OBVIOUS
<1>3. \/ g.version = 0
      \/ g.version = 10 /\ g.tables = At(9) \cup {"newer"}
      \/ \E v \in 1..9 : g.version = v /\ g.tables = At(v)
  BY DEF Given, SchemaVersion
<1>4. "blip_search_keys" \in At(9)
  BY <1>1
<1> QED BY <1>1, <1>2, <1>3, <1>4

LEMMA InitContent == Init => Index /\ History
<1> SUFFICES ASSUME Init PROVE Index /\ History
  OBVIOUS
<1>1. PICK g \in Given, b \in Blips :
      /\ tables = g.tables /\ version = g.version
      /\ rev = [x \in Blips |-> IF g.old /\ x = b THEN 1 ELSE 0]
      /\ gone = {}
      /\ index = IF g.old THEN {Row(1, b, 1)} ELSE {}
      /\ keys = IF g.old /\ "blip_search_keys" \in g.tables THEN {[row |-> 1, blip |-> b]} ELSE {}
      /\ ops = IF g.old THEN {[blip |-> b, rev |-> 1, at |-> 0]} ELSE {}
      /\ starts = 0 /\ clock = 0
  BY DEF Init
<1>2. g.version \in Nat /\ (g.version >= 7 => "blip_search_keys" \in g.tables)
  BY KeysTable
<1>3. 1 \in 1..MaxRevision /\ 0 \in 0..MaxRevision /\ 1 \in 0..MaxRevision
  BY StorageAssumption
<1>4. \E n \in Nat : {k.row : k \in keys} = 1..n
  <2>1. keys = {} \/ keys = {[row |-> 1, blip |-> b]}
    BY <1>1
  <2>2. CASE keys = {}
    <3>1. {k.row : k \in keys} = 1..0
      BY <2>2
    <3> QED BY <3>1
  <2>3. CASE keys = {[row |-> 1, blip |-> b]}
    <3>1. {k.row : k \in keys} = 1..1
      BY <2>3
    <3> QED BY <3>1
  <2> QED BY <2>1, <2>2, <2>3
<1>5. Index
  <2>1. CASE g.old
    <3>1. index = {Row(1, b, 1)} /\ rev[b] = 1 /\ \A x \in Blips \ {b} : rev[x] = 0
      BY <1>1, <2>1
    <3>2. keys \in {{}, {[row |-> 1, blip |-> b]}}
          /\ (version >= 7 => keys = {[row |-> 1, blip |-> b]})
      BY <1>1, <1>2, <2>1
    <3>3. rev \in [Blips -> 0..MaxRevision]
      BY <1>1, <1>3
    <3> DEFINE x0 == Row(1, b, 1)
               k0 == [row |-> 1, blip |-> b]
    <3>4. x0 \in [row : Nat, blip : Blips, text : 1..MaxRevision] /\ x0.blip = b /\ x0.text = 1
          /\ [row |-> x0.row, blip |-> x0.blip] = k0 /\ k0 \in [row : Nat, blip : Blips]
      BY <1>3 DEF Row
    <3> HIDE DEF x0, k0
    <3>5. index = {x0} /\ keys \in {{}, {k0}} /\ (version >= 7 => keys = {k0})
      BY <3>1, <3>2 DEF x0, k0
    <3>6. \A x \in index : /\ x \in [row : Nat, blip : Blips, text : 1..MaxRevision]
                           /\ x.blip \notin gone /\ x.text = rev[x.blip]
      BY <1>1, <3>1, <3>4, <3>5
    <3>7. \A d \in Blips \ gone : rev[d] > 0 => \E x \in index : x.blip = d
      BY <3>1, <3>4, <3>5
    <3>8. version >= 7 => \A x \in index : [row |-> x.row, blip |-> x.blip] \in keys
      BY <3>4, <3>5
    <3> QED BY <1>1, <1>4, <3>1, <3>3, <3>4, <3>5, <3>6, <3>7, <3>8 DEF Index
  <2>2. CASE ~g.old
    <3>1. index = {} /\ keys = {} /\ \A x \in Blips : rev[x] = 0
      BY <1>1, <2>2
    <3>2. rev \in [Blips -> 0..MaxRevision]
      BY <1>1, <1>3
    <3> QED BY <1>1, <1>4, <3>1, <3>2 DEF Index
  <2> QED BY <1>2, <2>1, <2>2
<1>6. History
  BY <1>1, <1>2, StorageAssumption DEF History
<1> QED BY <1>5, <1>6

\* The row an edit is indexed under: the one its message has, or one past all.
LEMMA RowOfResult ==
    ASSUME Index, NEW b \in Blips
    PROVE  /\ RowOf(b) \in Nat
           /\ \A k \in keys : k.row = RowOf(b) <=> k.blip = b
           /\ \E m \in Nat : {k.row : k \in keys \cup {[row |-> RowOf(b), blip |-> b]}} = 1..m
<1>1. PICK n \in Nat : {k.row : k \in keys} = 1..n
  BY DEF Index
<1>2. CASE \E k \in keys : k.blip = b
  <2> DEFINE c == CHOOSE k \in keys : k.blip = b
  <2>1. RowOf(b) = c.row
    BY <1>2 DEF RowOf
  <2>2. c \in keys /\ c.blip = b
    BY <1>2
  <2> HIDE DEF c
  <2>3. c = [row |-> c.row, blip |-> b]
    BY <2>2 DEF Index
  <2>4. keys \cup {[row |-> RowOf(b), blip |-> b]} = keys
    BY <2>1, <2>2, <2>3
  <2> QED BY <1>1, <2>1, <2>2, <2>4 DEF Index
<1>3. CASE ~\E k \in keys : k.blip = b
  <2>1. {0} \cup 1..n = 0..n
    BY <1>1
  <2>2. RowOf(b) = 1 + Max(0..n)
    BY <1>1, <1>3, <2>1 DEF RowOf
  <2>3. Max(0..n) = n
    <3>1. n \in 0..n /\ \A y \in 0..n : n >= y
      BY <1>1
    <3>2. \A x \in 0..n : (\A y \in 0..n : x >= y) => x = n
      BY <3>1
    <3> QED BY <3>1, <3>2 DEF Max
  <2>4. RowOf(b) = n + 1
    BY <2>2, <2>3
  <2>5. \A k \in keys : k.row \in 1..n
    BY <1>1
  <2>6. {k.row : k \in keys \cup {[row |-> n + 1, blip |-> b]}} = 1..(n + 1)
    <3> DEFINE key == [row |-> n + 1, blip |-> b]
    <3>0. key.row = n + 1
      OBVIOUS
    <3> HIDE DEF key
    <3>1. {k.row : k \in keys \cup {key}} = {k.row : k \in keys} \cup {n + 1}
      BY <3>0
    <3>2. 1..(n + 1) = 1..n \cup {n + 1}
      OBVIOUS
    <3> QED BY <1>1, <3>1, <3>2 DEF key
  <2>7. \A k \in keys : k.row # n + 1
    BY <2>5
  <2> QED BY <1>3, <2>4, <2>6, <2>7
<1> QED BY <1>2, <1>3

\* An edit leaves its message with one row, which has its new text, and the rows
\* of the others as they were.
LEMMA CommitOpStep ==
    ASSUME IInv, NEW b \in Blips, CommitOp(b)
    PROVE  Index' /\ History'
<1> DEFINE n == RowOf(b)
           key == [row |-> n, blip |-> b]
           text == rev[b] + 1
<1>1. /\ version = 9 /\ version' = version /\ b \notin gone /\ gone' = gone
      /\ rev[b] < MaxRevision /\ rev' = [rev EXCEPT ![b] = text]
      /\ ops' = ops \cup {[blip |-> b, rev |-> text, at |-> clock]}
      /\ keys' = keys \cup {key}
      /\ index' = {x \in index : x.row # n} \cup {Row(n, b, text)}
      /\ UNCHANGED <<starts, clock>>
  BY DEF CommitOp, IndexBlip, Up, IInv, Schema, rest, Index
<1>2. /\ n \in Nat
      /\ \A k \in keys : k.row = n <=> k.blip = b
      /\ \E m \in Nat : {k.row : k \in keys \cup {key}} = 1..m
  BY RowOfResult DEF IInv
<1> HIDE DEF n
<1>3. \A x \in index : x.row = n <=> x.blip = b
  <2> SUFFICES ASSUME NEW x \in index
               PROVE  x.row = n <=> x.blip = b
    OBVIOUS
  <2>1. [row |-> x.row, blip |-> x.blip] \in keys
    BY <1>1 DEF IInv, Index
  <2> QED BY <1>2, <2>1
<1>4. rev[b] \in 0..MaxRevision /\ text \in 1..MaxRevision /\ text > 0
  BY <1>1, StorageAssumption DEF IInv, Index
<1> HIDE DEF text
<1>5. /\ rev' \in [Blips -> 0..MaxRevision] /\ rev'[b] = text
      /\ \A d \in Blips \ {b} : rev'[d] = rev[d]
  BY <1>1, <1>4 DEF IInv, Index
<1>6. \A x \in index' : x = Row(n, b, text) \/ (x \in index /\ x.blip # b /\ x.row # n)
  BY <1>1, <1>3
<1>7. Row(n, b, text) \in index' /\ \A x \in index : x.blip # b => x \in index'
  BY <1>1, <1>3
<1>8. Row(n, b, text) \in [row : Nat, blip : Blips, text : 1..MaxRevision]
      /\ Row(n, b, text).blip = b /\ Row(n, b, text).text = text /\ Row(n, b, text).row = n
  BY <1>2, <1>4 DEF Row
<1>9. \A x \in index' : /\ x \in [row : Nat, blip : Blips, text : 1..MaxRevision]
                        /\ x.blip \notin gone' /\ x.text = rev'[x.blip]
  <2> SUFFICES ASSUME NEW x \in index'
               PROVE  /\ x \in [row : Nat, blip : Blips, text : 1..MaxRevision]
                      /\ x.blip \notin gone' /\ x.text = rev'[x.blip]
    OBVIOUS
  <2>1. CASE x = Row(n, b, text)
    BY <1>1, <1>5, <1>8, <2>1
  <2>2. CASE x \in index /\ x.blip # b
    BY <1>1, <1>5, <2>2 DEF IInv, Index
  <2> QED BY <1>6, <2>1, <2>2
<1>10. \A x, y \in index' : x.blip = y.blip => x = y
  BY <1>6, <1>8 DEF IInv, Index
<1>11. \A d \in Blips \ gone' : rev'[d] > 0 => \E x \in index' : x.blip = d
  <2> SUFFICES ASSUME NEW d \in Blips \ gone, rev'[d] > 0
               PROVE  \E x \in index' : x.blip = d
    BY <1>1
  <2>1. CASE d = b
    BY <1>7, <1>8, <2>1
  <2>2. CASE d # b
    <3>1. PICK x \in index : x.blip = d
      BY <1>5, <2>2 DEF IInv, Index
    <3> QED BY <1>7, <2>2, <3>1
  <2> QED BY <2>1, <2>2
<1>12. keys' \subseteq [row : Nat, blip : Blips]
  BY <1>1, <1>2 DEF IInv, Index
<1>13. \A k, l \in keys' : k.row = l.row <=> k.blip = l.blip
  <2>1. key.row = n /\ key.blip = b
    OBVIOUS
  <2> HIDE DEF key
  <2> QED BY <1>1, <1>2, <2>1 DEF IInv, Index
<1>14. \A x \in index' : [row |-> x.row, blip |-> x.blip] \in keys'
  <2>1. key \in keys' /\ keys \subseteq keys'
    BY <1>1
  <2>2. [row |-> Row(n, b, text).row, blip |-> Row(n, b, text).blip] = key
    BY <1>8
  <2>3. version >= 7
    BY <1>1
  <2>4. \A x \in index : [row |-> x.row, blip |-> x.blip] \in keys
    BY <2>3 DEF IInv, Index
  <2> HIDE DEF key
  <2> QED BY <1>6, <2>1, <2>2, <2>4
<1>15. Index'
  BY <1>1, <1>2, <1>5, <1>9, <1>10, <1>11, <1>12, <1>13, <1>14 DEF IInv, Index
<1>16. History'
  <2> DEFINE op == [blip |-> b, rev |-> text, at |-> clock]
  <2>1. /\ op \in [blip : Blips, rev : Nat, at : Nat] /\ op.blip = b /\ op.rev = text
        /\ op.at = clock
    BY <1>4 DEF IInv, History
  <2>2. ops' = ops \cup {op}
    BY <1>1
  <2> HIDE DEF op
  <2>3. \A x \in ops : /\ x \in [blip : Blips, rev : Nat, at : Nat]
                       /\ x.rev <= rev[x.blip] /\ x.at <= clock
    BY DEF IInv, History
  <2>4. \A x \in ops : x.rev <= rev'[x.blip] /\ (x.blip = b => x.rev < text)
    <3> SUFFICES ASSUME NEW x \in ops
                 PROVE  x.rev <= rev'[x.blip] /\ (x.blip = b => x.rev < text)
      OBVIOUS
    <3>1. CASE x.blip = b
      <4>1. x.rev <= rev[b] /\ x.rev \in Nat
        BY <2>3, <3>1
      <4>2. x.rev < text /\ x.rev <= text
        BY <1>4, <4>1 DEF text
      <4> QED BY <1>5, <3>1, <4>2
    <3>2. CASE x.blip # b
      BY <1>5, <2>3, <3>2
    <3> QED BY <3>1, <3>2
  <2>5. clock \in Nat /\ text \in Nat
    BY <1>4 DEF IInv, History
  <2>6. \A x \in ops' : /\ x \in [blip : Blips, rev : Nat, at : Nat]
                        /\ x.rev <= rev'[x.blip] /\ x.at <= clock
    BY <1>5, <2>1, <2>2, <2>3, <2>4, <2>5
  <2>7. \A x, y \in ops' : x.blip = y.blip /\ x.rev < y.rev => x.at <= y.at
    <3> SUFFICES ASSUME NEW x \in ops', NEW y \in ops', x.blip = y.blip, x.rev < y.rev
                 PROVE  x.at <= y.at
      OBVIOUS
    <3>1. CASE x \in ops /\ y \in ops
      BY <3>1 DEF IInv, History
    <3>2. CASE y = op
      BY <2>1, <2>6, <3>2
    <3>3. CASE x = op /\ y \in ops
      <4>1. y.rev < text /\ y.rev \in Nat
        BY <2>1, <2>3, <2>4, <3>3
      <4> QED BY <2>1, <2>5, <3>3, <4>1
    <3> QED BY <2>2, <3>1, <3>2, <3>3
  <2> QED BY <1>1, <2>6, <2>7 DEF IInv, History
<1> QED BY <1>15, <1>16

\* A deletion takes the row of its message from the index, and no other.
LEMMA DeleteBlipStep ==
    ASSUME IInv, NEW b \in Blips, DeleteBlip(b)
    PROVE  Index' /\ History'
<1>1. /\ version >= 7 /\ ~(version <= 6) /\ gone' = gone \cup {b}
      /\ index' = {x \in index : \A k \in keys : k.blip = b => x.row # k.row}
      /\ UNCHANGED <<version, rev, keys, ops, starts, clock>>
  BY DEF DeleteBlip, Up, IInv, Schema, rest
<1>2. ASSUME NEW x \in index
      PROVE  x \in index' <=> x.blip # b
  <2> DEFINE key == [row |-> x.row, blip |-> x.blip]
  <2>1. key \in keys /\ key.row = x.row /\ key.blip = x.blip
    BY <1>1 DEF IInv, Index
  <2> HIDE DEF key
  <2> QED BY <1>1, <2>1 DEF IInv, Index
<1>3. index' \subseteq index
  BY <1>1
<1>4. \A x \in index' : /\ x \in [row : Nat, blip : Blips, text : 1..MaxRevision]
                        /\ x.blip \notin gone' /\ x.text = rev'[x.blip]
  BY <1>1, <1>2, <1>3 DEF IInv, Index
<1>5. \A d \in Blips \ gone' : rev'[d] > 0 => \E x \in index' : x.blip = d
  BY <1>1, <1>2 DEF IInv, Index
<1>6. \A x \in index' : [row |-> x.row, blip |-> x.blip] \in keys'
  BY <1>1, <1>3 DEF IInv, Index
<1>7. \A x, y \in index' : x.blip = y.blip => x = y
  BY <1>3 DEF IInv, Index
<1>8. Index'
  BY <1>1, <1>4, <1>5, <1>6, <1>7 DEF IInv, Index
<1>9. History'
  BY <1>1 DEF IInv, History
<1> QED BY <1>8, <1>9

\* The sixth step gives the one row that an old index may have its key.
LEMMA MigrateStepStep ==
    ASSUME IInv, MigrateStep
    PROVE  Index' /\ History'
<1>1. /\ version \in 1..8 /\ UNCHANGED <<rev, gone, index, ops, starts, clock>>
      /\ \/ keys' = OldKeys(version) /\ version' = version + 1
         \/ UNCHANGED <<keys, version>>
  BY DEF MigrateStep, NextVersion, rest, SchemaVersion
<1>2. History'
  BY <1>1 DEF IInv, History
<1>3. CASE UNCHANGED <<keys, version>>
  BY <1>1, <1>2, <1>3 DEF IInv, Index
<1>4. CASE keys' = OldKeys(version) /\ version' = version + 1 /\ version # 6
  <2>1. keys' = keys
    BY <1>4 DEF OldKeys
  <2>2. /\ version' >= 7 => version >= 7
        /\ version' <= 6 => version <= 6
    BY <1>1, <1>4
  <2> QED BY <1>1, <1>2, <2>1, <2>2 DEF IInv, Index
<1>5. CASE keys' = OldKeys(version) /\ version' = version + 1 /\ version = 6
  <2>1. keys' = {[row |-> x.row, blip |-> x.blip] : x \in index}
    BY <1>5 DEF OldKeys
  <2>2. index = {} \/ \E b \in Blips : index = {Row(1, b, 1)}
    BY <1>5 DEF IInv, Index
  <2>3. keys' = {} \/ \E b \in Blips : keys' = {[row |-> 1, blip |-> b]}
    BY <2>1, <2>2 DEF Row
  <2>4. \E n \in Nat : {k.row : k \in keys'} = 1..n
    <3>1. CASE keys' = {}
      <4>1. {k.row : k \in keys'} = 1..0
        BY <3>1
      <4> QED BY <4>1
    <3>2. ASSUME NEW b \in Blips, keys' = {[row |-> 1, blip |-> b]}
          PROVE  \E n \in Nat : {k.row : k \in keys'} = 1..n
      <4>1. {k.row : k \in keys'} = 1..1
        BY <3>2
      <4> QED BY <4>1
    <3> QED BY <2>3, <3>1, <3>2
  <2>5. keys' \subseteq [row : Nat, blip : Blips]
    BY <2>3
  <2>6. \A k, l \in keys' : k.row = l.row <=> k.blip = l.blip
    BY <2>3
  <2>7. \A x \in index : [row |-> x.row, blip |-> x.blip] \in keys'
    BY <2>1
  <2>8. ~(version' <= 6)
    BY <1>5
  <2> QED BY <1>1, <1>2, <2>4, <2>5, <2>6, <2>7, <2>8 DEF IInv, Index
<1> QED BY <1>1, <1>3, <1>4, <1>5

LEMMA NextInv == ASSUME IInv, [Next]_vars PROVE IInv'
<1>1. Schema'
  BY SchemaStep DEF IInv
<1>2. ASSUME UNCHANGED <<rev, gone, index, keys, ops>>,
             version' = version \/ (version = 0 /\ version' = 1),
             starts' \in 0..MaxStarts, clock' \in 0..MaxClock, clock' >= clock
      PROVE  Index' /\ History'
  <2>1. /\ version' >= 7 => version >= 7
        /\ version' <= 6 => version <= 6
    BY <1>2 DEF IInv, Schema
  <2>2. Index'
    BY <1>2, <2>1 DEF IInv, Index
  <2>3. \A x \in ops : x.at <= clock'
    BY <1>2 DEF IInv, History
  <2>4. History'
    BY <1>2, <2>3 DEF IInv, History
  <2> QED BY <2>2, <2>4
<1>3. starts \in 0..MaxStarts /\ clock \in 0..MaxClock /\ clock >= clock
  BY DEF IInv, History
<1>4. CASE UNCHANGED vars
  BY <1>1, <1>2, <1>3, <1>4 DEF vars, IInv
<1>5. CASE Start
  <2>1. starts' \in 0..MaxStarts
    BY <1>3, <1>5, StorageAssumption DEF Start
  <2> QED BY <1>1, <1>2, <1>3, <1>5, <2>1 DEF Start, file, IInv
<1>6. CASE Stamp
  <2>1. version = 0 /\ version' = 1
    BY <1>6 DEF Stamp, IInv, Schema
  <2> QED BY <1>1, <1>2, <1>3, <1>6, <2>1 DEF Stamp, content, rest, IInv
<1>7. CASE Adopt \/ Install \/ Ready \/ Crash
  BY <1>1, <1>2, <1>3, <1>7 DEF Adopt, Install, Ready, Crash, file, content, rest, IInv
<1>8. CASE Tick
  <2>1. clock' \in 0..MaxClock /\ clock' >= clock
    BY <1>3, <1>8, StorageAssumption DEF Tick
  <2> QED BY <1>1, <1>2, <1>3, <1>8, <2>1 DEF Tick, file, IInv
<1>9. ASSUME NEW u \in Uploads, CreateAttachment(u) \/ \E s \in Sizes : Upload(u, s)
      PROVE  IInv'
  BY <1>1, <1>2, <1>3, <1>9 DEF CreateAttachment, Upload, file, IInv
<1>10. CASE MigrateStep
  BY <1>1, <1>10, MigrateStepStep DEF IInv
<1>11. ASSUME NEW b \in Blips, CommitOp(b) \/ DeleteBlip(b)
       PROVE  IInv'
  BY <1>1, <1>11, CommitOpStep, DeleteBlipStep DEF IInv
<1> QED BY <1>4, <1>5, <1>6, <1>7, <1>8, <1>9, <1>10, <1>11 DEF Next, Migrate

\* Whatever file migrate is given and wherever its upgrade is cut short, a server
\* that is up has the whole schema, finds every message by its current text and
\* plays its edits back in order.
THEOREM ServesWhatItHasAlways == Spec => []ServesWhatItHas
<1>1. Init => IInv
  BY InitSchema, InitContent DEF IInv
<1> QED BY <1>1, NextInv, IInvImplies, PTL DEF Spec
-----------------------------------------------------------------------------
(* Sums over finite sets.                                                  *)

\* Induction, for a set.
LEMMA AllNumbers ==
    ASSUME NEW S, 0 \in S, \A n \in Nat : n \in S => n + 1 \in S
    PROVE  \A n \in Nat : n \in S
<1> DEFINE Below == {p \in Nat \X Nat : p[1] < p[2]}
           Bad == {n \in Nat : n \notin S}
<1>1. IsWellFoundedOn(Below, Nat)
  BY NatLessThanWellFounded DEF OpToRel
<1> SUFFICES ASSUME Bad # {} PROVE FALSE
  OBVIOUS
<1> HIDE DEF Below
<1>2. PICK u \in Bad : \A n \in Bad : ~ (<<n, u>> \in Below)
  BY <1>1, WFMin
<1>3. u \in Nat /\ u # 0 /\ u - 1 \in Nat
  BY <1>2
<1>4. u - 1 \in Bad
  BY <1>2, <1>3
<1>5. <<u - 1, u>> \in Nat \X Nat /\ <<u - 1, u>>[1] = u - 1 /\ <<u - 1, u>>[2] = u
  BY <1>3
<1>6. <<u - 1, u>> \in Below
  BY <1>3, <1>5 DEF Below
<1> QED BY <1>2, <1>4, <1>6

\* Every element of U has a weight.
Weighed(U, W) == IsFiniteSet(U) /\ \A x \in U : W[x] \in Nat

\* T sums up the weights of each part of U.
Sums(T, U, W) ==
    /\ T \in [SUBSET U -> Nat]
    /\ T[{}] = 0
    /\ \A s \in SUBSET U, x \in U : x \notin s => T[s \cup {x}] = T[s] + W[x]

HasSums(U, W) == \E T : Sums(T, U, W)

\* One element more than a set that can be summed up.
LEMMA SumsGrow ==
    ASSUME NEW W, NEW V, NEW u, u \notin V, W[u] \in Nat, \A x \in V : W[x] \in Nat, HasSums(V, W)
    PROVE  HasSums(V \cup {u}, W)
<1>1. PICK T : Sums(T, V, W)
  BY DEF HasSums
<1> DEFINE U == V \cup {u}
           T2 == [s \in SUBSET U |-> IF u \in s THEN T[s \ {u}] + W[u] ELSE T[s]]
<1>2. \A s \in SUBSET U : s \ {u} \in SUBSET V /\ (u \notin s => s \in SUBSET V)
  OBVIOUS
<1>3. \A s \in SUBSET V : T[s] \in Nat
  BY <1>1 DEF Sums
<1>4. T2 \in [SUBSET U -> Nat]
  <2>1. ASSUME NEW s \in SUBSET U
        PROVE  (IF u \in s THEN T[s \ {u}] + W[u] ELSE T[s]) \in Nat
    <3>1. CASE u \in s
      <4>1. T[s \ {u}] \in Nat
        BY <1>2, <1>3
      <4> QED BY <3>1, <4>1
    <3>2. CASE u \notin s
      BY <1>2, <1>3, <3>2
    <3> QED BY <3>1, <3>2
  <2> QED BY <2>1
<1>5. T2[{}] = 0
  <2>1. {} \in SUBSET U /\ u \notin {}
    OBVIOUS
  <2>2. T[{}] = 0
    BY <1>1 DEF Sums
  <2> QED BY <2>1, <2>2
<1>6. ASSUME NEW s \in SUBSET U, NEW x \in U, x \notin s
      PROVE  T2[s \cup {x}] = T2[s] + W[x]
  <2>1. s \cup {x} \in SUBSET U
    OBVIOUS
  <2>2. CASE x = u
    <3>1. (s \cup {x}) \ {u} = s /\ u \in s \cup {x} /\ u \notin s
      BY <1>6, <2>2
    <3>2. T2[s \cup {x}] = T[s] + W[u] /\ T2[s] = T[s]
      BY <2>1, <3>1
    <3> QED BY <2>2, <3>2
  <2>3. CASE x # u /\ u \in s
    <3> DEFINE r == s \ {u}
    <3>1. r \in SUBSET V /\ x \in V /\ x \notin r /\ (s \cup {x}) \ {u} = r \cup {x}
          /\ u \in s \cup {x}
      BY <1>6, <2>3
    <3>2. T[r \cup {x}] = T[r] + W[x]
      BY <1>1, <3>1 DEF Sums
    <3>3. T2[s \cup {x}] = T[r \cup {x}] + W[u] /\ T2[s] = T[r] + W[u]
      BY <2>1, <2>3, <3>1
    <3>4. T[r] \in Nat /\ W[x] \in Nat
      BY <1>3, <3>1
    <3> HIDE DEF T2, r
    <3> QED BY <3>2, <3>3, <3>4
  <2>4. CASE x # u /\ u \notin s
    <3>1. s \in SUBSET V /\ x \in V /\ u \notin s \cup {x}
      BY <1>6, <2>4
    <3>2. T[s \cup {x}] = T[s] + W[x]
      BY <1>1, <1>6, <3>1 DEF Sums
    <3> QED BY <2>1, <2>4, <3>1, <3>2
  <2> QED BY <2>2, <2>3, <2>4
<1> HIDE DEF T2, U
<1>7. Sums(T2, U, W)
  BY <1>4, <1>5, <1>6 DEF Sums
<1> QED BY <1>7 DEF HasSums, U

\* Every finite set can be summed up.
LEMMA SumsExist ==
    ASSUME NEW W, NEW U, Weighed(U, W)
    PROVE  HasSums(U, W)
<1> DEFINE Good(S) == Weighed(S, W) => HasSums(S, W)
           Ns == {n \in Nat : \A S : IsFiniteSet(S) /\ Cardinality(S) = n => Good(S)}
<1>1. 0 \in Ns
  <2> SUFFICES ASSUME NEW S, IsFiniteSet(S), Cardinality(S) = 0 PROVE HasSums(S, W)
    OBVIOUS
  <2>1. S = {}
    BY FS_EmptySet
  <2> DEFINE T == [s \in SUBSET {} |-> 0]
  <2>2. Sums(T, {}, W)
    BY DEF Sums
  <2> HIDE DEF T
  <2> QED BY <2>1, <2>2 DEF HasSums
<1>2. ASSUME NEW n \in Nat, n \in Ns PROVE n + 1 \in Ns
  <2> SUFFICES ASSUME NEW S, IsFiniteSet(S), Cardinality(S) = n + 1, Weighed(S, W) PROVE HasSums(S, W)
    OBVIOUS
  <2>1. S # {}
    BY FS_EmptySet
  <2>2. PICK u : u \in S
    BY <2>1
  <2> DEFINE V == S \ {u}
  <2>3. IsFiniteSet(V) /\ Cardinality(V) = (n + 1) - 1
    BY <2>2, FS_RemoveElement
  <2>4. (n + 1) - 1 = n /\ Weighed(V, W)
    BY <2>3 DEF Weighed
  <2>5. HasSums(V, W)
    BY <1>2, <2>3, <2>4
  <2>6. HasSums(V \cup {u}, W)
    BY <2>2, <2>5, SumsGrow DEF Weighed
  <2>7. V \cup {u} = S
    BY <2>2
  <2> HIDE DEF V
  <2> QED BY <2>6, <2>7
<1> HIDE DEF Ns
<1>3. \A n \in Nat : n \in Ns
  BY <1>1, <1>2, AllNumbers
<1>4. IsFiniteSet(U) /\ Cardinality(U) \in Nat
  BY FS_CardinalityType DEF Weighed
<1> QED BY <1>3, <1>4 DEF Ns

\* The order in which a sum takes the elements.
Pick(s) == CHOOSE x \in s : TRUE

SumFix(f, S, W) ==
    f = [s \in SUBSET S |-> IF s = {} THEN 0 ELSE W[Pick(s)] + f[s \ {Pick(s)}]]

\* A sum is the same in whatever order the elements are taken.
LEMMA SumIs ==
    ASSUME NEW W, NEW U, Weighed(U, W), NEW T, Sums(T, U, W), NEW S \in SUBSET U
    PROVE  (\E f : SumFix(f, S, W)) /\ \A f : SumFix(f, S, W) => f[S] = T[S]
<1> DEFINE f0 == [s \in SUBSET S |-> T[s]]
<1>1. \A s \in SUBSET S : s # {} => Pick(s) \in s
  BY DEF Pick
<1>2. ASSUME NEW s \in SUBSET S, s # {}
      PROVE  T[s] = W[Pick(s)] + T[s \ {Pick(s)}]
  <2> DEFINE p == Pick(s)
             r == s \ {p}
  <2>1. p \in s
    BY <1>1, <1>2
  <2> HIDE DEF p
  <2>2. r \in SUBSET U /\ p \in U /\ p \notin r /\ r \cup {p} = s
    BY <2>1
  <2>3. T[r \cup {p}] = T[r] + W[p] /\ T[r] \in Nat /\ W[p] \in Nat
    BY <2>2 DEF Sums, Weighed
  <2> HIDE DEF r
  <2>4. T[s] = T[r] + W[p]
    BY <2>2, <2>3
  <2>5. T[s] = W[p] + T[r]
    BY <2>3, <2>4
  <2> QED BY <2>5 DEF p, r
<1>3. SumFix(f0, S, W)
  <2>1. \A s \in SUBSET S : s \ {Pick(s)} \in SUBSET S
    OBVIOUS
  <2>2. T[{}] = 0
    BY DEF Sums
  <2>3. \A s \in SUBSET S : f0[s] = IF s = {} THEN 0 ELSE W[Pick(s)] + f0[s \ {Pick(s)}]
    BY <1>2, <2>1, <2>2
  <2> QED BY <2>3 DEF SumFix
<1> HIDE DEF f0
<1>4. ASSUME NEW f, SumFix(f, S, W) PROVE f[S] = T[S]
  <2>1. \A s \in SUBSET S : f[s] = IF s = {} THEN 0 ELSE W[Pick(s)] + f[s \ {Pick(s)}]
    BY <1>4 DEF SumFix
  <2> DEFINE Ns == {n \in Nat : \A s \in SUBSET S : Cardinality(s) = n => f[s] = T[s]}
  <2>2. \A s \in SUBSET S : IsFiniteSet(s)
    <3>1. IsFiniteSet(U)
      BY DEF Weighed
    <3> QED BY <3>1, FS_Subset
  <2>3. 0 \in Ns
    <3> SUFFICES ASSUME NEW s \in SUBSET S, Cardinality(s) = 0 PROVE f[s] = T[s]
      OBVIOUS
    <3>1. s = {}
      BY <2>2, FS_EmptySet
    <3> QED BY <2>1, <3>1 DEF Sums
  <2>4. ASSUME NEW n \in Nat, n \in Ns PROVE n + 1 \in Ns
    <3> SUFFICES ASSUME NEW s \in SUBSET S, Cardinality(s) = n + 1 PROVE f[s] = T[s]
      OBVIOUS
    <3>1. s # {}
      BY <2>2, FS_EmptySet
    <3> DEFINE p == Pick(s)
               r == s \ {p}
    <3>2. p \in s
      BY <1>1, <3>1
    <3>3. Cardinality(r) = (n + 1) - 1 /\ r \in SUBSET S
      <4> HIDE DEF p
      <4>1. IsFiniteSet(s)
        BY <2>2
      <4>2. Cardinality(s \ {p}) = Cardinality(s) - 1
        BY <3>2, <4>1, FS_RemoveElement
      <4> QED BY <4>2
    <3>4. (n + 1) - 1 = n
      OBVIOUS
    <3>5. f[r] = T[r]
      BY <2>4, <3>3, <3>4
    <3>6. f[s] = W[p] + f[r] /\ T[s] = W[p] + T[r]
      BY <1>2, <2>1, <3>1
    <3> HIDE DEF p, r
    <3> QED BY <3>5, <3>6
  <2> HIDE DEF Ns
  <2>5. \A n \in Nat : n \in Ns
    BY <2>3, <2>4, AllNumbers
  <2>6. S \in SUBSET S /\ Cardinality(S) \in Nat
    BY <2>2, FS_CardinalityType
  <2> QED BY <2>5, <2>6 DEF Ns
<1> QED BY <1>3, <1>4

\* A part is no more than the whole.
LEMMA PartIsLess ==
    ASSUME NEW W, NEW U, Weighed(U, W), NEW T, Sums(T, U, W), NEW S \in SUBSET U
    PROVE  T[S] <= T[U]
<1>2. U \in SUBSET U /\ T[S] \in Nat /\ T[U] \in Nat
  <2>1. U \in SUBSET U
    OBVIOUS
  <2> QED BY <2>1 DEF Sums
<1> DEFINE Above(s) == T[S] <= T[s]
           Ns == {n \in Nat : \A s \in SUBSET U : S \subseteq s /\ Cardinality(s \ S) = n
                                => Above(s)}
<1>3. \A s \in SUBSET U : IsFiniteSet(s) /\ IsFiniteSet(s \ S) /\ T[s] \in Nat
  <2>1. IsFiniteSet(U)
    BY DEF Weighed
  <2>2. \A s \in SUBSET U : T[s] \in Nat
    BY DEF Sums
  <2>3. \A s \in SUBSET U : IsFiniteSet(s)
    BY <2>1, FS_Subset
  <2>4. \A s \in SUBSET U : s \ S \in SUBSET U
    OBVIOUS
  <2> QED BY <2>2, <2>3, <2>4
<1>4. 0 \in Ns
  <2> SUFFICES ASSUME NEW s \in SUBSET U, S \subseteq s, Cardinality(s \ S) = 0 PROVE Above(s)
    <3> HIDE DEF Above
    <3> QED OBVIOUS
  <2>1. s \ S = {}
    BY <1>3, FS_EmptySet
  <2>2. s = S
    BY <2>1
  <2> QED BY <1>2, <2>2
<1>5. ASSUME NEW n \in Nat, n \in Ns PROVE n + 1 \in Ns
  <2> SUFFICES ASSUME NEW s \in SUBSET U, S \subseteq s, Cardinality(s \ S) = n + 1
               PROVE  Above(s)
    <3> HIDE DEF Above
    <3> QED OBVIOUS
  <2>1. s \ S # {}
    BY <1>3, FS_EmptySet
  <2>2. PICK p : p \in s \ S
    BY <2>1
  <2> DEFINE r == s \ {p}
  <2>3. r \in SUBSET U /\ S \subseteq r /\ p \in U /\ p \notin r /\ r \cup {p} = s
        /\ r \ S = (s \ S) \ {p}
    BY <2>2
  <2>4. Cardinality((s \ S) \ {p}) = (n + 1) - 1
    <3>1. IsFiniteSet(s \ S)
      BY <1>3
    <3> DEFINE q == s \ S
    <3>2. Cardinality(q \ {p}) = Cardinality(q) - 1
      <4> HIDE DEF q
      <4>1. IsFiniteSet(q) /\ p \in q
        BY <2>2, <3>1 DEF q
      <4> QED BY <4>1, FS_RemoveElement
    <3> QED BY <3>2
  <2>5. (n + 1) - 1 = n
    OBVIOUS
  <2> HIDE DEF r
  <2>6. Above(r)
    <3> HIDE DEF Above
    <3> QED BY <1>5, <2>3, <2>4, <2>5
  <2>7. T[s] = T[r] + W[p] /\ W[p] \in Nat /\ T[r] \in Nat
    BY <1>3, <2>3 DEF Sums, Weighed
  <2> QED BY <1>2, <2>6, <2>7
<1> HIDE DEF Ns, Above
<1>6. \A n \in Nat : n \in Ns
  BY <1>4, <1>5, AllNumbers
<1>7. Cardinality(U \ S) \in Nat /\ S \subseteq U
  BY <1>2, <1>3, FS_CardinalityType
<1>8. Above(U)
  BY <1>2, <1>6, <1>7 DEF Ns
<1> QED BY <1>2, <1>8 DEF Above

-----------------------------------------------------------------------------
(* The quota.                                                              *)

\* Every file of U has a size.
Sized(U) == IsFiniteSet(U) /\ \A x \in U : x.size \in Nat

SizeOf(U) == [x \in U |-> x.size]

\* The sizes of finitely many files can be summed up.
LEMMA SizesWeigh ==
    ASSUME NEW U, Sized(U)
    PROVE  Weighed(U, SizeOf(U)) /\ HasSums(U, SizeOf(U))
<1> DEFINE W == SizeOf(U)
<1>1. Weighed(U, W)
  BY DEF Sized, SizeOf, Weighed
<1> HIDE DEF W
<1>2. HasSums(U, W)
  BY <1>1, SumsExist
<1> QED BY <1>1, <1>2 DEF W

\* Total is the sum of the sizes.
LEMMA TotalIs ==
    ASSUME NEW U, Sized(U), NEW T, Sums(T, U, SizeOf(U)), NEW S \in SUBSET U
    PROVE  Total(S) = T[S]
<1> DEFINE W == SizeOf(U)
           Fix(f) == f = [s \in SUBSET S |->
                            IF s = {} THEN 0 ELSE Pick(s).size + f[s \ {Pick(s)}]]
           iter == CHOOSE f : Fix(f)
<1>1. Total(S) = iter[S]
  BY DEF Total, MapThenSumSet, MapThenFoldSet, Pick
<1>2. \A s \in SUBSET S : s # {} => Pick(s) \in s
  BY DEF Pick
<1>3. \A s \in SUBSET S : s # {} => W[Pick(s)] = Pick(s).size
  BY <1>2 DEF SizeOf
<1> HIDE DEF W
<1>4. ASSUME NEW f PROVE Fix(f) <=> SumFix(f, S, W)
  BY <1>3 DEF SumFix
<1>5. Weighed(U, W) /\ Sums(T, U, W)
  BY SizesWeigh DEF W
<1>6. (\E f : SumFix(f, S, W)) /\ \A f : SumFix(f, S, W) => f[S] = T[S]
  BY <1>5, SumIs
<1>7. Fix(iter)
  <2>1. \E f : Fix(f)
    BY <1>4, <1>6
  <2> HIDE DEF Fix
  <2> QED BY <2>1
<1> HIDE DEF iter, Fix
<1> QED BY <1>1, <1>4, <1>6, <1>7

\* A file counts for its size.
LEMMA TotalAdds ==
    ASSUME NEW U, Sized(U), NEW S \in SUBSET U, NEW x \in U, x \notin S
    PROVE  Total(S) \in Nat /\ Total(S \cup {x}) = Total(S) + x.size
<1>1. PICK T : Sums(T, U, SizeOf(U))
  BY SizesWeigh DEF HasSums
<1>2. S \cup {x} \in SUBSET U /\ SizeOf(U)[x] = x.size
  BY DEF SizeOf
<1>3. Total(S) = T[S] /\ Total(S \cup {x}) = T[S \cup {x}]
  BY <1>1, <1>2, TotalIs
<1> QED BY <1>1, <1>2, <1>3 DEF Sums

\* A part is no more than the whole.
LEMMA TotalOfPart ==
    ASSUME NEW U, Sized(U), NEW S \in SUBSET U
    PROVE  Total(S) \in Nat /\ Total(U) \in Nat /\ Total(S) <= Total(U)
<1> DEFINE W == SizeOf(U)
<1>1. Weighed(U, W) /\ HasSums(U, W)
  BY SizesWeigh
<1>2. PICK T : Sums(T, U, W)
  BY <1>1 DEF HasSums
<1>3. U \in SUBSET U
  OBVIOUS
<1>4. Total(S) = T[S] /\ Total(U) = T[U]
  BY <1>2, <1>3, TotalIs
<1> HIDE DEF W
<1>5. T[S] <= T[U] /\ T[S] \in Nat /\ T[U] \in Nat
  BY <1>1, <1>2, <1>3, PartIsLess DEF Sums
<1> QED BY <1>4, <1>5

\* The files of an account within a window from t.
Day(t) == {x \in files : x.made >= t /\ x.made <= t + Window}

\* Needed beside QuotaHolds: there are finitely many files, each with a size and
\* a time, and an upload that waits has both.
QuotaInv ==
    /\ IsFiniteSet(files)
    /\ \A x \in files : x.size \in Nat /\ x.made \in Nat
    /\ upload = [u \in Uploads |-> upload[u]]
    /\ \A u \in Uploads : upload[u].at = "waiting" => upload[u].size \in Nat /\ upload[u].made \in Nat
    /\ \A t \in Nat : Total(Day(t)) <= Quota

\* create_attachment looks at every file that can share a window with the new one.
LEMMA CreateKeepsQuota ==
    ASSUME QuotaInv, NEW u \in Uploads, CreateAttachment(u)
    PROVE  QuotaInv'
<1> DEFINE w == upload[u]
           x == [id |-> u, size |-> w.size, made |-> w.made]
<1>1. /\ w.size \in Nat /\ w.made \in Nat
      /\ upload' = [upload EXCEPT ![u] = [at |-> "done"]]
      /\ files' = IF Total(Used(w)) + w.size > Quota THEN files ELSE files \cup {x}
  BY DEF QuotaInv, CreateAttachment
<1>2. /\ upload' = [v \in Uploads |-> upload'[v]]
      /\ \A v \in Uploads :
           upload'[v].at = "waiting" => upload'[v].size \in Nat /\ upload'[v].made \in Nat
  <2>1. upload' = [v \in Uploads |-> IF v = u THEN [at |-> "done"] ELSE upload[v]]
    BY <1>1 DEF QuotaInv
  <2>2. upload' = [v \in Uploads |-> upload'[v]]
    BY <2>1
  <2>3. \A v \in Uploads : upload'[v] = IF v = u THEN [at |-> "done"] ELSE upload[v]
    BY <2>1
  <2> QED BY <2>2, <2>3 DEF QuotaInv
<1>3. x.size = w.size /\ x.made = w.made
  OBVIOUS
<1>4. CASE files' = files
  BY <1>2, <1>4 DEF QuotaInv, Day
<1>5. CASE files' # files
  <2>1. /\ files' = files \cup {x} /\ x \notin files
        /\ ~(Total(Used(w)) + w.size > Quota)
    BY <1>1, <1>5
  <2> HIDE DEF x, w
  <2>2. IsFiniteSet(files') /\ \A y \in files' : y.size \in Nat /\ y.made \in Nat
    BY <1>1, <1>3, <2>1, FS_AddElement DEF QuotaInv
  <2>3. Used(w) \subseteq files
    BY DEF Used
  <2>4. Sized(files') /\ Sized(Used(w))
    BY <2>2, <2>1, <2>3, FS_Subset DEF Sized, QuotaInv
  <2>5. ASSUME NEW t \in Nat
        PROVE  Total({y \in files' : y.made >= t /\ y.made <= t + Window}) <= Quota
    <3> DEFINE S == Day(t)
               S2 == {y \in files' : y.made >= t /\ y.made <= t + Window}
    <3>1. S \in SUBSET files' /\ x \in files' /\ x \notin S
      BY <2>1 DEF Day
    <3>2. Total(S) <= Quota
      BY DEF QuotaInv
    <3>3. CASE x.made >= t /\ x.made <= t + Window
      <4>1. S2 = S \cup {x}
        BY <2>1, <3>3 DEF Day
      <4>2. S \subseteq Used(w)
        <5>1. ASSUME NEW y \in S PROVE y.made + Window >= w.made
          <6>1. y.made \in Nat /\ y.made >= t
            BY DEF Day, QuotaInv
          <6> QED BY <1>1, <1>3, <3>3, <6>1, StorageAssumption
        <5> QED BY <5>1 DEF Used, Day
      <4> HIDE DEF S, S2
      <4>3. Total(S) \in Nat /\ Total(S \cup {x}) = Total(S) + x.size
        BY <2>4, <3>1, TotalAdds
      <4>4. Total(Used(w)) \in Nat /\ Total(S) <= Total(Used(w))
        BY <2>4, <4>2, TotalOfPart
      <4>5. Total(S \cup {x}) <= Quota
        BY <1>1, <1>3, <2>1, <4>3, <4>4, StorageAssumption
      <4> QED BY <4>1, <4>5 DEF S2
    <3>4. CASE ~(x.made >= t /\ x.made <= t + Window)
      <4>1. S2 = S
        BY <2>1, <3>4 DEF Day
      <4> QED BY <3>2, <4>1
    <3> QED BY <3>3, <3>4
  <2> QED BY <1>2, <2>2, <2>5 DEF QuotaInv, Day
<1> QED BY <1>4, <1>5

\* However many uploads run at once, whenever the process dies in between, no
\* window of a day holds more than the quota: create_attachment reads what is used
\* in the transaction that inserts.
THEOREM QuotaHoldsAlways == Spec => []QuotaHolds
<1>1. Init => QuotaInv
  <2> SUFFICES ASSUME Init PROVE QuotaInv
    OBVIOUS
  <2>1. files = {} /\ upload = [u \in Uploads |-> NoUpload]
    BY DEF Init
  <2>2. \A t \in Nat : Day(t) = {}
    BY <2>1 DEF Day
  <2>3. Total({}) <= Quota
    <3>1. Sized({})
      BY FS_EmptySet DEF Sized
    <3>2. PICK T : Sums(T, {}, SizeOf({}))
      BY <3>1, SizesWeigh DEF HasSums
    <3>3. Total({}) = T[{}]
      BY <3>1, <3>2, TotalIs
    <3> QED BY <3>2, <3>3, StorageAssumption DEF Sums
  <2>4. NoUpload.at # "waiting"
    BY DEF NoUpload
  <2> QED BY <2>1, <2>2, <2>3, <2>4, FS_EmptySet DEF QuotaInv
<1>2. ASSUME IInv, QuotaInv, [Next]_vars
      PROVE  QuotaInv'
  <2>1. ASSUME files' = files, upload' = upload PROVE QuotaInv'
    BY <1>2, <2>1 DEF QuotaInv, Day
  <2>2. ASSUME NEW u \in Uploads, CreateAttachment(u) PROVE QuotaInv'
    BY <1>2, <2>2, CreateKeepsQuota
  <2>3. ASSUME NEW u \in Uploads, NEW s \in Sizes, Upload(u, s) PROVE QuotaInv'
    <3>1. files' = files /\ upload' = [upload EXCEPT ![u] = [at |-> "waiting", size |-> s, made |-> clock]]
      BY <2>3 DEF Upload, file
    <3>2. clock \in Nat /\ s \in Nat
      BY <1>2, StorageAssumption DEF IInv, History
    <3>3. upload' = [v \in Uploads |-> IF v = u THEN [at |-> "waiting", size |-> s, made |-> clock]
                                       ELSE upload[v]]
      BY <1>2, <3>1 DEF QuotaInv
    <3>4. upload' = [v \in Uploads |-> upload'[v]]
      BY <3>3
    <3>5. \A v \in Uploads :
            upload'[v].at = "waiting" => upload'[v].size \in Nat /\ upload'[v].made \in Nat
      BY <1>2, <3>2, <3>3 DEF QuotaInv
    <3> QED BY <1>2, <3>1, <3>4, <3>5 DEF QuotaInv, Day
  <2>4. CASE Crash
    <3>1. files' = files /\ upload' = [u \in Uploads |-> NoUpload]
      BY <2>4 DEF Crash, file
    <3>2. upload' = [v \in Uploads |-> upload'[v]] /\ \A v \in Uploads : upload'[v].at # "waiting"
      BY <3>1 DEF NoUpload
    <3> QED BY <1>2, <3>1, <3>2 DEF QuotaInv, Day
  <2>5. CASE Migrate
    BY <2>1, <2>5 DEF Migrate, Start, Adopt, Install, Stamp, MigrateStep, Ready, file, content, rest
  <2>6. CASE Tick
    BY <2>1, <2>6 DEF Tick, file
  <2>7. ASSUME NEW b \in Blips, CommitOp(b) \/ DeleteBlip(b) PROVE QuotaInv'
    BY <2>1, <2>7 DEF CommitOp, DeleteBlip, rest
  <2>8. CASE UNCHANGED vars
    BY <2>1, <2>8 DEF vars
  <2> QED BY <1>2, <2>2, <2>3, <2>4, <2>5, <2>6, <2>7, <2>8 DEF Next
<1>3. QuotaInv => QuotaHolds
  <2> SUFFICES ASSUME QuotaInv, NEW t \in 0..MaxClock
               PROVE  Total({x \in files : x.made >= t /\ x.made <= t + Window}) <= Quota
    BY DEF QuotaHolds
  <2>1. t \in Nat
    BY StorageAssumption
  <2> QED BY <2>1 DEF QuotaInv, Day
<1>4. Init => IInv
  BY InitSchema, InitContent DEF IInv
<1> QED BY <1>1, <1>2, <1>3, <1>4, NextInv, PTL DEF Spec
-----------------------------------------------------------------------------
(* The rate limiter.                                                       *)

\* The smaller of two numbers.
LEMMA MinOfTwo ==
    ASSUME NEW x \in Int, NEW y \in Int
    PROVE  Min({x, y}) = IF x <= y THEN x ELSE y
<1> DEFINE m == IF x <= y THEN x ELSE y
           S == {x, y}
<1>1. m \in S /\ \A z \in S : m =< z /\ z \in Int
  OBVIOUS
<1> HIDE DEF m, S
<1>2. Min(S) \in S /\ \A z \in S : Min(S) =< z
  BY <1>1 DEF Min
<1>3. Min(S) = m
  BY <1>1, <1>2
<1> QED BY <1>3 DEF m, S

\* The commands of a set have prices.
Costed(U) == IsFiniteSet(U) /\ \A g \in U : g.cost \in Nat

CostOf(U) == [g \in U |-> g.cost]

Paid(S) == MapThenSumSet(LAMBDA g : g.cost, S)

\* The prices of finitely many commands can be summed up.
LEMMA CostsWeigh ==
    ASSUME NEW U, Costed(U)
    PROVE  Weighed(U, CostOf(U)) /\ HasSums(U, CostOf(U))
<1> DEFINE W == CostOf(U)
<1>1. Weighed(U, W)
  BY DEF Costed, CostOf, Weighed
<1> HIDE DEF W
<1>2. HasSums(U, W)
  BY <1>1, SumsExist
<1> QED BY <1>1, <1>2 DEF W

\* Paid is the sum of the prices.
LEMMA PaidIs ==
    ASSUME NEW U, Costed(U), NEW T, Sums(T, U, CostOf(U)), NEW S \in SUBSET U
    PROVE  Paid(S) = T[S]
<1> DEFINE W == CostOf(U)
           Fix(f) == f = [s \in SUBSET S |->
                            IF s = {} THEN 0 ELSE Pick(s).cost + f[s \ {Pick(s)}]]
           iter == CHOOSE f : Fix(f)
<1>1. Paid(S) = iter[S]
  BY DEF Paid, MapThenSumSet, MapThenFoldSet, Pick
<1>2. \A s \in SUBSET S : s # {} => Pick(s) \in s
  BY DEF Pick
<1>3. \A s \in SUBSET S : s # {} => W[Pick(s)] = Pick(s).cost
  BY <1>2 DEF CostOf
<1> HIDE DEF W
<1>4. ASSUME NEW f PROVE Fix(f) <=> SumFix(f, S, W)
  BY <1>3 DEF SumFix
<1>5. Weighed(U, W) /\ Sums(T, U, W)
  BY CostsWeigh DEF W
<1>6. (\E f : SumFix(f, S, W)) /\ \A f : SumFix(f, S, W) => f[S] = T[S]
  BY <1>5, SumIs
<1>7. Fix(iter)
  <2>1. \E f : Fix(f)
    BY <1>4, <1>6
  <2> HIDE DEF Fix
  <2> QED BY <2>1
<1> HIDE DEF iter, Fix
<1> QED BY <1>1, <1>4, <1>6, <1>7

\* A command counts for its price.
LEMMA PaidAdds ==
    ASSUME NEW U, Costed(U), NEW S \in SUBSET U, NEW g \in U, g \notin S
    PROVE  Paid(S) \in Nat /\ Paid(S \cup {g}) = Paid(S) + g.cost
<1>1. PICK T : Sums(T, U, CostOf(U))
  BY CostsWeigh DEF HasSums
<1>2. S \cup {g} \in SUBSET U /\ CostOf(U)[g] = g.cost
  BY DEF CostOf
<1>3. Paid(S) = T[S] /\ Paid(S \cup {g}) = T[S \cup {g}]
  BY <1>1, <1>2, PaidIs
<1> QED BY <1>1, <1>2, <1>3 DEF Sums

\* No command costs nothing.
LEMMA PaidIsNat ==
    ASSUME NEW U, Costed(U), NEW S \in SUBSET U
    PROVE  Paid(S) \in Nat /\ Paid({}) = 0
<1>1. PICK T : Sums(T, U, CostOf(U))
  BY CostsWeigh DEF HasSums
<1>2. Paid(S) = T[S] /\ Paid({}) = T[{}]
  BY <1>1, PaidIs
<1> QED BY <1>1, <1>2 DEF Sums

\* The commands granted to s from a time on.
Grants(s, since) == {g \in granted : g.sender = s /\ g.at >= since}

\* What s had left of a burst and its refill since then.
Left(s, since) == Capacity + Rate * (now - since) - Paid(Grants(s, since))

\* t is the least of the capacity and of what is left since any time.
Exact(s, t) ==
    /\ t <= Capacity
    /\ \A since \in 0..now : t <= Left(s, since)
    /\ t = Capacity \/ \E since \in 0..now : t = Left(s, since)

Bucket(x) == entries[x].tokens \in 0..Capacity /\ entries[x].last \in 0..now

\* Needed beside LimiterIsExact: buckets and grants are of the past, and a grant is
\* counted once.
LimiterInv ==
    /\ now \in Nat /\ sent \in Nat
    /\ \A x \in DOMAIN entries : Bucket(x)
    /\ Costed(granted)
    /\ \A g \in granted : g.at \in 0..now /\ g.no \in Nat /\ g.no < sent
    /\ \A s \in Senders : Exact(s, Tokens(s, DOMAIN entries))

\* A bucket holds no more than a burst.
LEMMA TokensType ==
    ASSUME LimiterInv, NEW s, NEW kept \in SUBSET DOMAIN entries
    PROVE  /\ Tokens(s, kept) \in 0..Capacity
           /\ s \in kept =>
                LET filled == entries[s].tokens + (now - entries[s].last) * Rate
                IN  /\ filled \in Nat
                    /\ Tokens(s, kept) = IF Capacity <= filled THEN Capacity ELSE filled
           /\ s \notin kept => Tokens(s, kept) = Capacity
<1>1. CASE s \in kept
  <2> DEFINE d == now - entries[s].last
             filled == entries[s].tokens + d * Rate
  <2>1. entries[s].tokens \in Nat /\ d \in Nat /\ Rate \in Nat /\ Capacity \in Nat
    BY <1>1, LimiterAssumption DEF LimiterInv, Bucket
  <2>2. Tokens(s, kept) = Min({Capacity, filled})
    BY <1>1 DEF Tokens
  <2> HIDE DEF d
  <2>3. d * Rate \in Nat
    BY <2>1
  <2>4. filled \in Nat
    BY <2>1, <2>3
  <2> HIDE DEF filled
  <2>5. Tokens(s, kept) = IF Capacity <= filled THEN Capacity ELSE filled
    BY <2>1, <2>2, <2>4, MinOfTwo
  <2>6. Tokens(s, kept) \in 0..Capacity
    BY <2>1, <2>4, <2>5
  <2> QED BY <1>1, <2>4, <2>5, <2>6 DEF filled, d
<1>2. CASE s \notin kept
  BY <1>2, LimiterAssumption DEF Tokens
<1> QED BY <1>1, <1>2

\* A bucket is forgotten when it is full again.
LEMMA ForgottenIsFull ==
    ASSUME WholeLimits, LimiterInv, NEW s
    PROVE  Tokens(s, Kept) = Tokens(s, DOMAIN entries) /\ Kept \in SUBSET DOMAIN entries
<1>1. Kept \in SUBSET DOMAIN entries
  BY DEF Kept
<1>2. CASE s \in Kept \/ s \notin DOMAIN entries
  BY <1>1, <1>2 DEF Tokens
<1>3. CASE s \notin Kept /\ s \in DOMAIN entries
  <2> DEFINE d == now - entries[s].last
             q == Capacity \div Rate
             filled == entries[s].tokens + d * Rate
  <2>1. ~(d < IdleEviction)
    BY <1>3 DEF Kept
  <2>2. entries[s].tokens \in Nat /\ d \in Nat /\ Rate \in Nat \ {0} /\ Capacity \in Nat
        /\ MinIdle \in Nat
    BY <1>3, LimiterAssumption DEF LimiterInv, Bucket
  <2>3. q \in Nat /\ Rate * q = Capacity
    BY <2>2 DEF WholeLimits
  <2>4. IdleEviction = IF q > MinIdle THEN q ELSE MinIdle
    BY DEF IdleEviction
  <2> DEFINE T == Tokens(s, DOMAIN entries)
  <2>5. Tokens(s, Kept) = Capacity /\ T = IF Capacity <= filled THEN Capacity ELSE filled
    BY <1>1, <1>3, TokensType
  <2> HIDE DEF d, q, T
  <2>6. d >= q
    BY <2>1, <2>2, <2>3, <2>4
  <2>7. d * Rate >= Rate * q
    <3>1. PICK k \in Nat : d = q + k
      <4>1. d - q \in Nat /\ d = q + (d - q)
        BY <2>2, <2>3, <2>6
      <4> QED BY <4>1
    <3>2. d * Rate = Rate * q + k * Rate /\ k * Rate \in Nat /\ Rate * q \in Nat
      BY <2>2, <2>3, <3>1
    <3> QED BY <3>2
  <2>8. Capacity <= filled
    BY <2>2, <2>3, <2>7
  <2> HIDE DEF filled
  <2> QED BY <1>1, <2>5, <2>8 DEF T
<1> QED BY <1>2, <1>3

\* A second passes.
LEMMA WaitStep ==
    ASSUME WholeLimits, LimiterInv, Wait
    PROVE  LimiterInv'
<1>1. now' = now + 1 /\ entries' = entries /\ sent' = sent /\ granted' = granted /\ now \in Nat
  BY DEF Wait, LimiterInv
<1>2. \A x \in DOMAIN entries' : Bucket(x)'
  BY <1>1 DEF LimiterInv, Bucket
<1>3. \A g \in granted' : g.at \in 0..now' /\ g.no \in Nat /\ g.no < sent'
  BY <1>1 DEF LimiterInv
<1>4. ASSUME NEW s \in Senders
      PROVE  Exact(s, Tokens(s, DOMAIN entries))'
  <2> DEFINE t == Tokens(s, DOMAIN entries)
             u == Tokens(s, DOMAIN entries)'
             L(since) == Left(s, since)
             M(since) == Left(s, since)'
  <2>0. Rate \in Nat \ {0} /\ Capacity \in Nat
    BY LimiterAssumption
  <2>1. t \in 0..Capacity /\ Exact(s, t)
    BY TokensType DEF LimiterInv
  <2>2. u = IF Capacity <= t + Rate THEN Capacity ELSE t + Rate
    <3>1. CASE s \in DOMAIN entries
      <4> DEFINE d == now - entries[s].last
                 filled == entries[s].tokens + d * Rate
                 later == entries[s].tokens + (now' - entries[s].last) * Rate
      <4>1. entries[s].tokens \in Nat /\ d \in Nat
        BY <1>1, <3>1 DEF LimiterInv, Bucket
      <4>2. filled \in Nat /\ t = IF Capacity <= filled THEN Capacity ELSE filled
        BY <3>1, TokensType
      <4>3. u = Min({Capacity, later})
        BY <1>1, <3>1 DEF Tokens
      <4>4. later = filled + Rate
        <5>1. now' - entries[s].last = d + 1
          BY <1>1, <3>1 DEF LimiterInv, Bucket
        <5> HIDE DEF d
        <5>2. (d + 1) * Rate = d * Rate + Rate /\ d * Rate \in Nat
          BY <2>0, <4>1
        <5> QED BY <2>0, <4>1, <5>1, <5>2
      <4> HIDE DEF filled, later, t, u
      <4>5. u = IF Capacity <= later THEN Capacity ELSE later
        BY <2>0, <4>2, <4>3, <4>4, MinOfTwo
      <4> QED BY <2>0, <4>2, <4>4, <4>5
    <3>2. CASE s \notin DOMAIN entries
      <4>1. t = Capacity /\ u = Capacity
        BY <1>1, <3>2 DEF Tokens
      <4> HIDE DEF t, u
      <4> QED BY <2>0, <4>1
    <3> QED BY <3>1, <3>2
  <2>3. ASSUME NEW since \in 0..now
        PROVE  M(since) = L(since) + Rate /\ L(since) \in Int
    <3> DEFINE P == Paid(Grants(s, since))
    <3>1. Paid(Grants(s, since))' = P
      <4>1. Grants(s, since)' = Grants(s, since)
        BY <1>1 DEF Grants
      <4> QED BY <4>1
    <3>2. P \in Nat
      <4>1. Grants(s, since) \in SUBSET granted
        BY DEF Grants
      <4> QED BY <4>1, PaidIsNat DEF LimiterInv
    <3>3. M(since) = Capacity + Rate * ((now + 1) - since) - P
      BY <1>1, <3>1 DEF Left
    <3> HIDE DEF P
    <3>4. Rate * ((now + 1) - since) = Rate * (now - since) + Rate /\ Rate * (now - since) \in Int
      BY <1>1, <2>0
    <3> QED BY <2>0, <3>2, <3>3, <3>4 DEF Left, P
  <2>4. ASSUME NEW since \in 0..(now + 1), since = now + 1
        PROVE  M(since) = Capacity
    <3>1. Grants(s, since)' = {}
      BY <1>1, <2>4 DEF Grants, LimiterInv
    <3>2. Paid({}) = 0
      <4>1. {} \in SUBSET granted
        OBVIOUS
      <4> QED BY <4>1, PaidIsNat DEF LimiterInv
    <3>3. M(since) = Capacity + Rate * (now' - since) - Paid({})
      BY <3>1 DEF Left
    <3>4. Rate * (now' - since) = 0
      <4>1. now' - since = 0
        BY <1>1, <2>4
      <4> QED BY <2>0, <4>1
    <3> QED BY <2>0, <3>2, <3>3, <3>4
  <2> HIDE DEF t, u, L, M
  <2>5. t <= Capacity /\ (\A since \in 0..now : t <= L(since))
        /\ (t = Capacity \/ \E since \in 0..now : t = L(since))
    BY <2>1 DEF Exact, L
  <2>6. u <= Capacity
    BY <2>0, <2>1, <2>2
  <2>7. ASSUME NEW since \in 0..(now + 1) PROVE u <= M(since)
    <3>1. CASE since = now + 1
      BY <2>4, <2>6, <3>1
    <3>2. CASE since # now + 1
      <4>1. since \in 0..now
        BY <1>1, <3>2
      <4>2. t <= L(since) /\ M(since) = L(since) + Rate /\ L(since) \in Int
        BY <2>3, <2>5, <4>1
      <4> QED BY <2>0, <2>1, <2>2, <4>2
    <3> QED BY <3>1, <3>2
  <2>8. u = Capacity \/ \E since \in 0..(now + 1) : u = M(since)
    <3>1. CASE t = Capacity
      BY <2>0, <2>2, <3>1
    <3>2. ASSUME NEW since \in 0..now, t = L(since)
          PROVE  u = Capacity \/ \E x \in 0..(now + 1) : u = M(x)
      <4>1. since \in 0..(now + 1) /\ M(since) = t + Rate
        BY <1>1, <2>3, <3>2
      <4> QED BY <2>2, <4>1
    <3> QED BY <2>5, <3>1, <3>2
  <2>9. 0..now' = 0..(now + 1)
    BY <1>1
  <2> QED BY <2>6, <2>7, <2>8, <2>9 DEF Exact, u, M
<1> QED BY <1>1, <1>2, <1>3, <1>4 DEF LimiterInv

\* A command is let through and paid for, or refused for nothing.
LEMMA CheckStep ==
    ASSUME WholeLimits, LimiterInv, NEW s \in Senders, NEW command \in Commands,
           CheckCommandRate(s, command)
    PROVE  LimiterInv'
<1> DEFINE t == Tokens(s, Kept)
           c == Cost(command)
           left == Charged(t, c)
           g == [no |-> sent, sender |-> s, at |-> now, cost |-> c]
           b == [tokens |-> left, last |-> now]
<1>1. /\ now' = now /\ sent' = sent + 1 /\ now \in Nat /\ sent \in Nat
      /\ entries' = [x \in Kept \cup {s} |-> IF x = s THEN b ELSE entries[x]]
      /\ granted' = IF t >= c THEN granted \cup {g} ELSE granted
  BY DEF CheckCommandRate, LimiterInv
<1>2. c \in Nat /\ Capacity \in Nat /\ Rate \in Nat \ {0}
  BY LimiterAssumption DEF WholeLimits
<1>3. Kept \in SUBSET DOMAIN entries /\ t \in 0..Capacity /\ Exact(s, t)
  <2>1. t = Tokens(s, DOMAIN entries) /\ Kept \in SUBSET DOMAIN entries
    BY ForgottenIsFull
  <2>2. Exact(s, Tokens(s, DOMAIN entries))
    BY DEF LimiterInv
  <2>3. t \in 0..Capacity
    BY <2>1, TokensType
  <2> HIDE DEF t
  <2> QED BY <2>1, <2>2, <2>3
<1>4. left = (IF t >= c THEN t - c ELSE t) /\ b.tokens = left /\ b.last = now
  BY DEF Charged
<1>5. g.no = sent /\ g.sender = s /\ g.at = now /\ g.cost = c
  OBVIOUS
<1> HIDE DEF t, c, g, b, left
<1>6. left \in 0..Capacity
  BY <1>2, <1>3, <1>4
<1>7. g \notin granted
  BY <1>1, <1>5 DEF LimiterInv
<1>8. /\ Costed(granted')
      /\ \A x \in granted' : x.at \in 0..now' /\ x.no \in Nat /\ x.no < sent'
  <2>1. Costed(granted)
    BY DEF LimiterInv
  <2>2. Costed(granted \cup {g})
    <3>1. IsFiniteSet(granted)
      BY <2>1 DEF Costed
    <3>2. IsFiniteSet(granted \cup {g})
      BY <3>1, FS_AddElement
    <3> QED BY <1>2, <1>5, <2>1, <3>2 DEF Costed
  <2>3. Costed(granted')
    BY <1>1, <2>1, <2>2
  <2>4. \A x \in granted : x.at \in 0..now' /\ x.no \in Nat /\ x.no < sent'
    BY <1>1 DEF LimiterInv
  <2>5. g.at \in 0..now' /\ g.no \in Nat /\ g.no < sent'
    BY <1>1, <1>5
  <2> QED BY <1>1, <2>3, <2>4, <2>5
<1>9. /\ DOMAIN entries' = Kept \cup {s}
      /\ entries'[s] = b
      /\ \A x \in Kept \ {s} : entries'[x] = entries[x]
  BY <1>1
<1>10. \A x \in DOMAIN entries' : Bucket(x)'
  <2> SUFFICES ASSUME NEW x \in DOMAIN entries'
               PROVE  entries'[x].tokens \in 0..Capacity /\ entries'[x].last \in 0..now'
    BY DEF Bucket
  <2>1. CASE x = s
    BY <1>1, <1>4, <1>6, <1>9, <2>1
  <2>2. CASE x # s
    <3>1. x \in DOMAIN entries /\ entries'[x] = entries[x]
      BY <1>3, <1>9, <2>2
    <3> QED BY <1>1, <3>1 DEF LimiterInv, Bucket
  <2> QED BY <2>1, <2>2
<1>11. ASSUME NEW x \in Senders
       PROVE  Exact(x, Tokens(x, DOMAIN entries))'
  <2> DEFINE u == Tokens(x, DOMAIN entries)'
             L(since) == Left(x, since)
             M(since) == Left(x, since)'
  <2>1. CASE x = s
    <3>1. u = left
      <4>1. u = Min({Capacity, entries'[s].tokens + (now' - entries'[s].last) * Rate})
        BY <1>9, <2>1 DEF Tokens
      <4>2. entries'[s].tokens + (now' - entries'[s].last) * Rate = left
        <5>1. entries'[s].tokens = left /\ now' - entries'[s].last = 0
          BY <1>1, <1>4, <1>9
        <5>2. 0 * Rate = 0
          BY <1>2
        <5> QED BY <1>6, <5>1, <5>2
      <4> QED BY <1>2, <1>6, <4>1, <4>2, MinOfTwo
    <3> HIDE DEF u
    <3>2. CASE t >= c
      <4>1. granted' = granted \cup {g} /\ left = t - c
        BY <1>1, <1>4, <3>2
      <4>2. ASSUME NEW since \in 0..now
            PROVE  M(since) = L(since) - c /\ L(since) \in Int
        <5> DEFINE S == Grants(x, since)
        <5>1. Grants(x, since)' = S \cup {g}
          BY <1>1, <1>5, <2>1, <4>1, <4>2 DEF Grants
        <5>2. S \in SUBSET granted' /\ g \in granted' /\ g \notin S
          BY <1>7, <4>1 DEF Grants
        <5> HIDE DEF S
        <5>3. Paid(S) \in Nat /\ Paid(S \cup {g}) = Paid(S) + c
          BY <1>5, <1>8, <5>2, PaidAdds
        <5>4. M(since) = Capacity + Rate * (now - since) - (Paid(S) + c)
          BY <1>1, <5>1, <5>3 DEF Left
        <5>5. L(since) = Capacity + Rate * (now - since) - Paid(S)
          BY DEF Left, S
        <5>6. Rate * (now - since) \in Int
          BY <1>1, <1>2
        <5> HIDE DEF L, M
        <5> QED BY <1>2, <5>3, <5>4, <5>5, <5>6
      <4>3. ASSUME NEW since \in 0..now, since = now PROVE L(since) <= Capacity
        <5> DEFINE S == Grants(x, since)
        <5>1. S \in SUBSET granted
          BY DEF Grants
        <5>2. Paid(S) \in Nat
          BY <5>1, PaidIsNat DEF LimiterInv
        <5>3. Rate * (now - since) = 0
          <6>1. now - since = 0
            BY <1>1, <4>3
          <6> QED BY <1>2, <6>1
        <5>4. L(since) = Capacity + Rate * (now - since) - Paid(S)
          BY DEF Left
        <5> HIDE DEF S, L
        <5> QED BY <1>2, <5>2, <5>3, <5>4
      <4> HIDE DEF L, M
      <4>4. t <= Capacity /\ (\A since \in 0..now : t <= L(since))
            /\ (t = Capacity \/ \E since \in 0..now : t = L(since))
        BY <1>3, <2>1 DEF Exact, L
      <4>5. PICK since \in 0..now : t = L(since)
        <5>1. CASE t = Capacity
          <6>1. PICK k \in 0..now : k = now
            BY <1>1
          <6>2. L(k) <= Capacity /\ t <= L(k) /\ L(k) \in Int
            BY <4>2, <4>3, <4>4, <6>1
          <6>3. t = L(k)
            BY <1>2, <5>1, <6>2
          <6> QED BY <6>3
        <5> QED BY <4>4, <5>1
      <4>6. u <= Capacity /\ u = M(since)
        BY <1>2, <1>3, <3>1, <4>1, <4>2, <4>5
      <4>7. ASSUME NEW k \in 0..now PROVE u <= M(k)
        <5>1. t <= L(k) /\ M(k) = L(k) - c /\ L(k) \in Int
          BY <4>2, <4>4
        <5> QED BY <1>2, <1>3, <3>1, <4>1, <5>1
      <4>8. 0..now' = 0..now
        BY <1>1
      <4> QED BY <4>6, <4>7, <4>8 DEF Exact, u, M
    <3>3. CASE ~(t >= c)
      <4>1. granted' = granted /\ u = t
        BY <1>1, <1>4, <3>1, <3>3
      <4>2. \A since \in 0..now : M(since) = L(since)
        BY <1>1, <4>1 DEF Left, Grants
      <4>3. 0..now' = 0..now
        BY <1>1
      <4> HIDE DEF L, M
      <4>4. t <= Capacity /\ (\A since \in 0..now : t <= L(since))
            /\ (t = Capacity \/ \E since \in 0..now : t = L(since))
        BY <1>3, <2>1 DEF Exact, L
      <4>5. u <= Capacity /\ (\A since \in 0..now : u <= M(since))
            /\ (u = Capacity \/ \E since \in 0..now : u = M(since))
        BY <4>1, <4>2, <4>4
      <4> QED BY <4>3, <4>5 DEF Exact, u, M
    <3> QED BY <3>2, <3>3
  <2>2. CASE x # s
    <3> DEFINE v == Tokens(x, DOMAIN entries)
    <3>1. u = v
      <4>1. Tokens(x, Kept) = v
        BY ForgottenIsFull
      <4>2. u = Tokens(x, Kept)
        <5>1. CASE x \in Kept
          <6>1. x \in DOMAIN entries' /\ entries'[x] = entries[x]
            BY <1>9, <2>2, <5>1
          <6> QED BY <1>1, <5>1, <6>1 DEF Tokens
        <5>2. CASE x \notin Kept
          <6>1. x \notin DOMAIN entries'
            BY <1>9, <2>2, <5>2
          <6> QED BY <5>2, <6>1 DEF Tokens
        <5> QED BY <5>1, <5>2
      <4> HIDE DEF u, v
      <4> QED BY <4>1, <4>2
    <3>2. ASSUME NEW since \in 0..now PROVE M(since) = L(since)
      <4>1. Grants(x, since)' = Grants(x, since)
        BY <1>1, <1>5, <2>2 DEF Grants
      <4> QED BY <1>1, <4>1 DEF Left
    <3>3. 0..now' = 0..now
      BY <1>1
    <3>4. Exact(x, v)
      BY DEF LimiterInv
    <3> HIDE DEF u, v, L, M
    <3>5. v <= Capacity /\ (\A since \in 0..now : v <= L(since))
          /\ (v = Capacity \/ \E since \in 0..now : v = L(since))
      BY <3>4 DEF Exact, L
    <3>6. u <= Capacity /\ (\A since \in 0..now : u <= M(since))
          /\ (u = Capacity \/ \E since \in 0..now : u = M(since))
      BY <3>1, <3>2, <3>5
    <3> QED BY <3>3, <3>6 DEF Exact, u, M
  <2> QED BY <2>1, <2>2
<1> QED BY <1>1, <1>8, <1>10, <1>11 DEF LimiterInv

\* check_command_rate lets through exactly what a burst and its refill allow, at
\* every moment and for any number of senders: a refused call costs nothing, and
\* pruning the map gives no tokens away.
THEOREM LimiterIsExactAlways ==
    ASSUME WholeLimits
    PROVE  LimiterSpec => []LimiterIsExact
<1>1. LimiterInit => LimiterInv
  <2> SUFFICES ASSUME LimiterInit PROVE LimiterInv
    OBVIOUS
  <2>1. now = 0 /\ sent = 0 /\ granted = {} /\ DOMAIN entries = {}
    BY DEF LimiterInit
  <2>2. Costed(granted)
    BY <2>1, FS_EmptySet DEF Costed
  <2>3. ASSUME NEW s \in Senders PROVE Exact(s, Tokens(s, DOMAIN entries))
    <3>1. Tokens(s, DOMAIN entries) = Capacity
      BY <2>1 DEF Tokens
    <3>2. ASSUME NEW since \in 0..now PROVE Left(s, since) = Capacity
      <4>1. since = 0 /\ Grants(s, since) = {}
        BY <2>1 DEF Grants
      <4>2. Paid({}) = 0
        <5>1. {} \in SUBSET granted
          OBVIOUS
        <5> QED BY <2>2, <5>1, PaidIsNat
      <4>3. Rate * (now - since) = 0
        <5>1. now - since = 0
          BY <2>1, <4>1
        <5> QED BY <5>1, LimiterAssumption
      <4> QED BY <4>1, <4>2, <4>3, LimiterAssumption DEF Left
    <3> QED BY <3>1, <3>2, LimiterAssumption DEF Exact
  <2> QED BY <2>1, <2>2, <2>3 DEF LimiterInv
<1>2. ASSUME LimiterInv, [LimiterNext]_buckets PROVE LimiterInv'
  <2>1. CASE UNCHANGED buckets
    <3>1. UNCHANGED <<entries, now, sent, granted>>
      BY <2>1 DEF buckets
    <3> QED BY <1>2, <3>1 DEF LimiterInv, Bucket, Exact, Left, Grants, Tokens
  <2>2. CASE Wait
    BY <1>2, <2>2, WaitStep
  <2>3. ASSUME NEW s \in Senders, NEW command \in Commands, CheckCommandRate(s, command)
        PROVE  LimiterInv'
    BY <1>2, <2>3, CheckStep
  <2> QED BY <1>2, <2>1, <2>2, <2>3 DEF LimiterNext
<1>3. ASSUME LimiterInv PROVE LimiterIsExact
  <2> SUFFICES ASSUME NEW s \in Senders PROVE Tokens(s, Kept) = Allowance(s)
    BY DEF LimiterIsExact
  <2> DEFINE t == Tokens(s, Kept)
             L(since) == Left(s, since)
             A == {Capacity} \cup {L(since) : since \in 0..now}
  <2>1. t = Tokens(s, DOMAIN entries) /\ Kept \in SUBSET DOMAIN entries
    BY <1>3, ForgottenIsFull
  <2>2. t \in 0..Capacity /\ Exact(s, t)
    <3>1. Exact(s, Tokens(s, DOMAIN entries))
      BY <1>3 DEF LimiterInv
    <3>2. t \in 0..Capacity
      BY <1>3, <2>1, TokensType
    <3> HIDE DEF t
    <3> QED BY <2>1, <3>1, <3>2
  <2>3. \A since \in 0..now : Spent(s, since) = Paid(Grants(s, since))
    BY DEF Spent, Paid, Grants
  <2>4. Allowance(s) = Min(A)
    BY <2>3 DEF Allowance, Left
  <2>5. ASSUME NEW since \in 0..now PROVE L(since) \in Int
    <3>1. Grants(s, since) \in SUBSET granted
      BY DEF Grants
    <3>2. Paid(Grants(s, since)) \in Nat
      BY <1>3, <3>1, PaidIsNat DEF LimiterInv
    <3>3. Rate * (now - since) \in Int
      BY <1>3, LimiterAssumption DEF LimiterInv
    <3> QED BY <3>2, <3>3, LimiterAssumption DEF Left
  <2> HIDE DEF t, L
  <2>6. t <= Capacity /\ (\A since \in 0..now : t <= L(since))
        /\ (t = Capacity \/ \E since \in 0..now : t = L(since))
    BY <2>2 DEF Exact, L
  <2>7. t \in A /\ \A z \in A : t =< z /\ z \in Int
    BY <2>5, <2>6, LimiterAssumption
  <2> HIDE DEF A
  <2>8. Min(A) \in A /\ \A z \in A : Min(A) =< z
    BY <2>7 DEF Min
  <2>9. Min(A) = t
    BY <2>7, <2>8
  <2> QED BY <2>4, <2>9 DEF t
<1> QED BY <1>1, <1>2, <1>3, PTL DEF LimiterSpec
=============================================================================

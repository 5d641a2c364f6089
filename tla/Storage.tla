------------------------------ MODULE Storage ------------------------------
(***************************************************************************)
(* The database file of a server: how migrate brings whatever it finds to  *)
(* the schema of this build, across crashes, and what the running server   *)
(* then keeps in it beside the conversation itself: the search index, the  *)
(* history that playback shows, and the uploads with their daily quota.    *)
(*                                                                         *)
(* A statement outside a transaction is durable by itself; a transaction   *)
(* is one step.  The process may die between any two steps.                *)
(***************************************************************************)
EXTENDS Naturals, FiniteSets, Sequences, FiniteSetsExt

CONSTANTS
    Blips,            \* messages
    Uploads,          \* upload requests of one account
    Sizes,            \* of uploaded files
    Quota, Window,    \* UPLOAD_QUOTA_BYTES and UPLOAD_QUOTA_WINDOW_MS
    InstallCrashes,   \* TRUE: the process may die while it creates a new database
    MaxStarts,        \* bound: starts of the process
    MaxRevision,      \* bound: edits of a message
    MaxClock          \* bound: time

ASSUME StorageAssumption ==
    /\ Sizes \subseteq Nat \ {0} /\ Quota \in Nat /\ Window \in Nat
    /\ InstallCrashes \in BOOLEAN
    /\ MaxStarts \in Nat /\ MaxRevision \in Nat \ {0} /\ MaxClock \in Nat

\* schema.sql, in order.
Baseline == <<"users", "sessions", "waves", "wavelets", "participants", "blips", "ops",
              "read_marks", "wave_flags", "blip_search">>

\* What each migration step adds to the tables and columns, and what it needs.
Adds == <<{"ops.op_id"}, {"waves.mode"}, {"attachments"}, {"comments", "blips.comment"},
          {"oauth_identities"}, {"blip_search_keys"}, {"agent_tokens"}, {"agent_replies"}>>
Needs == <<{"ops"}, {"waves"}, {}, {"blips"}, {}, {"blip_search"}, {}, {}>>

SchemaVersion == 9
BaselineTables == {Baseline[i] : i \in DOMAIN Baseline}

\* The tables and columns of a database at version v.
At(v) == BaselineTables \cup UNION {Adds[i] : i \in 1..(v - 1)}

\* adopt_legacy looks for columns of these.
\* Mistake: also for what only a later version has.
AdoptedCurrent == {"blips", "wave_flags", "read_marks", "ops", "comments"}
Adopted == {"blips", "wave_flags", "read_marks", "ops"}

VARIABLES
    tables,    \* tables and columns in the file
    version,   \* user_version
    rev,       \* the revision of each message's text; 0 when it was never edited
    gone,      \* messages marked deleted
    index,     \* blip_search: rows of message and text
    keys,      \* blip_search_keys: the row of each message
    ops,       \* the history: message, revision and timestamp
    files,     \* attachments
    server,    \* what the process is doing
    starts,    \* how often it was started
    upload,    \* the uploads in progress
    clock      \* wall clock

vars == <<tables, version, rev, gone, index, keys, ops, files, server, starts, upload, clock>>
file == <<tables, version, rev, gone, index, keys, ops, files>>
content == <<rev, gone, index, keys, ops, files>>

Down == [at |-> "down"]
NoUpload == [at |-> "none"]

\* The files a server may be given: none yet, one of any earlier build with a
\* message in its search index, one of a newer build, one of something else.
Given ==
    {[tables |-> {}, version |-> 0, old |-> FALSE],
     [tables |-> BaselineTables, version |-> 0, old |-> TRUE],
     [tables |-> {"users", "blips"}, version |-> 0, old |-> FALSE],
     [tables |-> At(SchemaVersion) \cup {"newer"}, version |-> SchemaVersion + 1, old |-> TRUE]}
    \cup {[tables |-> At(v), version |-> v, old |-> TRUE] : v \in 1..SchemaVersion}

Row(n, b, text) == [row |-> n, blip |-> b, text |-> text]

Init ==
    \E g \in Given, b \in Blips :
      /\ tables = g.tables /\ version = g.version
      /\ rev = [x \in Blips |-> IF g.old /\ x = b THEN 1 ELSE 0]
      /\ gone = {}
      /\ index = IF g.old THEN {Row(1, b, 1)} ELSE {}
      /\ keys = IF g.old /\ "blip_search_keys" \in g.tables THEN {[row |-> 1, blip |-> b]} ELSE {}
      /\ ops = IF g.old THEN {[blip |-> b, rev |-> 1, at |-> 0]} ELSE {}
      /\ files = {}
      /\ server = Down /\ starts = 0 /\ upload = [u \in Uploads |-> NoUpload] /\ clock = 0

----------------------------------------------------------------------------
(* migrate.                                                                *)

rest == <<starts, upload, clock>>

\* The process is started and reads the version.
Start ==
    /\ server.at \in {"down", "refused"} /\ starts < MaxStarts
    /\ starts' = starts + 1
    /\ server' = IF version # 0 THEN [at |-> "steps"]
                 ELSE IF "users" \in tables THEN [at |-> "adopt"] ELSE [at |-> "install"]
    /\ UNCHANGED <<file, upload, clock>>

\* adopt_legacy: the layout of the first version, or nothing this build knows.
Adopt ==
    /\ server.at = "adopt"
    /\ server' = IF Adopted \subseteq tables THEN [at |-> "stamp"] ELSE [at |-> "refused"]
    /\ UNCHANGED <<file, rest>>

\* The next statement of schema.sql.
Install ==
    /\ server.at = "install"
    /\ \/ /\ BaselineTables \subseteq tables
          /\ server' = [at |-> "stamp"] /\ UNCHANGED tables
       \/ /\ ~(BaselineTables \subseteq tables)
          /\ LET i == Min({j \in DOMAIN Baseline : Baseline[j] \notin tables})
             IN tables' = tables \cup {Baseline[i]}
          /\ UNCHANGED server
    /\ UNCHANGED <<version, content, rest>>

Stamp ==
    /\ server.at = "stamp"
    /\ version' = 1 /\ server' = [at |-> "steps"]
    /\ UNCHANGED <<tables, content, rest>>

\* The sixth step gives the rows of the index the keys they have already.
\* Mistake: the rows are left without keys.
NoOldKeys(v) == keys
OldKeys(v) == IF v = 6 THEN {[row |-> x.row, blip |-> x.blip] : x \in index} ELSE keys

\* The version that a step commits with its changes.
\* Mistake: it counts the next step too.
NextAfter(v) == IF v < SchemaVersion - 1 THEN v + 2 ELSE v + 1
NextVersion(v) == v + 1

\* A step and its version, in one transaction; or it fails and the server ends.
MigrateStep ==
    /\ server.at = "steps" /\ version \in 1..(SchemaVersion - 1)
    /\ \/ /\ Needs[version] \subseteq tables
          /\ tables' = tables \cup Adds[version]
          /\ keys' = OldKeys(version)
          /\ version' = NextVersion(version)
          /\ UNCHANGED server
       \/ /\ ~(Needs[version] \subseteq tables)
          /\ server' = [at |-> "refused"]
          /\ UNCHANGED <<tables, keys, version>>
    /\ UNCHANGED <<rev, gone, index, ops, files, rest>>

\* A file of a newer build is refused, one that is up to date is served.
Ready ==
    /\ server.at = "steps" /\ version >= SchemaVersion
    /\ server' = IF version > SchemaVersion THEN [at |-> "refused"] ELSE [at |-> "up"]
    /\ UNCHANGED <<file, rest>>

Crash ==
    /\ server.at # "down" /\ starts < MaxStarts
    /\ server.at = "install" => InstallCrashes
    /\ server' = Down
    /\ upload' = [u \in Uploads |-> NoUpload]
    /\ UNCHANGED <<file, starts, clock>>

----------------------------------------------------------------------------
(* The running server.                                                     *)

Up == server.at = "up"

Tick ==
    /\ clock < MaxClock /\ Up
    /\ clock' = clock + 1
    /\ UNCHANGED <<file, server, starts, upload>>

\* The row of a message in the index, allocated when it has none.
\* Mistake: a new one each time.
RowOfNew(b) == 1 + Max({0} \cup {k.row : k \in keys})
RowOf(b) ==
    IF \E k \in keys : k.blip = b THEN (CHOOSE k \in keys : k.blip = b).row
    ELSE 1 + Max({0} \cup {k.row : k \in keys})

\* index_blip: the row is deleted and written again.
IndexBlip(b, text) ==
    LET n == RowOf(b)
    IN /\ keys' = keys \cup {[row |-> n, blip |-> b]}
       /\ index' = {x \in index : x.row # n} \cup {Row(n, b, text)}

\* insert_seeded_blip and commit_op: the text, its op and its index row.
CommitOp(b) ==
    /\ Up /\ b \notin gone /\ rev[b] < MaxRevision
    /\ rev' = [rev EXCEPT ![b] = @ + 1]
    /\ ops' = ops \cup {[blip |-> b, rev |-> rev[b] + 1, at |-> clock]}
    /\ IndexBlip(b, rev[b] + 1)
    /\ UNCHANGED <<tables, version, gone, files, server, rest>>

\* delete_blip.
DeleteBlip(b) ==
    /\ Up /\ rev[b] > 0 /\ b \notin gone
    /\ gone' = gone \cup {b}
    /\ index' = {x \in index : \A k \in keys : k.blip = b => x.row # k.row}
    /\ UNCHANGED <<tables, version, rev, keys, ops, files, server, rest>>

\* upload_attachment: the account is in the wavelet and the size allowed; the
\* start of the day is reckoned before the transaction begins.
Upload(u, size) ==
    /\ Up /\ upload[u].at = "none"
    /\ upload' = [upload EXCEPT ![u] = [at |-> "waiting", size |-> size, made |-> clock]]
    /\ UNCHANGED <<file, server, starts, clock>>

Total(S) == MapThenSumSet(LAMBDA x : x.size, S)

\* What the account has uploaded since then, read in the transaction that inserts.
\* Mistake: it is read when the request comes in, before the others are stored.
UsedBefore(x) == {y \in files : y.made < x.made}
Used(x) == {y \in files : y.made + Window >= x.made}

\* create_attachment.
CreateAttachment(u) ==
    /\ Up /\ upload[u].at = "waiting"
    /\ files' = IF Total(Used(upload[u])) + upload[u].size > Quota THEN files
                ELSE files \cup {[id |-> u, size |-> upload[u].size, made |-> upload[u].made]}
    /\ upload' = [upload EXCEPT ![u] = [at |-> "done"]]
    /\ UNCHANGED <<tables, version, rev, gone, index, keys, ops, server, starts, clock>>

Migrate == Start \/ Adopt \/ Install \/ Stamp \/ MigrateStep \/ Ready

Next ==
    \/ Migrate \/ Crash \/ Tick
    \/ \E b \in Blips : CommitOp(b) \/ DeleteBlip(b)
    \/ \E u \in Uploads : CreateAttachment(u) \/ \E s \in Sizes : Upload(u, s)

\* The process is started again when it has ended, and runs.
Spec == Init /\ [][Next]_vars /\ WF_vars(Migrate)

----------------------------------------------------------------------------
(* Properties.                                                             *)

\* Every variable has the type of the state it stands for; a message has one key.
TypeOK ==
    /\ version \in 0..(SchemaVersion + 1)
    /\ rev \in [Blips -> 0..MaxRevision] /\ gone \subseteq Blips
    /\ \A x \in index : x.blip \in Blips /\ x.text \in 1..MaxRevision
    /\ \A k, l \in keys : k.blip \in Blips /\ (k.row = l.row <=> k.blip = l.blip)
    /\ server.at \in {"down", "adopt", "install", "stamp", "steps", "up", "refused"}
    /\ starts \in 0..MaxStarts /\ clock \in 0..MaxClock

\* A server that serves has the whole schema, whatever file it was given and
\* however often its upgrade was cut short: a table that is missing would fail at
\* the first query that needs it.
ServesWholeSchema ==
    Up => version = SchemaVersion /\ tables = At(SchemaVersion)

\* The index holds each message that is not deleted once, with the text it has
\* now, also when it was indexed by a build that had no keys.
SearchFindsCurrentText ==
    Up => /\ \A x \in index : x.blip \notin gone /\ x.text = rev[x.blip]
          /\ \A x, y \in index : x.blip = y.blip => x = y
          /\ \A b \in Blips \ gone : rev[b] > 0 => \E x \in index : x.blip = b

\* The order of playback.
\* Mistake: by the time alone.
ByTime(x, y) == x.at < y.at
Before(x, y) == x.at < y.at \/ (x.at = y.at /\ x.rev < y.rev)

\* Playback shows the edits of a message in the order they were made, also those
\* of the same instant.
PlaybackInOrder ==
    \A x, y \in ops : x.blip = y.blip /\ x.rev < y.rev => Before(x, y)

\* Within no day does an account store more than its quota, however many uploads
\* run at once.
QuotaHolds ==
    \A t \in 0..MaxClock :
      Total({x \in files : x.made >= t /\ x.made <= t + Window}) <= Quota

\* Files that this build can serve: none yet, of the first layout, or of any version
\* up to its own.
Known ==
    \/ version \in 1..SchemaVersion
    \/ version = 0 /\ (tables = {} \/ BaselineTables \subseteq tables)

\* A database this build can serve comes up in the end, however often the process
\* dies on the way.
UpgradeFinishes == Known ~> Up

\* Whatever file it was given, a server that is up answers from it rightly: by the
\* whole schema, with the current text, in the order of the edits.
ServesWhatItHas ==
    TypeOK /\ ServesWholeSchema /\ SearchFindsCurrentText /\ PlaybackInOrder
=============================================================================

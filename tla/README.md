# A TLA+ model of Gal

Gal is a collaboration server: people edit the messages ("blips") of a
conversation ("wave") together, live, through WebSockets, over one SQLite file.
Its hard promises are that concurrent edits converge, that an edit is applied
exactly once whatever the network and the disk do, that a wave may come and go
from the server's memory without anybody noticing, that a private reply reaches
its members only, and that a session, a token or a slot that has ended is really
gone. These modules model the code behind those promises; TLC checks them on
small instances and TLAPS proves the central invariants for all.

Run `tlc -config X.cfg M` for the runs listed in `PROJECT.json`, and
`tlapm M.tla` for the proofs, which are in the eight modules `*Proofs`.
`PROJECT.json` maps every definition to the lines it models and gives, for every
property, a mistake that the property catches. Mistakes stand in the modules
under the comment `Mistake`, before the definition they are a wrong form of.

## Inventory

| Part | State | Operations | What is hard | Correct when |
|---|---|---|---|---|
| Delta algebra, `gal-ot/delta.rs`, `attributes.rs`, `text.rs` | none | compose, transform, invert, transform_position, diff_text, validate | runs split at UTF-16 units, attribute nulls, ties between inserts | changes compose, converge and invert; carets follow; characters stay whole |
| `ServerDoc`, `gal-ot/lib.rs` | content, revision, bounded history | apply, rollback_last, at_revision | the edge of the window | every retained revision can be rebased from and rebuilt |
| `apply_op`, `state.rs`, `db.rs` | resident document, op log, snapshot | look up, apply, commit, roll back, publish | one step of several failing, a repeated op, a crash between two steps | log = snapshot = memory; one entry for each op id; what is acknowledged is stored |
| Watchers, `state.rs` `broadcast`, `ws.rs` | subscribers, bounded queues, kill switches | open, leave, broadcast, disconnect | a full queue, an op between snapshot and subscription | a stream has no gap, or ends |
| Residency, `state.rs` | map of resident waves, tombstones, two kinds of locks | open_wave, maybe_evict, evict_after_panic | a task keeps an Arc across an eviction; two locks nested | one live copy, no deadlock, no leak |
| Browser document, `web/client.js`, `app.js` | document, op in flight, buffer, socket | type, op, ack, waveState, error, reconnect | lost Acks; replay | shows the server's text and its own on top; nothing lost or doubled |
| Connections and sessions, `ws.rs`, `http.rs`, `state.rs`, `main.rs` | registered connections, sessions, shutdown flag | connect, log out, revoke, expire, drain | a session ended while its socket opens | no socket outlives its session; shutdown ends |
| Wave rules, `ws.rs`, `state.rs`, `gal-core/model.rs` | modes, participants, private replies, threads | some fifteen commands | checks against a cached copy, cascades | copy = rows; private replies stay private; browsers are current |
| Inbox, `state.rs`, `db.rs` | pending set, read marks, flags | schedule, push, markRead, setFlags | a change while the timer fires or the push walks | every change reaches every inbox; nobody else's |
| Agent API, `agent.rs`, `tools/` | tokens, receipts | token, context, reply | retries, panics, revocation in flight | one message for each request; no page misses or repeats one |
| Accounts, `http.rs`, `oidc.rs`, `auth.rs` | users, identities, flows, hashing permits | register, sign in, change password, OpenID flow | parallel guesses, abandoned requests, replayed callbacks | bounded work; a sign-in is good once, in its browser |
| Rate limits, `limit.rs` | token buckets | check, check_cost, would_allow | idle buckets are thrown away | never more than the burst |
| Storage, `db.rs`, `schema.sql` | tables, version, search index, uploads | migrate, index, playback, upload | crashes between steps, old index rows, racing uploads | a whole schema or a refusal; current search; the quota |
| Presence, `state.rs`, `ws.rs` | where each watcher's caret is | open, leave, cursor | lists differ by reader | tells who is here, and no secret |

The parts talk by calls under the wave lock (`ws.rs` → `state.rs` → `db.rs`), by
bounded channels (`state.rs` → the writer task of each connection), by detached
tasks (the inbox timer, agent replies) and by JSON messages on the socket.

## Modules

**Delta, DeltaLaws, TextDiff** — the algorithms, as operators. `Delta` follows
`delta.rs` function by function. It uses recursive operators, so it is checked and
not proved about. `DeltaLaws` compares it with a reference that knows only single
units and their attributes. `TextDiff` sets `diff_text` (by characters) beside
`diffText` (by UTF-16 units).

**ServerDoc** — `gal-ot`'s `ServerDoc` as a record with operators for its
methods, over an abstract algebra (`Compose`, `Transform`, `Invert`, `Valid` are
constants), so that OpCommit can be proved about for every algebra that
satisfies `InvertLaw`: the inverse of a valid change undoes it. That is
what DeltaLaws' `InvertRestores` checks of the code's algebra.

**OpCommit** — one blip on the server. `call` is the submission that
holds the wave lock, and goes through `lookup`, `apply`, `commit`, `publish`,
which are the awaits of `apply_op`. `doc`, `writers` is the resident copy, `ops`,
`stored` the two tables written by `commit_op`, `past` a history variable with the
committed documents. A connection has a bounded queue, a kill switch, its
`session.subscribed` and the revision its stream has reached. Lookup and commit
may fail at any time; `Crash` may come between any two steps. `PanicSpec` adds
commands that panic.

**BlipDoc, Collab** — the browser's `BlipDoc` as a record, and browsers with
their sockets, the handlers of `app.js` and the server's document. A submission is one step here, since OpCommit takes it
apart. A socket may break at any moment: the commands left in it may
still be read (`ServeStale`), in order, while the browser connects again.

**Residency** — one wave, its copies, the residency lock and the lock of every
copy. A task is a connection or an agent request; `at` is the await it stands at.
A copy is abstracted to its subscribers, its tombstone and what storage has that
it `lacks`.

**Sessions** — the sockets of one account from upgrade to the last message
written (`stage`), its session rows, the HTTP requests that end sessions in two
steps (delete the row, then disconnect), the stored permit of each `Notify`
(`kill`), the registration with its cap, the gauge that drain reads, shutdown and
its deadline.

**Waves** — one wave three times: the rows (`db`), the resident copy (`live`) and
what each browser holds (`screen`), which is built only from the snapshot and the
messages it was sent. Every command first finds the copy (`Find`) and then does all
its checks, writes and broadcasts in one step under the lock, with its write
failing or not. Eviction, panic, overflow and reload happen in between. A
delivery is applied when it is sent: what happens between is OpCommit's question.

**Inbox** — the row of one wave in every browser. The debounced push, the
connection's own reads after `markRead` and `setFlags`, and the greeting all read
storage at one step and send at a later one.

**Agent, Context** — replies through their awaits with the lock, the receipt, the
transaction and the publication, with panics, crashes, revocation and expiry;
and the pages of `agent_context` as the command line client walks them while
messages are written and deleted.

**Accounts** — requests that read an account, wait for a hashing permit, hash
and act on what they read, any of which may be abandoned by its caller; OpenID
flows with their cookie; the account limiter. Hashes and tokens are abstracted to
whether they match.

**Limiter** — the token bucket with costs, refill, and the eviction of idle
buckets, against a bucket that is never evicted.

**Storage** — the file: `adopt_legacy`, `schema.sql`, the version stamp and the
migrations as separate durable steps, with crashes between them; then the search
index, playback and uploads of the server that came up.

**Presence** — the list of who is here, per reader, and the carets.

MCOpCommit and MCCollab put the algebra of `Delta` in place of the constants;
MCWaves, MCInbox, MCAccounts give values; MCAlgorithms runs the self-contained
parts side by side, each behaviour being about one of them.

**OpLog** is the abstract specification of the pipeline: a log and the document it
replays to, which change together, by one new op at a time and never back, and
acknowledgements of what is in it. OpCommit implements it with the rows as they are (`log <- ops`,
`revision` and `snapshot` from `stored`): the property `CommitsAreAtomic`, checked in `op_commit`
and proved. Stages, rollbacks, evictions and the death of the process all
map to stutters; only `Commit` appends. The failure of the machine is another matter:
`synchronous = NORMAL` with a write-ahead log may lose the newest commits when the power goes, and
is not modelled.

## Runs

| Run | Bounds | Shows |
|---|---|---|
| `algorithms` | texts of 2 and 3 characters, 2 attribute values, 2 senders, 3 commands in 6 seconds, 3 messages, 2 accounts with 3 tabs | the algebra's laws, both diffs, an exact limiter, faithful pages, true and discreet presence |
| `op_commit` | 2 connections, queues of 2, 1 op id, 2 revisions, history of 1 | log, memory, history, acknowledgements and streams, with crashes |
| `collab` | 2 clients; budgets of edits and troubles in `MCBudgets`; history of 1 | convergence, nothing typed vanishes over lost sockets, refusals and falling out of the window, every edit confirmed |
| `residency` | 1 connection, 1 agent, 3 copies | one live copy with every reply, nothing unwatched stays, every command ends |
| `sessions` | 2 sessions, 2 sockets, 1 request at a time, cap of 1 | no socket outlives its session; counts are true; sockets and shutdown end |
| `waves` | 2 users, 3 messages or new titles, 1 private reply, 1 thread, 3 modes | cache = rows; rows are sound; watchers are current; private and frozen hold |
| `inbox` | 2 users, 1 message, 2 pushes at once, 2 writes | rows for participants, current once it is quiet; every change arrives |
| `agent` | 2 tokens, 1 request id with 2 bodies, 2 replies at once, 2 losses of the copy | one kept message for each request; dead credentials are silent; replies end |
| `accounts` | 2 requests at once, 1 permit, bucket of 1, 1 pending flow, 2 browsers | bounded work, earned sign-ins, every request ends |
| `storage` | files of every version, 3 starts, 2 messages, 2 uploads | served data is right, quota, upgrades finish |

Each property of these runs is one idea; several are conjunctions of named parts
(`ComposeLaws`, `RowsAreSound`, `SignInsAreEarned`...), and most parts have a
mistake of their own in the modules, which was tried and is caught.

Why the bounds are enough: an edit meets at most one op in flight and one buffer,
so two clients with two or three edits produce every combination; the window's
edge needs a history one shorter than the revisions; a queue of two overflows
while another still fits; three copies are the resident one and one orphan for
each task. A race needs two parties: two sockets for one slot, two requests for one
permit, two replies with one request id, two uploads for one quota, a push under way and
one asleep. A third message is needed for a reply to a reply; a second
user for a private reply that excludes somebody. Deadlock checking is off where a bound
brings the system to rest (all edits, requests, writes or starts used up).

Two runs end in a violation, where the code disagrees with what its documentation says:

- `collab_once`: the replay after a reconnect has a new op id, so work that had
  been applied is applied again (the comment says "Same op id as before").
- `inbox_archive`: nothing brings an archived wave back when it is written in
  (README.md:342 says that anything written in it does).

## Known disagreements that no listed run shows

For the first seven there is a configuration that makes TLC produce the behaviour.

- `Collab_early.cfg`: typing between socket open and Welcome is sent twice; the Ack
  of the first is taken for the second's, and browser and server part. `Collab.cfg`
  assumes nobody types there.
- `OpCommit_hole.cfg`: a submission waiting for the lock that a panic frees commits on
  top of an op that was never stored, and the log skips a revision
  (`state.rs:957`). `NoHoles` is a theorem of `Spec`, which has no panics.
- `Waves_late.cfg`: handlers that waited for the lock of an evicted copy do not look at
  its tombstone (`ws.rs:445` and the `find_*` callers), so a command goes to the
  orphan; `state.rs:953-956` says it reloads. `LateLocks = FALSE` in the run.
- `Waves_orphan.cfg`: a message can be deleted while a private reply hangs off it,
  and a remark can be answered as a message (`ws.rs:971-984`). `Dangling = FALSE` in the run.
- `Sessions_cancel.cfg`: a caller that goes away between the deletion of the session row
  and the disconnect leaves the sockets open (README.md:637). `Cancels = FALSE` in
  the run.
- `Accounts_stale.cfg`: a password change that verified the old password may overwrite
  one that was changed meanwhile (`http.rs:357-358`).
- `Storage_crash.cfg`: `schema.sql` commits statement by statement, so a crash while a
  new database is created leaves one that is refused at the next start (`db.rs:1768`
  says "an interrupted upgrade cannot half-apply"). `InstallCrashes = FALSE` in the run.
- The browser's diff tests the wrong surrogate at the suffix (`ot.js:504`, `:515`) and
  cuts characters: `JsDiffKeepsCharactersWhole` in TextDiff is false.
- `ws::open_wave` looks at the tombstone once (`ws.rs:591`): two evictions in a row
  leave a connection subscribed to an orphan.
- A refused open leaves the wave resident with nobody watching (`ws.rs:602`);
  `UnwatchedIsNotResident` speaks of states in which nobody was refused.
- A delta may come off the wire with an op of length zero, which `push` would
  drop; against an embed `OpIterator::next` returns the embed (`delta.rs:482`).
- A token whose creation is in flight survives signing out everywhere (README.md:372); a
  sign-in that verified the old password gets its session after the change (`db.rs:538`).
- The OpenID flow cookie is not cleared on the error paths (`oidc.rs:263` says "However
  this ends"); two tabs that start a sign-in overwrite each other's cookie.
- A row of the inbox may be overtaken by an older one (`late` in Inbox); marking read in one
  tab is not told to the user's other tabs.
- Somebody removed from a wave stays in the others' "here now" until the next list is sent.
- Playback orders ops by wall clock; a clock that goes back reorders them.
- `next_seq` gives the place of a deleted last message again, so an agent that pages meanwhile may
  miss a message written during its walk. Only messages there from the start are promised.

## Fairness

Collab: a browser reads what arrives, the server reads what arrives and notices
dead sockets, the reconnect timer fires. Users are under no
obligation, nothing forces trouble, and trouble is bounded.

Residency, Agent: strong fairness of each task's steps; tokio's mutexes are first
come, first served. The reload loop of `create_reply` may in principle find its
copy evicted each time, so `EveryCommandEnds` does not speak of agents; in Agent
the losses of a copy are bounded and `RepliesEnd` does.

Sessions: weak fairness of the tasks of sockets, of requests and of the drain, while the process runs: a
tokio task that is ready is polled. A handler's work ends. The deadline of main is
no fairness assumption: it may fire, and `ShutdownEnds` holds without it.

Inbox: the timer fires and the push, the handlers and the greeting go on; nobody has
to write. Accounts: requests go on; a request waiting for a permit gets it if it
is free again and again (tokio's semaphore is fair); callers may always leave. Storage: `migrate` goes on once
started; somebody restarts a process that died, within `MaxStarts`.

OpCommit and Waves need none: their properties are about safety.

## Proofs

Every theorem is about `Spec` of its module (`LimiterSpec`, `PresenceSpec` for the two that
one run shares with other algorithms) for all values of the constants that
satisfy the module's assumption; the runs evaluate these assumptions. Beyond
types they say that at least one connection, slot or token is allowed, that the sets over which
something is counted (connections, requests, messages) are finite, and that a
special value is not one of the ordinary ones. Each `IInv` was checked by TLC
on the run's bounds before it was proved.

**OpCommitProofs**, for every number of connections and op ids, every queue
capacity and history length, and every algebra that satisfies `InvertLaw`. The
inductive invariant `IInv` joins

- `TypeOK`, `LogHasNoHoles`, `SnapshotIsReplay`, `OpAppliedOnce`, `AckedIsDurable`;
- `CallInv`: at each stage of the call the resident document is the stored one
  (`SameAsStored`), or one op ahead of it with an inverse that leads back
  (`OneAhead`). None of the properties is inductive without it: that a failed commit
  restores the stored document follows from what `apply` put into the history
  two steps earlier;
- `StreamInv`: a subscriber's stream reaches the stored revision, or the one before
  it while the op is being published.

From `IInv` follow `NoHoles`, `SnapshotReplays` and with them `LogReplays`, `MemoryMatches`, `AppliedOnce`,
`AckDurable`, `SubscribersCurrent` and the action property `NoGaps`. `UnsubscribedDie`
has an invariant of its own, `DyingInv`. `CommitsAtomic` is the refinement of OpLog:
`OneAhead` makes a commit the abstract `Append`, the last part of `CallInv` an Ack the abstract one,
and every other step leaves the rows alone. All are theorems of `Spec`, without panics.

`HistoryServesAlways` rests on `HistoryInv`: entry by entry, the resident history is the last stretch of what
was committed (`Backed`), each with an undo that leads back. Trimming drops its
oldest entries, a rollback its last, an eviction all; none reaches into what stays. `at_revision` and `rebase` are folds
over that stretch, and what they compute follows by induction over its length, as an
induction over a set of numbers. That a rebased edit is accepted needs to know that transforming keeps an edit valid:
the theorem takes a set `Deltas` that has the edits and is closed under it
(`TransformLaw`), and MCOpCommit evaluates the law of the code's algebra on the edits of the run.

**SessionsProofs** holds the proofs about Residency and Presence too. Those about Residency are for any number of sockets,
agents and copies, although the run has one of each task. `ResidencyInv` adds to the properties: who acts through a copy has one; nothing is resident
while somebody loads; what is being evicted or replied to is the resident copy; and for
`QuietIsNotResident`, that a resident copy always has a watcher or a task
that is not done with it, and that its subscribers watch or are about to leave.
`LocksAreExclusive` says that both kinds of locks exclude, with tombstones and panics.

Of Sessions, `CountsHold` (slots, gauge, clean exit) adds that only
finitely many tasks hold a slot or write their last messages, without which their number
means nothing; each step then moves one element of one of the two sets. `EndedSessionsHold`
assumes `Cancels = FALSE` (see the disagreements above). A socket that is served holds a slot, so the request that
ended its session finds it, and the session is read again after the slot is taken, so
none slips in behind the request.

Of Presence, `PresenceIsTrueAlways` is an action property. `PresenceInv` adds that whoever sees anything of a wave is a
participant of the conversation, so that any two watchers share a wavelet and none is left out of the
other's list, and that a watcher has the wave open. Steps that tell nobody (a lost queue, a change of the participants, a
deletion) only take watchers away.

**CollabProofs**, for any number of browsers, edits and lost sockets, any history length and
every algebra of changes that has `AlgebraLaws`: a change that fits a document gives one, two in a
row may be folded into one, and two written against one document give one document in either
order. These are the laws that `ComposeLaws` and `TransformLaws` check of the code's algebra.
`EditorLaw` says that an editor reports changes to the document it shows;
`WholeCharacters`, for `SubmitsAreAnsweredAlways` alone, that no change cuts a
character in two (the browser's diff can, see above); and nobody types before the
greeting (`EditsWhileGreeting = FALSE`), without which it is false. None of the properties is
inductive. `IInv` says that there *are* a change `L[r]` and a document `C[r]` for every revision,
of which the server has the last ones, and that every browser is in one of eight phases: `Away`,
`Greeted`, `AtRest`, `InFlight`, `Acked`, `Refused`, `Asking`, `Reopening`. A phase says
what is in the two directions of its socket, and that the ops on
their way are the next of `L`, in order (`Reads`). While an op is in flight, it has a `Path`: the forms
it takes as each op that overtakes it is transformed past it, here and on the server, which is the
square of `TransformConverges` once per op. So the server accepts it
in the form in which the browser holds it when the Ack comes. What a fold over the history or over the messages
computes (`RebaseGoes`, `SettledGoes`) is found by unfolding it one message at a time along `L`, and the induction
over their number is an induction over a set of numbers (`AllNumbers`), with no operator as a parameter.
`ClientTracksServerAlways`, `SubmitsAreAnsweredAlways` and `ConvergesAlways` follow from the phases.

**WavesProofs**, for any people, connections, private replies, threads, modes and
titles. Under `LateLocks = FALSE` every action is shown to be `Good`: it keeps
`IInv`, keeps the rows linked, and obeys the two action properties. `IInv` says that the
copy, when there is one, is what is stored (`Cache`), that messages are numbered as they
are written and have a place below their number, without which a new place could
collide (`Numbered`), and that a private reply nobody has started has neither people nor messages
(`Begun`). `RowsAreSoundAlways` also assumes `Dangling = FALSE` and uses
`Hung`: what a message answers is no remark, a remark answers the message of its
thread. That makes the cascade of `DeleteBlip` complete. `WatchersAreServedAlways` needs more of a
screen than the property says (`Served`): it shows a wavelet only once that exists, it never heard of a
message that is still to be written, and every thread it has is of a message it may have lost but not of one to
come. Without these a later message could meet an old entry of the same number, which the client's handlers keep. A
thread whose message is deleted stays in the client, so the threads are compared only where their message is there, as
the client draws them.

**InboxProofs.** `RowsAreRightAlways` needs to know which write a row must have been read after,
and that is in no variable. `IInv` therefore says that there *are* two
dates for each user, `pub` (the last write that others made, or were told of, while the
user was in the wave) and `own` (the user's own last), such that

- a row read after both, wherever it is (shown, with a push, with a handler), is what storage says
  now (`RowsAreTrue`);
- every connected browser shows a row read after `pub`, or one is coming: a handler has still to
  schedule, a push sleeps, lists or walks with the user ahead of it, or the row is on its way
  (`RowsCome`), and likewise its own write (`OwnShows`);
- who is not in the wave has left after their own last write (`Dated`).

Each action is shown to keep it with the same dates, but a write, which sets the dates of those it
concerns to now. When everything is at rest nothing is coming, so the row shown is today's.

**AgentProofs.** `IInv` has the lock (`LockIsHeld`), the receipts (`Ledger`: a post keeps
its receipt unless its credential is deleted, which never comes back, so the lookup
under the lock finds every post of a credential that is good), what the copy lags behind storage
between write and publication or after a panic there (`Memory`), and the ids that the
tasks in progress may still use up. `DeadCredentialsAreSilent` is an action property.

**AccountsProofs.** `WorkIsBoundedAlways`: a permit is free or with work that runs, whether its
caller is there or not (`Slots`). For the guesses, a check of the allowance and its charge are two
steps: while the bucket holds a token all guesses count against it, when it is empty those already
let through go over it, and nobody else until it is refilled. So the bound grows by
`Cardinality(Requests) - 1` each time the bucket runs out, at first and after each
refill. `SignInsAreEarnedAlways`: a flow is on the table, or with the one callback that took
it, or behind the one session that came of it (`Flows`); an account without a password has
exactly one owner, and a change that got its old password checked is about an account that has one
(`Doors`).

**StorageProofs**, with `InstallCrashes` either way. The file is at a version of this
build with that version's tables, or was cut short in `schema.sql`; the latter never
gets past the sixth migration, which needs the missing table (`Schema`). Since that migration each row of
the search index has its key (`Index`), and an edit is no later than now (`History`).

`QuotaHoldsAlways` sums sizes over a set of files. A sum over a finite set is first shown not to depend on the
order in which it is taken, to grow by the size of a new element and not to grow when elements go; then the sum that
`create_attachment` takes in the transaction of its insert bounds every window the new file is in.
`QuotaInv` adds that the files are finitely many and that uploads have a size and a time.

The same sums serve the limiter. `LimiterIsExactAlways` compares the one number a bucket keeps with the
minimum over all stretches of time that end now, for any prices, times and senders. Each grant is dated, so
a stretch that starts later has spent less, and a full bucket is one whose every stretch
allows the burst; that is why pruning an idle bucket changes nothing. `WholeLimits` says that a bucket fills in whole seconds,
as those of `command_limiter` do (1200 tokens at 200 a second); MCAlgorithms evaluates it.

Only model-checked:

- the laws of the delta algebra, both diffs and the pages of context: what a recursive definition computes for
  every input is an induction over data. The proofs about OpCommit and Collab take the algebra's laws as
  hypotheses, and these are the laws that `ComposeLaws` and `TransformLaws` check;
- `NoTypingVanishes`, which counts characters in a document, and the abstract algebra has none;
- all liveness.

## Not modelled

Rendering, dialogs, styles, the editor's DOM and selection, string validation,
hashing and signatures, the text of SQL queries, the serving of files, search
ranking, configuration parsing and metrics: no state that another part relies on,
or string code that unit tests reach. The browser's `compose`, `transform` and
`invert` are a port of the Rust ones that `tests/vectors.json` holds to them.

Next: an abstract shared text that Collab implements.

------------------------------ MODULE Limiter ------------------------------
(***************************************************************************)
(* The token bucket of limit.rs, as check_command_rate uses it: commands   *)
(* have prices, a refused one is charged nothing, and the buckets of those *)
(* who went quiet are forgotten when there are too many.                   *)
(*                                                                         *)
(* Time is whole seconds and a bucket refills by whole tokens.             *)
(***************************************************************************)
EXTENDS Integers, FiniteSetsExt

CONSTANTS
    Senders,          \* whose allowance it is
    Commands,         \* the commands they send
    Capacity, Rate,   \* the burst, and the tokens of a second
    MinIdle,          \* the ten minutes of RateLimiter::new
    Crowd,            \* entries above which the map is pruned
    CleanupInterval,  \* CLEANUP_INTERVAL
    MaxNow, MaxCalls  \* bounds: time, and commands sent

ASSUME LimiterAssumption ==
    /\ Capacity \in Nat /\ Rate \in Nat \ {0} /\ MinIdle \in Nat /\ Crowd \in Nat
    /\ CleanupInterval \in Nat /\ MaxNow \in Nat /\ MaxCalls \in Nat

VARIABLES
    entries,   \* the buckets: tokens at the time last, per sender that has one
    cleaned,   \* last_cleanup
    now,       \* the clock
    sent,      \* how many commands were sent
    granted    \* history: the commands let through

buckets == <<entries, cleaned, now, sent, granted>>

\* ClientMessage::cost, by the price.
Cost(command) ==
    CASE command = "RequestPlayback" -> 60
      [] command \in {"Search", "CreateWave", "PrivateReply"} -> 20
      [] command \in {"CreateBlip", "CreateComment", "AddParticipant", "RemoveParticipant"} -> 5
      [] command \in {"DeleteBlip", "ReplyToComment", "ResolveComment", "SetTitle", "SetMode",
                      "SetFlags", "Open"} -> 3
      [] command \in {"Submit", "Cursor", "MarkRead", "Close", "Ping"} -> 1

\* Every command has a price, and an empty bucket refills in whole seconds, as
\* that of command_limiter: 1200 tokens at 200 a second.
WholeLimits ==
    /\ \A command \in Commands : Cost(command) \in Nat
    /\ Rate * (Capacity \div Rate) = Capacity

LimiterInit ==
    entries = [s \in {} |-> 0] /\ cleaned = 0 /\ now = 0 /\ sent = 0 /\ granted = {}

\* How long a bucket is kept after its last use.
\* Mistake: ten minutes, however slowly it refills.
IdleEvictionFixed == MinIdle
IdleEviction == IF Capacity \div Rate > MinIdle THEN Capacity \div Rate ELSE MinIdle

\* The map is pruned when it is crowded, and not on every call.
Prunes == Cardinality(DOMAIN entries) > Crowd /\ now - cleaned >= CleanupInterval
Kept == IF Prunes THEN {s \in DOMAIN entries : now - entries[s].last < IdleEviction}
        ELSE DOMAIN entries

\* The tokens of a sender now, among the buckets kept; a new bucket is full.
Tokens(s, kept) ==
    IF s \in kept THEN Min({Capacity, entries[s].tokens + (now - entries[s].last) * Rate})
    ELSE Capacity

\* What is left after a call: one that is refused is charged nothing.
Charged(tokens, cost) == IF tokens >= cost THEN tokens - cost ELSE tokens

\* take, for a command.
CheckCommandRate(s, command) ==
    LET tokens == Tokens(s, Kept)
        left == Charged(tokens, Cost(command))
    IN /\ sent < MaxCalls /\ sent' = sent + 1
       /\ entries' = [x \in Kept \cup {s} |->
                        IF x = s THEN [tokens |-> left, last |-> now] ELSE entries[x]]
       /\ cleaned' = IF Prunes THEN now ELSE cleaned
       /\ granted' = IF tokens >= Cost(command)
                     THEN granted \cup {[no |-> sent, sender |-> s, at |-> now,
                                         cost |-> Cost(command)]}
                     ELSE granted
       /\ UNCHANGED now

Wait ==
    /\ now < MaxNow /\ now' = now + 1
    /\ UNCHANGED <<entries, cleaned, sent, granted>>

LimiterNext == Wait \/ \E s \in Senders, command \in Commands : CheckCommandRate(s, command)

LimiterSpec == LimiterInit /\ [][LimiterNext]_buckets

----------------------------------------------------------------------------
(* Properties.                                                             *)

Spent(s, since) ==
    MapThenSumSet(LAMBDA g : g.cost, {g \in granted : g.sender = s /\ g.at >= since})

\* What a sender may spend now, from all that it was ever granted: no stretch of
\* time may hold more than a burst and its refill.
Allowance(s) ==
    Min({Capacity} \cup {Capacity + Rate * (now - since) - Spent(s, since) : since \in 0..now})

\* The limiter grants exactly that.  A refused call costs nothing, and forgetting
\* a bucket neither gives tokens away nor takes any.
LimiterIsExact == \A s \in Senders : Tokens(s, Kept) = Allowance(s)
=============================================================================

---------------------------- MODULE MCAlgorithms ----------------------------
(* The parts of the code that keep to themselves, on every small input: a   *)
(* behaviour is about the delta algebra, the text diff, the rate limiter,   *)
(* the pages of an agent or who is here now, and leaves the others alone.   *)
EXTENDS DeltaLaws, TextDiff, Limiter, Context, Presence

vars == <<changes, texts, buckets, paging, presence>>

NoChange == doc = <<>> /\ a = <<>> /\ b = <<>>
NoText == before = <<>> /\ after = <<>>
NoCall == now = 0 /\ sent = 0
NoPost == spent = {} /\ walk = NoWalk
Nobody == attached = {} /\ turns = 0

MCTabOf == [t \in Tabs |-> IF t = "t1" THEN "u1" ELSE "u2"]
MCHome == [m1 |-> Conversation, m2 |-> Aside]
MCBodies == {<<1>>, <<1, 2>>}

\* What the proof about the limiter takes for granted.
ASSUME WholeLimitsAssumption == WholeLimits

Init == ((LawsInit /\ NoText) \/ (TextInit /\ NoChange)) /\ LimiterInit /\ ContextInit
        /\ PresenceInit

Next ==
    \/ NoText /\ NoCall /\ NoPost /\ Nobody /\ Write
       /\ UNCHANGED <<texts, buckets, paging, presence>>
    \/ NoChange /\ NoCall /\ NoPost /\ Nobody /\ Edit
       /\ UNCHANGED <<changes, buckets, paging, presence>>
    \/ NoChange /\ NoText /\ NoPost /\ Nobody /\ LimiterNext
       /\ UNCHANGED <<changes, texts, paging, presence>>
    \/ NoChange /\ NoText /\ NoCall /\ Nobody /\ ContextNext
       /\ UNCHANGED <<changes, texts, buckets, presence>>
    \/ NoChange /\ NoText /\ NoCall /\ NoPost /\ PresenceNext
       /\ UNCHANGED <<changes, texts, buckets, paging>>

Spec == Init /\ [][Next]_vars
=============================================================================

--------------------------- MODULE MCSubscription ---------------------------
(* Three calls of Receive (with the smtp driver, which takes messages one by *)
(* one, two at a time), one of Shutdown, three delivery events.            *)
EXTENDS SmtpDelivery, TLC

CONSTANTS m1, m2, m3, r1, r2, r3, s1

MCEvents == <<m1, m2, m3>>

MCOptions(h, min, max) ==
    [MaxHandlers |-> h, MinBatchSize |-> min, MaxBatchSize |-> max, MaxBatchByteSize |-> 0]

\* One call for everything, two calls of one message each, always one message,
\* and calls of at least two messages.
MCRecvOptions ==
    {NoOptions, MCOptions(2, 1, 1), MCOptions(1, 1, 1), MCOptions(2, 2, 0)}

\* The last of them.
MCPairs == {MCOptions(2, 2, 0)}

\* 1, 1 1/2 and 2 messages: growth, and shrinking where less is asked for.
MCSizes == {4, 6, 8}

\* With the smtp driver at most two calls of Receive at a time.
TwoAtATime == driver = "smtp" /\ rc'[r3] # "idle" => rc[r1] = "returned" /\ rc[r2] = "returned"

MCSpec == DeliveryInit /\ [][DeliveryNext /\ TwoAtATime]_deliveryVars

FairMCSpec == MCSpec /\ DeliveryFairness
=============================================================================

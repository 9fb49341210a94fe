----------------------------- MODULE MCBatcher -----------------------------
(* The batcher with three calls of Add, under several user options.         *)
EXTENDS Batcher, TLC

CONSTANTS i1, i2, i3

MCItems == {i1, i2, i3}

MCOptions(h, min, max, bytes) ==
    [MaxHandlers |-> h, MinBatchSize |-> min,
     MaxBatchSize |-> max, MaxBatchByteSize |-> bytes]

\* One or two handlers, with and without a maximum, a minimum the last item
\* can miss, a byte limit, and a minimum above the maximum.
MCUserOptions ==
    {NoOptions, MCOptions(2, 0, 1, 0), MCOptions(1, 2, 0, 3), MCOptions(2, 3, 2, 0)}

MCByteSize == [i \in MCItems |-> 2]
=============================================================================

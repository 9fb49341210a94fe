------------------------------ MODULE MCSender ------------------------------
(* Two calls of Send and two of Shutdown, on small batchers, over any      *)
(* driver and the blocky one.  i1 and i2 share a file of one chunk, i2 has *)
(* one of two chunks besides.                                              *)
EXTENDS BlockySender, TLC

CONSTANTS i1, i2, s1, s2

MCOptions(h, min, max) ==
    [MaxHandlers |-> h, MinBatchSize |-> min, MaxBatchSize |-> max, MaxBatchByteSize |-> 0]

\* The options of the SMTP driver (smtpemail/urls.go:39-43), two handlers with
\* no maximum, a batch of at least two messages, and none (blocky.go:42-46).
MCUserOptions == {MCOptions(1, 1, 1), MCOptions(2, 0, 0), MCOptions(1, 2, 0), NoOptions}

\* One message at a time, and two.
MCOneAtATime == {MCOptions(1, 1, 1)}
MCPairs      == {MCOptions(1, 2, 0)}

MCByteSize == [i \in Items |-> 1]

MCFiles    == i1 :> <<"shared">> @@ i2 :> <<"own", "shared">>
MCFileSize == [shared |-> 1, own |-> 2]
=============================================================================

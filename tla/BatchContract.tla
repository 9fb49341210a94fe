--------------------------- MODULE BatchContract ---------------------------
(***************************************************************************)
(* What the batcher package promises its callers, with no lock, goroutine  *)
(* or channel in it: accepted items wait in one line, are launched from    *)
(* its front in batches of which at most width run at a time, and every    *)
(* item of a batch gets the verdict of its batch, once.  A caller may      *)
(* leave at any time; that changes nothing for its item.                   *)
(* (Package comment and comments of Add, AddNoWait and Shutdown,           *)
(* email/batcher/batcher.go.)                                              *)
(***************************************************************************)
EXTENDS Integers, Sequences, FiniteSets

CONSTANTS Items, Verdicts, Refusals

VARIABLES width,    \* the most batches that run at a time
          size,     \* the most items in a batch; 0 is no limit
          line,     \* the accepted items not launched yet
          running,  \* the batches with the handler
          outcome,  \* what became of each item
          answer,   \* what each caller was told
          closed    \* after Shutdown was called

cvars == <<width, size, line, running, outcome, answer, closed>>

CInit ==
    /\ width \in Nat \ {0} /\ size \in Nat
    /\ line = << >> /\ running = {}
    /\ outcome = [i \in Items |-> "new"]
    /\ answer = [i \in Items |-> "none"]
    /\ closed = FALSE

Enters(i) ==
    /\ outcome[i] = "new" /\ ~ closed
    /\ outcome' = [outcome EXCEPT ![i] = "accepted"]

Queue(i) ==
    /\ Enters(i)
    /\ line' = Append(line, i)
    /\ UNCHANGED <<width, size, running, answer, closed>>

\* The first n items of l start running as one batch.
Start(l, n) ==
    /\ n \in 1 .. Len(l)
    /\ size > 0 => n =< size
    /\ Cardinality(running) < width
    /\ running' = running \cup {SubSeq(l, 1, n)}
    /\ line' = SubSeq(l, n + 1, Len(l))

\* An accepted item may take a batch with it at once.
QueueAndStart(i) ==
    /\ Enters(i)
    /\ \E n \in 1 .. Len(line) + 1 : Start(Append(line, i), n)
    /\ UNCHANGED <<width, size, answer, closed>>

Launch ==
    /\ \E n \in 1 .. Len(line) : Start(line, n)
    /\ UNCHANGED <<width, size, outcome, answer, closed>>

Finish(b, v) ==
    /\ b \in running
    /\ running' = running \ {b}
    /\ outcome' = [i \in Items |->
                     IF \E k \in 1 .. Len(b) : b[k] = i THEN v ELSE outcome[i]]
    /\ UNCHANGED <<width, size, line, answer, closed>>

Reject(i, why) ==
    /\ outcome[i] = "new"
    /\ why = "shutdown" <=> closed
    /\ outcome' = [outcome EXCEPT ![i] = why]
    /\ UNCHANGED <<width, size, line, running, answer, closed>>

\* The caller is told the outcome of its item, and only when there is one.
Deliver(i) ==
    /\ answer[i] = "none" /\ outcome[i] \in Verdicts \cup Refusals
    /\ answer' = [answer EXCEPT ![i] = outcome[i]]
    /\ UNCHANGED <<width, size, line, running, outcome, closed>>

Leave(i) ==
    /\ answer[i] = "none" /\ outcome[i] # "new"
    /\ answer' = [answer EXCEPT ![i] = "ctx"]
    /\ UNCHANGED <<width, size, line, running, outcome, closed>>

Close ==
    /\ ~ closed /\ closed' = TRUE
    /\ UNCHANGED <<width, size, line, running, outcome, answer>>

CNext ==
    \/ \E i \in Items :
         \/ Queue(i) \/ QueueAndStart(i) \/ Deliver(i) \/ Leave(i)
         \/ \E why \in Refusals : Reject(i, why)
    \/ Launch
    \/ \E b \in running, v \in Verdicts : Finish(b, v)
    \/ Close

CSpec == CInit /\ [][CNext]_cvars
=============================================================================

------------------------------- MODULE Sender -------------------------------
(***************************************************************************)
(* email.Sender (email/message_sender.go) and email.TemplatedSender        *)
(* (email/templated_sender.go), which has the same calls: Send and         *)
(* Shutdown on top of a batcher whose handler is driver.SendBatch.         *)
(*                                                                         *)
(* Send holds p.mu from its check of p.err until Batcher.Add has returned. *)
(* Shutdown starts one goroutine, which runs batcher.Shutdown and then     *)
(* closes the channel c: the batcher's stop is that goroutine's place, and *)
(* c is closed when stop = "returned".                                     *)
(***************************************************************************)
EXTENDS Batcher

CONSTANTS Stoppers,    \* the calls of Shutdown
          ShortOfTime  \* the calls of Shutdown whose context can be done

ASSUME StoppersAssumption ==
    /\ IsFiniteSet(Stoppers) /\ ShortOfTime \subseteq Stoppers
    /\ Stoppers \cap Items = {} /\ "free" \notin Items \cup Stoppers

VARIABLES
    mu,         \* the holder of p.mu, or "free"
    closed,     \* p.closed
    cancelled,  \* p.cancel was called: the context of every SendBatch is done
    closes,     \* the number of calls of driver.Close
    send,       \* each call of Send: "idle", "locking", "adding" or "returned"
    shut,       \* each call of Shutdown: see Places
    ret         \* what each call of Shutdown returned

senderVars == <<mu, closed, cancelled, closes, send, shut, ret>>
allVars    == <<vars, senderVars>>

Places == {"idle", "locking", "selecting", "closing", "returned"}

SenderInit ==
    /\ Init
    /\ mu = "free" /\ closed = FALSE /\ cancelled = FALSE /\ closes = 0
    /\ send = [i \in Items |-> "idle"]
    /\ shut = [s \in Stoppers |-> "idle"]
    /\ ret = [s \in Stoppers |-> "none"]
-----------------------------------------------------------------------------
(* Send.                                                                   *)

\* A context that is already done ends the call before the lock.
SendCheck(i) ==
    /\ send[i] = "idle"
    /\ \E done \in {FALSE, (i \in Impatient)} :
         send' = [send EXCEPT ![i] = IF done THEN "returned" ELSE "locking"]
    /\ UNCHANGED <<vars, mu, closed, cancelled, closes, shut, ret>>

\* A mutant of SendAdd: the lock is given back before Add.
SendAddUnlocks(i) ==
    /\ send[i] = "locking" /\ mu = "free"
    /\ AddNoWait(i)
    /\ send' = [send EXCEPT ![i] = "adding"]
    /\ UNCHANGED <<mu, closed, cancelled, closes, shut, ret>>

\* p.err is never set, so that with the lock the message goes to the batcher.
\* Nothing but p.mu is touched between the two, so they are one step.
SendAdd(i) ==
    /\ send[i] = "locking" /\ mu = "free"
    /\ mu' = i
    /\ AddNoWait(i)
    /\ send' = [send EXCEPT ![i] = "adding"]
    /\ UNCHANGED <<closed, cancelled, closes, shut, ret>>

\* A mutant of SendReturn: the lock is kept when the context is done.
SendReturnKeepsLock(i) ==
    /\ send[i] = "adding"
    /\ \/ AddResult(i) /\ mu' = "free"
       \/ AddCtxDone(i) /\ UNCHANGED mu
    /\ send' = [send EXCEPT ![i] = "returned"]
    /\ UNCHANGED <<closed, cancelled, closes, shut, ret>>

\* Add returns, and the deferred Unlock runs.
SendReturn(i) ==
    /\ send[i] = "adding"
    /\ AddResult(i) \/ AddCtxDone(i)
    /\ mu' = "free"
    /\ send' = [send EXCEPT ![i] = "returned"]
    /\ UNCHANGED <<closed, cancelled, closes, shut, ret>>
-----------------------------------------------------------------------------
(* Shutdown.                                                               *)

ShutCall(s) ==
    /\ shut[s] = "idle"
    /\ shut' = [shut EXCEPT ![s] = "locking"]
    /\ UNCHANGED <<vars, mu, closed, cancelled, closes, send, ret>>

\* A mutant of ShutLock: p.closed is not looked at.
ShutLockAgain(s) ==
    /\ shut[s] = "locking" /\ mu = "free"
    /\ closed' = TRUE
    /\ shut' = [shut EXCEPT ![s] = "selecting"]
    /\ UNCHANGED <<vars, mu, cancelled, closes, send, ret>>

\* The first call marks the sender closed and unlocks.  A later one returns
\* nil from under the lock and keeps it.
ShutLock(s) ==
    /\ shut[s] = "locking" /\ mu = "free"
    /\ IF closed
       THEN /\ mu' = s
            /\ shut' = [shut EXCEPT ![s] = "returned"]
            /\ ret' = [ret EXCEPT ![s] = "nil"]
            /\ UNCHANGED closed
       ELSE /\ closed' = TRUE
            /\ shut' = [shut EXCEPT ![s] = "selecting"]
            /\ UNCHANGED <<mu, ret>>
    /\ UNCHANGED <<vars, cancelled, closes, send>>

\* The goroutine that ShutLock starts runs the batcher's Shutdown.
StopBatcher ==
    /\ closed
    /\ ShutdownFlag \/ ShutdownReturns
    /\ UNCHANGED senderVars

\* A mutant of ShutSelect: the batcher is not waited for.
ShutSelectAtOnce(s) ==
    /\ shut[s] = "selecting"
    /\ shut' = [shut EXCEPT ![s] = "closing"]
    /\ cancelled' = TRUE
    /\ UNCHANGED <<vars, mu, closed, closes, send, ret>>

\* select on c and ctx.Done, then p.cancel.
ShutSelect(s) ==
    /\ shut[s] = "selecting"
    /\ \/ stop = "returned" /\ UNCHANGED ret
       \/ s \in ShortOfTime /\ ret' = [ret EXCEPT ![s] = "ctx"]
    /\ shut' = [shut EXCEPT ![s] = "closing"]
    /\ cancelled' = TRUE
    /\ UNCHANGED <<vars, mu, closed, closes, send>>

\* driver.Close, whose error goes first; then ctx.Err, which can be set by now
\* even if c was closed in time.
ShutClose(s) ==
    /\ shut[s] = "closing"
    /\ closes' = closes + 1
    /\ shut' = [shut EXCEPT ![s] = "returned"]
    /\ \E r \in {"closeErr", IF ret[s] = "ctx" THEN "ctx" ELSE "nil",
                 IF s \in ShortOfTime THEN "ctx" ELSE "nil"} :
         /\ ret[s] = "ctx" => r # "nil"
         /\ ret' = [ret EXCEPT ![s] = r]
    /\ UNCHANGED <<vars, mu, closed, cancelled, send>>
-----------------------------------------------------------------------------
(* The handler goroutines of the batcher.  What the driver makes of a done *)
(* context is its own affair: its answer is free.                          *)
Goroutine(g) == GoroutineStep(g) /\ UNCHANGED senderVars

\* Nothing is left to run: what has not returned waits for a lock that is not
\* given back, or for a batch that will never be full.
AllQuiet ==
    /\ \A s \in Stoppers : shut[s] = "returned" \/ (shut[s] = "locking" /\ mu # "free")
    /\ closed => stop = "returned"
    /\ \A i \in Items :
         /\ pc[i] \in {"none", "done"}
         /\ \/ send[i] = "returned"
            \/ send[i] = "locking" /\ mu # "free"
            \/ send[i] = "adding" /\ i \in Elements(pending)
    /\ UNCHANGED allVars

SenderNext ==
    \/ \E i \in Items : SendCheck(i) \/ SendAdd(i) \/ SendReturn(i) \/ Goroutine(i)
    \/ \E s \in Stoppers : ShutCall(s) \/ ShutLock(s) \/ ShutSelect(s) \/ ShutClose(s)
    \/ StopBatcher
    \/ AllQuiet

\* Goroutines that can run do run, the driver returns, and a lock that is
\* free is taken by one of those who want it.  Nobody has to call Send or
\* Shutdown, or to be done with a context.
SenderFairness ==
    /\ \A i \in Items :
         /\ WF_allVars(Goroutine(i))
         /\ WF_allVars(SendAdd(i))
         /\ WF_allVars(SendReturn(i) /\ errc[i] # "empty")
    /\ \A s \in Stoppers :
         /\ WF_allVars(ShutLock(s)) /\ WF_allVars(ShutClose(s))
         /\ WF_allVars(ShutSelect(s) /\ stop = "returned")
    /\ WF_allVars(StopBatcher)

SenderSpec     == SenderInit /\ [][SenderNext]_allVars
FairSenderSpec == SenderSpec /\ SenderFairness
-----------------------------------------------------------------------------
SenderTypeOK ==
    /\ TypeOK
    /\ mu \in {"free"} \cup Items \cup Stoppers
    /\ closed \in BOOLEAN /\ cancelled \in BOOLEAN /\ closes \in Nat
    /\ send \in [Items -> {"idle", "locking", "adding", "returned"}]
    /\ shut \in [Stoppers -> Places]
    /\ ret \in [Stoppers -> {"none", "nil", "ctx", "closeErr"}]
-----------------------------------------------------------------------------
\* The batcher never has more than one message whose Send is still there:
\* p.mu is held for the whole of Add, so what a batch holds beyond one message
\* was left behind by Sends whose context was done (message_sender.go:90-91,
\* 124; batcher.go:164-170).
SendsSerialised ==
    /\ Cardinality({i \in Items : send[i] = "adding"}) =< 1
    /\ \A i \in Items : i \in Elements(pending) \/ HeldBy(i) # {} =>
           mu = i \/ (i \in Impatient /\ add[i] = "ctx")

\* A Shutdown that returns nil, unless it is one that found the sender closed
\* and kept the lock, leaves no SendBatch running or to come
\* (message_sender.go:129-154).
NilMeansDrained ==
    \A s \in Stoppers : ret[s] = "nil" /\ mu # s =>
        /\ stop = "returned"
        /\ \A g \in Items : pc[g] \in {"none", "done"}

\* However often Shutdown is called, the driver is closed at most once, after
\* the context of its SendBatch calls was cancelled (message_sender.go:131-149).
ClosedOnce == closes =< 1 /\ (closes = 1 => closed /\ cancelled)

\* With the default MinBatchSize a Send that waits for its turn gets it and
\* returns, unless a second Shutdown has kept the lock (message_sender.go:86-91,
\* 131-133).
SendsReturn ==
    opts.MinBatchSize = 1 =>
        \A i \in Items : send[i] = "locking" ~> send[i] = "returned" \/ mu \in Stoppers

\* So does a Shutdown, without its context (message_sender.go:129-154).
ShutdownsReturn ==
    opts.MinBatchSize = 1 =>
        \A s \in Stoppers : shut[s] = "locking" ~> shut[s] = "returned" \/ mu \in Stoppers

(* What the comments say beyond that.                                      *)

\* "Send uses the mailing provider to send the input message"
\* (message_sender.go:85): a Send that waits for its turn gets it and returns.
EverySendReturns == \A i \in Items : send[i] = "locking" ~> send[i] = "returned"

\* "Shutdown flushes pending messages and disconnects the Sender"
\* (message_sender.go:127): it gets to that, and returns.
ShutdownFlushes == \A s \in Stoppers : shut[s] = "locking" ~> shut[s] = "returned"

\* "Once closed is called, there will be no method calls to the Sender other
\* than As, ErrorAs, and ErrorCode" (driver/message.go:27).
NoCallAfterClose ==
    [][closes > 0 => \A g \in Items : pc'[g] = "calling" => pc[g] = "calling"]_allVars
=============================================================================

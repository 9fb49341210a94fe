------------------------------ MODULE Batcher ------------------------------
(***************************************************************************)
(* BatcherG of email/batcher/batcher.go.  Callers of Add append to pending *)
(* under b.mu; at most opts.MaxHandlers goroutines take batches from it,   *)
(* call the handler outside the lock and report its error to every item.   *)
(*                                                                         *)
(* A handler goroutine is named by the item whose AddNoWait started it: an *)
(* item is added once, so it starts at most one.  pc[g] is where it is:    *)
(*   "none"       not started                                              *)
(*   "ready"      callHandler holds a batch and has not called the handler *)
(*   "calling"    inside b.handler                                         *)
(*   "reporting"  sending the handler's error to the items of its batch    *)
(*   "exiting"    nHandlers given back, wg.Done still to come              *)
(*   "done"       gone                                                     *)
(***************************************************************************)
EXTENDS BatchOptions, FiniteSets

CONSTANTS Items,        \* the calls of Add, one item each
          Impatient,    \* the calls whose context can be done
          byteSize,     \* what the caller's byteSizeFn would answer
          UserOptions   \* the options New may be given

ASSUME ItemsAssumption    == IsFiniteSet(Items) /\ Impatient \subseteq Items
ASSUME ByteSizeAssumption == byteSize \in [Items -> Nat]
ASSUME OptionsAssumption  == \A o \in UserOptions : o \in Options

VARIABLES
    opts,        \* b.opts
    byteSizeFn,  \* b.byteSizeFn: "nil" or "set"
    pending,     \* b.pending
    nHandlers,   \* b.nHandlers
    shutdown,    \* b.shutdown
    wg,          \* the counter of b.wg
    pc, batch, err,   \* each handler goroutine: where it is, its batch, its err
    errc,        \* the channel of each item, capacity 1
    add,         \* each call of Add: "idle", "waiting", or what it returned
    stop         \* the call of Shutdown: "idle", "waiting" or "returned"

\* History: the items accepted, the items taken into a batch, both in order,
\* and what the handler answered for each item it was given.
VARIABLES accepted, taken, verdict

queueVars   == <<opts, byteSizeFn, pending, nHandlers, shutdown, wg>>
handlerVars == <<pc, batch, err>>
callerVars  == <<errc, add, stop>>
history     == <<accepted, taken, verdict>>
vars        == <<queueVars, handlerVars, callerVars, history>>

Verdicts == {"ok", "failed"}                    \* what a handler answers
Refusals == {"shutdown", "tooLarge"}            \* what AddNoWait answers itself
Returns  == Verdicts \cup Refusals \cup {"ctx"} \* what Add can return
Phases   == {"none", "ready", "calling", "reporting", "exiting", "done"}

Holding == {"ready", "calling", "reporting"}    \* counted by nHandlers
Alive   == Holding \cup {"exiting"}             \* counted by wg

Elements(s) == {s[k] : k \in 1 .. Len(s)}
-----------------------------------------------------------------------------
(* New stores opts with their defaults; it does not store byteSizeFn.      *)
Init ==
    /\ \E o \in UserOptions : opts = newOptionsWithDefaults(o)
    /\ byteSizeFn = "nil"
    /\ pending = << >> /\ nHandlers = 0 /\ shutdown = FALSE /\ wg = 0
    /\ pc = [g \in Items |-> "none"]
    /\ batch = [g \in Items |-> << >>]
    /\ err = [g \in Items |-> "ok"]
    /\ errc = [i \in Items |-> "empty"]
    /\ add = [i \in Items |-> "idle"]
    /\ stop = "idle"
    /\ accepted = << >> /\ taken = << >>
    /\ verdict = [i \in Items |-> "none"]

itemByteSize(i) == IF byteSizeFn = "nil" THEN 0 ELSE byteSize[i]

\* What byteSizeFn answers for the first n items of p, summed.
TotalBytes(p, n) ==
    LET sum[k \in 0 .. n] == IF k = 0 THEN 0 ELSE sum[k - 1] + byteSize[p[k]]
    IN  sum[n]

batchByteSize(p, n) == IF byteSizeFn = "nil" THEN 0 ELSE TotalBytes(p, n)

\* A mutant of withinLimits: len(batch) compared instead of len(batch)+1.
withinLimitsOffByOne(p, n) ==
    /\ opts.MaxBatchSize > 0 => n - 1 =< opts.MaxBatchSize
    /\ opts.MaxBatchByteSize > 0 => batchByteSize(p, n) =< opts.MaxBatchByteSize

\* Neither maximum is passed by the first n items of p.
withinLimits(p, n) ==
    /\ opts.MaxBatchSize > 0 => n =< opts.MaxBatchSize
    /\ opts.MaxBatchByteSize > 0 => batchByteSize(p, n) =< opts.MaxBatchByteSize

batchReady(p) == Len(p) >= opts.MinBatchSize

\* How many items nextBatch takes from p: all, or up to the first that
\* would pass a limit.
batchLen(p) ==
    IF /\ opts.MaxBatchByteSize = 0
       /\ opts.MaxBatchSize = 0 \/ Len(p) =< opts.MaxBatchSize
    THEN Len(p)
    ELSE CHOOSE n \in 0 .. Len(p) :
            /\ \A m \in 1 .. n : withinLimits(p, m)
            /\ n = Len(p) \/ ~ withinLimits(p, n + 1)

\* A mutant of afterBatch: the last item taken is left in pending.
afterBatchOffByOne(p) == SubSeq(p, batchLen(p), Len(p))

nextBatch(p)  == SubSeq(p, 1, batchLen(p))
afterBatch(p) == SubSeq(p, batchLen(p) + 1, Len(p))

\* A mutant of Take: pending is not shortened.
TakeKeepsPending(g, p) ==
    /\ batch'   = [batch EXCEPT ![g] = nextBatch(p)]
    /\ pending' = p
    /\ taken'   = taken \o nextBatch(p)
    /\ pc'      = [pc EXCEPT ![g] = "ready"]

\* Goroutine g leaves the critical section with the next batch of p.
Take(g, p) ==
    /\ batch'   = [batch EXCEPT ![g] = nextBatch(p)]
    /\ pending' = afterBatch(p)
    /\ taken'   = taken \o nextBatch(p)
    /\ pc'      = [pc EXCEPT ![g] = "ready"]
-----------------------------------------------------------------------------
(* The caller: Add is AddNoWait and then a select on its channel and ctx.  *)

Refuse(i, why) ==
    /\ errc' = [errc EXCEPT ![i] = why]
    /\ UNCHANGED <<pending, nHandlers, wg, handlerVars, accepted, taken>>

\* A mutant of Accept: no wg.Add before the goroutine starts.
AcceptWithoutWgAdd(i) ==
    LET p == Append(pending, i) IN
    /\ accepted' = Append(accepted, i)
    /\ IF nHandlers < opts.MaxHandlers /\ batchReady(p)
       THEN Take(i, p) /\ nHandlers' = nHandlers + 1
       ELSE pending' = p /\ UNCHANGED <<nHandlers, pc, batch, taken>>
    /\ UNCHANGED <<wg, err, errc>>

Accept(i) ==
    LET p == Append(pending, i) IN
    /\ accepted' = Append(accepted, i)
    /\ IF nHandlers < opts.MaxHandlers /\ batchReady(p)
       THEN /\ Take(i, p)
            /\ nHandlers' = nHandlers + 1
            /\ wg' = wg + 1
       ELSE /\ pending' = p
            /\ UNCHANGED <<nHandlers, wg, pc, batch, taken>>
    /\ UNCHANGED <<err, errc>>

\* A mutant of AddNoWait: the shutdown flag is not looked at.
AddNoWaitAfterShutdown(i) ==
    /\ add[i] = "idle"
    /\ add' = [add EXCEPT ![i] = "waiting"]
    /\ Accept(i)
    /\ UNCHANGED <<opts, byteSizeFn, shutdown, stop, verdict>>

AddNoWait(i) ==
    /\ add[i] = "idle"
    /\ add' = [add EXCEPT ![i] = "waiting"]
    /\ IF shutdown
       THEN Refuse(i, "shutdown")
       ELSE IF opts.MaxBatchByteSize > 0 /\ itemByteSize(i) > opts.MaxBatchByteSize
       THEN Refuse(i, "tooLarge")
       ELSE Accept(i)
    /\ UNCHANGED <<opts, byteSizeFn, shutdown, stop, verdict>>

AddResult(i) ==
    /\ add[i] = "waiting" /\ errc[i] # "empty"
    /\ add'  = [add EXCEPT ![i] = errc[i]]
    /\ errc' = [errc EXCEPT ![i] = "empty"]
    /\ UNCHANGED <<queueVars, handlerVars, stop, history>>

\* ctx of the call is done at any moment; its item stays where it is.
AddCtxDone(i) ==
    /\ i \in Impatient
    /\ add[i] = "waiting"
    /\ add' = [add EXCEPT ![i] = "ctx"]
    /\ UNCHANGED <<queueVars, handlerVars, errc, stop, history>>
-----------------------------------------------------------------------------
(* The handler goroutine: callHandler, then wg.Done.                       *)

CallHandler(g) ==
    /\ pc[g] = "ready"
    /\ pc' = [pc EXCEPT ![g] = "calling"]
    /\ UNCHANGED <<queueVars, batch, err, callerVars, history>>

HandlerReturns(g, v) ==
    /\ pc[g] = "calling"
    /\ pc'  = [pc EXCEPT ![g] = "reporting"]
    /\ err' = [err EXCEPT ![g] = v]
    /\ verdict' = [i \in Items |-> IF i \in Elements(batch[g]) THEN v ELSE verdict[i]]
    /\ UNCHANGED <<queueVars, batch, callerVars, accepted, taken>>

\* A mutant of Report: only the first item of the batch is answered.
ReportFirstOnly(g) ==
    /\ pc[g] = "reporting" /\ batch[g] # << >>
    /\ errc' = [errc EXCEPT ![Head(batch[g])] = err[g]]
    /\ batch' = [batch EXCEPT ![g] = << >>]
    /\ UNCHANGED <<queueVars, pc, err, add, stop, history>>

\* One send of "for _, m := range batch { m.errc <- err }": it blocks while
\* the channel is full.
Report(g) ==
    /\ pc[g] = "reporting" /\ batch[g] # << >>
    /\ errc[Head(batch[g])] = "empty"
    /\ errc'  = [errc EXCEPT ![Head(batch[g])] = err[g]]
    /\ batch' = [batch EXCEPT ![g] = Tail(@)]
    /\ UNCHANGED <<queueVars, pc, err, add, stop, history>>

\* Mutants of TakeNext: the goroutine exits after one batch; and it exits
\* without giving back its slot.
TakeNextExits(g) ==
    /\ pc[g] = "reporting" /\ batch[g] = << >>
    /\ nHandlers' = nHandlers - 1
    /\ pc' = [pc EXCEPT ![g] = "exiting"]
    /\ UNCHANGED <<opts, byteSizeFn, pending, shutdown, wg, batch, err, callerVars, history>>

TakeNextKeepsSlot(g) ==
    /\ pc[g] = "reporting" /\ batch[g] = << >>
    /\ IF batchReady(pending)
       THEN Take(g, pending)
       ELSE /\ pc' = [pc EXCEPT ![g] = "exiting"]
            /\ UNCHANGED <<pending, batch, taken>>
    /\ UNCHANGED <<opts, byteSizeFn, nHandlers, shutdown, wg, err, callerVars,
                   accepted, verdict>>

\* The critical section at the end of the loop: the next batch is taken, or
\* the handler is given up, in one step.
TakeNext(g) ==
    /\ pc[g] = "reporting" /\ batch[g] = << >>
    /\ IF batchReady(pending)
       THEN Take(g, pending) /\ UNCHANGED nHandlers
       ELSE /\ nHandlers' = nHandlers - 1
            /\ pc' = [pc EXCEPT ![g] = "exiting"]
            /\ UNCHANGED <<pending, batch, taken>>
    /\ UNCHANGED <<opts, byteSizeFn, shutdown, wg, err, callerVars, accepted, verdict>>

\* A mutant of WgDone: the goroutine ends without it.
WgDoneMissing(g) ==
    /\ pc[g] = "exiting"
    /\ pc' = [pc EXCEPT ![g] = "done"]
    /\ UNCHANGED <<queueVars, batch, err, callerVars, history>>

WgDone(g) ==
    /\ pc[g] = "exiting"
    /\ pc' = [pc EXCEPT ![g] = "done"]
    /\ wg' = wg - 1
    /\ UNCHANGED <<opts, byteSizeFn, pending, nHandlers, shutdown, batch, err,
                   callerVars, history>>
-----------------------------------------------------------------------------
(* Shutdown, called once: the flag under b.mu, then b.wg.Wait.             *)

ShutdownFlag ==
    /\ stop = "idle"
    /\ stop' = "waiting"
    /\ shutdown' = TRUE
    /\ UNCHANGED <<opts, byteSizeFn, pending, nHandlers, wg, handlerVars,
                   errc, add, history>>

ShutdownReturns ==
    /\ stop = "waiting" /\ wg = 0
    /\ stop' = "returned"
    /\ UNCHANGED <<queueVars, handlerVars, errc, add, history>>

\* Shutdown has returned, no goroutine is left, and a call of Add that has not
\* returned is blocked for good: its item stayed in a pending that no longer
\* reaches MinBatchSize.
Finished ==
    /\ stop = "returned"
    /\ \A i \in Items : /\ pc[i] \in {"none", "done"}
                        /\ add[i] \in Returns \/ i \in Elements(pending)
    /\ UNCHANGED vars

GoroutineStep(g) ==
    \/ CallHandler(g)
    \/ \E v \in Verdicts : HandlerReturns(g, v)
    \/ Report(g)
    \/ TakeNext(g)
    \/ WgDone(g)

Next ==
    \/ \E i \in Items : AddNoWait(i) \/ AddResult(i) \/ AddCtxDone(i) \/ GoroutineStep(i)
    \/ ShutdownFlag
    \/ ShutdownReturns
    \/ Finished

Spec == Init /\ [][Next]_vars

\* The Go scheduler runs a goroutine that can run, and the handler returns.
\* Nobody has to call Add or Shutdown, or to cancel a context.
Fairness ==
    /\ \A i \in Items : WF_vars(GoroutineStep(i)) /\ WF_vars(AddResult(i))
    /\ WF_vars(ShutdownReturns)

FairSpec == Spec /\ Fairness
-----------------------------------------------------------------------------
TypeOK ==
    /\ opts \in Options
    /\ opts.MaxHandlers > 0 /\ opts.MinBatchSize > 0
    /\ byteSizeFn = "nil"
    /\ pending \in Seq(Items) /\ nHandlers \in Nat /\ wg \in Nat
    /\ shutdown \in BOOLEAN
    /\ pc \in [Items -> Phases]
    /\ batch \in [Items -> Seq(Items)]
    /\ err \in [Items -> Verdicts]
    /\ errc \in [Items -> {"empty"} \cup Verdicts \cup Refusals]
    /\ add \in [Items -> {"idle", "waiting"} \cup Returns]
    /\ stop \in {"idle", "waiting", "returned"}
    /\ accepted \in Seq(Items) /\ taken \in Seq(Items)
    /\ verdict \in [Items -> {"none"} \cup Verdicts]

-----------------------------------------------------------------------------
(* Safety.                                                                 *)

HeldBy(i) == {g \in Items : i \in Elements(batch[g])}

\* nHandlers and wg are the goroutines that still hold a handler slot, and
\* those that Shutdown must still wait for, whatever the order in which
\* goroutines start and exit; no more than MaxHandlers hold a slot
\* (batcher.go:197-208, 268-272, 284).
HandlersCounted ==
    /\ nHandlers = Cardinality({g \in Items : pc[g] \in Holding})
    /\ wg = Cardinality({g \in Items : pc[g] \in Alive})
    /\ nHandlers =< opts.MaxHandlers

\* A full batch is never left behind: if pending holds one, every handler
\* slot is taken by a goroutine that will look at pending again before it
\* exits ("so that newly added items will always get to run",
\* batcher.go:266-272, and 201-202).
NoWorkStranded == batchReady(pending) => nHandlers = opts.MaxHandlers

\* Items are given to handlers in the order in which they were accepted, and
\* none is skipped, dropped or taken twice (nextBatch, batcher.go:218-249).
InOrder ==
    /\ accepted = taken \o pending
    /\ \A j, k \in 1 .. Len(accepted) : accepted[j] = accepted[k] => j = k

\* An item is in at most one batch and at one place of it, and while it is
\* there its channel is empty, so that no handler goroutine ever blocks on
\* m.errc <- err (batcher.go:262-264) and no caller is answered early.
OneHandler ==
    \A i \in Items :
        /\ Cardinality(HeldBy(i)) =< 1
        /\ \A g \in HeldBy(i) : \A j, k \in 1 .. Len(batch[g]) :
               batch[g][j] = i /\ batch[g][k] = i => j = k
        /\ HeldBy(i) # {} => errc[i] = "empty" /\ add[i] \in {"waiting", "ctx"}

\* The answer of an item is never lost and never another batch's: once taken,
\* an item is held, or its channel holds what its own handler answered, or
\* its Add has returned that answer or ctx.Err (batcher.go:162-171, 261-264).
AnswerKept ==
    \A i \in Elements(taken) :
        \/ HeldBy(i) # {}
        \/ errc[i] = verdict[i]
        \/ add[i] \in {verdict[i], "ctx"} \ {"none"}

\* When Shutdown has returned no handler runs, none starts again, and no full
\* batch was left (batcher.go:280-285).
ShutdownDrains ==
    stop = "returned" =>
        /\ \A g \in Items : pc[g] \in {"none", "done"}
        /\ ~ batchReady(pending)

\* Every batch given to the handler is non-empty, within MaxBatchSize, and as
\* large as MinBatchSize asks unless MaxBatchSize is smaller
\* (Options, batcher.go:88-98).
BatchBounds ==
    \A g \in Items : pc[g] \in {"ready", "calling"} =>
        LET n == Len(batch[g]) IN
        /\ n > 0
        /\ opts.MaxBatchSize > 0 => n =< opts.MaxBatchSize
        /\ n >= opts.MinBatchSize \/ n = opts.MaxBatchSize

(* Liveness.                                                               *)

\* With the default MinBatchSize every call of Add returns, whether or not
\* its context is ever done (batcher.go:159-171).
EveryAddReturns ==
    opts.MinBatchSize = 1 =>
        \A i \in Items : add[i] = "waiting" ~> add[i] \in Returns

\* Shutdown returns (batcher.go:277-285).
ShutdownCompletes == stop = "waiting" ~> stop = "returned"

(* What the package promises.                                              *)

Contract == INSTANCE BatchContract WITH
    width   <- opts.MaxHandlers,
    size    <- opts.MaxBatchSize,
    line    <- pending,
    running <- {batch[g] : g \in {h \in Items : pc[h] \in {"ready", "calling"}}},
    outcome <- [i \in Items |->
                  IF add[i] = "idle" THEN "new"
                  ELSE IF verdict[i] # "none" THEN verdict[i]
                  ELSE IF i \in Elements(accepted) THEN "accepted"
                  ELSE IF errc[i] # "empty" THEN errc[i]
                  ELSE IF add[i] = "ctx" THEN "shutdown" ELSE add[i]],
    answer  <- [i \in Items |-> IF add[i] \in Returns THEN add[i] ELSE "none"],
    closed  <- shutdown

\* The batcher implements its contract.
ImplementsContract == Contract!CSpec

(* What the comments say beyond that.                                      *)

\* "Shutdown waits for all active calls to Add to finish" (batcher.go:277).
ShutdownWaitsForAdds ==
    stop = "returned" => \A i \in Elements(accepted) : verdict[i] # "none"

\* "Maximum bytesize of a batch" (batcher.go:96), measured by the byteSizeFn
\* that was given to New.
BatchByteSizeBounded ==
    opts.MaxBatchByteSize > 0 =>
        \A g \in Items : pc[g] \in {"ready", "calling"} =>
            TotalBytes(batch[g], Len(batch[g])) =< opts.MaxBatchByteSize
=============================================================================

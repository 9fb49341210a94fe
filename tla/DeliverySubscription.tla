------------------------ MODULE DeliverySubscription ------------------------
(***************************************************************************)
(* email.DeliverySubscription (email/delivery_subscription.go): concurrent *)
(* calls of Receive hand out the messages of a local queue s.q, which at   *)
(* most one background fetch at a time refills; Shutdown ends it.          *)
(*                                                                         *)
(* The fetch cuts the wanted number with batcher.Split and runs one        *)
(* ReceiveBatch per piece in an errgroup.  A retryable error of a piece is *)
(* retried and changes nothing here.  A step of a Receive, of Shutdown or  *)
(* of the fetch is one critical section of s.mu, or one call of the driver.*)
(*                                                                         *)
(* s.runningBatchSize moves on the grid Sizes, in quarters of a message:   *)
(* the measured throughput, which is any, decides where between the shrink *)
(* and the growth cap it goes.                                             *)
(***************************************************************************)
EXTENDS BatchOptions, FiniteSets

CONSTANTS Events,      \* the delivery events of the provider, in order
          Receivers,   \* the calls of Receive
          Impatient,   \* the calls of Receive whose context can be done
          Stoppers,    \* the calls of Shutdown
          Sizes,       \* the grid of runningBatchSize, in quarters
          RecvOptions, \* what recvBatchOpts may be
          MaxPieces    \* at least as many calls as they let a fetch make

Elements(s) == {s[k] : k \in 1 .. Len(s)}
Messages    == Elements(Events)
Pieces      == 1 .. MaxPieces
Permanent   == {"fatal", "canceled", "shutdown"}   \* what s.err can be

ASSUME SubscriptionAssumption ==
    /\ Events \in Seq(Messages) /\ Messages \cap ({"none", "ctx"} \cup Permanent) = {}
    /\ \A j, k \in 1 .. Len(Events) : Events[j] = Events[k] => j = k
    /\ IsFiniteSet(Receivers) /\ IsFiniteSet(Stoppers)
    /\ Impatient \subseteq Receivers
    /\ Sizes \subseteq Nat \ {0} /\ 4 \in Sizes
    /\ MaxPieces \in Nat \ {0}
    /\ \A o \in RecvOptions : o \in Options /\ o.MaxHandlers =< MaxPieces

VARIABLES
    opts,      \* s.recvBatchOpts
    q, err,    \* s.q and s.err
    waitc,     \* s.waitc is set
    running,   \* s.runningBatchSize, in quarters
    measured,  \* s.throughputStart is set
    cancelled, \* s.cancel was called: backgroundCtx is done
    closes     \* the calls of driver.Close

\* The fetch goroutine: where it is, the number of messages wanted, the pieces
\* it asks for, how each piece stands, what they received, the group's error.
VARIABLES fetch, want, asks, piece, got, gotErr

VARIABLES
    rc,        \* each Receive: idle, looping, waiting, woken or returned
    result,    \* what each Receive returned: a message, an error, "none"
    shut,      \* each Shutdown: idle, cancelling, closing or returned
    server     \* the messages the provider still has, in order

\* History: the messages appended to q and those handed out, in order; and
\* those a failed fetch had received.
VARIABLES arrived, handed, lost

subVars   == <<opts, q, err, waitc, running, measured, cancelled, closes>>
fetchVars == <<fetch, want, asks, piece, got, gotErr>>
history   == <<arrived, handed, lost>>
vars      == <<subVars, fetchVars, rc, result, shut, server, history>>

Init ==
    /\ opts \in RecvOptions
    /\ q = << >> /\ err = "nil" /\ waitc = FALSE
    /\ running = 4 /\ measured = FALSE
    /\ cancelled = FALSE /\ closes = 0
    /\ fetch = "none" /\ want = 0 /\ asks = << >> /\ piece = << >>
    /\ got = << >> /\ gotErr = "nil"
    /\ rc = [c \in Receivers |-> "idle"]
    /\ result = [c \in Receivers |-> "none"]
    /\ shut = [s \in Stoppers |-> "idle"]
    /\ server = Events
    /\ arrived = << >> /\ handed = << >> /\ lost = {}
-----------------------------------------------------------------------------
(* Receive.                                                                *)

OneAtATime == opts.MaxBatchSize = 1 /\ opts.MaxHandlers = 1

\* Where updateBatchSize may move runningBatchSize: nowhere if it is always
\* one at a time or for want of a measurement, else between 3/4 and twice.
NextSizes ==
    IF OneAtATime \/ ~ measured THEN {running}
    ELSE {r \in Sizes : 4 * r >= 3 * running /\ r =< 2 * running}

\* The whole messages in r quarters, rounded up.
Ceil(r) == (r + 3) \div 4

\* s.q is predicted to run out: it holds at most half of runningBatchSize.
RunningOut == 8 * Len(q) =< running

\* The start of a fetch, unless one is outstanding.
Prefetch ==
    IF ~ waitc /\ RunningOut
    THEN /\ waitc' = TRUE /\ fetch' = "starting"
         /\ measured' = (measured \/ ~ OneAtATime)
         /\ \E r \in NextSizes : running' = r /\ want' = Ceil(r)
         /\ UNCHANGED <<asks, piece, got, gotErr>>
    ELSE UNCHANGED <<waitc, running, measured, fetchVars>>

Return(c, r) ==
    /\ rc' = [rc EXCEPT ![c] = "returned"]
    /\ result' = [result EXCEPT ![c] = r]

Receive(c) ==
    /\ rc[c] = "idle"
    /\ rc' = [rc EXCEPT ![c] = "looping"]
    /\ UNCHANGED <<subVars, fetchVars, result, shut, server, history>>

AtTop(c) == rc[c] \in {"looping", "woken"}

\* A mutant of LoopError: s.err is returned without a look at it.
LoopErrorUnchecked(c) ==
    /\ AtTop(c)
    /\ Return(c, err)
    /\ UNCHANGED <<subVars, fetchVars, shut, server, history>>

LoopError(c) ==
    /\ AtTop(c) /\ err # "nil"
    /\ Return(c, err)
    /\ UNCHANGED <<subVars, fetchVars, shut, server, history>>

\* A mutant of LoopTake: the message stays in the queue.
LoopTakePeeks(c) ==
    /\ AtTop(c) /\ err = "nil" /\ q # << >>
    /\ Prefetch
    /\ handed' = Append(handed, Head(q))
    /\ Return(c, Head(q))
    /\ UNCHANGED <<opts, q, err, cancelled, closes, shut, server, arrived, lost>>

LoopTake(c) ==
    /\ AtTop(c) /\ err = "nil" /\ q # << >>
    /\ Prefetch
    /\ q' = Tail(q)
    /\ handed' = Append(handed, Head(q))
    /\ Return(c, Head(q))
    /\ UNCHANGED <<opts, err, cancelled, closes, shut, server, arrived, lost>>

\* A mutant of LoopWait: no fetch is started for an empty queue.
LoopWaitWithoutFetch(c) ==
    /\ AtTop(c) /\ err = "nil" /\ q = << >>
    /\ rc' = [rc EXCEPT ![c] = "waiting"]
    /\ UNCHANGED <<subVars, fetchVars, result, shut, server, history>>

LoopWait(c) ==
    /\ AtTop(c) /\ err = "nil" /\ q = << >>
    /\ Prefetch
    /\ rc' = [rc EXCEPT ![c] = "waiting"]
    /\ UNCHANGED <<opts, q, err, cancelled, closes, result, shut, server, history>>

\* ctx is done: at the top of the loop if there is no permanent error, or in
\* the select, whether or not the fetch has ended too.
CtxDone(c) ==
    /\ c \in Impatient
    /\ rc[c] \in {"waiting", "woken"} \/ (rc[c] = "looping" /\ err = "nil")
    /\ Return(c, "ctx")
    /\ UNCHANGED <<subVars, fetchVars, shut, server, history>>
-----------------------------------------------------------------------------
(* The fetch goroutine: getNextBatch, then its result under s.mu.          *)

FetchStart ==
    /\ fetch = "starting"
    /\ fetch' = "asking"
    /\ asks' = Split(want, opts)
    /\ piece' = [k \in 1 .. Len(Split(want, opts)) |-> "running"]
    /\ got' = << >> /\ gotErr' = "nil"
    /\ UNCHANGED <<subVars, want, rc, result, shut, server, history>>

\* ReceiveBatch answers piece k with n messages, at most as many as asked.
PieceReceives(k, n) ==
    /\ fetch = "asking" /\ piece[k] = "running"
    /\ n =< asks[k] /\ n =< Len(server)
    /\ piece' = [piece EXCEPT ![k] = "ok"]
    /\ got' = got \o SubSeq(server, 1, n)
    /\ server' = SubSeq(server, n + 1, Len(server))
    /\ UNCHANGED <<subVars, fetch, want, asks, gotErr, rc, result, shut, history>>

\* The group keeps its first error, and cancels the other pieces.
PieceFails(k, e) ==
    /\ fetch = "asking" /\ piece[k] = "running"
    /\ e = "canceled" => cancelled \/ gotErr # "nil"
    /\ piece' = [piece EXCEPT ![k] = "failed"]
    /\ gotErr' = IF gotErr = "nil" THEN e ELSE gotErr
    /\ UNCHANGED <<subVars, fetch, want, asks, got, rc, result, shut, server, history>>

\* Closing waitc wakes every waiting Receive.
WakeAll == rc' = [c \in Receivers |-> IF rc[c] = "waiting" THEN "woken" ELSE rc[c]]

\* The goroutine is gone, and its variables with it.
FetchOver == fetch' = "none" /\ want' = 0 /\ asks' = << >> /\ piece' = << >>
               /\ got' = << >> /\ gotErr' = "nil"

\* A mutant of FetchEnd: the channel is left open.
FetchEndWithoutClose ==
    /\ fetch = "asking" /\ \A k \in DOMAIN piece : piece[k] # "running"
    /\ waitc' = FALSE
    /\ IF gotErr # "nil"
       THEN err' = gotErr /\ lost' = lost \cup Elements(got) /\ UNCHANGED <<q, arrived>>
       ELSE q' = q \o got /\ arrived' = arrived \o got /\ UNCHANGED <<err, lost>>
    /\ FetchOver
    /\ UNCHANGED <<opts, running, measured, cancelled, closes, rc, result, shut, server,
                   handed>>

\* A group with an error gives no messages, whatever its pieces received.
FetchEnd ==
    /\ fetch = "asking" /\ \A k \in DOMAIN piece : piece[k] # "running"
    /\ waitc' = FALSE /\ WakeAll
    /\ IF gotErr # "nil"
       THEN err' = gotErr /\ lost' = lost \cup Elements(got) /\ UNCHANGED <<q, arrived>>
       ELSE q' = q \o got /\ arrived' = arrived \o got /\ UNCHANGED <<err, lost>>
    /\ FetchOver
    /\ UNCHANGED <<opts, running, measured, cancelled, closes, result, shut, server, handed>>
-----------------------------------------------------------------------------
(* Shutdown.                                                               *)

Shutdown(s) ==
    /\ shut[s] = "idle"
    /\ shut' = [shut EXCEPT ![s] = IF err = "shutdown" THEN "returned" ELSE "cancelling"]
    /\ err' = "shutdown"
    /\ UNCHANGED <<opts, q, waitc, running, measured, cancelled, closes, fetchVars,
                   rc, result, server, history>>

ShutdownCancel(s) ==
    /\ shut[s] = "cancelling"
    /\ shut' = [shut EXCEPT ![s] = "closing"]
    /\ cancelled' = TRUE
    /\ UNCHANGED <<opts, q, err, waitc, running, measured, closes, fetchVars,
                   rc, result, server, history>>

ShutdownClose(s) ==
    /\ shut[s] = "closing"
    /\ shut' = [shut EXCEPT ![s] = "returned"]
    /\ closes' = closes + 1
    /\ UNCHANGED <<opts, q, err, waitc, running, measured, cancelled, fetchVars,
                   rc, result, server, history>>

\* Every call has returned, and so has the fetch.
Finished ==
    /\ \A c \in Receivers : rc[c] = "returned"
    /\ \A s \in Stoppers : shut[s] = "returned"
    /\ fetch = "none"
    /\ UNCHANGED vars

Loop(c) == LoopError(c) \/ LoopTake(c) \/ LoopWait(c)

PieceAnswers(k) ==
    \/ \E n \in 0 .. Len(server) : PieceReceives(k, n)
    \/ \E e \in {"fatal", "canceled"} : PieceFails(k, e)

\* Everything but the answers of the driver.
SubscriptionStep ==
    \/ \E c \in Receivers : Receive(c) \/ Loop(c) \/ CtxDone(c)
    \/ FetchStart \/ FetchEnd
    \/ \E s \in Stoppers : Shutdown(s) \/ ShutdownCancel(s) \/ ShutdownClose(s)
    \/ Finished

Next == SubscriptionStep \/ \E k \in DOMAIN piece : PieceAnswers(k)

Spec == Init /\ [][Next]_vars

\* Goroutines run, and the lock is fair enough (sync.Mutex hands it over);
\* a call of ReceiveBatch ends, a cancelled one too, and while the provider
\* has messages it does not answer every call with none.
StepFairness ==
    /\ \A c \in Receivers : WF_vars(Loop(c))
    /\ WF_vars(FetchStart) /\ WF_vars(FetchEnd)
    /\ \A s \in Stoppers : WF_vars(ShutdownCancel(s)) /\ WF_vars(ShutdownClose(s))

DriverFairness ==
    /\ \A k \in Pieces : WF_vars(k \in DOMAIN piece /\ PieceAnswers(k))
    /\ SF_vars(\E k \in DOMAIN piece, n \in 1 .. Len(server) : PieceReceives(k, n))

Fairness == StepFairness /\ DriverFairness

FairSpec == Spec /\ Fairness
-----------------------------------------------------------------------------
TypeOK ==
    /\ opts \in Options
    /\ q \in Seq(Messages) /\ err \in {"nil"} \cup Permanent
    /\ waitc \in BOOLEAN /\ running \in Sizes /\ measured \in BOOLEAN
    /\ cancelled \in BOOLEAN /\ closes \in Nat
    /\ fetch \in {"none", "starting", "asking"}
    /\ want \in Nat /\ asks \in Seq(Nat)
    /\ piece \in Seq({"running", "ok", "failed"})
    /\ got \in Seq(Messages) /\ gotErr \in {"nil", "fatal", "canceled"}
    /\ rc \in [Receivers -> {"idle", "looping", "waiting", "woken", "returned"}]
    /\ result \in [Receivers -> {"none", "ctx"} \cup Permanent \cup Messages]
    /\ shut \in [Stoppers -> {"idle", "cancelling", "closing", "returned"}]
    /\ server \in Seq(Messages)
    /\ arrived \in Seq(Messages) /\ handed \in Seq(Messages)
    /\ lost \subseteq Messages
-----------------------------------------------------------------------------
(* Safety.                                                                 *)

\* Messages are handed out in the order in which fetches appended them, each
\* to one Receive, however many Receives and fetches interleave
\* (delivery_subscription.go:288-291, 296-299; the test
\* TestConcurrentReceivesGetAllTheMessages).
EachHandedOnce ==
    /\ arrived = handed \o q
    /\ \A m \in Messages :
         Cardinality({c \in Receivers : result[c] = m})
           = Cardinality({k \in 1 .. Len(handed) : handed[k] = m})
    /\ \A j, k \in 1 .. Len(arrived) : arrived[j] = arrived[k] => j = k

\* "A call to ReceiveBatch must be in flight": a Receive only waits for a
\* fetch that is there to wake it (delivery_subscription.go:270, 324-325).
WaitersHaveFetch ==
    (\E c \in Receivers : rc[c] = "waiting") => waitc /\ fetch # "none"

(* Liveness.                                                               *)

\* After Shutdown has cancelled the fetch every Receive returns, those that
\* were already waiting too (delivery_subscription.go:325-331, 428-441).
ShutdownWakesReceivers ==
    \A c \in Receivers : cancelled /\ rc[c] = "waiting" ~> rc[c] = "returned"

\* With the default MinBatchSize, and a message for everybody, every Receive
\* returns.  (With a larger one Split may cut the first fetches into no call
\* at all.)  (delivery_subscription.go:252-336)
ReceivesReturn ==
    (opts.MinBatchSize < 2 /\ Len(Events) >= Cardinality(Receivers)) =>
        \A c \in Receivers : rc[c] = "looping" ~> rc[c] = "returned"

(* What the comments say beyond that.                                      *)

\* "Receive receives and returns the next message from the subscription's
\* queue, blocking and polling if none are available"
\* (delivery_subscription.go:229-230): with a message for everybody, every
\* Receive returns, whatever the options.
ReceivesGetEvents ==
    Len(Events) >= Cardinality(Receivers) =>
        \A c \in Receivers : rc[c] = "looping" ~> rc[c] = "returned"

\* "Receive will return the same error from then on"
\* (delivery_subscription.go:239): once a Receive has returned the error of
\* Shutdown, the later ones that fail return it too.
SameErrorFromThenOn ==
    [][\A c, d \in Receivers :
         result[c] = "shutdown" /\ result[d] = "none" /\ result'[d] \in Permanent
           => result'[d] = "shutdown"]_vars
=============================================================================

---------------------------- MODULE SenderProofs ----------------------------
(***************************************************************************)
(* Proofs about Sender.tla, and about BlockySender.tla on top of it, for   *)
(* any number of calls of Send and Shutdown, any files and callbacks.      *)
(***************************************************************************)
EXTENDS BlockySender, BatcherAnswers

-----------------------------------------------------------------------------
(* The batcher below the sender.                                           *)

\* What a sender does to its batcher is a step of the batcher or none
\* (message_sender.go:84-158).
LEMMA BatcherStep ==
    ASSUME SenderNext
    PROVE  \/ \E i \in Items : AddNoWait(i) \/ AddResult(i) \/ AddCtxDone(i) \/ GoroutineStep(i)
           \/ ShutdownFlag \/ ShutdownReturns
           \/ UNCHANGED vars
<1>1. ASSUME NEW i \in Items, SendCheck(i)
      PROVE  UNCHANGED vars
  BY <1>1 DEF SendCheck
<1>2. ASSUME NEW i \in Items, SendAdd(i) \/ SendReturn(i) \/ Goroutine(i)
      PROVE  AddNoWait(i) \/ AddResult(i) \/ AddCtxDone(i) \/ GoroutineStep(i)
  BY <1>2 DEF SendAdd, SendReturn, Goroutine
<1>3. ASSUME NEW s \in Stoppers, ShutCall(s) \/ ShutLock(s) \/ ShutSelect(s) \/ ShutClose(s)
      PROVE  UNCHANGED vars
  BY <1>3 DEF ShutCall, ShutLock, ShutSelect, ShutClose
<1>4. StopBatcher => ShutdownFlag \/ ShutdownReturns
  BY DEF StopBatcher
<1>5. AllQuiet => UNCHANGED vars
  BY DEF AllQuiet, allVars
<1> QED
  BY <1>1, <1>2, <1>3, <1>4, <1>5 DEF SenderNext

\* A step of the sender is a step of the batcher, or none.
LEMMA SenderStepsBatcher == [SenderNext]_allVars => [Next]_vars
<1>1. SenderNext => [Next]_vars
  BY BatcherStep DEF Next
<1>2. UNCHANGED allVars => UNCHANGED vars
  BY DEF allVars
<1> QED
  BY <1>1, <1>2

\* A sender's batcher behaves as the batcher alone may: what is proved of
\* Spec holds below every sender (message_sender.go:42-64, 84-158).
THEOREM SenderUsesBatcher == SenderSpec => Spec
<1>1. SenderInit => Init
  BY DEF SenderInit
<1> QED
  BY <1>1, SenderStepsBatcher, PTL DEF SenderSpec, Spec
-----------------------------------------------------------------------------
(* Type correctness.                                                       *)

\* Every variable of the sender keeps its type, and the batcher's do.
SenderTypes ==
    /\ mu \in {"free"} \cup Items \cup Stoppers
    /\ closed \in BOOLEAN /\ cancelled \in BOOLEAN /\ closes \in Nat
    /\ send \in [Items -> {"idle", "locking", "adding", "returned"}]
    /\ shut \in [Stoppers -> Places]
    /\ ret \in [Stoppers -> {"none", "nil", "ctx", "closeErr"}]

\* Every step keeps the types of the sender.
LEMMA NextSenderTypes == SenderTypes /\ [SenderNext]_allVars => SenderTypes'
<1> SUFFICES ASSUME SenderTypes, [SenderNext]_allVars
             PROVE  SenderTypes'
  OBVIOUS
<1> USE DEF SenderTypes, Places
<1>1. ASSUME NEW i \in Items, SendCheck(i)
      PROVE  SenderTypes'
  BY <1>1 DEF SendCheck
<1>2. ASSUME NEW i \in Items, SendAdd(i) \/ SendReturn(i)
      PROVE  SenderTypes'
  BY <1>2 DEF SendAdd, SendReturn
<1>3. ASSUME NEW s \in Stoppers, ShutCall(s)
      PROVE  SenderTypes'
  BY <1>3 DEF ShutCall
<1>4. ASSUME NEW s \in Stoppers, ShutLock(s)
      PROVE  SenderTypes'
  BY <1>4 DEF ShutLock
<1>5. ASSUME NEW s \in Stoppers, ShutSelect(s)
      PROVE  SenderTypes'
  BY <1>5 DEF ShutSelect
<1>6. ASSUME NEW s \in Stoppers, ShutClose(s)
      PROVE  SenderTypes'
  BY <1>6 DEF ShutClose
<1>7. ASSUME UNCHANGED senderVars
      PROVE  SenderTypes'
  BY <1>7 DEF senderVars
<1>8. /\ \A i \in Items : Goroutine(i) => UNCHANGED senderVars
      /\ StopBatcher \/ AllQuiet \/ UNCHANGED allVars => UNCHANGED senderVars
  BY DEF Goroutine, StopBatcher, AllQuiet, allVars
<1> QED
  BY <1>1, <1>2, <1>3, <1>4, <1>5, <1>6, <1>7, <1>8 DEF SenderNext

\* The types of the sender hold throughout.
LEMMA SenderTypesInvariant == SenderSpec => []SenderTypes
<1>1. SenderInit => SenderTypes
  <2> SUFFICES ASSUME SenderInit PROVE SenderTypes
    OBVIOUS
  <2>1. /\ mu = "free" /\ closed = FALSE /\ cancelled = FALSE /\ closes = 0
        /\ send = [i \in Items |-> "idle"]
        /\ shut = [s \in Stoppers |-> "idle"]
        /\ ret = [s \in Stoppers |-> "none"]
    BY DEF SenderInit
  <2> QED
    BY <2>1 DEF SenderTypes, Places
<1> QED
  BY <1>1, NextSenderTypes, PTL DEF SenderSpec

\* Every variable of the sender and of its batcher keeps its type
\* (message_sender.go:26-40).
THEOREM SenderTypeCorrect == SenderSpec => []SenderTypeOK
<1>1. TypeOK /\ SenderTypes => SenderTypeOK
  BY DEF SenderTypes, SenderTypeOK
<1> QED
  BY <1>1, SenderUsesBatcher, TypeCorrect, SenderTypesInvariant, PTL
-----------------------------------------------------------------------------
(* The inductive invariant.                                                *)

\* p.mu is held by the Send that is adding, and by nobody else but a Shutdown
\* that found the sender closed.
LockHeld ==
    /\ \A i \in Items : send[i] = "adding" <=> mu = i
    /\ \A s \in Stoppers : mu = s => shut[s] = "returned" /\ closed

\* An Add waits only inside its Send, and left only if its context was done.
AddInsideSend ==
    \A i \in Items :
        /\ add[i] = "waiting" => send[i] = "adding"
        /\ add[i] = "ctx" => i \in Impatient

Past == {"selecting", "closing", "returned"}

\* A call of Shutdown that got past the lock and gave it back.
Closer(s) == shut[s] \in Past /\ mu # s

\* There is one such call at most; it alone cancels, then closes.
OneCloses ==
    /\ \A s, t \in Stoppers : Closer(s) /\ Closer(t) => s = t
    /\ \A s \in Stoppers : shut[s] \in Past => closed
    /\ \A s \in Stoppers : Closer(s) /\ shut[s] # "selecting" => cancelled
    /\ \/ closes = 0
       \/ closes = 1 /\ \E s \in Stoppers : Closer(s) /\ shut[s] = "returned"

\* The call that closes says nil only if it saw the batcher stopped.
NilSeen ==
    \A s \in Stoppers :
        /\ shut[s] \in {"idle", "locking", "selecting"} => ret[s] = "none"
        /\ shut[s] = "closing" =>
             (ret[s] = "none" /\ stop = "returned") \/ ret[s] = "ctx"
        /\ shut[s] = "returned" /\ ret[s] = "nil" /\ mu # s => stop = "returned"

SenderInv == LockHeld /\ AddInsideSend /\ OneCloses /\ NilSeen

\* A new sender satisfies the invariant.
LEMMA InitSenderInv == SenderInit => SenderInv
<1> SUFFICES ASSUME SenderInit PROVE SenderInv
  OBVIOUS
<1>1. /\ mu = "free" /\ closes = 0 /\ add = [i \in Items |-> "idle"]
      /\ send = [i \in Items |-> "idle"] /\ shut = [s \in Stoppers |-> "idle"]
      /\ ret = [s \in Stoppers |-> "none"]
  BY DEF SenderInit, Init
<1> QED
  BY <1>1, StoppersAssumption DEF SenderInv, LockHeld, AddInsideSend, OneCloses,
     NilSeen, Closer, Past

\* Send takes the lock that SendReturn gives back, and its Add with it
\* (message_sender.go:84-127).
LEMMA SendKeeps ==
    ASSUME IInv, SenderTypes, SenderInv, NEW i \in Items,
           SendCheck(i) \/ SendAdd(i) \/ SendReturn(i)
    PROVE  SenderInv'
<1>1. /\ send \in [Items -> {"idle", "locking", "adding", "returned"}]
      /\ add \in [Items -> {"idle", "waiting"} \cup Returns]
      /\ errc \in [Items -> {"empty"} \cup Verdicts \cup Refusals]
      /\ UNCHANGED <<stop, closed, cancelled, closes, shut, ret>>
  BY DEF IInv, TypeOK, SenderTypes, SendCheck, SendAdd, SendReturn, AddNoWait, AddResult,
     AddCtxDone, vars, callerVars
<1>2. LockHeld /\ AddInsideSend /\ OneCloses /\ NilSeen
  BY DEF SenderInv
<1>3. \A s \in Stoppers : s # i /\ s # "free"
  BY StoppersAssumption
<1>4. CASE SendCheck(i)
  <2>1. UNCHANGED <<mu, add>> /\ send'[i] # "adding" /\ send[i] # "adding"
        /\ \A j \in Items \ {i} : send'[j] = send[j]
    BY <1>1, <1>4 DEF SendCheck, vars, callerVars
  <2> QED
    BY <1>1, <1>2, <2>1 DEF SenderInv, LockHeld, AddInsideSend, OneCloses, NilSeen, Closer
<1>5. CASE SendAdd(i)
  <2>1. /\ mu = "free" /\ mu' = i
        /\ \A j \in Items : send'[j] = IF j = i THEN "adding" ELSE send[j]
        /\ \A j \in Items : add'[j] = IF j = i THEN "waiting" ELSE add[j]
    BY <1>1, <1>5 DEF SendAdd, AddNoWait
  <2>2. \A j \in Items : send[j] # "adding"
    BY <1>2, <2>1, StoppersAssumption DEF LockHeld
  <2>3. LockHeld' /\ AddInsideSend'
    BY <1>1, <1>2, <1>3, <2>1, <2>2 DEF LockHeld, AddInsideSend
  <2>4. \A s \in Stoppers : Closer(s)' <=> Closer(s)
    BY <1>1, <1>3, <2>1 DEF Closer
  <2>5. OneCloses' /\ NilSeen'
    BY <1>1, <1>2, <1>3, <2>1, <2>4 DEF OneCloses, NilSeen
  <2> QED
    BY <2>3, <2>5 DEF SenderInv
<1>6. CASE SendReturn(i)
  <2>1. /\ mu = i /\ mu' = "free"
        /\ \A j \in Items : send'[j] = IF j = i THEN "returned" ELSE send[j]
        /\ \A j \in Items \ {i} : add'[j] = add[j]
        /\ add'[i] # "waiting" /\ (add'[i] = "ctx" => i \in Impatient)
    BY <1>1, <1>2, <1>6 DEF SendReturn, AddResult, AddCtxDone, LockHeld, Verdicts, Refusals
  <2>2. LockHeld' /\ AddInsideSend'
    BY <1>1, <1>2, <1>3, <2>1, StoppersAssumption DEF LockHeld, AddInsideSend
  <2>3. \A s \in Stoppers : Closer(s)' <=> Closer(s)
    BY <1>1, <1>3, <2>1 DEF Closer
  <2>4. OneCloses' /\ NilSeen'
    BY <1>1, <1>2, <1>3, <2>1, <2>3 DEF OneCloses, NilSeen
  <2> QED
    BY <2>2, <2>4 DEF SenderInv
<1> QED
  BY <1>4, <1>5, <1>6

\* Of the calls of Shutdown, the first past the lock closes; the others keep
\* the lock (message_sender.go:129-158).
LEMMA ShutKeeps ==
    ASSUME SenderTypes, SenderInv, NEW s \in Stoppers,
           ShutCall(s) \/ ShutLock(s) \/ ShutSelect(s) \/ ShutClose(s)
    PROVE  SenderInv'
<1>1. /\ shut \in [Stoppers -> Places] /\ closed \in BOOLEAN /\ closes \in Nat
      /\ ret \in [Stoppers -> {"none", "nil", "ctx", "closeErr"}]
      /\ UNCHANGED <<stop, send, add>>
  BY DEF SenderTypes, ShutCall, ShutLock, ShutSelect, ShutClose, vars, callerVars
<1>2. LockHeld /\ AddInsideSend /\ OneCloses /\ NilSeen
  BY DEF SenderInv
<1>3. AddInsideSend'
  BY <1>1, <1>2 DEF AddInsideSend
<1>4. s # "free" /\ \A i \in Items : i # s /\ i # "free"
  BY StoppersAssumption
<1>5. CASE ShutCall(s)
  <2>1. /\ shut[s] = "idle" /\ UNCHANGED <<mu, closed, cancelled, closes, ret>>
        /\ \A t \in Stoppers : shut'[t] = IF t = s THEN "locking" ELSE shut[t]
    BY <1>1, <1>5 DEF ShutCall
  <2>2. \A t \in Stoppers : shut'[t] \in Past <=> shut[t] \in Past
    BY <2>1 DEF Past
  <2> QED
    BY <1>1, <1>2, <1>3, <2>1, <2>2 DEF SenderInv, LockHeld, OneCloses, NilSeen, Closer
<1>6. CASE ShutLock(s) /\ closed
  <2>1. /\ shut[s] = "locking" /\ mu = "free" /\ mu' = s /\ UNCHANGED <<closed, cancelled, closes>>
        /\ \A t \in Stoppers : shut'[t] = IF t = s THEN "returned" ELSE shut[t]
        /\ \A t \in Stoppers : ret'[t] = IF t = s THEN "nil" ELSE ret[t]
    BY <1>1, <1>6 DEF ShutLock
  <2>2. \A t \in Stoppers : Closer(t)' <=> Closer(t)
    BY <1>4, <2>1, StoppersAssumption DEF Closer, Past
  <2>3. LockHeld' /\ NilSeen'
    BY <1>1, <1>2, <1>4, <1>6, <2>1, StoppersAssumption DEF LockHeld, NilSeen
  <2>4. OneCloses'
    BY <1>2, <1>6, <2>1, <2>2 DEF OneCloses, Closer, Past
  <2> QED
    BY <1>3, <2>3, <2>4 DEF SenderInv
<1>7. CASE ShutLock(s) /\ ~ closed
  <2>1. /\ shut[s] = "locking" /\ mu = "free" /\ closed' = TRUE
        /\ UNCHANGED <<mu, cancelled, closes, ret>>
        /\ \A t \in Stoppers : shut'[t] = IF t = s THEN "selecting" ELSE shut[t]
    BY <1>1, <1>7 DEF ShutLock
  <2>2. \A t \in Stoppers : shut[t] \notin Past
    BY <1>2, <1>7 DEF OneCloses
  <2>3. \A t \in Stoppers : Closer(t)' => t = s
    BY <2>1, <2>2 DEF Closer
  <2> QED
    BY <1>1, <1>2, <1>3, <2>1, <2>2, <2>3 DEF SenderInv, LockHeld, OneCloses, NilSeen, Closer, Past
<1>8. CASE ShutSelect(s)
  <2>1. /\ shut[s] = "selecting" /\ cancelled' = TRUE /\ UNCHANGED <<mu, closed, closes>>
        /\ \A t \in Stoppers : shut'[t] = IF t = s THEN "closing" ELSE shut[t]
        /\ \A t \in Stoppers \ {s} : ret'[t] = ret[t]
        /\ (stop = "returned" /\ ret'[s] = ret[s]) \/ ret'[s] = "ctx"
    BY <1>1, <1>8 DEF ShutSelect
  <2>2. \A t \in Stoppers : Closer(t)' <=> Closer(t)
    BY <2>1 DEF Closer, Past
  <2>3. LockHeld' /\ OneCloses'
    BY <1>1, <1>2, <2>1, <2>2 DEF LockHeld, OneCloses, Closer, Past
  <2>4. NilSeen'
    BY <1>1, <1>2, <2>1 DEF NilSeen
  <2> QED
    BY <1>3, <2>3, <2>4 DEF SenderInv
<1>9. CASE ShutClose(s)
  <2>1. /\ shut[s] = "closing" /\ closes' = closes + 1 /\ UNCHANGED <<mu, closed, cancelled>>
        /\ \A t \in Stoppers : shut'[t] = IF t = s THEN "returned" ELSE shut[t]
        /\ \A t \in Stoppers \ {s} : ret'[t] = ret[t]
        /\ ret[s] = "ctx" => ret'[s] # "nil"
    BY <1>1, <1>9 DEF ShutClose
  <2>2. Closer(s)
    BY <1>2, <2>1 DEF Closer, Past, LockHeld
  <2>3. \A t \in Stoppers : Closer(t)' <=> Closer(t)
    BY <2>1 DEF Closer, Past
  <2>4. closes = 0
    BY <1>2, <2>1, <2>2 DEF OneCloses
  <2>5. OneCloses'
    BY <1>2, <2>1, <2>2, <2>3, <2>4 DEF OneCloses, Closer, Past
  <2>6. LockHeld' /\ NilSeen'
    BY <1>1, <1>2, <2>1 DEF LockHeld, NilSeen
  <2> QED
    BY <1>3, <2>5, <2>6 DEF SenderInv
<1> QED
  BY <1>5, <1>6, <1>7, <1>8, <1>9

\* Neither the batcher's goroutines nor its Shutdown touch the sender; once
\* the batcher has stopped it stays so.
LEMMA BatcherKeeps ==
    ASSUME SenderInv, UNCHANGED senderVars, add' = add,
           stop = "returned" => stop' = "returned"
    PROVE  SenderInv'
  BY DEF SenderInv, LockHeld, AddInsideSend, OneCloses, NilSeen, Closer, senderVars

\* Every step keeps the invariant of the sender.
LEMMA NextSenderInv == IInv /\ SenderTypes /\ SenderInv /\ [SenderNext]_allVars => SenderInv'
<1> SUFFICES ASSUME IInv, SenderTypes, SenderInv, [SenderNext]_allVars
             PROVE  SenderInv'
  OBVIOUS
<1>1. ASSUME NEW g \in Items, Goroutine(g)
      PROVE  UNCHANGED <<senderVars, add, stop>>
  BY <1>1 DEF Goroutine, GoroutineStep, CallHandler, HandlerReturns, Report, TakeNext,
     WgDone, callerVars
<1>2. StopBatcher => UNCHANGED <<senderVars, add>> /\ stop # "returned"
  BY DEF StopBatcher, ShutdownFlag, ShutdownReturns
<1>3. AllQuiet \/ UNCHANGED allVars => UNCHANGED <<senderVars, add, stop>>
  BY DEF AllQuiet, allVars, vars, callerVars
<1> QED
  BY <1>1, <1>2, <1>3, SendKeeps, ShutKeeps, BatcherKeeps DEF SenderNext

\* The invariant of the sender holds throughout.
LEMMA SenderInvariance == SenderSpec => []SenderInv
<1>1. IInv /\ SenderTypes /\ SenderInv /\ [SenderNext]_allVars => SenderInv'
  BY NextSenderInv
<1> QED
  BY <1>1, InitSenderInv, SenderUsesBatcher, Invariance, SenderTypesInvariant, PTL DEF SenderSpec
-----------------------------------------------------------------------------
(* Results.                                                                *)

\* However many calls there are, one Send at most is inside the batcher; what
\* else the batcher has was left behind by Sends whose context was done
\* (message_sender.go:90-91, 124; batcher.go:164-170).
THEOREM OneSendAtATime == SenderSpec => []SendsSerialised
<1>1. AnswerInv /\ SenderInv => SendsSerialised
  <2> SUFFICES ASSUME AnswerInv, SenderInv
               PROVE  SendsSerialised
    OBVIOUS
  <2>1. {i \in Items : send[i] = "adding"} \subseteq {mu}
    BY DEF SenderInv, LockHeld
  <2>2. IsFiniteSet({mu}) /\ Cardinality({mu}) = 1
    BY FS_Singleton
  <2>3. Cardinality({i \in Items : send[i] = "adding"}) =< 1
    BY <2>1, <2>2, FS_Subset
  <2>4. ASSUME NEW i \in Items, i \in Elements(pending) \/ HeldBy(i) # {}
        PROVE  mu = i \/ (i \in Impatient /\ add[i] = "ctx")
    BY <2>4, HeldIsHeldBy DEF AnswerInv, Unanswered, SenderInv, AddInsideSend, LockHeld
  <2> QED
    BY <2>3, <2>4 DEF SendsSerialised
<1> QED
  BY <1>1, SenderInvariance, SenderUsesBatcher, AnswersInvariant, PTL

\* When the Shutdown that closes returns nil, no SendBatch runs or is to come
\* (message_sender.go:129-154; batcher.go:280-285).
THEOREM NilShutdownDrained == SenderSpec => []NilMeansDrained
<1>1. SenderTypes /\ SenderInv /\ ShutdownDrains => NilMeansDrained
  <2> SUFFICES ASSUME SenderTypes, SenderInv, ShutdownDrains,
                      NEW s \in Stoppers, ret[s] = "nil", mu # s
               PROVE  /\ stop = "returned"
                      /\ \A g \in Items : pc[g] \in {"none", "done"}
    BY DEF NilMeansDrained
  <2>1. stop = "returned"
    BY DEF SenderTypes, SenderInv, NilSeen, Places
  <2> QED
    BY <2>1 DEF ShutdownDrains
<1> QED
  BY <1>1, SenderInvariance, SenderTypesInvariant, SenderUsesBatcher, ShutdownIsQuiet, PTL

\* However often and whenever Shutdown is called, the driver is closed once at
\* most, after the context of its SendBatch calls was cancelled
\* (message_sender.go:131-149).
THEOREM ClosesOnce == SenderSpec => []ClosedOnce
<1>1. SenderInv => ClosedOnce
  BY DEF SenderInv, OneCloses, ClosedOnce, Closer
<1> QED
  BY <1>1, SenderInvariance, PTL
-----------------------------------------------------------------------------
(* BlockySender: a sender with its driver.                                 *)

\* Whatever its driver does, a sender of BlockySender behaves as one of Sender
\* may: a SendBatch that walks through its messages is one that has not
\* answered yet (blocky.go:63-107; message_sender.go:66-71).
LEMMA BlockyStep == [BlockyNext]_everything => [SenderNext]_allVars
<1> SUFFICES ASSUME [BlockyNext]_everything
             PROVE  [SenderNext]_allVars
  OBVIOUS
<1>1. \A g \in Items, v \in Verdicts : HandlerReturns(g, v) /\ UNCHANGED senderVars => Goroutine(g)
  BY DEF Goroutine, GoroutineStep
<1>2. ASSUME NEW g \in Items, BlockyGoroutine(g)
      PROVE  Goroutine(g) \/ UNCHANGED allVars
  <2>1. BlockyCall(g) => Goroutine(g)
    BY DEF BlockyCall, Goroutine, GoroutineStep
  <2>2. SendBatchStep(g) => Goroutine(g) \/ UNCHANGED allVars
    BY <1>1 DEF SendBatchStep, UploadAttachment, ReadChunk, CloseAndRecv, BeforeSend,
       SendMessage, AfterSend, CallFails, NextMessage, Return, Stay, Verdicts
  <2>3. (\E v \in Verdicts : HandlerReturns(g, v)) /\ UNCHANGED senderVars => Goroutine(g)
    BY <1>1
  <2>4. (Report(g) \/ TakeNext(g) \/ WgDone(g)) /\ UNCHANGED senderVars => Goroutine(g)
    BY DEF Goroutine, GoroutineStep
  <2> QED
    BY <1>2, <2>1, <2>2, <2>3, <2>4 DEF BlockyGoroutine
<1>3. \A s \in Stoppers : BlockyClose(s) => ShutClose(s)
  BY DEF BlockyClose
<1>4. UNCHANGED everything => UNCHANGED allVars
  BY DEF everything
<1> QED
  BY <1>2, <1>3, <1>4 DEF BlockyNext, SenderNext

\* A sender with its driver is a sender: what is proved of SenderSpec holds
\* whichever driver there is (blocky.go:41-59; message_sender.go:42-71).
THEOREM BlockyIsSender == BlockySpec => SenderSpec
<1>1. BlockyInit => SenderInit
  BY DEF BlockyInit
<1> QED
  BY <1>1, BlockyStep, PTL DEF BlockySpec, SenderSpec

\* The results about the sender, for a sender with its driver
\* (message_sender.go:84-158).
COROLLARY SenderWithDriver ==
    BlockySpec => [](SenderTypeOK /\ SendsSerialised /\ NilMeansDrained /\ ClosedOnce)
  BY BlockyIsSender, SenderTypeCorrect, OneSendAtATime, NilShutdownDrained, ClosesOnce, PTL
-----------------------------------------------------------------------------
(* What the driver does for each message: the inductive invariant.         *)

\* Only a SendBatch that returns gives its messages a verdict, and what a Send
\* was told is the verdict of its message.
Judged ==
    /\ \A g \in Items : pc[g] \in {"ready", "calling"} =>
           \A i \in Elements(batch[g]) : verdict[i] = "none"
    /\ \A i \in Items :
           /\ i \notin Elements(taken) => verdict[i] = "none"
           /\ errc[i] \in Verdicts => errc[i] = verdict[i]
           /\ add[i] \in Verdicts => add[i] = verdict[i]

ServiceTypes ==
    /\ driver \in {"any", "blocky"}
    /\ at \in [Items -> [phase : {"idle"} \cup BlockyPhases, m : Nat]]
    /\ chunks \in [Items -> Seq(Nat)]
    /\ position \in [DOMAIN fileSize -> Nat]
    /\ \A f \in DOMAIN fileSize : position[f] =< fileSize[f]
    /\ uploads \in [Items -> Seq(Seq(Nat))]
    /\ calls \in [Items -> Seq({"before", "sent", "after"})]

\* A SendBatch of the driver is at a message of its batch while it is called,
\* and nowhere else.
InBatch ==
    \A g \in Items :
        IF driver = "blocky" /\ pc[g] = "calling"
        THEN at[g].phase \in BlockyPhases /\ at[g].m \in 1 .. Len(batch[g])
        ELSE at[g] = Idle

\* Nothing has been read of the files that only attachment k, or a later one,
\* of message i has.
Unread(i, k) ==
    \A l \in DOMAIN files[i] : l >= k /\ Unshared(i, l) => position[files[i][l]] = 0

\* A message that no SendBatch has come to.
Untouched(i) == calls[i] = << >> /\ uploads[i] = << >> /\ Unread(i, 1)

UploadedWhole(i) ==
    \A k \in 1 .. Len(uploads[i]) : Unshared(i, k) => uploads[i][k] = Whole(files[i][k])

\* The calls for a message that was sent.
AllCalls(i) == IF i \in Hooked THEN <<"before", "sent", "after">> ELSE <<"sent">>

\* A message that SendBatch has left behind it.
Sent(i) == Len(uploads[i]) = Len(files[i]) /\ UploadedWhole(i) /\ calls[i] = AllCalls(i)

\* The calls made for a message when SendBatch is in phase p of it.
CallsBefore(i, p) ==
    IF p = "afterSend" THEN <<"before", "sent">>
    ELSE IF p = "sendMessage" /\ i \in Hooked THEN <<"before">> ELSE << >>

UpTo(n) == [k \in 1 .. n |-> k]

\* The message i that SendBatch g is at, in phase p: what was called for it,
\* which attachments it has uploaded, and what it has read of the next one.
Current(g, i, p) ==
    LET n == Len(uploads[i])  f == files[i][n + 1] IN
    /\ UploadedWhole(i) /\ calls[i] = CallsBefore(i, p)
    /\ p \in {"beforeSend", "afterSend"} => i \in Hooked
    /\ p \notin Uploading => n = Len(files[i])
    /\ p \in Uploading => n < Len(files[i]) /\ Unread(i, n + 2)
    /\ p = "upload" => Unread(i, n + 1)
    /\ p \in {"read", "closeAndRecv"} /\ Unshared(i, n + 1) =>
           /\ chunks[g] = UpTo(position[f])
           /\ p = "closeAndRecv" => position[f] = fileSize[f]

\* Before the message SendBatch is at they are sent, behind it untouched.
MessagesInOrder ==
    \A g \in Items : driver = "blocky" /\ pc[g] = "calling" =>
        \A i \in Items :
            /\ \A p \in BlockyPhases : i = message(g) /\ p = at[g].phase => Current(g, i, p)
            /\ \A k \in 1 .. Len(batch[g]) : i = batch[g][k] =>
                 /\ k < at[g].m => Sent(i)
                 /\ k > at[g].m => Untouched(i)

\* So are those that wait, in pending or in a batch that was not handed over.
UntouchedBefore ==
    /\ \A g \in Items : pc[g] = "ready" => \A i \in Elements(batch[g]) : Untouched(i)
    /\ \A i \in Items : i \notin Elements(taken) => Untouched(i)

SentIfOk == \A i \in Items : driver = "blocky" /\ verdict[i] = "ok" => Sent(i)

CallsSoFar ==
    \A i \in Items :
        calls[i] \in IF i \in Hooked
                     THEN {<< >>, <<"before">>, <<"before", "sent">>, <<"before", "sent", "after">>}
                     ELSE {<< >>, <<"sent">>}

ServiceInv ==
    /\ ServiceTypes /\ InBatch /\ MessagesInOrder /\ UntouchedBefore
    /\ SentIfOk /\ CallsSoFar
-----------------------------------------------------------------------------
(* Batches and verdicts.                                                   *)

\* A batch is handed over as it was taken, and taken from items that were in
\* no batch before.
BatchesMove ==
    /\ Elements(taken) \subseteq Elements(taken')
    /\ \A g \in Items :
         /\ pc'[g] = "calling" => pc[g] \in {"ready", "calling"} /\ batch'[g] = batch[g]
         /\ pc'[g] = "ready" => \/ pc[g] = "ready" /\ batch'[g] = batch[g]
                                \/ Elements(batch'[g]) \cap Elements(taken) = {}

\* Every step of the batcher moves batches that way.
LEMMA NextMoves == IInv /\ IInv' /\ AnswerInv /\ [Next]_vars => BatchesMove
<1> SUFFICES ASSUME IInv, IInv', AnswerInv, [Next]_vars
             PROVE  BatchesMove
  OBVIOUS
<1> USE DEF queueVars, handlerVars, callerVars, history
<1>1. /\ TypeOK /\ TypeOK' /\ InOrder' /\ HeldOnce /\ HeldTaken
      /\ pc \in [Items -> Phases] /\ batch \in [Items -> Seq(Items)]
      /\ pending \in Seq(Items)
  BY DEF IInv, TypeOK, AnswerInv
<1>2. ASSUME NEW g \in Items, NEW p \in Seq(Items), batchReady(p), Take(g, p), batch[g] = << >>
      PROVE  BatchesMove
  <2>1. /\ Elements(taken) \subseteq Elements(taken')
        /\ \A h \in Items : batch'[h] = IF h = g THEN nextBatch(p) ELSE batch[h]
        /\ \A h \in Items : pc'[h] = IF h = g THEN "ready" ELSE pc[h]
        /\ Elements(nextBatch(p)) \cap Elements(taken) = {}
    <3>1. /\ batch' = [batch EXCEPT ![g] = nextBatch(p)]
          /\ Elements(taken') = Elements(taken) \cup Elements(nextBatch(p))
          /\ Elements(nextBatch(p)) \cap Elements(taken) = {}
      BY <1>1, <1>2, TakeMoves
    <3>2. pc' = [pc EXCEPT ![g] = "ready"]
      BY <1>2 DEF Take
    <3> QED
      BY <1>1, <3>1, <3>2
  <2> QED
    BY <2>1 DEF BatchesMove
<1>3. ASSUME UNCHANGED <<batch, taken>>,
             \A g \in Items : pc'[g] = "calling" => pc[g] \in {"ready", "calling"},
             \A g \in Items : pc'[g] = "ready" => pc[g] = "ready"
      PROVE  BatchesMove
  BY <1>3 DEF BatchesMove
<1>4. ASSUME NEW i \in Items, AddNoWait(i)
      PROVE  BatchesMove
  <2> DEFINE p == Append(pending, i)
  <2>1. batch[i] = << >>
    BY <1>4 DEF AddNoWait, IInv, FreshCalls, AnswerInv, IdleHandsEmpty
  <2>2. p \in Seq(Items)
    BY <1>1, AppendProperties
  <2>3. (batchReady(p) /\ Take(i, p)) \/ UNCHANGED <<pc, batch, taken>>
    BY <1>4 DEF AddNoWait, Accept, Refuse
  <2> HIDE DEF p
  <2> QED
    BY <1>2, <1>3, <2>1, <2>2, <2>3
<1>5. ASSUME NEW g \in Items, TakeNext(g)
      PROVE  BatchesMove
  <2>1. CASE batchReady(pending) /\ Take(g, pending)
    BY <1>1, <1>2, <1>5, <2>1 DEF TakeNext
  <2>2. CASE pc' = [pc EXCEPT ![g] = "exiting"] /\ UNCHANGED <<batch, taken>>
    BY <1>1, <1>3, <2>2
  <2> QED
    BY <1>5, <2>1, <2>2 DEF TakeNext
<1>6. ASSUME NEW g \in Items, Report(g)
      PROVE  BatchesMove
  <2>1. /\ pc[g] = "reporting" /\ UNCHANGED <<pc, taken>>
        /\ \A h \in Items \ {g} : batch'[h] = batch[h]
    BY <1>1, <1>6 DEF Report
  <2> QED
    BY <2>1 DEF BatchesMove
<1>7. ASSUME NEW g \in Items, CallHandler(g) \/ WgDone(g) \/ \E v \in Verdicts : HandlerReturns(g, v)
      PROVE  BatchesMove
  <2>1. /\ UNCHANGED <<batch, taken>>
        /\ \/ pc[g] = "ready" /\ pc' = [pc EXCEPT ![g] = "calling"]
           \/ pc' = [pc EXCEPT ![g] = "done"] \/ pc' = [pc EXCEPT ![g] = "reporting"]
    BY <1>7 DEF CallHandler, WgDone, HandlerReturns
  <2> QED
    BY <1>1, <1>3, <2>1
<1>8. ASSUME UNCHANGED <<pc, batch, taken>>
      PROVE  BatchesMove
  BY <1>3, <1>8
<1>9. /\ \A i \in Items : AddResult(i) \/ AddCtxDone(i) => UNCHANGED <<pc, batch, taken>>
      /\ ShutdownFlag \/ ShutdownReturns \/ UNCHANGED vars => UNCHANGED <<pc, batch, taken>>
  BY DEF AddResult, AddCtxDone, ShutdownFlag, ShutdownReturns, vars
<1> QED
  BY <1>4, <1>5, <1>6, <1>7, <1>8, <1>9 DEF Next, GoroutineStep, Finished

\* Verdicts come from handlers that return, and reach those they are for
\* (batcher.go:162-171, 261-264).
LEMMA JudgedStep == IInv /\ IInv' /\ AnswerInv /\ Judged /\ [Next]_vars => Judged'
<1> SUFFICES ASSUME IInv, IInv', AnswerInv, Judged, [Next]_vars
             PROVE  Judged'
  OBVIOUS
<1> USE DEF queueVars, handlerVars, callerVars, history
<1>1. /\ BatchesMove /\ "empty" \notin Verdicts /\ Verdicts \cap Refusals = {}
      /\ "idle" \notin Verdicts /\ "waiting" \notin Verdicts /\ "ctx" \notin Verdicts
      /\ pc \in [Items -> Phases]
      /\ batch \in [Items -> Seq(Items)] /\ batch' \in [Items -> Seq(Items)]
      /\ add \in [Items -> {"idle", "waiting"} \cup Returns]
      /\ errc \in [Items -> {"empty"} \cup Verdicts \cup Refusals]
  BY NextMoves DEF Verdicts, Refusals, IInv, TypeOK
<1>2. \A g \in Items : Elements(batch[g]) \subseteq Items /\ Elements(batch'[g]) \subseteq Items
  BY <1>1, ElementOfSeq DEF Elements
<1>3. ASSUME UNCHANGED verdict,
             \A i \in Items : errc'[i] \in Verdicts => errc'[i] = verdict[i],
             \A i \in Items : add'[i] \in Verdicts => add'[i] = verdict[i]
      PROVE  Judged'
  BY <1>1, <1>2, <1>3 DEF Judged, BatchesMove
<1>4. ASSUME NEW g \in Items, NEW v \in Verdicts, HandlerReturns(g, v)
      PROVE  Judged'
  <2>1. /\ pc[g] = "calling" /\ UNCHANGED <<batch, taken, errc, add>>
        /\ \A h \in Items : pc'[h] = IF h = g THEN "reporting" ELSE pc[h]
        /\ \A i \in Items : verdict'[i] = IF i \in Elements(batch[g]) THEN v ELSE verdict[i]
    BY <1>1, <1>4 DEF HandlerReturns
  <2>2. \A i \in Elements(batch[g]) :
           i \in Items /\ i \in Elements(taken) /\ errc[i] = "empty" /\ add[i] \in {"waiting", "ctx"}
    BY <1>2 DEF AnswerInv, HeldTaken, Unanswered, Held
  <2>3. \A h \in Items \ {g} : Elements(batch[h]) \cap Elements(batch[g]) = {}
    BY DEF AnswerInv, HeldOnce
  <2> QED
    BY <1>1, <1>2, <2>1, <2>2, <2>3 DEF Judged
<1>5. ASSUME NEW g \in Items, Report(g)
      PROVE  Judged'
  <2>1. /\ UNCHANGED <<verdict, add>> /\ pc[g] = "reporting" /\ batch[g] # << >>
        /\ batch[g] \in Seq(Items) /\ Distinct(batch[g])
        /\ errc' = [errc EXCEPT ![Head(batch[g])] = err[g]]
    BY <1>1, <1>5 DEF Report, AnswerInv, HeldOnce
  <2>2. Head(batch[g]) \in Elements(batch[g])
    BY <2>1, TailApart
  <2>3. verdict[Head(batch[g])] = err[g]
    BY <2>1, <2>2 DEF AnswerInv, VerdictKnown
  <2> QED
    BY <1>1, <1>3, <2>1, <2>3 DEF Judged
<1>6. ASSUME NEW i \in Items, AddNoWait(i)
      PROVE  Judged'
  <2>1. /\ UNCHANGED verdict /\ add' = [add EXCEPT ![i] = "waiting"]
        /\ errc' = errc \/ \E why \in Refusals : errc' = [errc EXCEPT ![i] = why]
    BY <1>6 DEF AddNoWait, Accept, Refuse, Refusals
  <2> QED
    BY <1>1, <1>3, <2>1 DEF Judged
<1>7. ASSUME NEW i \in Items, AddResult(i) \/ AddCtxDone(i)
      PROVE  Judged'
  <2>1. /\ UNCHANGED verdict
        /\ \/ add' = [add EXCEPT ![i] = errc[i]] /\ errc' = [errc EXCEPT ![i] = "empty"]
           \/ add' = [add EXCEPT ![i] = "ctx"] /\ errc' = errc
    BY <1>7 DEF AddResult, AddCtxDone
  <2> QED
    BY <1>1, <1>3, <2>1 DEF Judged
<1>8. ASSUME UNCHANGED <<verdict, errc, add>>
      PROVE  Judged'
  BY <1>3, <1>8 DEF Judged
<1>9. /\ \A g \in Items : CallHandler(g) \/ WgDone(g) \/ TakeNext(g) => UNCHANGED <<verdict, errc, add>>
      /\ ShutdownFlag \/ ShutdownReturns \/ UNCHANGED vars => UNCHANGED <<verdict, errc, add>>
  BY DEF CallHandler, WgDone, TakeNext, ShutdownFlag, ShutdownReturns, vars
<1> QED
  BY <1>4, <1>5, <1>6, <1>7, <1>8, <1>9 DEF Next, GoroutineStep, Finished

\* Before any call nothing is judged.
LEMMA InitJudged == Init => Judged
  BY DEF Init, Judged, Verdicts
-----------------------------------------------------------------------------
(* What a step of SendBatch leaves alone.                                  *)

\* The attachments of a message are files with a size.
LEMMA FilesTypes ==
    ASSUME NEW i \in Items
    PROVE  /\ files[i] \in Seq(DOMAIN fileSize) /\ Len(files[i]) \in Nat
           /\ DOMAIN files[i] = 1 .. Len(files[i])
           /\ \A l \in 1 .. Len(files[i]) : files[i][l] \in DOMAIN fileSize
           /\ \A f \in DOMAIN fileSize : fileSize[f] \in Nat
  BY FilesAssumption

\* SendBatch g, at message i, touches that message, its own place, and the
\* file of the attachment it has come to.
Touches(g, i) ==
    /\ \A j \in Items \ {i} : calls'[j] = calls[j] /\ uploads'[j] = uploads[j]
    /\ \A h \in Items \ {g} : at'[h] = at[h] /\ chunks'[h] = chunks[h]
    /\ \A f \in DOMAIN fileSize :
         \/ position'[f] = position[f]
         \/ Len(uploads[i]) < Len(files[i]) /\ f = files[i][Len(uploads[i]) + 1]
    /\ driver' = driver

\* What is known of another message stays true: a file that both have is
\* shared, and nothing is said of it.
LEMMA OthersKept ==
    ASSUME ServiceTypes, NEW g \in Items, NEW i \in Items, Touches(g, i),
           NEW j \in Items, j # i
    PROVE  /\ Untouched(j) => Untouched(j)'
           /\ Sent(j) => Sent(j)'
           /\ \A h \in Items \ {g}, p \in BlockyPhases : Current(h, j, p) => Current(h, j, p)'
<1>1. calls'[j] = calls[j] /\ uploads'[j] = uploads[j] /\ Len(uploads[j]) \in Nat
      /\ Len(uploads[i]) \in Nat
  BY DEF Touches, ServiceTypes
<1>2. \A l \in 1 .. Len(files[j]) : Unshared(j, l) => position'[files[j][l]] = position[files[j][l]]
  <2> SUFFICES ASSUME NEW l \in 1 .. Len(files[j]), Unshared(j, l)
               PROVE  position'[files[j][l]] = position[files[j][l]]
    OBVIOUS
  <2>1. files[j][l] \in DOMAIN fileSize
    BY FilesTypes
  <2>2. Len(uploads[i]) < Len(files[i]) => Len(uploads[i]) + 1 \in DOMAIN files[i]
    BY <1>1, FilesTypes
  <2>3. ~(Len(uploads[i]) < Len(files[i]) /\ files[j][l] = files[i][Len(uploads[i]) + 1])
    BY <2>2 DEF Unshared
  <2> QED
    BY <2>1, <2>3 DEF Touches
<1>3. \A k : Unread(j, k) => Unread(j, k)'
  BY <1>2, FilesTypes DEF Unread
<1>4. UploadedWhole(j) => UploadedWhole(j)'
  BY <1>1 DEF UploadedWhole
<1>5. Untouched(j) => Untouched(j)'
  BY <1>1, <1>3 DEF Untouched
<1>6. Sent(j) => Sent(j)'
  BY <1>1, <1>4 DEF Sent
<1>7. ASSUME NEW h \in Items \ {g}, NEW p \in BlockyPhases, Current(h, j, p)
      PROVE  Current(h, j, p)'
  <2>1. chunks'[h] = chunks[h]
    BY DEF Touches
  <2>2. p \in Uploading /\ Unshared(j, Len(uploads[j]) + 1) =>
           position'[files[j][Len(uploads[j]) + 1]] = position[files[j][Len(uploads[j]) + 1]]
    <3>1. p \in Uploading => Len(uploads[j]) + 1 \in 1 .. Len(files[j])
      BY <1>1, <1>7, FilesTypes DEF Current
    <3> QED
      BY <1>2, <3>1
  <2>3. {"read", "closeAndRecv"} \subseteq Uploading
    BY DEF Uploading
  <2> QED
    BY <1>1, <1>3, <1>4, <1>7, <2>1, <2>2, <2>3 DEF Current
<1> QED
  BY <1>5, <1>6, <1>7

\* The message that a SendBatch is at is in its batch once and in no other,
\* and has no verdict.
LEMMA InsideFacts ==
    ASSUME IInv, AnswerInv, Judged, ServiceInv,
           NEW g \in Items, NEW p \in BlockyPhases, Inside(g, p)
    PROVE  /\ driver = "blocky" /\ pc[g] = "calling" /\ p = at[g].phase
           /\ at[g] = [phase |-> p, m |-> at[g].m]
           /\ batch[g] \in Seq(Items) /\ Len(batch[g]) \in Nat
           /\ at[g].m \in 1 .. Len(batch[g]) /\ message(g) = batch[g][at[g].m]
           /\ message(g) \in Items /\ message(g) \in Elements(taken)
           /\ \A k \in 1 .. Len(batch[g]) : batch[g][k] = message(g) => k = at[g].m
           /\ \A h \in Items : message(g) \in Elements(batch[h]) => h = g
           /\ verdict[message(g)] = "none"
           /\ Current(g, message(g), p)
<1>1. /\ driver = "blocky" /\ pc[g] = "calling" /\ p = at[g].phase
      /\ at \in [Items -> [phase : {"idle"} \cup BlockyPhases, m : Nat]]
      /\ batch[g] \in Seq(Items) /\ Len(batch[g]) \in Nat
  BY DEF Inside, ServiceInv, ServiceTypes, IInv, TypeOK
<1>2. at[g].m \in 1 .. Len(batch[g])
  BY <1>1 DEF ServiceInv, InBatch
<1>3. message(g) = batch[g][at[g].m] /\ message(g) \in Items /\ message(g) \in Elements(batch[g])
  BY <1>1, <1>2 DEF message, Elements
<1>4. \A k \in 1 .. Len(batch[g]) : batch[g][k] = message(g) => k = at[g].m
  BY <1>2, <1>3 DEF AnswerInv, HeldOnce, Distinct
<1>5. \A h \in Items : message(g) \in Elements(batch[h]) => h = g
  BY <1>3 DEF AnswerInv, HeldOnce
<1>6. message(g) \in Elements(taken)
  BY <1>3 DEF AnswerInv, HeldTaken, Held
<1>7. verdict[message(g)] = "none"
  BY <1>1, <1>3 DEF Judged
<1>8. Current(g, message(g), p)
  BY <1>1, <1>3 DEF ServiceInv, MessagesInOrder
<1> QED
  BY <1>1, <1>2, <1>3, <1>4, <1>5, <1>6, <1>7, <1>8
-----------------------------------------------------------------------------
(* Steps of SendBatch.                                                     *)

\* Reading one more chunk, in order.
LEMMA UpToSeq ==
    /\ UpTo(0) = << >>
    /\ \A n \in Nat : UpTo(n) \in Seq(Nat) /\ Append(UpTo(n), n + 1) = UpTo(n + 1)
<1>1. UpTo(0) = << >>
  BY DEF UpTo
<1>2. ASSUME NEW n \in Nat
      PROVE  UpTo(n) \in Seq(Nat) /\ Append(UpTo(n), n + 1) = UpTo(n + 1)
  <2>1. \A m \in Nat : UpTo(m) \in Seq(Nat) /\ Len(UpTo(m)) = m /\ \A k \in 1 .. m : UpTo(m)[k] = k
    <3> SUFFICES ASSUME NEW m \in Nat
                 PROVE  UpTo(m) \in Seq(Nat) /\ Len(UpTo(m)) = m /\ \A k \in 1 .. m : UpTo(m)[k] = k
      OBVIOUS
    <3>1. UpTo(m) \in Seq(Nat) /\ DOMAIN UpTo(m) = 1 .. m
      BY DEF UpTo
    <3> QED
      BY <3>1 DEF UpTo
  <2>2. /\ Append(UpTo(n), n + 1) \in Seq(Nat) /\ Len(Append(UpTo(n), n + 1)) = n + 1
        /\ \A k \in 1 .. n + 1 : Append(UpTo(n), n + 1)[k] = k
    BY <2>1, AppendProperties
  <2> QED
    BY <2>1, <2>2, SeqEqual
<1> QED
  BY <1>1, <1>2

\* Where SendBatch goes when it comes to a message, or has uploaded one of its
\* attachments, is where what is known of the message belongs.
BeginsWell ==
    \A g \in Items, i \in Items, m \in Nat, n \in Nat, k \in Nat :
        /\ n = Len(uploads[i]) /\ n =< Len(files[i]) /\ k = n + 1
        /\ calls[i] = << >> /\ UploadedWhole(i) /\ Unread(i, k)
        => \E p \in BlockyPhases :
             Begins(i, m, n) = [phase |-> p, m |-> m] /\ Current(g, i, p)

\* Where SendBatch begins with a message, or with its next attachment.
LEMMA BeginsRight == ServiceTypes => BeginsWell
<1> SUFFICES ASSUME ServiceTypes,
                    NEW g \in Items, NEW i \in Items, NEW m \in Nat, NEW n \in Nat,
                    n = Len(uploads[i]), n =< Len(files[i]),
                    calls[i] = << >>, UploadedWhole(i), Unread(i, n + 1)
             PROVE  \E p \in BlockyPhases :
                       Begins(i, m, n) = [phase |-> p, m |-> m] /\ Current(g, i, p)
  BY DEF BeginsWell
<1>1. Len(files[i]) \in Nat /\ DOMAIN files[i] = 1 .. Len(files[i])
  BY FilesTypes
<1>2. CASE n < Len(files[i])
  <2>1. Unread(i, n + 2)
    BY <1>1 DEF Unread
  <2>2. Current(g, i, "upload")
    BY <1>2, <2>1 DEF Current, CallsBefore, Uploading
  <2> QED
    BY <1>2, <2>2 DEF Begins, BlockyPhases, Uploading
<1>3. CASE ~(n < Len(files[i]))
  <2>1. n = Len(files[i])
    BY <1>1, <1>3
  <2>2. \A p \in {"beforeSend", "sendMessage"} :
           (IF i \in Hooked THEN p = "beforeSend" ELSE p = "sendMessage") => Current(g, i, p)
    BY <2>1 DEF Current, CallsBefore, Uploading
  <2> QED
    BY <1>3, <2>2 DEF Begins, BlockyPhases
<1> QED
  BY <1>2, <1>3

\* A step of SendBatch g that stays in its message, or leaves it sent and goes
\* to the next one.
LEMMA GoesOn ==
    ASSUME IInv, AnswerInv, Judged, ServiceInv, ServiceTypes',
           NEW g \in Items, NEW p \in BlockyPhases, Inside(g, p), Stay,
           NEW i \in Items, i = message(g), Touches(g, i),
           NEW m \in at[g].m .. Len(batch[g]), m =< at[g].m + 1,
           NEW q \in BlockyPhases, at'[g] = [phase |-> q, m |-> m],
           NEW n \in Items, n = batch[g][m], Current(g, n, q)',
           m > at[g].m => Sent(i)'
    PROVE  ServiceInv'
<1> USE DEF queueVars, handlerVars, callerVars, history, vars, senderVars, allVars, Stay
<1>1. /\ driver = "blocky" /\ pc[g] = "calling" /\ p = at[g].phase
      /\ batch[g] \in Seq(Items) /\ Len(batch[g]) \in Nat
      /\ at[g].m \in 1 .. Len(batch[g]) /\ i = batch[g][at[g].m]
      /\ i \in Elements(taken) /\ verdict[i] = "none"
      /\ \A k \in 1 .. Len(batch[g]) : batch[g][k] = i => k = at[g].m
      /\ \A h \in Items : i \in Elements(batch[h]) => h = g
  BY InsideFacts
<1>2. driver' = driver /\ pc' = pc /\ batch' = batch /\ taken' = taken /\ verdict' = verdict
  BY DEF Touches
<1>3. \A j \in Items \ {i} :
         /\ Untouched(j) => Untouched(j)'
         /\ Sent(j) => Sent(j)'
         /\ \A h \in Items \ {g}, r \in BlockyPhases : Current(h, j, r) => Current(h, j, r)'
  BY OthersKept DEF ServiceInv
<1>4. \A h \in Items \ {g} : at'[h] = at[h]
  BY DEF Touches
<1>5. m \in 1 .. Len(batch[g]) /\ at'[g].m = m /\ at'[g].phase = q
  BY <1>1
<1>6. InBatch'
  <2> SUFFICES ASSUME NEW h \in Items
               PROVE  IF driver = "blocky" /\ pc[h] = "calling"
                      THEN at'[h].phase \in BlockyPhases /\ at'[h].m \in 1 .. Len(batch[h])
                      ELSE at'[h] = Idle
    BY <1>2 DEF InBatch
  <2>1. CASE h = g
    BY <1>1, <1>5, <2>1
  <2>2. CASE h # g
    BY <1>4, <2>2 DEF ServiceInv, InBatch
  <2> QED
    BY <2>1, <2>2
<1>7. MessagesInOrder'
  <2> SUFFICES ASSUME NEW h \in Items, pc[h] = "calling", NEW j \in Items
               PROVE  /\ \A r \in BlockyPhases : j = batch[h][at'[h].m] /\ r = at'[h].phase =>
                           Current(h, j, r)'
                      /\ \A k \in 1 .. Len(batch[h]) : j = batch[h][k] =>
                           /\ k < at'[h].m => Sent(j)'
                           /\ k > at'[h].m => Untouched(j)'
    BY <1>1, <1>2 DEF MessagesInOrder, message
  <2>1. CASE h = g
    <3>1. \A r \in BlockyPhases : j = batch[g][m] /\ r = q => Current(g, j, r)'
      OBVIOUS
    <3>2. ASSUME NEW k \in 1 .. Len(batch[g]), j = batch[g][k]
          PROVE  (k < m => Sent(j)') /\ (k > m => Untouched(j)')
      <4>1. /\ k < at[g].m => Sent(j)
            /\ k > at[g].m => Untouched(j)
        BY <1>1, <3>2 DEF ServiceInv, MessagesInOrder
      <4>2. CASE k = at[g].m
        BY <1>1, <3>2, <4>2
      <4>3. CASE k # at[g].m
        <5>1. j \in Items \ {i}
          BY <1>1, <3>2, <4>3
        <5> QED
          BY <1>1, <1>3, <4>1, <4>3, <5>1
      <4> QED
        BY <4>2, <4>3
    <3> QED
      BY <1>5, <2>1, <3>1, <3>2
  <2>2. CASE h # g
    <3>1. InBatch /\ batch[h] \in Seq(Items)
      BY DEF ServiceInv, IInv, TypeOK
    <3>2. at[h].m \in 1 .. Len(batch[h]) /\ at'[h] = at[h]
      BY <1>1, <1>4, <2>2, <3>1 DEF InBatch
    <3>3. \A k \in 1 .. Len(batch[h]) : batch[h][k] # i
      BY <1>1, <2>2 DEF Elements
    <3>4. /\ \A r \in BlockyPhases : j = batch[h][at[h].m] /\ r = at[h].phase => Current(h, j, r)
          /\ \A k \in 1 .. Len(batch[h]) : j = batch[h][k] =>
               /\ k < at[h].m => Sent(j)
               /\ k > at[h].m => Untouched(j)
      BY <1>1 DEF ServiceInv, MessagesInOrder, message
    <3> QED
      BY <1>3, <2>2, <3>2, <3>3, <3>4
  <2> QED
    BY <2>1, <2>2
<1>8. UntouchedBefore'
  <2>1. \A h \in Items : pc[h] = "ready" => \A j \in Elements(batch[h]) : j \in Items \ {i} /\ Untouched(j)
    <3> SUFFICES ASSUME NEW h \in Items, pc[h] = "ready", NEW j \in Elements(batch[h])
                 PROVE  j \in Items \ {i} /\ Untouched(j)
      OBVIOUS
    <3>1. batch[h] \in Seq(Items)
      BY DEF IInv, TypeOK
    <3>2. j \in Items
      BY <3>1, ElementOfSeq DEF Elements
    <3>3. j # i
      BY <1>1
    <3> QED
      BY <3>2, <3>3 DEF ServiceInv, UntouchedBefore
  <2>2. \A j \in Items : j \notin Elements(taken) => j # i /\ Untouched(j)
    BY <1>1 DEF ServiceInv, UntouchedBefore
  <2> QED
    BY <1>2, <1>3, <2>1, <2>2 DEF UntouchedBefore
<1>9. SentIfOk'
  <2>1. \A j \in Items : driver = "blocky" /\ verdict[j] = "ok" => j # i /\ Sent(j)
    BY <1>1 DEF ServiceInv, SentIfOk
  <2> QED
    BY <1>2, <1>3, <2>1 DEF SentIfOk
<1>10. CallsSoFar'
  <2>1. \A j \in Items \ {i} : calls'[j] = calls[j]
    BY DEF Touches
  <2>2. Current(g, i, q)' =>
           calls'[i] \in IF i \in Hooked THEN {<< >>, <<"before">>, <<"before", "sent">>}
                         ELSE {<< >>}
    BY DEF Current, CallsBefore
  <2>3. Sent(i)' => calls'[i] = IF i \in Hooked THEN <<"before", "sent", "after">> ELSE <<"sent">>
    BY DEF Sent, AllCalls
  <2>4. Current(g, i, q)' \/ Sent(i)'
    BY <1>1
  <2> QED
    BY <2>1, <2>2, <2>3, <2>4 DEF ServiceInv, CallsSoFar
<1> QED
  BY <1>6, <1>7, <1>8, <1>9, <1>10 DEF ServiceInv

\* A step of SendBatch g that returns v: with nil, from the last message of its
\* batch, which is sent.
LEMMA GoesBack ==
    ASSUME IInv, AnswerInv, Judged, ServiceInv, ServiceTypes',
           NEW g \in Items, NEW p \in BlockyPhases, Inside(g, p),
           NEW v \in Verdicts, HandlerReturns(g, v), at'[g] = Idle,
           NEW i \in Items, i = message(g), Touches(g, i),
           v = "ok" => at[g].m = Len(batch[g]) /\ Sent(i)',
           CallsSoFar'
    PROVE  ServiceInv'
<1>1. /\ driver = "blocky" /\ pc[g] = "calling" /\ p = at[g].phase
      /\ batch[g] \in Seq(Items) /\ Len(batch[g]) \in Nat
      /\ at[g].m \in 1 .. Len(batch[g]) /\ i = batch[g][at[g].m]
      /\ i \in Elements(taken) /\ verdict[i] = "none"
      /\ \A k \in 1 .. Len(batch[g]) : batch[g][k] = i => k = at[g].m
      /\ \A h \in Items : i \in Elements(batch[h]) => h = g
  BY InsideFacts
<1>2. /\ driver' = driver /\ batch' = batch /\ taken' = taken
      /\ pc \in [Items -> Phases]
      /\ \A h \in Items : pc'[h] = IF h = g THEN "reporting" ELSE pc[h]
      /\ \A j \in Items : verdict'[j] = IF j \in Elements(batch[g]) THEN v ELSE verdict[j]
  BY DEF Touches, HandlerReturns, queueVars, IInv, TypeOK
<1>3. \A j \in Items \ {i} :
         /\ Untouched(j) => Untouched(j)'
         /\ Sent(j) => Sent(j)'
         /\ \A h \in Items \ {g}, r \in BlockyPhases : Current(h, j, r) => Current(h, j, r)'
  BY OthersKept DEF ServiceInv
<1>4. \A h \in Items \ {g} : at'[h] = at[h]
  BY DEF Touches
<1>5. InBatch'
  BY <1>1, <1>2, <1>4 DEF ServiceInv, InBatch
<1>6. MessagesInOrder'
  <2> SUFFICES ASSUME NEW h \in Items \ {g}, pc[h] = "calling", NEW j \in Items
               PROVE  /\ \A r \in BlockyPhases : j = batch[h][at[h].m] /\ r = at[h].phase =>
                           Current(h, j, r)'
                      /\ \A k \in 1 .. Len(batch[h]) : j = batch[h][k] =>
                           /\ k < at[h].m => Sent(j)'
                           /\ k > at[h].m => Untouched(j)'
    BY <1>1, <1>2, <1>4 DEF MessagesInOrder, message
  <2>1. at[h].m \in 1 .. Len(batch[h])
    BY <1>1 DEF ServiceInv, InBatch
  <2>2. \A k \in 1 .. Len(batch[h]) : batch[h][k] # i
    BY <1>1 DEF Elements
  <2>3. /\ \A r \in BlockyPhases : j = batch[h][at[h].m] /\ r = at[h].phase => Current(h, j, r)
        /\ \A k \in 1 .. Len(batch[h]) : j = batch[h][k] =>
             /\ k < at[h].m => Sent(j)
             /\ k > at[h].m => Untouched(j)
    BY <1>1 DEF ServiceInv, MessagesInOrder, message
  <2> QED
    BY <1>3, <2>1, <2>2, <2>3
<1>7. UntouchedBefore'
  <2>1. \A h \in Items : pc'[h] = "ready" => \A j \in Elements(batch[h]) : j \in Items \ {i} /\ Untouched(j)
    <3> SUFFICES ASSUME NEW h \in Items, pc'[h] = "ready", NEW j \in Elements(batch[h])
                 PROVE  j \in Items \ {i} /\ Untouched(j)
      OBVIOUS
    <3>1. batch[h] \in Seq(Items) /\ h # g /\ pc[h] = "ready"
      BY <1>2 DEF IInv, TypeOK
    <3>2. j \in Items
      BY <3>1, ElementOfSeq DEF Elements
    <3>3. j # i
      BY <1>1, <3>1
    <3> QED
      BY <3>1, <3>2, <3>3 DEF ServiceInv, UntouchedBefore
  <2>2. \A j \in Items : j \notin Elements(taken) => j # i /\ Untouched(j)
    BY <1>1 DEF ServiceInv, UntouchedBefore
  <2> QED
    BY <1>2, <1>3, <2>1, <2>2 DEF UntouchedBefore
<1>8. SentIfOk'
  <2> SUFFICES ASSUME NEW j \in Items, verdict'[j] = "ok"
               PROVE  Sent(j)'
    BY DEF SentIfOk
  <2>1. CASE j \in Elements(batch[g])
    <3>1. v = "ok" /\ at[g].m = Len(batch[g]) /\ Sent(i)'
      BY <1>2, <2>1
    <3>2. PICK k \in 1 .. Len(batch[g]) : j = batch[g][k]
      BY <1>1, <2>1 DEF Elements
    <3>3. k < at[g].m => Sent(j) /\ j # i
      BY <1>1, <3>2 DEF ServiceInv, MessagesInOrder
    <3>4. k = at[g].m => j = i
      BY <1>1, <3>2
    <3> QED
      BY <1>1, <1>3, <3>1, <3>2, <3>3, <3>4
  <2>2. CASE j \notin Elements(batch[g])
    <3>1. verdict[j] = "ok" /\ j # i
      BY <1>1, <1>2, <2>2
    <3> QED
      BY <1>1, <1>3, <3>1 DEF ServiceInv, SentIfOk
  <2> QED
    BY <2>1, <2>2
<1> QED
  BY <1>5, <1>6, <1>7, <1>8 DEF ServiceInv

\* What Begins answers has the type of a place.
LEMMA BeginsType ==
    \A i, n : \A m \in Nat : Begins(i, m, n) \in [phase : {"idle"} \cup BlockyPhases, m : Nat]
  BY DEF Begins, BlockyPhases, Uploading

\* The stream of an attachment is opened (blocky.go:173-196).
LEMMA UploadStep ==
    ASSUME IInv, AnswerInv, Judged, ServiceInv, NEW g \in Items, UploadAttachment(g)
    PROVE  ServiceInv'
<1>1. Inside(g, "upload") /\ "upload" \in BlockyPhases /\ "read" \in BlockyPhases
  BY DEF UploadAttachment, BlockyPhases, Uploading
<1>2. PICK i \in Items, m \in 1 .. Len(batch[g]) :
        /\ i = message(g) /\ m = at[g].m /\ at[g] = [phase |-> "upload", m |-> m]
        /\ i = batch[g][m] /\ batch[g] \in Seq(Items) /\ Current(g, i, "upload")
  BY <1>1, InsideFacts
<1>3. /\ UNCHANGED <<driver, position, uploads, calls>> /\ Stay
      /\ at' = [at EXCEPT ![g].phase = "read"] /\ chunks' = [chunks EXCEPT ![g] = << >>]
  BY DEF UploadAttachment, GoTo
<1>4. ServiceTypes /\ at'[g] = [phase |-> "read", m |-> m] /\ chunks'[g] = << >>
  BY <1>2, <1>3 DEF ServiceInv, ServiceTypes
<1>5. ServiceTypes'
  BY <1>1, <1>3, <1>4 DEF ServiceTypes
<1>6. Touches(g, i)
  BY <1>3, <1>4 DEF Touches, ServiceTypes
<1>7. Current(g, i, "read")'
  <2>1. PICK n \in Nat : n = Len(uploads[i])
    BY <1>4 DEF ServiceTypes
  <2>2. /\ n < Len(files[i]) /\ Unread(i, n + 1) /\ Unread(i, n + 2)
        /\ UploadedWhole(i) /\ calls[i] = << >>
    BY <1>2, <2>1 DEF Current, CallsBefore, Uploading
  <2>3. Unshared(i, n + 1) => position[files[i][n + 1]] = 0
    BY <2>2, FilesTypes DEF Unread
  <2>4. Unread(i, n + 2)' /\ UploadedWhole(i)'
    BY <1>3, <2>2 DEF Unread, UploadedWhole
  <2> QED
    BY <1>3, <1>4, <2>1, <2>2, <2>3, <2>4, UpToSeq DEF Current, CallsBefore, Uploading
<1>8. m \in at[g].m .. Len(batch[g]) /\ m =< at[g].m + 1 /\ ~(m > at[g].m)
  BY <1>2
<1> QED
  BY <1>1, <1>2, <1>3, <1>4, <1>5, <1>6, <1>7, <1>8, GoesOn

\* A chunk is read, or the end of the file met (blocky.go:198-220).
LEMMA ReadStep ==
    ASSUME IInv, AnswerInv, Judged, ServiceInv, NEW g \in Items, ReadChunk(g)
    PROVE  ServiceInv'
<1>1. Inside(g, "read") /\ {"read", "closeAndRecv"} \subseteq BlockyPhases
  BY DEF ReadChunk, BlockyPhases, Uploading
<1>2. PICK i \in Items, m \in 1 .. Len(batch[g]) :
        /\ i = message(g) /\ m = at[g].m /\ at[g] = [phase |-> "read", m |-> m]
        /\ i = batch[g][m] /\ batch[g] \in Seq(Items) /\ Current(g, i, "read")
  BY <1>1, InsideFacts
<1>A1. PICK n \in Nat : n = Len(uploads[i])
  BY DEF ServiceInv, ServiceTypes
<1>A2. /\ n < Len(files[i]) /\ Unread(i, n + 2) /\ UploadedWhole(i) /\ calls[i] = << >>
  BY <1>2, <1>A1 DEF Current, CallsBefore, Uploading
<1>A3. PICK f \in DOMAIN fileSize :
        /\ f = attachment(g) /\ f = files[i][n + 1]
        /\ n + 1 \in DOMAIN files[i] /\ fileSize[f] \in Nat
  <2>1. attachment(g) = files[i][n + 1]
    BY <1>2, <1>A1 DEF attachment
  <2>2. n + 1 \in 1 .. Len(files[i])
    BY <1>A2, FilesTypes
  <2> QED
    BY <2>1, <2>2, FilesTypes
<1>3. PICK eof \in BOOLEAN :
        /\ fileSize[f] - position[f] = 0 => eof
        /\ eof => fileSize[f] - position[f] \in {0, 1}
        /\ position' = [position EXCEPT ![f] = IF fileSize[f] - position[f] = 0 THEN @ ELSE @ + 1]
        /\ chunks' = [chunks EXCEPT ![g] = IF fileSize[f] - position[f] = 0 THEN @
                                           ELSE Append(@, position[f] + 1)]
        /\ at' = [at EXCEPT ![g].phase = IF eof THEN "closeAndRecv" ELSE "read"]
        /\ Stay /\ UNCHANGED <<driver, uploads, calls>>
  BY <1>A3 DEF ReadChunk, GoTo
<1>A4. PICK q \in {"read", "closeAndRecv"} : q = IF eof THEN "closeAndRecv" ELSE "read"
  OBVIOUS
<1>4. ServiceTypes /\ at'[g] = [phase |-> q, m |-> m] /\ q \in BlockyPhases
  BY <1>1, <1>2, <1>3, <1>A4 DEF ServiceInv, ServiceTypes
<1>7. /\ position[f] \in Nat /\ position[f] =< fileSize[f]
      /\ position'[f] = IF position[f] = fileSize[f] THEN position[f] ELSE position[f] + 1
      /\ chunks'[g] = IF position[f] = fileSize[f] THEN chunks[g]
                      ELSE Append(chunks[g], position[f] + 1)
      /\ chunks[g] \in Seq(Nat)
      /\ \A e \in DOMAIN fileSize \ {f} : position'[e] = position[e]
      /\ \A h \in Items \ {g} : chunks'[h] = chunks[h]
  <2>1. position[f] \in Nat /\ fileSize[f] \in Nat /\ position[f] =< fileSize[f]
        /\ position \in [DOMAIN fileSize -> Nat] /\ chunks \in [Items -> Seq(Nat)]
    BY <1>4, <1>A3 DEF ServiceTypes
  <2>2. fileSize[f] - position[f] = 0 <=> position[f] = fileSize[f]
    BY <2>1
  <2> QED
    BY <1>3, <2>1, <2>2
<1>8. ServiceTypes'
  <2>1. at' \in [Items -> [phase : {"idle"} \cup BlockyPhases, m : Nat]]
    BY <1>3, <1>4 DEF ServiceTypes
  <2>2. /\ position' \in [DOMAIN fileSize -> Nat]
        /\ \A e \in DOMAIN fileSize : position'[e] =< fileSize[e]
    <3>1. position'[f] \in Nat /\ position'[f] =< fileSize[f]
      BY <1>A3, <1>7
    <3>2. position' \in [DOMAIN fileSize -> Nat]
      BY <1>3, <1>4, <1>7, <3>1 DEF ServiceTypes
    <3> QED
      BY <1>4, <1>7, <3>1, <3>2 DEF ServiceTypes
  <2>3. chunks'[g] \in Seq(Nat)
    BY <1>7, AppendProperties
  <2>4. chunks' \in [Items -> Seq(Nat)]
    BY <1>3, <1>4, <2>3 DEF ServiceTypes
  <2> QED
    BY <1>3, <1>4, <2>1, <2>2, <2>4 DEF ServiceTypes
<1>9. Touches(g, i)
  <2>1. \A h \in Items \ {g} : at'[h] = at[h]
    BY <1>3, <1>4 DEF ServiceTypes
  <2> QED
    BY <1>3, <1>A1, <1>A2, <1>A3, <1>7, <2>1 DEF Touches
<1>10. Current(g, i, q)'
  <2>1. Unread(i, n + 2)'
    <3>1. \A l \in DOMAIN files[i] : l >= n + 2 /\ Unshared(i, l) => files[i][l] # f
      <4> SUFFICES ASSUME NEW l \in DOMAIN files[i], l >= n + 2, Unshared(i, l), files[i][l] = f
                   PROVE  FALSE
        OBVIOUS
      <4>1. n + 1 = l
        BY <1>2, <1>A3 DEF Unshared
      <4> QED
        BY <1>A2, <4>1
    <3>2. \A l \in DOMAIN files[i] : files[i][l] \in DOMAIN fileSize
      BY <1>2, FilesTypes
    <3> QED
      BY <1>A2, <1>7, <3>1, <3>2 DEF Unread
  <2>2. UploadedWhole(i)'
    BY <1>3, <1>A2 DEF UploadedWhole
  <2>3. Unshared(i, n + 1) => /\ chunks'[g] = UpTo(position'[f])
                              /\ q = "closeAndRecv" => position'[f] = fileSize[f]
    <3>1. Unshared(i, n + 1) => chunks[g] = UpTo(position[f])
      BY <1>2, <1>A1, <1>A3 DEF Current
    <3>2. q = "closeAndRecv" => position'[f] = fileSize[f]
      BY <1>3, <1>A3, <1>A4, <1>7
    <3> QED
      BY <1>7, <3>1, <3>2, UpToSeq
  <2>4. uploads' = uploads /\ calls' = calls
    BY <1>3
  <2> QED
    BY <1>A1, <1>A2, <1>A3, <2>1, <2>2, <2>3, <2>4 DEF Current, CallsBefore, Uploading
<1>11. m \in at[g].m .. Len(batch[g]) /\ m =< at[g].m + 1 /\ ~(m > at[g].m)
  BY <1>2
<1> QED
  BY <1>1, <1>2, <1>3, <1>4, <1>8, <1>9, <1>10, <1>11, GoesOn

\* The service has the attachment (blocky.go:222-234).
LEMMA ReceivedStep ==
    ASSUME IInv, AnswerInv, Judged, ServiceInv, NEW g \in Items, CloseAndRecv(g)
    PROVE  ServiceInv'
<1>1. Inside(g, "closeAndRecv") /\ "closeAndRecv" \in BlockyPhases
  BY DEF CloseAndRecv, BlockyPhases, Uploading
<1>2. PICK i \in Items, m \in 1 .. Len(batch[g]) :
        /\ i = message(g) /\ m = at[g].m /\ at[g] = [phase |-> "closeAndRecv", m |-> m]
        /\ i = batch[g][m] /\ batch[g] \in Seq(Items) /\ Current(g, i, "closeAndRecv")
  BY <1>1, InsideFacts
<1>3. PICK n \in Nat : n = Len(uploads[i])
  BY DEF ServiceInv, ServiceTypes
<1>4. /\ n < Len(files[i]) /\ Unread(i, n + 2) /\ UploadedWhole(i) /\ calls[i] = << >>
      /\ Unshared(i, n + 1) => chunks[g] = Whole(files[i][n + 1])
  BY <1>2, <1>3 DEF Current, CallsBefore, Uploading, UpTo, Whole
<1>5. /\ UNCHANGED <<driver, position, calls>> /\ Stay
      /\ uploads' = [uploads EXCEPT ![i] = Append(@, chunks[g])]
      /\ at' = [at EXCEPT ![g] = Begins(i, m, n + 1)]
      /\ chunks' = [chunks EXCEPT ![g] = << >>]
  BY <1>2, <1>3 DEF CloseAndRecv
<1>6. /\ ServiceTypes /\ at'[g] = Begins(i, m, n + 1)
      /\ uploads[i] \in Seq(Seq(Nat)) /\ chunks[g] \in Seq(Nat)
      /\ uploads'[i] = Append(uploads[i], chunks[g])
  BY <1>5 DEF ServiceInv, ServiceTypes
<1>7. /\ Len(uploads'[i]) = n + 1 /\ uploads'[i] \in Seq(Seq(Nat))
      /\ uploads'[i][n + 1] = chunks[g]
      /\ \A k \in 1 .. n : uploads'[i][k] = uploads[i][k]
  BY <1>3, <1>6, AppendProperties
<1>8. ServiceTypes'
  BY <1>5, <1>6, <1>7, BeginsType DEF ServiceTypes
<1>9. Touches(g, i)
  BY <1>5, <1>6 DEF Touches, ServiceTypes
<1>10. UploadedWhole(i)' /\ Unread(i, n + 2)'
  <2>1. \A k \in 1 .. n + 1 : Unshared(i, k) => uploads'[i][k] = Whole(files[i][k])
    <3>1. \A k \in 1 .. n + 1 : k \in 1 .. n \/ k = n + 1
      OBVIOUS
    <3> QED
      BY <1>3, <1>4, <1>7, <3>1 DEF UploadedWhole
  <2> QED
    BY <1>4, <1>5, <1>7, <2>1 DEF UploadedWhole, Unread
<1>11. ServiceTypes' => BeginsWell'
  BY BeginsRight, PTL
<1>12. PICK q \in BlockyPhases : Begins(i, m, n + 1) = [phase |-> q, m |-> m] /\ Current(g, i, q)'
  <2>1. /\ n + 1 = Len(uploads'[i]) /\ n + 1 =< Len(files[i]) /\ n + 2 = (n + 1) + 1
        /\ calls'[i] = << >> /\ n + 1 \in Nat /\ n + 2 \in Nat /\ m \in Nat
    BY <1>3, <1>4, <1>5, <1>7, FilesTypes
  <2> QED
    BY <1>8, <1>10, <1>11, <2>1 DEF BeginsWell
<1>13. m \in at[g].m .. Len(batch[g]) /\ m =< at[g].m + 1 /\ ~(m > at[g].m)
  BY <1>2
<1> QED
  BY <1>1, <1>2, <1>5, <1>6, <1>8, <1>9, <1>12, <1>13, GoesOn

\* BeforeSend was called (blocky.go:76-80).
LEMMA BeforeStep ==
    ASSUME IInv, AnswerInv, Judged, ServiceInv, NEW g \in Items, BeforeSend(g)
    PROVE  ServiceInv'
<1>1. Inside(g, "beforeSend") /\ {"beforeSend", "sendMessage"} \subseteq BlockyPhases
  BY DEF BeforeSend, BlockyPhases
<1>2. PICK i \in Items, m \in 1 .. Len(batch[g]) :
        /\ i = message(g) /\ m = at[g].m /\ at[g] = [phase |-> "beforeSend", m |-> m]
        /\ i = batch[g][m] /\ batch[g] \in Seq(Items) /\ Current(g, i, "beforeSend")
  BY <1>1, InsideFacts
<1>3. /\ UNCHANGED <<driver, chunks, position, uploads>> /\ Stay
      /\ calls' = [calls EXCEPT ![i] = Append(@, "before")]
      /\ at' = [at EXCEPT ![g].phase = "sendMessage"]
  BY <1>2 DEF BeforeSend, Log, GoTo
<1>4. ServiceTypes /\ at'[g] = [phase |-> "sendMessage", m |-> m]
  BY <1>2, <1>3 DEF ServiceInv, ServiceTypes
<1>5. /\ calls[i] = << >> /\ i \in Hooked /\ UploadedWhole(i) /\ Len(uploads[i]) = Len(files[i])
      /\ calls'[i] = <<"before">>
  BY <1>2, <1>3, <1>4 DEF Current, CallsBefore, Uploading, ServiceTypes
<1>6. ServiceTypes'
  BY <1>1, <1>3, <1>4, <1>5 DEF ServiceTypes
<1>7. Touches(g, i)
  BY <1>3, <1>4 DEF Touches, ServiceTypes
<1>8. Current(g, i, "sendMessage")'
  BY <1>3, <1>5 DEF Current, CallsBefore, Uploading, UploadedWhole
<1>9. m \in at[g].m .. Len(batch[g]) /\ m =< at[g].m + 1 /\ ~(m > at[g].m)
  BY <1>2
<1> QED
  BY <1>1, <1>2, <1>3, <1>4, <1>6, <1>7, <1>8, <1>9, GoesOn

\* SendBatch is through with message i: the next one is untouched, or this was
\* the last (blocky.go:63-66, 104-107).
LEMMA MovesOn ==
    ASSUME IInv, AnswerInv, Judged, ServiceInv, ServiceTypes,
           NEW g \in Items, NEW p \in BlockyPhases, Inside(g, p),
           NEW i \in Items, i = message(g), NextMessage(g),
           UNCHANGED <<driver, chunks, position, uploads>>,
           NEW c \in {"sent", "after"}, calls' = [calls EXCEPT ![i] = Append(@, c)],
           Sent(i)'
    PROVE  ServiceInv'
<1>1. PICK m \in 1 .. Len(batch[g]) :
        /\ m = at[g].m /\ i = batch[g][m]
        /\ batch[g] \in Seq(Items) /\ Len(batch[g]) \in Nat
        /\ \A k \in 1 .. Len(batch[g]) : batch[g][k] = i => k = m
        /\ driver = "blocky" /\ pc[g] = "calling"
  <2>1. /\ at[g].m \in 1 .. Len(batch[g]) /\ i = batch[g][at[g].m]
        /\ batch[g] \in Seq(Items) /\ Len(batch[g]) \in Nat
        /\ \A k \in 1 .. Len(batch[g]) : batch[g][k] = i => k = at[g].m
        /\ driver = "blocky" /\ pc[g] = "calling"
    BY InsideFacts
  <2> QED
    BY <2>1
<1>2. at' \in [Items -> [phase : {"idle"} \cup BlockyPhases, m : Nat]]
      /\ \A h \in Items \ {g} : at'[h] = at[h]
  <2>1. \/ at' = [at EXCEPT ![g] = Idle]
        \/ at' = [at EXCEPT ![g] = Begins(batch[g][m + 1], m + 1, 0)]
    BY <1>1 DEF NextMessage, Return
  <2>2. /\ Idle \in [phase : {"idle"} \cup BlockyPhases, m : Nat]
        /\ Begins(batch[g][m + 1], m + 1, 0) \in [phase : {"idle"} \cup BlockyPhases, m : Nat]
    BY BeginsType DEF Idle
  <2> QED
    BY <2>1, <2>2 DEF ServiceTypes
<1>3. calls' \in [Items -> Seq({"before", "sent", "after"})]
  BY DEF ServiceTypes
<1>4. ServiceTypes'
  BY <1>2, <1>3 DEF ServiceTypes
<1>5. Touches(g, i)
  BY <1>2 DEF Touches, ServiceTypes
<1>6. CASE m + 1 > Len(batch[g])
  <2>1. HandlerReturns(g, "ok") /\ at' = [at EXCEPT ![g] = Idle]
    BY <1>1, <1>6 DEF NextMessage, Return
  <2>2. at'[g] = Idle /\ m = Len(batch[g]) /\ "ok" \in Verdicts
    BY <1>1, <1>6, <2>1 DEF ServiceTypes, Verdicts
  <2>3. CallsSoFar'
    <3>1. \A j \in Items \ {i} : calls'[j] = calls[j]
      BY DEF ServiceTypes
    <3>2. calls'[i] = IF i \in Hooked THEN <<"before", "sent", "after">> ELSE <<"sent">>
      BY DEF Sent, AllCalls
    <3> QED
      BY <3>1, <3>2 DEF ServiceInv, CallsSoFar
  <2> QED
    BY <1>1, <1>4, <1>5, <2>1, <2>2, <2>3, GoesBack
<1>7. CASE ~(m + 1 > Len(batch[g]))
  <2>1. PICK n \in Items : n = batch[g][m + 1]
    BY <1>1, <1>7
  <2>2. m + 1 \in 1 .. Len(batch[g]) /\ n # i
    BY <1>1, <1>7, <2>1
  <2>3. /\ Stay /\ at' = [at EXCEPT ![g] = Begins(n, m + 1, 0)]
        /\ at'[g] = Begins(n, m + 1, 0)
    BY <1>1, <1>7, <2>1 DEF NextMessage, ServiceTypes
  <2>4. Untouched(n)
    BY <1>1, <2>1, <2>2 DEF ServiceInv, MessagesInOrder
  <2>5. Untouched(n)'
    BY <1>5, <2>2, <2>4, OthersKept
  <2>6. ServiceTypes' => BeginsWell'
    BY BeginsRight, PTL
  <2>7. PICK q \in BlockyPhases :
          Begins(n, m + 1, 0) = [phase |-> q, m |-> m + 1] /\ Current(g, n, q)'
    <3>1. /\ 0 = Len(uploads'[n]) /\ 0 =< Len(files[n]) /\ 1 = 0 + 1
          /\ calls'[n] = << >> /\ UploadedWhole(n)' /\ Unread(n, 1)'
      BY <2>5, FilesTypes DEF Untouched, UploadedWhole
    <3>2. m + 1 \in Nat /\ 0 \in Nat /\ 1 \in Nat
      OBVIOUS
    <3> QED
      BY <1>4, <2>6, <3>1, <3>2 DEF BeginsWell
  <2>8. m + 1 \in at[g].m .. Len(batch[g]) /\ m + 1 =< at[g].m + 1
    BY <1>1, <2>2
  <2> QED
    BY <1>1, <1>4, <1>5, <2>1, <2>2, <2>3, <2>7, <2>8, GoesOn
<1> QED
  BY <1>6, <1>7

-----------------------------------------------------------------------------
(* The calls made for a message, spelled out.                              *)

\* Sequences of up to three elements.
LEMMA Spelled ==
    ASSUME NEW S, NEW s \in Seq(S)
    PROVE  /\ Len(s) = 0 => s = << >>
           /\ Len(s) = 1 => s = <<s[1]>>
           /\ Len(s) = 2 => s = <<s[1], s[2]>>
           /\ Len(s) = 3 => s = <<s[1], s[2], s[3]>>
<1>1. Len(s) = 0 => s = << >>
  BY EmptySeq
<1>2. ASSUME Len(s) = 1
      PROVE  s = <<s[1]>>
  <2>1. <<s[1]>> \in Seq(S) /\ Len(<<s[1]>>) = 1 /\ <<s[1]>>[1] = s[1]
    BY <1>2
  <2>2. \A k \in 1 .. 1 : k = 1
    OBVIOUS
  <2> QED
    BY <1>2, <2>1, <2>2, SeqEqual
<1>3. ASSUME Len(s) = 2
      PROVE  s = <<s[1], s[2]>>
  <2>1. /\ <<s[1], s[2]>> \in Seq(S) /\ Len(<<s[1], s[2]>>) = 2
        /\ <<s[1], s[2]>>[1] = s[1] /\ <<s[1], s[2]>>[2] = s[2]
    <3>1. s[1] \in S /\ s[2] \in S
      BY <1>3, ElementOfSeq
    <3>2. \A a \in S, b \in S : <<a, b>> \in Seq(S) /\ Len(<<a, b>>) = 2
      OBVIOUS
    <3> QED
      BY <3>1, <3>2
  <2>2. \A k \in 1 .. 2 : k = 1 \/ k = 2
    OBVIOUS
  <2> QED
    BY <1>3, <2>1, <2>2, SeqEqual
<1>4. ASSUME Len(s) = 3
      PROVE  s = <<s[1], s[2], s[3]>>
  <2>1. /\ <<s[1], s[2], s[3]>> \in Seq(S) /\ Len(<<s[1], s[2], s[3]>>) = 3
        /\ <<s[1], s[2], s[3]>>[1] = s[1] /\ <<s[1], s[2], s[3]>>[2] = s[2]
        /\ <<s[1], s[2], s[3]>>[3] = s[3]
    BY <1>4
  <2>2. \A k \in 1 .. 3 : k = 1 \/ k = 2 \/ k = 3
    OBVIOUS
  <2> QED
    BY <1>4, <2>1, <2>2, SeqEqual
<1> QED
  BY <1>1, <1>2, <1>3, <1>4

\* The calls for a message, one after the other.
LEMMA Appended ==
    /\ Append(<< >>, "before") = <<"before">>
    /\ Append(<< >>, "sent") = <<"sent">>
    /\ Append(<<"before">>, "sent") = <<"before", "sent">>
    /\ Append(<<"before", "sent">>, "after") = <<"before", "sent", "after">>
<1> DEFINE C == {"before", "sent", "after"}
           s == Append(<<"before">>, "sent")
           t == Append(<<"before", "sent">>, "after")
<1>1. Append(<< >>, "before") = <<"before">> /\ Append(<< >>, "sent") = <<"sent">>
  OBVIOUS
<1>2. s \in Seq(C) /\ Len(s) = 2 /\ s[1] = "before" /\ s[2] = "sent"
  BY AppendProperties
<1>3. t \in Seq(C) /\ Len(t) = 3 /\ t[1] = "before" /\ t[2] = "sent" /\ t[3] = "after"
  BY AppendProperties
<1>4. s = <<s[1], s[2]>> /\ t = <<t[1], t[2], t[3]>>
  <2> HIDE DEF C, s, t
  <2> QED
    BY <1>2, <1>3, Spelled
<1> QED
  BY <1>1, <1>2, <1>3, <1>4

\* The prefixes of all the calls for a message.
LEMMA Prefixes ==
    /\ SubSeq(<<"before", "sent", "after">>, 1, 0) = << >>
    /\ SubSeq(<<"before", "sent", "after">>, 1, 1) = <<"before">>
    /\ SubSeq(<<"before", "sent", "after">>, 1, 2) = <<"before", "sent">>
    /\ SubSeq(<<"before", "sent", "after">>, 1, 3) = <<"before", "sent", "after">>
    /\ SubSeq(<<"sent">>, 1, 0) = << >> /\ SubSeq(<<"sent">>, 1, 1) = <<"sent">>
<1> DEFINE C == {"before", "sent", "after"}
           all == <<"before", "sent", "after">>
           one == <<"sent">>
           p(n) == SubSeq(all, 1, n)
<1>1. /\ \A i \in 1 .. 3 : all[i] \in C
      /\ all[1] = "before" /\ all[2] = "sent" /\ all[3] = "after" /\ one[1] = "sent"
      /\ \A i \in 1 .. 1 : one[i] \in C
  OBVIOUS
<1> HIDE DEF C, all, one
<1>2. \A n \in 0 .. 3 : /\ p(n) \in Seq(C) /\ Len(p(n)) = n
                        /\ \A i \in 1 .. n : p(n)[i] = all[i]
  <2> SUFFICES ASSUME NEW n \in 0 .. 3
               PROVE  /\ p(n) \in Seq(C) /\ Len(p(n)) = n
                      /\ \A i \in 1 .. n : p(n)[i] = all[i]
    OBVIOUS
  <2>1. \A i \in 1 .. n : all[i] \in C
    BY <1>1
  <2>2. /\ p(n) \in Seq(C) /\ Len(p(n)) = IF 1 =< n THEN n - 1 + 1 ELSE 0
        /\ \A i \in 1 .. n - 1 + 1 : p(n)[i] = all[1 + i - 1]
    BY <2>1, SubSeqProperties
  <2>3. n - 1 + 1 = n /\ \A i \in 1 .. n : 1 + i - 1 = i
    OBVIOUS
  <2> QED
    BY <2>2, <2>3
<1>3. SubSeq(one, 1, 0) = << >>
  BY SubSeqEmpty
<1>4. SubSeq(one, 1, 1) \in Seq(C) /\ Len(SubSeq(one, 1, 1)) = 1 /\ SubSeq(one, 1, 1)[1] = one[1]
  BY <1>1, SubSeqProperties
<1>5. SubSeq(one, 1, 1) = <<"sent">>
  BY <1>1, <1>4, Spelled
<1>6. p(0) \in Seq(C) /\ Len(p(0)) = 0
  BY <1>2
<1>7. p(1) \in Seq(C) /\ Len(p(1)) = 1 /\ p(1)[1] = "before"
  BY <1>1, <1>2
<1>8. p(2) \in Seq(C) /\ Len(p(2)) = 2 /\ p(2)[1] = "before" /\ p(2)[2] = "sent"
  BY <1>1, <1>2
<1>9. p(3) \in Seq(C) /\ Len(p(3)) = 3 /\ p(3)[1] = "before" /\ p(3)[2] = "sent" /\ p(3)[3] = "after"
  BY <1>1, <1>2
<1>10. /\ p(0) = << >> /\ p(1) = <<"before">> /\ p(2) = <<"before", "sent">>
       /\ p(3) = <<"before", "sent", "after">>
  <2> HIDE DEF p
  <2>1. p(0) = << >>
    BY <1>6, Spelled
  <2>2. p(1) = <<"before">>
    BY <1>7, Spelled
  <2>3. p(2) = <<"before", "sent">>
    BY <1>8, Spelled
  <2>4. p(3) = <<"before", "sent", "after">>
    BY <1>9, Spelled
  <2> QED
    BY <2>1, <2>2, <2>3, <2>4
<1> QED
  BY <1>3, <1>5, <1>10 DEF all, one

-----------------------------------------------------------------------------
(* Further steps of SendBatch.                                             *)

\* The service has the message: on to AfterSend or to the next message
\* (blocky.go:82-97).
LEMMA SentStep ==
    ASSUME IInv, AnswerInv, Judged, ServiceInv, NEW g \in Items, SendMessage(g)
    PROVE  ServiceInv'
<1>1. Inside(g, "sendMessage") /\ {"sendMessage", "afterSend"} \subseteq BlockyPhases
  BY DEF SendMessage, BlockyPhases
<1>2. PICK i \in Items, m \in 1 .. Len(batch[g]) :
        /\ i = message(g) /\ m = at[g].m /\ at[g] = [phase |-> "sendMessage", m |-> m]
        /\ i = batch[g][m] /\ batch[g] \in Seq(Items) /\ Current(g, i, "sendMessage")
  BY <1>1, InsideFacts
<1>3. /\ UNCHANGED <<driver, chunks, position, uploads>> /\ ServiceTypes
      /\ calls' = [calls EXCEPT ![i] = Append(@, "sent")]
  BY <1>2 DEF SendMessage, Log, ServiceInv
<1>4. /\ UploadedWhole(i) /\ Len(uploads[i]) = Len(files[i])
      /\ calls'[i] = IF i \in Hooked THEN <<"before", "sent">> ELSE <<"sent">>
  <2>1. /\ UploadedWhole(i) /\ Len(uploads[i]) = Len(files[i])
        /\ calls[i] = IF i \in Hooked THEN <<"before">> ELSE << >>
    BY <1>2, <1>3 DEF Current, CallsBefore, Uploading
  <2>2. calls'[i] = Append(calls[i], "sent")
    BY <1>3 DEF ServiceTypes
  <2> QED
    BY <2>1, <2>2, Appended
<1>5. CASE i \in Hooked
  <2>1. Stay /\ at' = [at EXCEPT ![g].phase = "afterSend"]
    BY <1>2, <1>5 DEF SendMessage, GoTo
  <2>2. at'[g] = [phase |-> "afterSend", m |-> m]
    BY <1>2, <1>3, <2>1 DEF ServiceTypes
  <2>3. ServiceTypes'
    <3>1. calls' \in [Items -> Seq({"before", "sent", "after"})]
      BY <1>3 DEF ServiceTypes
    <3> QED
      BY <1>1, <1>3, <2>1, <2>2, <3>1 DEF ServiceTypes
  <2>4. Touches(g, i)
    BY <1>3, <2>1 DEF Touches, ServiceTypes
  <2>5. Current(g, i, "afterSend")'
    BY <1>3, <1>4, <1>5 DEF Current, CallsBefore, Uploading, UploadedWhole
  <2>6. m \in at[g].m .. Len(batch[g]) /\ m =< at[g].m + 1 /\ ~(m > at[g].m)
    BY <1>2
  <2> QED
    BY <1>1, <1>2, <2>1, <2>2, <2>3, <2>4, <2>5, <2>6, GoesOn
<1>6. CASE i \notin Hooked
  <2>1. NextMessage(g)
    BY <1>2, <1>6 DEF SendMessage
  <2>2. Sent(i)'
    BY <1>3, <1>4, <1>6 DEF Sent, AllCalls, UploadedWhole
  <2> QED
    BY <1>1, <1>2, <1>3, <2>1, <2>2, MovesOn
<1> QED
  BY <1>5, <1>6

\* AfterSend was called (blocky.go:98-104).
LEMMA AfterStep ==
    ASSUME IInv, AnswerInv, Judged, ServiceInv, NEW g \in Items, AfterSend(g)
    PROVE  ServiceInv'
<1>1. Inside(g, "afterSend") /\ "afterSend" \in BlockyPhases
  BY DEF AfterSend, BlockyPhases
<1>2. PICK i \in Items : i = message(g) /\ Current(g, i, "afterSend")
  BY <1>1, InsideFacts
<1>3. /\ UNCHANGED <<driver, chunks, position, uploads>> /\ ServiceTypes
      /\ calls' = [calls EXCEPT ![i] = Append(@, "after")] /\ NextMessage(g)
  BY <1>2 DEF AfterSend, Log, ServiceInv
<1>4. Sent(i)'
  <2>1. /\ UploadedWhole(i) /\ Len(uploads[i]) = Len(files[i]) /\ i \in Hooked
        /\ calls[i] = <<"before", "sent">>
    BY <1>2 DEF Current, CallsBefore, Uploading
  <2>2. calls'[i] = <<"before", "sent", "after">>
    <3>1. calls'[i] = Append(calls[i], "after")
      BY <1>3 DEF ServiceTypes
    <3> QED
      BY <2>1, <3>1, Appended
  <2> QED
    BY <1>3, <2>1, <2>2 DEF Sent, AllCalls, UploadedWhole
<1> QED
  BY <1>1, <1>2, <1>3, <1>4, MovesOn

\* A call fails, and SendBatch gives up (blocky.go:66-102).
LEMMA FailStep ==
    ASSUME IInv, AnswerInv, Judged, ServiceInv, NEW g \in Items, CallFails(g)
    PROVE  ServiceInv'
<1>1. PICK p \in BlockyPhases : Inside(g, p)
  BY DEF CallFails
<1>2. PICK i \in Items : i = message(g) /\ Current(g, i, p) /\ p = at[g].phase
  BY <1>1, InsideFacts
<1>3. /\ HandlerReturns(g, "failed") /\ at' = [at EXCEPT ![g] = Idle]
      /\ chunks' = [chunks EXCEPT ![g] = << >>]
      /\ UNCHANGED <<driver, position, uploads>> /\ ServiceTypes
  BY DEF CallFails, Return, ServiceInv
<1>4. PICK c \in {"none", "before", "after"} :
        /\ c = IF p = "beforeSend" THEN "before" ELSE IF p = "afterSend" THEN "after" ELSE "none"
        /\ IF c = "none" THEN UNCHANGED calls ELSE calls' = [calls EXCEPT ![i] = Append(@, c)]
  <2>1. /\ p = "beforeSend" => Log(g, "before")
        /\ p = "afterSend" => Log(g, "after")
        /\ p # "beforeSend" /\ p # "afterSend" => UNCHANGED calls
    BY <1>2 DEF CallFails
  <2>2. \A d : Log(g, d) => calls' = [calls EXCEPT ![i] = Append(@, d)]
    BY <1>2 DEF Log
  <2> QED
    BY <2>1, <2>2
<1>5. calls' \in [Items -> Seq({"before", "sent", "after"})]
  <2>1. ASSUME c # "none"
        PROVE  Append(calls[i], c) \in Seq({"before", "sent", "after"})
    BY <1>3, <2>1, AppendProperties DEF ServiceTypes
  <2> QED
    BY <1>3, <1>4, <2>1 DEF ServiceTypes
<1>6. ServiceTypes' /\ at'[g] = Idle
  <2>1. Idle \in [phase : {"idle"} \cup BlockyPhases, m : Nat]
    BY DEF Idle
  <2>2. at'[g] = Idle /\ at' \in [Items -> [phase : {"idle"} \cup BlockyPhases, m : Nat]]
    BY <1>3, <2>1 DEF ServiceTypes
  <2>3. chunks' \in [Items -> Seq(Nat)]
    BY <1>3 DEF ServiceTypes
  <2> QED
    BY <1>3, <1>5, <2>2, <2>3 DEF ServiceTypes
<1>7. Touches(g, i)
  <2>1. \A j \in Items \ {i} : calls'[j] = calls[j]
    BY <1>3, <1>4 DEF ServiceTypes
  <2> QED
    BY <1>3, <2>1 DEF Touches, ServiceTypes
<1>8. CallsSoFar'
  <2>1. \A j \in Items \ {i} : calls'[j] = calls[j]
    BY <1>3, <1>4 DEF ServiceTypes
  <2>2. /\ p = "beforeSend" => i \in Hooked /\ calls[i] = << >>
        /\ p = "afterSend" => i \in Hooked /\ calls[i] = <<"before", "sent">>
    BY <1>2 DEF Current, CallsBefore
  <2>3. \/ calls'[i] = calls[i]
        \/ i \in Hooked /\ calls'[i] = <<"before">>
        \/ i \in Hooked /\ calls'[i] = <<"before", "sent", "after">>
    <3>1. calls'[i] = IF c = "none" THEN calls[i] ELSE Append(calls[i], c)
      BY <1>3, <1>4 DEF ServiceTypes
    <3> QED
      BY <1>4, <2>2, <3>1, Appended
  <2> QED
    BY <2>1, <2>3 DEF ServiceInv, CallsSoFar
<1>9. "failed" \in Verdicts /\ "failed" # "ok"
  BY DEF Verdicts
<1> QED
  BY <1>1, <1>2, <1>3, <1>6, <1>7, <1>8, <1>9, GoesBack
-----------------------------------------------------------------------------
(* Steps of the batcher and of the sender.                                 *)

\* The batcher calls SendBatch, which comes to its first message.
LEMMA CallStep ==
    ASSUME IInv, BatchBounds, ServiceInv, NEW g \in Items, BlockyCall(g)
    PROVE  ServiceInv'
<1>1. /\ pc[g] = "ready" /\ UNCHANGED <<batch, taken, verdict>> /\ pc \in [Items -> Phases]
      /\ \A h \in Items : pc'[h] = IF h = g THEN "calling" ELSE pc[h]
      /\ UNCHANGED <<driver, chunks, position, uploads, calls>>
      /\ at' = IF driver = "any" THEN at ELSE [at EXCEPT ![g] = Begins(Head(batch[g]), 1, 0)]
  BY DEF BlockyCall, CallHandler, history, IInv, TypeOK
<1>2. /\ ServiceTypes /\ InBatch /\ MessagesInOrder /\ UntouchedBefore /\ SentIfOk /\ CallsSoFar
      /\ at \in [Items -> [phase : {"idle"} \cup BlockyPhases, m : Nat]]
  BY DEF ServiceInv, ServiceTypes
<1>3. ServiceTypes'
  BY <1>1, <1>2, BeginsType DEF ServiceTypes
<1>4. \A j \in Items : /\ Untouched(j) => Untouched(j)'
                       /\ Sent(j) => Sent(j)'
  BY <1>1 DEF Untouched, Sent, Unread, UploadedWhole
<1>5. \A j \in Items, h \in Items, r \in BlockyPhases : Current(h, j, r) => Current(h, j, r)'
  BY <1>1 DEF Current, Unread, UploadedWhole
<1>6. PICK i \in Items : /\ i = batch[g][1] /\ i = Head(batch[g]) /\ Untouched(i)
                         /\ Len(batch[g]) \in Nat /\ 1 =< Len(batch[g])
  <2>1. batch[g] \in Seq(Items) /\ Len(batch[g]) > 0
    BY <1>1 DEF BatchBounds, IInv, TypeOK
  <2>2. batch[g][1] \in Elements(batch[g]) /\ batch[g][1] \in Items
    BY <2>1 DEF Elements
  <2>3. Head(batch[g]) = batch[g][1]
    BY <2>1
  <2>4. Untouched(batch[g][1])
    BY <1>1, <1>2, <2>2 DEF UntouchedBefore
  <2>5. PICK i \in Items : i = batch[g][1]
    BY <2>2
  <2> QED
    BY <2>1, <2>3, <2>4, <2>5
<1>7. driver = "blocky" =>
        \E q \in BlockyPhases : at'[g] = [phase |-> q, m |-> 1] /\ Current(g, i, q)'
  <2>1. ServiceTypes' => BeginsWell'
    BY BeginsRight, PTL
  <2>2. /\ 0 = Len(uploads'[i]) /\ 0 =< Len(files[i]) /\ 1 = 0 + 1
        /\ calls'[i] = << >> /\ UploadedWhole(i)' /\ Unread(i, 1)' /\ 0 \in Nat /\ 1 \in Nat
    BY <1>4, <1>6, FilesTypes DEF Untouched, UploadedWhole
  <2>3. driver = "blocky" => at'[g] = Begins(i, 1, 0)
    BY <1>1, <1>2, <1>6
  <2>4. PICK q \in BlockyPhases : Begins(i, 1, 0) = [phase |-> q, m |-> 1] /\ Current(g, i, q)'
    BY <1>3, <2>1, <2>2 DEF BeginsWell
  <2> QED
    BY <2>3, <2>4
<1>8. /\ \A h \in Items \ {g} : at'[h] = at[h]
      /\ driver # "blocky" => at' = at
  BY <1>1, <1>2 DEF ServiceTypes
<1>9. InBatch'
  <2>1. ASSUME driver = "blocky"
        PROVE  at'[g].phase \in BlockyPhases /\ at'[g].m \in 1 .. Len(batch[g])
    <3>1. PICK q \in BlockyPhases : at'[g] = [phase |-> q, m |-> 1]
      BY <1>7, <2>1
    <3> QED
      BY <1>6, <3>1
  <2>2. at[g] = Idle
    BY <1>1, <1>2 DEF InBatch
  <2> QED
    BY <1>1, <1>2, <1>8, <2>1, <2>2 DEF InBatch
<1>10. MessagesInOrder'
  <2> SUFFICES ASSUME NEW h \in Items, driver = "blocky", pc'[h] = "calling", NEW j \in Items
               PROVE  /\ \A r \in BlockyPhases : j = batch[h][at'[h].m] /\ r = at'[h].phase =>
                           Current(h, j, r)'
                      /\ \A k \in 1 .. Len(batch[h]) : j = batch[h][k] =>
                           /\ k < at'[h].m => Sent(j)'
                           /\ k > at'[h].m => Untouched(j)'
    BY <1>1 DEF MessagesInOrder, message
  <2>1. CASE h = g
    <3>1. \A k \in 1 .. Len(batch[g]) : j = batch[g][k] => Untouched(j)'
      <4>1. \A k \in 1 .. Len(batch[g]) : batch[g][k] \in Elements(batch[g])
        BY DEF Elements
      <4> QED
        BY <1>1, <1>2, <1>4, <4>1 DEF UntouchedBefore
    <3>2. PICK q \in BlockyPhases : at'[g] = [phase |-> q, m |-> 1] /\ Current(g, i, q)'
      BY <1>7
    <3>3. at'[g].m = 1 /\ at'[g].phase = q
      BY <3>2
    <3> QED
      BY <1>6, <2>1, <3>1, <3>2, <3>3
  <2>2. CASE h # g
    <3>1. pc[h] = "calling" /\ at'[h] = at[h]
      BY <1>1, <1>8, <2>2
    <3>2. /\ \A r \in BlockyPhases : j = batch[h][at[h].m] /\ r = at[h].phase => Current(h, j, r)
          /\ \A k \in 1 .. Len(batch[h]) : j = batch[h][k] =>
               /\ k < at[h].m => Sent(j)
               /\ k > at[h].m => Untouched(j)
      BY <1>2, <3>1 DEF MessagesInOrder, message
    <3> QED
      BY <1>4, <1>5, <3>1, <3>2
  <2> QED
    BY <2>1, <2>2
<1>11. UntouchedBefore'
  <2>1. \A h \in Items : Elements(batch[h]) \subseteq Items
    BY ElementOfSeq DEF Elements, IInv, TypeOK
  <2> QED
    BY <1>1, <1>2, <1>4, <2>1 DEF UntouchedBefore
<1>12. SentIfOk' /\ CallsSoFar'
  BY <1>1, <1>2, <1>4 DEF SentIfOk, CallsSoFar
<1> QED
  BY <1>3, <1>9, <1>10, <1>11, <1>12 DEF ServiceInv

\* No other step touches the driver, or gives a verdict on its behalf.
LEMMA OtherSteps ==
    ASSUME IInv, IInv', ServiceInv, BatchesMove, UNCHANGED blockyVars,
           \A g \in Items : pc'[g] = "calling" => pc[g] = "calling",
           driver = "blocky" => /\ UNCHANGED verdict
                                /\ \A g \in Items : pc[g] = "calling" => pc'[g] = "calling"
    PROVE  ServiceInv'
<1>1. /\ UNCHANGED <<driver, at, chunks, position, uploads, calls>>
      /\ ServiceTypes /\ InBatch /\ MessagesInOrder /\ UntouchedBefore /\ SentIfOk /\ CallsSoFar
  BY DEF blockyVars, ServiceInv
<1>2. ServiceTypes' /\ CallsSoFar'
  BY <1>1 DEF ServiceTypes, CallsSoFar
<1>3. \A j \in Items : /\ Untouched(j) => Untouched(j)'
                       /\ Sent(j) => Sent(j)'
  BY <1>1 DEF Untouched, Sent, Unread, UploadedWhole
<1>4. \A j \in Items, h \in Items, r \in BlockyPhases : Current(h, j, r) => Current(h, j, r)'
  BY <1>1 DEF Current, Unread, UploadedWhole
<1>5. \A h \in Items : pc'[h] = "calling" => pc[h] = "calling" /\ batch'[h] = batch[h]
  BY DEF BatchesMove
<1>6. InBatch'
  BY <1>1, <1>5 DEF InBatch
<1>7. MessagesInOrder'
  <2> SUFFICES ASSUME NEW h \in Items, driver = "blocky", pc'[h] = "calling", NEW j \in Items
               PROVE  /\ \A r \in BlockyPhases : j = batch'[h][at[h].m] /\ r = at[h].phase =>
                           Current(h, j, r)'
                      /\ \A k \in 1 .. Len(batch'[h]) : j = batch'[h][k] =>
                           /\ k < at[h].m => Sent(j)'
                           /\ k > at[h].m => Untouched(j)'
    BY <1>1 DEF MessagesInOrder, message
  <2>1. /\ \A r \in BlockyPhases : j = batch[h][at[h].m] /\ r = at[h].phase => Current(h, j, r)
        /\ \A k \in 1 .. Len(batch[h]) : j = batch[h][k] =>
             /\ k < at[h].m => Sent(j)
             /\ k > at[h].m => Untouched(j)
    BY <1>1, <1>5 DEF MessagesInOrder, message
  <2> QED
    BY <1>3, <1>4, <1>5, <2>1
<1>8. UntouchedBefore'
  <2>1. \A h \in Items : Elements(batch'[h]) \subseteq Items
    BY ElementOfSeq DEF Elements, IInv, TypeOK
  <2>2. ASSUME NEW h \in Items, pc'[h] = "ready", NEW j \in Elements(batch'[h])
        PROVE  Untouched(j)'
    <3>1. Untouched(j)
      BY <1>1, <2>1, <2>2 DEF BatchesMove, UntouchedBefore
    <3> QED
      BY <1>3, <2>1, <3>1
  <2>3. \A j \in Items : j \notin Elements(taken') => Untouched(j)'
    BY <1>1, <1>3 DEF BatchesMove, UntouchedBefore
  <2> QED
    BY <2>2, <2>3 DEF UntouchedBefore
<1>9. SentIfOk'
  BY <1>1, <1>3 DEF SentIfOk
<1> QED
  BY <1>2, <1>6, <1>7, <1>8, <1>9 DEF ServiceInv

\* The driver's invariant holds at the start, and every step keeps it.
LEMMA InitServiceInv == BlockyInit => ServiceInv
<1> SUFFICES ASSUME BlockyInit
             PROVE  ServiceInv
  OBVIOUS
<1>1. /\ driver \in {"any", "blocky"} /\ at = [g \in Items |-> Idle]
      /\ chunks = [g \in Items |-> << >>] /\ position = [f \in DOMAIN fileSize |-> 0]
      /\ uploads = [i \in Items |-> << >>] /\ calls = [i \in Items |-> << >>]
      /\ \A g \in Items : pc[g] = "none" /\ verdict[g] = "none"
  BY DEF BlockyInit, SenderInit, Init
<1>2. ServiceTypes
  BY <1>1, FilesTypes, FilesAssumption DEF ServiceTypes, Idle
<1>3. \A i \in Items : Untouched(i)
  BY <1>1, FilesTypes DEF Untouched, Unread
<1> QED
  BY <1>1, <1>2, <1>3
     DEF ServiceInv, InBatch, MessagesInOrder, UntouchedBefore, SentIfOk, CallsSoFar

\* Every step keeps the invariant of the driver.
LEMMA NextServiceInv ==
    ASSUME IInv, IInv', AnswerInv, BatchBounds, Judged, ServiceInv, [BlockyNext]_everything
    PROVE  ServiceInv'
<1>1. BatchesMove
  <2>1. [SenderNext]_allVars
    BY BlockyStep
  <2>2. [Next]_vars
    BY <2>1, SenderStepsBatcher
  <2> QED
    BY <2>2, NextMoves
<1>2. pc \in [Items -> Phases]
  BY DEF IInv, TypeOK
<1>3. ASSUME NEW g \in Items, SendBatchStep(g)
      PROVE  ServiceInv'
  BY <1>3, UploadStep, ReadStep, ReceivedStep, BeforeStep, SentStep, AfterStep, FailStep
     DEF SendBatchStep
<1>4. ASSUME NEW g \in Items, driver = "any", NEW v \in Verdicts, HandlerReturns(g, v),
             UNCHANGED blockyVars
      PROVE  ServiceInv'
  <2>1. \A h \in Items : pc'[h] = "calling" => pc[h] = "calling"
    BY <1>2, <1>4 DEF HandlerReturns
  <2> QED
    BY <1>1, <1>4, <2>1, OtherSteps
<1>5. ASSUME UNCHANGED blockyVars, UNCHANGED verdict,
             \A h \in Items : pc'[h] = "calling" <=> pc[h] = "calling"
      PROVE  ServiceInv'
  BY <1>1, <1>5, OtherSteps
<1>6. ASSUME NEW g \in Items, Report(g) \/ TakeNext(g) \/ WgDone(g), UNCHANGED blockyVars
      PROVE  ServiceInv'
  <2>1. UNCHANGED verdict
    BY <1>6 DEF Report, TakeNext, WgDone, history
  <2>2. \/ UNCHANGED pc
        \/ pc[g] # "calling" /\ \E p \in {"ready", "exiting", "done"} : pc' = [pc EXCEPT ![g] = p]
    BY <1>6 DEF Report, TakeNext, WgDone, Take
  <2> QED
    BY <1>2, <1>5, <1>6, <2>1, <2>2
<1>7. ASSUME NEW i \in Items, SendAdd(i), UNCHANGED blockyVars
      PROVE  ServiceInv'
  <2>1. /\ AddNoWait(i) /\ pc[i] = "none" /\ UNCHANGED verdict
    BY <1>7 DEF SendAdd, AddNoWait, Accept, Refuse, IInv, FreshCalls
  <2>2. UNCHANGED pc \/ pc' = [pc EXCEPT ![i] = "ready"]
    BY <2>1 DEF AddNoWait, Accept, Refuse, Take, handlerVars
  <2> QED
    BY <1>2, <1>5, <1>7, <2>1, <2>2
<1>8. ASSUME UNCHANGED <<pc, verdict>>, UNCHANGED blockyVars
      PROVE  ServiceInv'
  BY <1>5, <1>8
<1>9. /\ \A i \in Items : SendCheck(i) \/ SendReturn(i) => UNCHANGED <<pc, verdict>>
      /\ \A s \in Stoppers : /\ ShutCall(s) \/ ShutLock(s) \/ ShutSelect(s) => UNCHANGED <<pc, verdict>>
                             /\ BlockyClose(s) => UNCHANGED <<pc, verdict>> /\ UNCHANGED blockyVars
      /\ StopBatcher \/ AllQuiet => UNCHANGED <<pc, verdict>>
      /\ UNCHANGED everything => UNCHANGED <<pc, verdict>> /\ UNCHANGED blockyVars
  BY DEF SendCheck, SendReturn, AddResult, AddCtxDone, ShutCall, ShutLock, ShutSelect,
     BlockyClose, ShutClose, StopBatcher, ShutdownFlag, ShutdownReturns, AllQuiet,
     everything, allVars, vars, handlerVars, history
<1>10. ASSUME NEW g \in Items, BlockyGoroutine(g)
       PROVE  ServiceInv'
  BY <1>3, <1>4, <1>6, <1>10, CallStep DEF BlockyGoroutine
<1> QED
  BY <1>7, <1>8, <1>9, <1>10 DEF BlockyNext

\* The invariant of the driver holds throughout.
LEMMA ServiceInvariance == BlockySpec => [](ServiceInv /\ Judged)
<1>1. BlockyInit => ServiceInv /\ Judged
  BY InitServiceInv, InitJudged DEF BlockyInit, SenderInit
<1>2. ASSUME IInv, IInv', AnswerInv, BatchBounds, ServiceInv, Judged, [BlockyNext]_everything
      PROVE  ServiceInv' /\ Judged'
  BY <1>2, NextServiceInv, BlockyStep, SenderStepsBatcher, JudgedStep
<1> QED
  BY <1>1, <1>2, BlockyIsSender, SenderUsesBatcher, Invariance, AnswersInvariant, BatchesFit, PTL
     DEF BlockySpec
-----------------------------------------------------------------------------
(* Results about the driver.                                               *)

\* Whatever becomes of a batch, its Sends and the Shutdowns, the calls made
\* for a message are the first of BeforeSend, SendMessage and AfterSend, each
\* once and in this order (driver/message.go:69-80, blocky.go:76-104).
THEOREM CallbacksInOrder == BlockySpec => []CallbacksAround
<1>1. ASSUME ServiceInv, NEW i \in Items
      PROVE  LET all == IF i \in Hooked THEN <<"before", "sent", "after">> ELSE <<"sent">> IN
             \E n \in 0 .. Len(all) : calls[i] = SubSeq(all, 1, n)
  <2>1. /\ SubSeq(<<"before", "sent", "after">>, 1, 0) = << >>
        /\ SubSeq(<<"before", "sent", "after">>, 1, 1) = <<"before">>
        /\ SubSeq(<<"before", "sent", "after">>, 1, 2) = <<"before", "sent">>
        /\ SubSeq(<<"before", "sent", "after">>, 1, 3) = <<"before", "sent", "after">>
        /\ SubSeq(<<"sent">>, 1, 0) = << >> /\ SubSeq(<<"sent">>, 1, 1) = <<"sent">>
    BY Prefixes
  <2>2. CASE i \in Hooked
    <3>1. calls[i] \in {<< >>, <<"before">>, <<"before", "sent">>, <<"before", "sent", "after">>}
      BY <1>1, <2>2 DEF ServiceInv, CallsSoFar
    <3>2. \E n \in 0 .. 3 : calls[i] = SubSeq(<<"before", "sent", "after">>, 1, n)
      <4>1. 0 \in 0 .. 3 /\ 1 \in 0 .. 3 /\ 2 \in 0 .. 3 /\ 3 \in 0 .. 3
        OBVIOUS
      <4> QED
        BY <2>1, <3>1, <4>1, Zenon
    <3> QED
      BY <2>2, <3>2
  <2>3. CASE i \notin Hooked
    <3>1. calls[i] \in {<< >>, <<"sent">>}
      BY <1>1, <2>3 DEF ServiceInv, CallsSoFar
    <3>2. \E n \in 0 .. 1 : calls[i] = SubSeq(<<"sent">>, 1, n)
      <4>1. 0 \in 0 .. 1 /\ 1 \in 0 .. 1
        OBVIOUS
      <4> QED
        BY <2>1, <3>1, <4>1, Zenon
    <3> QED
      BY <2>3, <3>2
  <2> QED
    BY <2>2, <2>3
<1>2. ServiceInv => CallbacksAround
  BY <1>1 DEF CallbacksAround
<1> QED
  BY <1>2, ServiceInvariance, PTL

\* A Send that returns nil had every attachment uploaded, its message accepted
\* and its callbacks called; an attachment whose file no other has was
\* uploaded whole (message_sender.go:88-125; blocky.go:63-107, 173-234).
THEOREM NilSendIsSent == BlockySpec => []NilMeansSent
<1>1. ASSUME ServiceInv, Judged, NEW i \in Items, driver = "blocky", add[i] = "ok"
      PROVE  Sent(i)
  BY <1>1 DEF ServiceInv, SentIfOk, Judged, Verdicts
<1>2. ASSUME NEW i \in Items, ServiceTypes, Sent(i)
      PROVE  /\ \E k \in DOMAIN calls[i] : calls[i][k] = "sent"
             /\ i \in Hooked => calls[i][Len(calls[i])] = "after"
             /\ Len(uploads[i]) = Len(files[i])
             /\ \A k \in DOMAIN files[i] : Unshared(i, k) => uploads[i][k] = Whole(files[i][k])
  <2>1. CASE i \in Hooked
    <3>1. calls[i] = <<"before", "sent", "after">>
      BY <1>2, <2>1 DEF Sent, AllCalls
    <3>2. 2 \in DOMAIN calls[i] /\ calls[i][2] = "sent" /\ calls[i][Len(calls[i])] = "after"
      BY <3>1
    <3> QED
      BY <1>2, <3>2, FilesTypes DEF Sent, UploadedWhole
  <2>2. CASE i \notin Hooked
    <3>1. calls[i] = <<"sent">>
      BY <1>2, <2>2 DEF Sent, AllCalls
    <3>2. 1 \in DOMAIN calls[i] /\ calls[i][1] = "sent"
      BY <3>1
    <3> QED
      BY <1>2, <2>2, <3>2, FilesTypes DEF Sent, UploadedWhole
  <2> QED
    BY <2>1, <2>2
<1>3. ServiceInv /\ Judged => NilMeansSent
  BY <1>1, <1>2 DEF NilMeansSent, ServiceInv
<1> QED
  BY <1>3, ServiceInvariance, PTL
=============================================================================

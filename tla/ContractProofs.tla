--------------------------- MODULE ContractProofs ---------------------------
(***************************************************************************)
(* Proof that Batcher.tla implements BatchContract.tla: every step of the  *)
(* batcher, with its lock, goroutines and channels, is a step of what the  *)
(* package promises, or none.                                              *)
(***************************************************************************)
EXTENDS BatcherAnswers

-----------------------------------------------------------------------------
(* The refinement mapping, in parts.                                       *)

Due == {"ready", "calling"}

\* The batches with the handler.
Running == {batch[g] : g \in {h \in Items : pc[h] \in Due}}

\* What became of item i.
OutcomeOf(i) ==
    IF add[i] = "idle" THEN "new"
    ELSE IF verdict[i] # "none" THEN verdict[i]
    ELSE IF i \in Elements(accepted) THEN "accepted"
    ELSE IF errc[i] # "empty" THEN errc[i]
    ELSE IF add[i] = "ctx" THEN "shutdown" ELSE add[i]

Outcome == [i \in Items |-> OutcomeOf(i)]
Answer  == [i \in Items |-> IF add[i] \in Returns THEN add[i] ELSE "none"]

\* The contract's actions, over the mapping.
LEMMA MapEnters ==
    ASSUME NEW i \in Items, Outcome[i] = "new", ~ shutdown,
           Outcome' = [Outcome EXCEPT ![i] = "accepted"],
           UNCHANGED <<opts, Answer, shutdown>>
    PROVE  /\ pending' = Append(pending, i) /\ Running' = Running => Contract!Queue(i)
           /\ (\E n \in 1 .. Len(pending) + 1 : Contract!Start(Append(pending, i), n)) =>
                 Contract!QueueAndStart(i)
  BY DEF Contract!Queue, Contract!QueueAndStart, Contract!Enters, Outcome, Answer,
     OutcomeOf, Running, Due

\* The contract counts as the batcher does.
LEMMA SameCardinality == \A S : Contract!Cardinality(S) = Cardinality(S)
  BY DEF Contract!Cardinality, Cardinality, Contract!IsFiniteSet, IsFiniteSet

\* A batch that starts.
LEMMA MapStart ==
    ASSUME NEW p \in Seq(Items), NEW n \in 1 .. Len(p),
           opts.MaxBatchSize > 0 => n =< opts.MaxBatchSize,
           Cardinality(Running) < opts.MaxHandlers,
           Running' = Running \cup {SubSeq(p, 1, n)},
           pending' = SubSeq(p, n + 1, Len(p))
    PROVE  Contract!Start(p, n)
  BY SameCardinality DEF Contract!Start, Running, Due

\* A batch that finishes, with its verdict.
LEMMA MapFinish ==
    ASSUME NEW b \in Running, NEW v,
           Running' = Running \ {b},
           Outcome' = [i \in Items |-> IF \E k \in 1 .. Len(b) : b[k] = i THEN v
                                       ELSE Outcome[i]],
           UNCHANGED <<opts, pending, Answer, shutdown>>
    PROVE  Contract!Finish(b, v)
  BY DEF Contract!Finish, Outcome, Answer, OutcomeOf, Running, Due, Elements

\* A caller who is refused, is answered, or leaves.
LEMMA MapCaller ==
    ASSUME NEW i \in Items,
           UNCHANGED <<opts, pending, Running, shutdown>>
    PROVE  /\ \A why \in Refusals :
                Outcome[i] = "new" /\ (why = "shutdown" <=> shutdown)
                /\ Outcome' = [Outcome EXCEPT ![i] = why] /\ UNCHANGED Answer
                => Contract!Reject(i, why)
           /\ Answer[i] = "none" /\ Outcome[i] \in Verdicts \cup Refusals
              /\ Answer' = [Answer EXCEPT ![i] = Outcome[i]] /\ UNCHANGED Outcome
              => Contract!Deliver(i)
           /\ Answer[i] = "none" /\ Outcome[i] # "new"
              /\ Answer' = [Answer EXCEPT ![i] = "ctx"] /\ UNCHANGED Outcome
              => Contract!Leave(i)
  BY DEF Contract!Reject, Contract!Deliver, Contract!Leave, Outcome, Answer, OutcomeOf,
     Running, Due

\* What the contract does not see.
LEMMA MapStutter ==
    ASSUME UNCHANGED <<opts, pending, Running, Outcome, Answer, shutdown>>
    PROVE  UNCHANGED Contract!cvars
  BY DEF Contract!cvars, Outcome, Answer, OutcomeOf, Running, Due
-----------------------------------------------------------------------------
(* The invariant.                                                          *)

\* What is known of an item tells what became of it: a verdict belongs to an
\* item that was taken, a channel holds it or the refusal of an item that was
\* never accepted.
OutcomeKnown ==
    \A i \in Items :
        /\ verdict[i] # "none" => i \in Elements(taken)
        /\ errc[i] \in Verdicts => errc[i] = verdict[i]
        /\ i \in Elements(accepted) => errc[i] \notin Refusals
        /\ i \notin Elements(accepted) /\ add[i] # "idle" =>
              errc[i] \in Refusals \/ add[i] \in Refusals

ContractInv == IInv /\ AnswerInv /\ BatchBounds /\ OutcomeKnown

\* Before any call there are no outcomes.
LEMMA InitOutcomeKnown == Init => OutcomeKnown
  BY DEF Init, OutcomeKnown, Elements, Verdicts

\* Elements does not lose anything when items are accepted.
LEMMA AppendElements ==
    ASSUME NEW s \in Seq(Items), NEW i \in Items
    PROVE  Elements(Append(s, i)) = Elements(s) \cup {i}
<1>1. /\ Len(s) \in Nat /\ Len(Append(s, i)) = Len(s) + 1
      /\ \A k \in 1 .. Len(s) : Append(s, i)[k] = s[k]
      /\ Append(s, i)[Len(s) + 1] = i
  BY AppendProperties
<1> QED
  BY <1>1 DEF Elements-----------------------------------------------------------------------------
(* Launching a batch.                                                      *)

\* A goroutine that is about to take a batch has a place for it among those
\* that may run at a time.
LEMMA RoomToRun ==
    ASSUME IInv, NEW g \in Items, pc[g] \notin Due,
           pc[g] \in Holding \/ nHandlers < opts.MaxHandlers
    PROVE  Cardinality(Running) < opts.MaxHandlers
<1> DEFINE D == {h \in Items : pc[h] \in Due}
           H == {h \in Items : pc[h] \in Holding}
           f == [h \in D |-> batch[h]]
<1>1. /\ IsFiniteSet(D) /\ IsFiniteSet(H) /\ D \subseteq H
      /\ Cardinality(H) = nHandlers /\ nHandlers =< opts.MaxHandlers
      /\ nHandlers \in Nat /\ opts.MaxHandlers \in Nat
  BY ItemsAssumption, FS_Subset DEF IInv, HandlersCounted, TypeOK, Options, Due, Holding
<1>2. Cardinality(Running) =< Cardinality(D)
      /\ Cardinality(Running) \in Nat /\ Cardinality(D) \in Nat
  <2>1. f \in Surjection(D, Running)
    BY DEF Surjection, Running
  <2> QED
    BY <1>1, <2>1, FS_Surjection, FS_CardinalityType
<1>3. Cardinality(D) < opts.MaxHandlers
  <2>1. CASE pc[g] \in Holding
    <3>1. D \subseteq H \ {g} /\ g \in H
      BY <1>1, <2>1
    <3>2. IsFiniteSet(H \ {g}) /\ Cardinality(H \ {g}) = nHandlers - 1
      BY <1>1, <3>1, FS_RemoveElement
    <3>3. Cardinality(D) =< Cardinality(H \ {g})
      BY <3>1, <3>2, FS_Subset
    <3> QED
      BY <1>1, <1>2, <3>2, <3>3
  <2>2. CASE nHandlers < opts.MaxHandlers
    <3>1. Cardinality(D) =< nHandlers
      BY <1>1, FS_Subset
    <3> QED
      BY <1>1, <1>2, <2>2, <3>1
  <2> QED
    BY <2>1, <2>2
<1> QED
  BY <1>1, <1>2, <1>3

\* Taking a batch starts it (batcher.go:218-249).
LEMMA TakeStarts ==
    ASSUME IInv, NEW g \in Items, NEW p \in Seq(Items), batchReady(p), Take(g, p),
           pc[g] \notin Due, pc[g] \in Holding \/ nHandlers < opts.MaxHandlers
    PROVE  \E n \in 1 .. Len(p) : Contract!Start(p, n)
<1>1. /\ pc \in [Items -> Phases] /\ batch \in [Items -> Seq(Items)]
      /\ opts.MaxBatchSize \in Nat /\ Len(p) \in Nat /\ TypeOK
  BY DEF IInv, TypeOK, Options
<1>2. /\ batchLen(p) \in 1 .. Len(p)
      /\ opts.MaxBatchSize > 0 => batchLen(p) =< opts.MaxBatchSize
  BY <1>1, BatchTaken, BatchLength
<1>3. Running' = Running \cup {SubSeq(p, 1, batchLen(p))}
  <2>1. /\ \A h \in Items : pc'[h] = IF h = g THEN "ready" ELSE pc[h]
        /\ \A h \in Items : batch'[h] = IF h = g THEN SubSeq(p, 1, batchLen(p)) ELSE batch[h]
    BY <1>1 DEF Take, nextBatch
  <2> QED
    BY <2>1 DEF Running, Due
<1>4. Cardinality(Running) < opts.MaxHandlers
  BY RoomToRun
<1>5. pending' = SubSeq(p, batchLen(p) + 1, Len(p))
  BY DEF Take, afterBatch
<1> QED
  BY <1>2, <1>3, <1>4, <1>5, MapStart
-----------------------------------------------------------------------------
(* Each step.                                                              *)

\* AddNoWait turns an item away, queues it, or queues it and starts a batch
\* (batcher.go:176-213).
LEMMA AddNoWaitContract ==
    ASSUME ContractInv, NEW i \in Items, AddNoWait(i)
    PROVE  Contract!CNext
<1> USE DEF handlerVars
<1>1. /\ IInv /\ OutcomeKnown /\ TypeOK /\ InOrder
      /\ accepted \in Seq(Items) /\ pending \in Seq(Items) /\ pc[i] = "none"
      /\ add \in [Items -> {"idle", "waiting"} \cup Returns]
      /\ errc \in [Items -> {"empty"} \cup Verdicts \cup Refusals]
  BY DEF ContractInv, IInv, FreshCalls, AddNoWait, TypeOK
<1>2. /\ add[i] = "idle" /\ i \notin Elements(accepted)
      /\ \A j \in Items : add'[j] = IF j = i THEN "waiting" ELSE add[j]
      /\ UNCHANGED <<opts, shutdown, verdict>>
  BY <1>1 DEF IInv, FreshCalls, AddNoWait
<1>3. verdict[i] = "none" /\ Outcome[i] = "new"
  BY <1>1, <1>2, TakenOrPending DEF OutcomeKnown, Outcome, OutcomeOf
<1>4. UNCHANGED Answer
  BY <1>2 DEF Answer, Returns, Verdicts, Refusals
<1>5. ASSUME NEW why \in Refusals, why = "shutdown" <=> shutdown, Refuse(i, why)
      PROVE  Contract!Reject(i, why)
  <2>1. /\ UNCHANGED <<pending, pc, batch, accepted>>
        /\ \A j \in Items : errc'[j] = IF j = i THEN why ELSE errc[j]
    BY <1>1, <1>5 DEF Refuse
  <2>2. OutcomeOf(i)' = why
    BY <1>2, <1>3, <1>5, <2>1 DEF OutcomeOf, Refusals
  <2>3. \A j \in Items \ {i} : OutcomeOf(j)' = OutcomeOf(j)
    BY <1>2, <2>1 DEF OutcomeOf
  <2>4. Outcome' = [Outcome EXCEPT ![i] = why]
    BY <2>2, <2>3 DEF Outcome
  <2>5. UNCHANGED Running
    BY <2>1 DEF Running
  <2> QED
    BY <1>2, <1>3, <1>4, <1>5, <2>1, <2>4, <2>5, MapCaller
<1>6. ASSUME ~ shutdown, Accept(i)
      PROVE  Contract!Queue(i) \/ Contract!QueueAndStart(i)
  <2> DEFINE p == Append(pending, i)
  <2>1. /\ p \in Seq(Items) /\ Len(p) = Len(pending) + 1 /\ errc' = errc
        /\ Elements(accepted') = Elements(accepted) \cup {i}
    BY <1>1, <1>6, AppendProperties, AppendElements DEF Accept
  <2>2. \A j \in Items : OutcomeOf(j)' = IF j = i THEN "accepted" ELSE OutcomeOf(j)
    BY <1>2, <1>3, <2>1 DEF OutcomeOf
  <2>3. Outcome' = [Outcome EXCEPT ![i] = "accepted"]
    BY <2>2 DEF Outcome
  <2>4. CASE nHandlers < opts.MaxHandlers /\ batchReady(p)
    <3>1. Take(i, p)
      BY <1>6, <2>4 DEF Accept
    <3>2. \E n \in 1 .. Len(p) : Contract!Start(p, n)
      BY <1>1, <2>1, <2>4, <3>1, TakeStarts DEF Due
    <3> QED
      BY <1>2, <1>3, <1>4, <1>6, <2>1, <2>3, <3>2, MapEnters
  <2>5. CASE ~ (nHandlers < opts.MaxHandlers /\ batchReady(p))
    <3>1. pending' = p /\ Running' = Running
      BY <1>6, <2>5 DEF Accept, Running
    <3> QED
      BY <1>2, <1>3, <1>4, <1>6, <2>3, <3>1, MapEnters
  <2> QED
    BY <2>4, <2>5
<1>7. \/ shutdown /\ Refuse(i, "shutdown")
      \/ ~ shutdown /\ Refuse(i, "tooLarge")
      \/ ~ shutdown /\ Accept(i)
  BY DEF AddNoWait
<1> QED
  BY <1>5, <1>6, <1>7 DEF Contract!CNext, Refusals

\* The handler's return finishes the batch, with its verdict for every item
\* (batcher.go:261).
LEMMA HandlerReturnsContract ==
    ASSUME ContractInv, NEW g \in Items, NEW v \in Verdicts, HandlerReturns(g, v)
    PROVE  Contract!CNext
<1> USE DEF callerVars, queueVars
<1> DEFINE b == batch[g]
<1>1. /\ IInv /\ AnswerInv /\ pc[g] = "calling"
      /\ pc \in [Items -> Phases] /\ batch \in [Items -> Seq(Items)]
      /\ verdict \in [Items -> {"none"} \cup Verdicts]
      /\ UNCHANGED <<opts, pending, shutdown, batch, add, errc, accepted>>
      /\ \A h \in Items : pc'[h] = IF h = g THEN "reporting" ELSE pc[h]
      /\ \A i \in Items : verdict'[i] = IF i \in Elements(b) THEN v ELSE verdict[i]
  BY DEF ContractInv, IInv, TypeOK, HandlerReturns
<1>2. b \in Running
  BY <1>1 DEF Running, Due
<1>3. Running' = Running \ {b}
  <2>1. 1 \in 1 .. Len(b)
    <3>1. Len(b) > 0 /\ Len(b) \in Nat
      BY <1>1 DEF ContractInv, BatchBounds
    <3> QED
      BY <3>1
  <2>2. ASSUME NEW h \in Items, h # g
        PROVE  batch[h] # b
    <3>1. Elements(batch[g]) \cap Elements(batch[h]) = {}
      BY <1>1, <2>2 DEF AnswerInv, HeldOnce
    <3>2. b[1] \in Elements(b)
      BY <2>1 DEF Elements
    <3> QED
      BY <3>1, <3>2
  <2>3. \A h \in Items : pc'[h] \in Due <=> pc[h] \in Due /\ h # g
    BY <1>1 DEF Due
  <2>4. Running' = {batch[h] : h \in {k \in Items : pc'[k] \in Due}}
    BY <1>1 DEF Running
  <2> QED
    BY <1>2, <2>2, <2>3, <2>4 DEF Running
<1>4. Outcome' = [i \in Items |-> IF \E k \in 1 .. Len(b) : b[k] = i THEN v
                                  ELSE Outcome[i]]
  <2>1. ASSUME NEW i \in Items
        PROVE  OutcomeOf(i)' = IF i \in Elements(b) THEN v ELSE OutcomeOf(i)
    <3>1. CASE i \in Elements(b)
      <4>1. add[i] # "idle"
        BY <1>1, <3>1 DEF AnswerInv, Unanswered, Held
      <4> QED
        BY <1>1, <3>1, <4>1 DEF OutcomeOf, Verdicts
    <3>2. CASE i \notin Elements(b)
      <4>1. verdict'[i] = verdict[i]
        BY <1>1, <3>2
      <4> QED
        BY <1>1, <3>2, <4>1 DEF OutcomeOf
    <3> QED
      BY <3>1, <3>2
  <2>2. \A i \in Items : i \in Elements(b) <=> \E k \in 1 .. Len(b) : b[k] = i
    BY DEF Elements
  <2> QED
    BY <2>1, <2>2 DEF Outcome
<1>5. UNCHANGED Answer
  BY <1>1 DEF Answer
<1> HIDE DEF b
<1>6. Contract!Finish(b, v)
  BY <1>1, <1>2, <1>3, <1>4, <1>5, MapFinish
<1> QED
  BY <1>2, <1>6 DEF Contract!CNext, Running, Due

\* Add returns what became of its item, or leaves (batcher.go:162-171).
LEMMA AddReturnsContract ==
    ASSUME ContractInv, NEW i \in Items, AddResult(i) \/ AddCtxDone(i)
    PROVE  Contract!CNext
<1> USE DEF callerVars, queueVars, handlerVars, history
<1>1. /\ OutcomeKnown /\ TypeOK /\ InOrder /\ add[i] = "waiting"
      /\ add \in [Items -> {"idle", "waiting"} \cup Returns]
      /\ errc \in [Items -> {"empty"} \cup Verdicts \cup Refusals]
      /\ verdict \in [Items -> {"none"} \cup Verdicts]
      /\ UNCHANGED <<opts, pending, shutdown, pc, batch, accepted, verdict>>
      /\ \A j \in Items \ {i} : add'[j] = add[j] /\ errc'[j] = errc[j]
  BY DEF ContractInv, IInv, TypeOK, AddResult, AddCtxDone
<1>2. \A j \in Items : Elements(accepted)' = Elements(accepted)
  BY <1>1
<1>3. Elements(taken) \subseteq Elements(accepted)
  BY <1>1, TakenOrPending
<1>4. UNCHANGED Running
  BY <1>1 DEF Running
<1>5. Answer[i] = "none" /\ Outcome[i] = OutcomeOf(i)
  BY <1>1 DEF Answer, Returns, Verdicts, Refusals, Outcome
<1>6. \A j \in Items \ {i} : OutcomeOf(j)' = OutcomeOf(j)
  BY <1>1, <1>2 DEF OutcomeOf
<1>7. CASE AddResult(i)
  <2>1. add'[i] = errc[i] /\ errc[i] # "empty" /\ errc'[i] = "empty"
    BY <1>1, <1>7 DEF AddResult
  <2>2. OutcomeOf(i) = errc[i] /\ OutcomeOf(i)' = errc[i]
    <3>1. CASE errc[i] \in Verdicts
      BY <1>1, <2>1, <3>1 DEF OutcomeKnown, OutcomeOf, Verdicts
    <3>2. CASE errc[i] \in Refusals
      <4>1. verdict[i] = "none" /\ i \notin Elements(accepted)
        BY <1>1, <1>3, <3>2 DEF OutcomeKnown
      <4> QED
        BY <1>1, <1>2, <2>1, <3>2, <4>1 DEF OutcomeOf, Refusals
    <3> QED
      BY <1>1, <2>1, <3>1, <3>2
  <2>3. UNCHANGED Outcome
    BY <1>6, <2>2 DEF Outcome
  <2>4. errc[i] \in Verdicts \cup Refusals
    BY <1>1, <2>1
  <2>5. Answer' = [Answer EXCEPT ![i] = Outcome[i]]
    BY <1>1, <1>5, <2>1, <2>2, <2>4 DEF Answer, Returns
  <2>6. Contract!Deliver(i)
    BY <1>1, <1>4, <1>5, <2>2, <2>3, <2>4, <2>5, MapCaller
  <2> QED
    BY <2>6 DEF Contract!CNext
<1>8. CASE AddCtxDone(i)
  <2>1. add'[i] = "ctx" /\ errc'[i] = errc[i]
    BY <1>1, <1>8 DEF AddCtxDone
  <2>2. i \notin Elements(accepted) => errc[i] \in Refusals
    BY <1>1 DEF OutcomeKnown, Refusals
  <2>3. OutcomeOf(i)' = OutcomeOf(i) /\ OutcomeOf(i) # "new"
    BY <1>1, <1>2, <2>1, <2>2 DEF OutcomeOf, Verdicts, Refusals
  <2>4. UNCHANGED Outcome
    BY <1>6, <2>3 DEF Outcome
  <2>5. Answer' = [Answer EXCEPT ![i] = "ctx"]
    BY <1>1, <1>5, <2>1 DEF Answer, Returns
  <2>6. Contract!Leave(i)
    BY <1>1, <1>4, <1>5, <2>3, <2>4, <2>5, MapCaller
  <2> QED
    BY <2>6 DEF Contract!CNext
<1> QED
  BY <1>7, <1>8

\* At the end of a batch the next one starts, or nothing happens
\* (batcher.go:265-273).
LEMMA TakeNextContract ==
    ASSUME ContractInv, NEW g \in Items, TakeNext(g)
    PROVE  Contract!CNext \/ UNCHANGED Contract!cvars
<1> USE DEF callerVars
<1>1. /\ IInv /\ pc[g] = "reporting" /\ pending \in Seq(Items) /\ pc \in [Items -> Phases]
      /\ UNCHANGED <<opts, shutdown, add, errc, accepted, verdict>>
  BY DEF ContractInv, IInv, TypeOK, TakeNext
<1>2. UNCHANGED Outcome /\ UNCHANGED Answer
  <2>1. \A i \in Items : OutcomeOf(i)' = OutcomeOf(i)
    BY <1>1 DEF OutcomeOf
  <2> QED
    BY <1>1, <2>1 DEF Outcome, Answer
<1>3. CASE batchReady(pending)
  <2>1. Take(g, pending)
    BY <1>3 DEF TakeNext
  <2>2. \E n \in 1 .. Len(pending) : Contract!Start(pending, n)
    BY <1>1, <1>3, <2>1, TakeStarts DEF Due, Holding
  <2>3. Contract!Launch
    BY <1>1, <1>2, <2>2 DEF Contract!Launch, Outcome, OutcomeOf, Answer
  <2> QED
    BY <2>3 DEF Contract!CNext
<1>4. CASE ~ batchReady(pending)
  <2>1. UNCHANGED <<pending, batch>> /\ pc' = [pc EXCEPT ![g] = "exiting"]
    BY <1>4 DEF TakeNext
  <2>2. \A h \in Items : pc'[h] \in Due <=> pc[h] \in Due
    BY <1>1, <2>1 DEF Due
  <2>3. UNCHANGED Running
    BY <2>1, <2>2 DEF Running
  <2> QED
    BY <1>1, <1>2, <2>1, <2>3, MapStutter
<1> QED
  BY <1>3, <1>4

\* Sending the answers and the bookkeeping of goroutines are not seen by the
\* callers (batcher.go:251-264, 203-206).
LEMMA QuietContract ==
    ASSUME ContractInv, NEW g \in Items, CallHandler(g) \/ Report(g) \/ WgDone(g)
    PROVE  UNCHANGED Contract!cvars
<1> USE DEF callerVars, queueVars, history
<1>1. /\ TypeOK /\ InOrder /\ AnswerInv
      /\ pc \in [Items -> Phases] /\ batch \in [Items -> Seq(Items)]
      /\ UNCHANGED <<opts, pending, shutdown, add, accepted, verdict>>
  BY DEF ContractInv, IInv, TypeOK, CallHandler, Report, WgDone
<1>2. UNCHANGED Answer
  BY <1>1 DEF Answer
<1>3. CASE CallHandler(g) \/ WgDone(g)
  <2>1. batch' = batch /\ errc' = errc /\ \A h \in Items : pc'[h] \in Due <=> pc[h] \in Due
    BY <1>1, <1>3 DEF CallHandler, WgDone, Due
  <2>2. UNCHANGED Running
    BY <2>1 DEF Running
  <2>3. \A i \in Items : OutcomeOf(i)' = OutcomeOf(i)
    BY <1>1, <2>1 DEF OutcomeOf
  <2>4. UNCHANGED Outcome
    BY <2>3 DEF Outcome
  <2> QED
    BY <1>1, <1>2, <2>2, <2>4, MapStutter
<1>4. CASE Report(g)
  <2> DEFINE i == Head(batch[g])
  <2>1. /\ pc' = pc /\ pc[g] = "reporting" /\ batch[g] # << >>
        /\ \A h \in Items \ {g} : batch'[h] = batch[h]
        /\ \A j \in Items \ {i} : errc'[j] = errc[j]
    BY <1>1, <1>4 DEF Report
  <2>2. UNCHANGED Running
    BY <2>1 DEF Running, Due
  <2>3. i \in Items /\ i \in Elements(accepted)
    <3>1. batch[g] \in Seq(Items) /\ Distinct(batch[g])
      BY <1>1 DEF AnswerInv, HeldOnce
    <3>2. i \in Items /\ i \in Elements(batch[g])
      BY <2>1, <3>1, TailApart
    <3>3. i \in Elements(taken)
      BY <1>1, <3>2 DEF AnswerInv, HeldTaken, Held
    <3> QED
      BY <1>1, <3>2, <3>3, TakenOrPending
  <2> HIDE DEF i
  <2>4. \A j \in Items : OutcomeOf(j)' = OutcomeOf(j)
    BY <1>1, <2>1, <2>3 DEF OutcomeOf
  <2>5. UNCHANGED Outcome
    BY <2>4 DEF Outcome
  <2> QED
    BY <1>1, <1>2, <2>2, <2>5, MapStutter
<1> QED
  BY <1>3, <1>4

\* Shutdown closes, and waits for nothing that the contract shows
\* (batcher.go:280-285).
LEMMA ShutdownContract ==
    ASSUME ShutdownFlag \/ ShutdownReturns \/ UNCHANGED vars
    PROVE  Contract!CNext \/ UNCHANGED Contract!cvars
<1> USE DEF callerVars, queueVars, handlerVars, history, vars
<1>1. UNCHANGED <<opts, pending, pc, batch, add, errc, accepted, verdict>>
  BY DEF ShutdownFlag, ShutdownReturns
<1>2. UNCHANGED Running /\ UNCHANGED Answer /\ UNCHANGED Outcome
  BY <1>1 DEF Running, Answer, Outcome, OutcomeOf
<1>3. CASE shutdown' = shutdown
  BY <1>1, <1>2, <1>3, MapStutter
<1>4. CASE shutdown' # shutdown
  <2>1. ~ shutdown /\ shutdown' = TRUE
    BY <1>4 DEF ShutdownFlag, ShutdownReturns
  <2>2. Contract!Close
    BY <1>1, <1>2, <2>1 DEF Contract!Close, Running, Due, Outcome, OutcomeOf, Answer
  <2> QED
    BY <2>2 DEF Contract!CNext
<1> QED
  BY <1>3, <1>4

\* Every step of the batcher is one of the contract or none.
LEMMA NextContract == ContractInv /\ [Next]_vars => [Contract!CNext]_(Contract!cvars)
<1> SUFFICES ASSUME ContractInv, [Next]_vars
             PROVE  Contract!CNext \/ UNCHANGED Contract!cvars
  OBVIOUS
<1>1. ASSUME NEW i \in Items, AddNoWait(i) \/ AddResult(i) \/ AddCtxDone(i)
      PROVE  Contract!CNext
  BY <1>1, AddNoWaitContract, AddReturnsContract
<1>2. ASSUME NEW g \in Items, GoroutineStep(g)
      PROVE  Contract!CNext \/ UNCHANGED Contract!cvars
  <2>1. CASE \E v \in Verdicts : HandlerReturns(g, v)
    BY <2>1, HandlerReturnsContract
  <2>2. CASE TakeNext(g)
    BY <2>2, TakeNextContract
  <2>3. CASE CallHandler(g) \/ Report(g) \/ WgDone(g)
    BY <2>3, QuietContract
  <2> QED
    BY <1>2, <2>1, <2>2, <2>3 DEF GoroutineStep
<1>3. ShutdownFlag \/ ShutdownReturns \/ UNCHANGED vars =>
        Contract!CNext \/ UNCHANGED Contract!cvars
  BY ShutdownContract
<1> QED
  BY <1>1, <1>2, <1>3 DEF Next, Finished

\* A Take adds to taken only what is in the batch.
LEMMA TakeAdds ==
    ASSUME TypeOK, NEW g \in Items, NEW p \in Seq(Items), batchReady(p), Take(g, p)
    PROVE  Elements(taken) \subseteq Elements(taken')
<1>1. taken \in Seq(Items) /\ nextBatch(p) \in Seq(Items) /\ taken' = taken \o nextBatch(p)
  BY BatchTaken DEF TypeOK, Take
<1> QED
  BY <1>1, ConcatElements

\* Every step keeps what is known of outcomes.
LEMMA NextOutcomeKnown == IInv /\ AnswerInv /\ OutcomeKnown /\ [Next]_vars => OutcomeKnown'
<1> SUFFICES ASSUME IInv, AnswerInv, OutcomeKnown, [Next]_vars
             PROVE  OutcomeKnown'
  OBVIOUS
<1> USE DEF queueVars, handlerVars, callerVars, history
<1>1. /\ TypeOK /\ InOrder /\ pending \in Seq(Items) /\ accepted \in Seq(Items)
      /\ batch \in [Items -> Seq(Items)]
      /\ add \in [Items -> {"idle", "waiting"} \cup Returns]
      /\ errc \in [Items -> {"empty"} \cup Verdicts \cup Refusals]
      /\ verdict \in [Items -> {"none"} \cup Verdicts]
  BY DEF IInv, TypeOK
<1>2. "empty" \notin Verdicts /\ Verdicts \cap Refusals = {}
  BY DEF Verdicts, Refusals
<1>3. ASSUME NEW i \in Items, AddNoWait(i)
      PROVE  OutcomeKnown'
  <2>1. /\ add[i] = "idle" /\ i \notin Elements(accepted) /\ verdict' = verdict
        /\ \A j \in Items : add'[j] = IF j = i THEN "waiting" ELSE add[j]
    BY <1>1, <1>3 DEF AddNoWait, IInv, FreshCalls
  <2>2. ASSUME NEW why \in Refusals, Refuse(i, why)
        PROVE  OutcomeKnown'
    <3>1. /\ UNCHANGED <<accepted, taken>>
          /\ \A j \in Items : errc'[j] = IF j = i THEN why ELSE errc[j]
      BY <1>1, <2>2 DEF Refuse
    <3> QED
      BY <1>2, <2>1, <2>2, <3>1 DEF OutcomeKnown
  <2>3. ASSUME Accept(i)
        PROVE  OutcomeKnown'
    <3>1. errc' = errc /\ Elements(accepted') = Elements(accepted) \cup {i}
      BY <1>1, <2>3, AppendElements DEF Accept
    <3>2. Elements(taken) \subseteq Elements(taken')
      <4> DEFINE p == Append(pending, i)
      <4>1. p \in Seq(Items)
        BY <1>1, AppendProperties
      <4>2. (batchReady(p) /\ Take(i, p)) \/ taken' = taken
        BY <2>3 DEF Accept
      <4> HIDE DEF p
      <4> QED
        BY <1>1, <4>1, <4>2, TakeAdds
    <3>3. errc[i] = "empty"
      BY <2>1 DEF AnswerInv, Unanswered
    <3>4. errc[i] \notin Refusals
      BY <3>3 DEF Refusals
    <3> QED
      BY <2>1, <3>1, <3>2, <3>4 DEF OutcomeKnown
  <2> QED
    BY <1>3, <2>2, <2>3 DEF AddNoWait, Refusals
<1>4. ASSUME NEW i \in Items, AddResult(i)
      PROVE  OutcomeKnown'
  <2>1. /\ UNCHANGED <<accepted, taken, verdict>> /\ add[i] = "waiting" /\ errc[i] # "empty"
        /\ \A j \in Items : add'[j] = IF j = i THEN errc[i] ELSE add[j]
        /\ \A j \in Items : errc'[j] = IF j = i THEN "empty" ELSE errc[j]
    BY <1>1, <1>4 DEF AddResult
  <2>2. "empty" \notin Refusals /\ "waiting" \notin Refusals
    BY DEF Refusals
  <2> QED
    BY <1>2, <2>1, <2>2 DEF OutcomeKnown
<1>5. ASSUME NEW i \in Items, AddCtxDone(i)
      PROVE  OutcomeKnown'
  <2>1. /\ UNCHANGED <<accepted, taken, verdict, errc>> /\ add[i] = "waiting"
        /\ \A j \in Items : add'[j] = IF j = i THEN "ctx" ELSE add[j]
    BY <1>1, <1>5 DEF AddCtxDone
  <2>2. "waiting" \notin Refusals
    BY DEF Refusals
  <2> QED
    BY <2>1, <2>2 DEF OutcomeKnown
<1>6. ASSUME NEW g \in Items, NEW v \in Verdicts, HandlerReturns(g, v)
      PROVE  OutcomeKnown'
  <2>1. /\ UNCHANGED <<accepted, taken, errc, add>>
        /\ \A i \in Items : verdict'[i] = IF i \in Elements(batch[g]) THEN v ELSE verdict[i]
    BY <1>1, <1>6 DEF HandlerReturns
  <2>2. \A i \in Elements(batch[g]) : i \in Items => i \in Elements(taken) /\ errc[i] = "empty"
    BY DEF AnswerInv, HeldTaken, Unanswered, Held
  <2> QED
    BY <1>2, <2>1, <2>2 DEF OutcomeKnown
<1>7. ASSUME NEW g \in Items, Report(g)
      PROVE  OutcomeKnown'
  <2> DEFINE i == Head(batch[g])
  <2>1. /\ UNCHANGED <<accepted, taken, verdict, add>> /\ pc[g] = "reporting"
        /\ batch[g] # << >> /\ batch[g] \in Seq(Items) /\ Distinct(batch[g])
        /\ \A j \in Items : errc'[j] = IF j = i THEN err[g] ELSE errc[j]
    BY <1>1, <1>7 DEF Report, AnswerInv, HeldOnce
  <2>2. i \in Items /\ i \in Elements(batch[g])
    BY <2>1, TailApart
  <2> HIDE DEF i
  <2>3. verdict[i] = err[g] /\ i \in Elements(taken)
    BY <2>1, <2>2 DEF AnswerInv, VerdictKnown, HeldTaken, Held
  <2>4. err[g] \notin Refusals /\ i \in Elements(accepted)
    BY <1>1, <1>2, <2>3, TakenOrPending DEF TypeOK
  <2> QED
    BY <2>1, <2>3, <2>4 DEF OutcomeKnown
<1>8. ASSUME NEW g \in Items, TakeNext(g)
      PROVE  OutcomeKnown'
  <2>1. UNCHANGED <<accepted, errc, add, verdict>>
    BY <1>8 DEF TakeNext
  <2>2. (batchReady(pending) /\ Take(g, pending)) \/ taken' = taken
    BY <1>8 DEF TakeNext
  <2>3. Elements(taken) \subseteq Elements(taken')
    BY <1>1, <2>2, TakeAdds
  <2> QED
    BY <2>1, <2>3 DEF OutcomeKnown
<1>9. ASSUME UNCHANGED <<accepted, taken, errc, add, verdict>>
      PROVE  OutcomeKnown'
  BY <1>9 DEF OutcomeKnown
<1>10. /\ \A g \in Items : CallHandler(g) \/ WgDone(g) =>
             UNCHANGED <<accepted, taken, errc, add, verdict>>
       /\ ShutdownFlag \/ ShutdownReturns \/ UNCHANGED vars =>
             UNCHANGED <<accepted, taken, errc, add, verdict>>
  BY DEF CallHandler, WgDone, ShutdownFlag, ShutdownReturns, vars
<1> QED
  BY <1>3, <1>4, <1>5, <1>6, <1>7, <1>8, <1>9, <1>10 DEF Next, GoroutineStep, Finished
-----------------------------------------------------------------------------
(* Result.                                                                 *)

\* The batcher starts in a state of the contract: nothing is accepted, runs or
\* was told.
LEMMA InitContract == Init => Contract!CInit
<1> SUFFICES ASSUME Init PROVE Contract!CInit
  OBVIOUS
<1>1. opts \in Options /\ opts.MaxHandlers > 0
  BY InitTypeOK DEF TypeOK
<1>2. opts.MaxHandlers \in Nat \ {0} /\ opts.MaxBatchSize \in Nat
  BY <1>1 DEF Options
<1>3. pending = << >> /\ ~ shutdown
      /\ \A i \in Items : pc[i] = "none" /\ add[i] = "idle"
  BY DEF Init
<1> QED
  BY <1>2, <1>3 DEF Contract!CInit, Init, Returns, Verdicts, Refusals

\* The batcher, with its lock, goroutines and channels, does nothing that its
\* contract does not allow: one line, at most MaxHandlers batches from its front
\* at a time, one verdict for each item, told once (Options, the comments
\* of Add, AddNoWait and Shutdown, batcher.go:88-98, 159-161, 173-175, 277-279).
THEOREM KeepsContract == Spec => ImplementsContract
<1>1. Init => OutcomeKnown /\ Contract!CInit
  BY InitOutcomeKnown, InitContract
<1>2. IInv /\ AnswerInv /\ OutcomeKnown /\ [Next]_vars => OutcomeKnown'
  BY NextOutcomeKnown
<1>3. IInv /\ AnswerInv /\ BatchBounds /\ OutcomeKnown /\ [Next]_vars =>
        [Contract!CNext]_(Contract!cvars)
  BY NextContract DEF ContractInv
<1> QED
  BY <1>1, <1>2, <1>3, Invariance, AnswersInvariant, BatchesFit, PTL
     DEF Spec, ImplementsContract, Contract!CSpec
=============================================================================

--------------------------- MODULE BatcherProofs ---------------------------
(***************************************************************************)
(* Proofs about Batcher.tla, for any number of calls of Add and any user   *)
(* options.                                                                *)
(***************************************************************************)
EXTENDS Batcher, FiniteSetTheorems, SequenceTheorems, TLAPS

-----------------------------------------------------------------------------
(* What nextBatch takes.                                                   *)

\* With no byteSizeFn only the number of items limits a batch: nextBatch
\* takes the whole of p or MaxBatchSize items of it (batcher.go:218-249).
LEMMA BatchLength ==
    ASSUME TypeOK, NEW p \in Seq(Items)
    PROVE  LET m == opts.MaxBatchSize IN
           batchLen(p) = IF m = 0 \/ Len(p) =< m THEN Len(p) ELSE m
<1> DEFINE m == opts.MaxBatchSize
           R == IF m = 0 \/ Len(p) =< m THEN Len(p) ELSE m
           P(n) == /\ \A k \in 1 .. n : withinLimits(p, k)
                   /\ n = Len(p) \/ ~ withinLimits(p, n + 1)
<1>1. m \in Nat /\ opts.MaxBatchByteSize \in Nat /\ Len(p) \in Nat
  BY DEF TypeOK, Options
<1>2. \A n \in Nat : withinLimits(p, n) <=> (m > 0 => n =< m)
  BY <1>1 DEF TypeOK, withinLimits, batchByteSize
<1>3. R \in 0 .. Len(p) /\ P(R)
  BY <1>1, <1>2
<1>4. \A n \in 0 .. Len(p) : P(n) => n = R
  <2> SUFFICES ASSUME NEW n \in 0 .. Len(p), P(n)
               PROVE  n = R
    OBVIOUS
  <2>1. \A k \in 1 .. n : m > 0 => k =< m
    BY <1>1, <1>2
  <2>2. n = Len(p) \/ (m > 0 /\ n + 1 > m)
    BY <1>1, <1>2
  <2>3. m > 0 => n =< m
    BY <2>1, <1>1
  <2> QED
    BY <2>2, <2>3, <1>1
<1>5. (CHOOSE n \in 0 .. Len(p) : P(n)) = R
  <2> HIDE DEF P, R
  <2> QED
    BY <1>3, <1>4
<1> QED
  BY <1>1, <1>5 DEF batchLen

\* A batch that is ready is not empty, is a prefix of pending, and what is
\* left is the rest of it.
LEMMA BatchTaken ==
    ASSUME TypeOK, NEW p \in Seq(Items), batchReady(p)
    PROVE  /\ nextBatch(p) \in Seq(Items) /\ afterBatch(p) \in Seq(Items)
           /\ nextBatch(p) \o afterBatch(p) = p
           /\ Len(nextBatch(p)) = batchLen(p) /\ batchLen(p) \in 1 .. Len(p)
           /\ Len(afterBatch(p)) = Len(p) - batchLen(p)
<1>0. /\ Len(p) \in Nat /\ Len(p) > 0
      /\ opts.MaxBatchSize \in Nat
  BY DEF TypeOK, Options, batchReady
<1>1. batchLen(p) \in 1 .. Len(p)
  BY <1>0, BatchLength
<1> DEFINE n == batchLen(p)
<1> HIDE DEF n
<1>2. n \in 1 .. Len(p) /\ nextBatch(p) = SubSeq(p, 1, n)
      /\ afterBatch(p) = SubSeq(p, n + 1, Len(p))
  BY <1>1 DEF n, nextBatch, afterBatch
<1>3. \A k \in 1 .. Len(p) : p[k] \in Items
  BY ElementOfSeq
<1>4. /\ SubSeq(p, 1, n) \in Seq(Items)
      /\ Len(SubSeq(p, 1, n)) = n
  BY <1>0, <1>2, <1>3, SubSeqProperties
<1>5. /\ SubSeq(p, n + 1, Len(p)) \in Seq(Items)
      /\ Len(SubSeq(p, n + 1, Len(p))) = Len(p) - n
  BY <1>0, <1>2, <1>3, SubSeqProperties
<1>6. SubSeq(p, 1, n) \o SubSeq(p, n + 1, Len(p)) = p
  <2>1. SubSeq(p, 1, n) \o SubSeq(p, n + 1, Len(p)) = SubSeq(p, 1, Len(p))
    BY <1>0, <1>2, ConcatAdjacentSubSeq
  <2> QED
    BY <2>1, SubSeqFull
<1> QED
  BY <1>2, <1>4, <1>5, <1>6 DEF n
-----------------------------------------------------------------------------
(* Type correctness.                                                       *)

\* A new batcher has the types.
LEMMA InitTypeOK == Init => TypeOK
<1> SUFFICES ASSUME Init PROVE TypeOK
  OBVIOUS
<1>1. opts \in Options /\ opts.MaxHandlers > 0 /\ opts.MinBatchSize > 0
  <2>1. PICK o \in UserOptions : opts = newOptionsWithDefaults(o)
    BY DEF Init
  <2>2. o \in Options
    BY OptionsAssumption
  <2> QED
    BY <2>1, <2>2 DEF Options, newOptionsWithDefaults, AtLeastOne
<1>2. << >> \in Seq(Items)
  BY EmptySeq
<1> QED
  BY <1>1, <1>2 DEF Init, TypeOK, Phases, Verdicts, Refusals

\* Taking a batch keeps the types of pending, the batches and taken.
LEMMA TakeTypeOK ==
    ASSUME TypeOK, NEW g \in Items, NEW p \in Seq(Items), batchReady(p), Take(g, p)
    PROVE  /\ pending' \in Seq(Items) /\ taken' \in Seq(Items)
           /\ batch' \in [Items -> Seq(Items)] /\ pc' \in [Items -> Phases]
<1>1. nextBatch(p) \in Seq(Items) /\ afterBatch(p) \in Seq(Items)
  BY BatchTaken
<1>2. taken \o nextBatch(p) \in Seq(Items)
  BY <1>1, ConcatProperties DEF TypeOK
<1> QED
  BY <1>1, <1>2 DEF Take, TypeOK, Phases

-----------------------------------------------------------------------------
(* The inductive invariant.                                                *)

\* A call that has not started has no trace in the batcher.
FreshCalls ==
    \A i \in Items : add[i] = "idle" =>
        pc[i] = "none" /\ i \notin Elements(accepted)

\* The flag is set before Shutdown waits, and what it waited for stays so.
StopInOrder ==
    /\ stop # "idle" => shutdown
    /\ stop = "returned" => wg = 0

IInv ==
    /\ TypeOK
    /\ FreshCalls
    /\ StopInOrder
    /\ HandlersCounted
    /\ NoWorkStranded
    /\ InOrder

\* How many goroutines are in one of the phases S.
Count(f, S) == Cardinality({h \in Items : f[h] \in S})

\* Only goroutine g moves, to phase x.
Moves(f, e, g, x) ==
    /\ f \in [Items -> Phases] /\ g \in Items /\ x \in Phases
    /\ e = [f EXCEPT ![g] = x]

\* Moving one goroutine changes a count of goroutines by at most one.
LEMMA CountMove ==
    ASSUME NEW f, NEW e, NEW g, NEW x, NEW S, Moves(f, e, g, x)
    PROVE  /\ Count(f, S) \in Nat /\ Count(e, S) \in Nat
           /\ f[g] \in S => Count(f, S) > 0
           /\ (f[g] \in S <=> x \in S) => Count(e, S) = Count(f, S)
           /\ f[g] \in S /\ x \notin S => Count(e, S) = Count(f, S) - 1
           /\ f[g] \notin S /\ x \in S => Count(e, S) = Count(f, S) + 1
<1> DEFINE A == {h \in Items : f[h] \in S}
           B == {h \in Items : e[h] \in S}
<1> USE DEF Moves
<1>1. IsFiniteSet(A) /\ IsFiniteSet(B)
  BY ItemsAssumption, FS_Subset
<1>2. Cardinality(A) \in Nat /\ Cardinality(B) \in Nat
  BY <1>1, FS_CardinalityType
<1>3. f[g] \in S => Cardinality(A) > 0
  <2>1. f[g] \in S => A # {}
    OBVIOUS
  <2> QED
    BY <1>1, <1>2, <2>1, FS_EmptySet
<1>4. (f[g] \in S <=> x \in S) => B = A
  OBVIOUS
<1>5. f[g] \in S /\ x \notin S => Cardinality(B) = Cardinality(A) - 1
  <2>1. f[g] \in S /\ x \notin S => B = A \ {g} /\ g \in A
    OBVIOUS
  <2> QED
    BY <1>1, <2>1, FS_RemoveElement
<1>6. f[g] \notin S /\ x \in S => Cardinality(B) = Cardinality(A) + 1
  <2>1. f[g] \notin S /\ x \in S => B = A \cup {g} /\ g \notin A
    OBVIOUS
  <2> QED
    BY <1>1, <2>1, FS_AddElement
<1> QED
  BY <1>2, <1>3, <1>4, <1>5, <1>6 DEF Count

\* The brackets of three sequences of items do not matter.
LEMMA ThreeInARow ==
    ASSUME NEW r \in Seq(Items), NEW s \in Seq(Items), NEW t \in Seq(Items)
    PROVE  (r \o s) \o t = r \o (s \o t)
  BY ConcatAssociative

\* The items taken, followed by those pending, stay the items accepted.
LEMMA TakeInOrder ==
    ASSUME TypeOK, NEW p \in Seq(Items), batchReady(p)
    PROVE  (taken \o nextBatch(p)) \o afterBatch(p) = taken \o p
<1> DEFINE b == nextBatch(p)
           c == afterBatch(p)
<1>1. b \in Seq(Items) /\ c \in Seq(Items)
  BY BatchTaken
<1>2. b \o c = p
  BY BatchTaken
<1>3. taken \in Seq(Items)
  BY DEF TypeOK
<1> HIDE DEF b, c
<1>4. (taken \o b) \o c = taken \o (b \o c)
  BY <1>1, <1>3, ThreeInARow
<1>5. (taken \o b) \o c = taken \o p
  BY <1>2, <1>4
<1> QED
  BY <1>5 DEF b, c

\* A new batcher satisfies the invariant.
LEMMA InitIInv == Init => IInv
<1> SUFFICES ASSUME Init PROVE IInv
  OBVIOUS
<1>1. TypeOK
  BY InitTypeOK
<1>2. HandlersCounted
  <2>1. {g \in Items : pc[g] \in Holding} = {} /\ {g \in Items : pc[g] \in Alive} = {}
    BY DEF Init, Holding, Alive
  <2>2. nHandlers = 0 /\ wg = 0 /\ opts.MaxHandlers \in Nat
    BY <1>1 DEF Init, TypeOK, Options
  <2> QED
    BY <2>1, <2>2, FS_EmptySet DEF HandlersCounted
<1>3. NoWorkStranded /\ InOrder /\ FreshCalls /\ StopInOrder
  <2>1. pending = << >> /\ taken = << >> /\ accepted = << >> /\ Len(pending) = 0
    BY DEF Init
  <2>2. accepted = taken \o pending
    BY <2>1, ConcatEmptySeq
  <2>3. opts.MinBatchSize \in Nat /\ opts.MinBatchSize > 0
    BY <1>1 DEF TypeOK, Options
  <2>4. NoWorkStranded /\ InOrder
    BY <2>1, <2>2, <2>3 DEF NoWorkStranded, InOrder, batchReady
  <2>5. FreshCalls /\ StopInOrder
    BY <2>1 DEF Init, FreshCalls, StopInOrder, Elements
  <2> QED
    BY <2>4, <2>5
<1> QED
  BY <1>1, <1>2, <1>3 DEF IInv

\* AddNoWait keeps the invariant (batcher.go:176-213).
LEMMA AddNoWaitStep ==
    ASSUME IInv, NEW i \in Items, AddNoWait(i)
    PROVE  IInv'
<1> USE DEF handlerVars
<1>1. /\ add[i] = "idle" /\ add' = [add EXCEPT ![i] = "waiting"]
      /\ UNCHANGED <<opts, byteSizeFn, shutdown, stop, verdict>>
      /\ (shutdown /\ Refuse(i, "shutdown")) \/ Refuse(i, "tooLarge")
         \/ (~ shutdown /\ Accept(i))
  BY DEF AddNoWait
<1>2. /\ TypeOK /\ FreshCalls /\ StopInOrder /\ HandlersCounted
      /\ NoWorkStranded /\ InOrder
      /\ pc[i] = "none" /\ i \notin Elements(accepted)
  BY <1>1 DEF IInv, FreshCalls
<1>3. add' \in [Items -> {"idle", "waiting"} \cup Returns]
  BY <1>1, <1>2 DEF TypeOK
<1>4. ASSUME NEW why \in Refusals, Refuse(i, why)
      PROVE  IInv'
  <2>1. TypeOK'
    BY <1>1, <1>2, <1>3, <1>4 DEF Refuse, TypeOK
  <2>2. FreshCalls' /\ StopInOrder'
    BY <1>1, <1>2, <1>4 DEF Refuse, FreshCalls, StopInOrder, Elements, TypeOK
  <2>3. HandlersCounted' /\ NoWorkStranded' /\ InOrder'
    BY <1>1, <1>2, <1>4 DEF Refuse, HandlersCounted, NoWorkStranded, InOrder, batchReady
  <2> QED
    BY <2>1, <2>2, <2>3 DEF IInv
<1>5. ASSUME ~ shutdown, Accept(i)
      PROVE  IInv'
  <2> DEFINE p == Append(pending, i)
  <2>1. /\ p \in Seq(Items) /\ Len(p) = Len(pending) + 1
        /\ accepted' = Append(accepted, i) /\ accepted' \in Seq(Items)
        /\ UNCHANGED <<err, errc>>
    BY <1>2, <1>5, AppendProperties DEF TypeOK, Accept
  <2>2. accepted' = taken \o p
    <3>1. /\ pending \in Seq(Items) /\ taken \in Seq(Items)
          /\ accepted = taken \o pending
      BY <1>2 DEF TypeOK, InOrder
    <3>2. p = pending \o <<i>> /\ accepted' = accepted \o <<i>> /\ <<i>> \in Seq(Items)
      BY <1>2, <2>1, <3>1, AppendIsConcat DEF TypeOK
    <3>3. (taken \o pending) \o <<i>> = taken \o (pending \o <<i>>)
      BY <3>1, <3>2, ConcatAssociative
    <3> HIDE DEF p
    <3> QED
      BY <3>1, <3>2, <3>3
  <2>3. \A j, k \in 1 .. Len(accepted') : accepted'[j] = accepted'[k] => j = k
    <3>1. /\ accepted \in Seq(Items) /\ Len(accepted) \in Nat
          /\ \A j, k \in 1 .. Len(accepted) : accepted[j] = accepted[k] => j = k
          /\ \A j \in 1 .. Len(accepted) : accepted[j] # i
      BY <1>2 DEF TypeOK, InOrder, Elements
    <3>2. /\ Len(accepted') = Len(accepted) + 1
          /\ \A j \in 1 .. Len(accepted) : accepted'[j] = accepted[j]
          /\ accepted'[Len(accepted) + 1] = i
      BY <2>1, <3>1, AppendProperties
    <3> QED
      BY <3>1, <3>2
  <2>4. /\ InOrder' <=> taken' \o pending' = taken \o p
        /\ FreshCalls' <=> \A j \in Items \ {i} : add[j] = "idle" => pc'[j] = "none"
        /\ StopInOrder'
    <3>1. Elements(accepted') = Elements(accepted) \cup {i}
      <4>1. /\ accepted \in Seq(Items) /\ Len(accepted) \in Nat
            /\ Len(accepted') = Len(accepted) + 1
            /\ \A j \in 1 .. Len(accepted) : accepted'[j] = accepted[j]
            /\ accepted'[Len(accepted) + 1] = i
        BY <1>2, <2>1, AppendProperties DEF TypeOK
      <4> QED
        BY <4>1 DEF Elements
    <3>2. FreshCalls' <=> \A j \in Items \ {i} : add[j] = "idle" => pc'[j] = "none"
      BY <1>1, <1>2, <3>1 DEF FreshCalls, TypeOK
    <3>3. StopInOrder'
      BY <1>1, <1>2, <1>5 DEF StopInOrder
    <3>4. InOrder' <=> taken' \o pending' = taken \o p
      <4> HIDE DEF p
      <4> QED
        BY <2>2, <2>3 DEF InOrder
    <3> QED
      BY <3>2, <3>3, <3>4
  <2>5. CASE nHandlers < opts.MaxHandlers /\ batchReady(p)
    <3>1. /\ Take(i, p) /\ nHandlers' = nHandlers + 1 /\ wg' = wg + 1
          /\ pc' = [pc EXCEPT ![i] = "ready"]
          /\ pending' = afterBatch(p) /\ taken' = taken \o nextBatch(p)
      BY <1>5, <2>5 DEF Accept, Take
    <3>2. TypeOK'
      <4>1. /\ pending' \in Seq(Items) /\ taken' \in Seq(Items)
            /\ batch' \in [Items -> Seq(Items)] /\ pc' \in [Items -> Phases]
        BY <1>2, <2>1, <2>5, <3>1, TakeTypeOK
      <4>2. nHandlers' \in Nat /\ wg' \in Nat
        BY <1>2, <3>1 DEF TypeOK
      <4> HIDE DEF p
      <4> QED
        BY <1>1, <1>2, <1>3, <2>1, <4>1, <4>2 DEF TypeOK
    <3>3. HandlersCounted'
      <4>1. /\ nHandlers = Count(pc, Holding) /\ wg = Count(pc, Alive)
            /\ pc \in [Items -> Phases] /\ opts.MaxHandlers \in Nat
        BY <1>2 DEF HandlersCounted, Count, TypeOK, Options
      <4>2. /\ Count(pc', Holding) = Count(pc, Holding) + 1
            /\ Count(pc', Alive) = Count(pc, Alive) + 1
            /\ Count(pc, Holding) \in Nat
        <5>1. /\ "ready" \in Phases /\ "ready" \in Holding /\ "ready" \in Alive
              /\ pc[i] \notin Holding /\ pc[i] \notin Alive
          BY <1>2 DEF Phases, Holding, Alive
        <5>2. Moves(pc, pc', i, "ready")
          BY <3>1, <4>1, <5>1 DEF Moves
        <5> QED
          BY <5>1, <5>2, CountMove
      <4>3. nHandlers' = Count(pc', Holding) /\ wg' = Count(pc', Alive)
        BY <3>1, <4>1, <4>2
      <4>4. nHandlers' =< opts'.MaxHandlers
        BY <1>1, <2>5, <3>1, <4>1, <4>2
      <4> QED
        BY <4>3, <4>4 DEF HandlersCounted, Count
    <3>4. NoWorkStranded'
      <4>1. /\ Len(pending) \in Nat /\ opts.MinBatchSize \in Nat
            /\ nHandlers \in Nat /\ opts.MaxHandlers \in Nat
        BY <1>2 DEF TypeOK, Options
      <4>2. Len(pending) < opts.MinBatchSize
        BY <1>2, <2>5, <4>1 DEF NoWorkStranded, batchReady
      <4>3. Len(pending') < opts.MinBatchSize
        <5>1. /\ Len(afterBatch(p)) = Len(p) - batchLen(p)
              /\ batchLen(p) \in 1 .. Len(p)
          BY <1>2, <2>1, <2>5, BatchTaken
        <5> HIDE DEF p
        <5> QED
          BY <2>1, <3>1, <4>1, <4>2, <5>1
      <4>4. Len(pending') \in Nat
        BY <3>2, LenProperties DEF TypeOK
      <4> QED
        BY <1>1, <4>1, <4>3, <4>4 DEF NoWorkStranded, batchReady
    <3>5. InOrder' /\ FreshCalls' /\ StopInOrder'
      BY <1>2, <2>1, <2>4, <2>5, <3>1, TakeInOrder DEF FreshCalls, TypeOK
    <3> QED
      BY <3>2, <3>3, <3>4, <3>5 DEF IInv
  <2>6. CASE ~ (nHandlers < opts.MaxHandlers /\ batchReady(p))
    <3>1. pending' = p /\ UNCHANGED <<nHandlers, wg, pc, batch, taken>>
      BY <1>5, <2>6 DEF Accept
    <3>2. TypeOK'
      BY <1>1, <1>2, <1>3, <2>1, <3>1 DEF TypeOK
    <3>3. HandlersCounted'
      BY <1>1, <1>2, <3>1 DEF HandlersCounted
    <3>4. NoWorkStranded'
      <4>1. nHandlers \in Nat /\ opts.MaxHandlers \in Nat /\ nHandlers =< opts.MaxHandlers
        BY <1>2 DEF TypeOK, Options, HandlersCounted
      <4> HIDE DEF p
      <4> QED
        BY <1>1, <2>6, <3>1, <4>1 DEF NoWorkStranded, batchReady
    <3>5. InOrder' /\ FreshCalls' /\ StopInOrder'
      <4>1. taken' \o pending' = taken \o p
        BY <3>1
      <4> HIDE DEF p
      <4> QED
        BY <1>2, <2>4, <3>1, <4>1 DEF FreshCalls
    <3> QED
      BY <3>2, <3>3, <3>4, <3>5 DEF IInv
  <2> QED
    BY <2>5, <2>6
<1> QED
  BY <1>1, <1>4, <1>5 DEF Refusals

\* The critical section at the end of callHandler keeps the invariant
\* (batcher.go:265-273).
LEMMA TakeNextStep ==
    ASSUME IInv, NEW g \in Items, TakeNext(g)
    PROVE  IInv'
<1>1. /\ TypeOK /\ FreshCalls /\ StopInOrder /\ HandlersCounted
      /\ NoWorkStranded /\ InOrder
  BY DEF IInv
<1>2. /\ pc[g] = "reporting"
      /\ UNCHANGED <<opts, byteSizeFn, shutdown, wg, err, errc, add, stop, accepted, verdict>>
  BY DEF TakeNext, callerVars
<1>3. /\ nHandlers = Count(pc, Holding) /\ wg = Count(pc, Alive)
      /\ pc \in [Items -> Phases] /\ nHandlers \in Nat
      /\ opts.MaxHandlers \in Nat /\ nHandlers =< opts.MaxHandlers
      /\ opts.MinBatchSize \in Nat
      /\ pending \in Seq(Items) /\ taken \in Seq(Items)
  BY <1>1 DEF HandlersCounted, Count, TypeOK, Options
<1>4. \A x \in Phases : pc' = [pc EXCEPT ![g] = x] => FreshCalls'
  BY <1>1, <1>2 DEF FreshCalls, TypeOK
<1>5. StopInOrder'
  BY <1>1, <1>2 DEF StopInOrder
<1>6. CASE batchReady(pending)
  <2>1. /\ Take(g, pending) /\ UNCHANGED nHandlers
        /\ pc' = [pc EXCEPT ![g] = "ready"]
        /\ pending' = afterBatch(pending) /\ taken' = taken \o nextBatch(pending)
    BY <1>6 DEF TakeNext, Take
  <2>2. TypeOK'
    <3>1. /\ pending' \in Seq(Items) /\ taken' \in Seq(Items)
          /\ batch' \in [Items -> Seq(Items)] /\ pc' \in [Items -> Phases]
      BY <1>1, <1>3, <1>6, <2>1, TakeTypeOK
    <3> QED
      BY <1>1, <1>2, <2>1, <3>1 DEF TypeOK
  <2>3. HandlersCounted'
    <3>1. Moves(pc, pc', g, "ready")
      BY <1>3, <2>1 DEF Moves, Phases
    <3>2. /\ pc[g] \in Holding /\ "ready" \in Holding
          /\ pc[g] \in Alive /\ "ready" \in Alive
      BY <1>2 DEF Holding, Alive
    <3>3. nHandlers' = Count(pc', Holding) /\ wg' = Count(pc', Alive)
      BY <1>2, <1>3, <2>1, <3>1, <3>2, CountMove
    <3> QED
      BY <1>2, <1>3, <2>1, <3>3 DEF HandlersCounted, Count
  <2>4. NoWorkStranded'
    BY <1>1, <1>2, <1>6, <2>1 DEF NoWorkStranded
  <2>5. InOrder'
    <3>1. taken' \o pending' = taken \o pending
      BY <1>1, <1>3, <1>6, <2>1, TakeInOrder
    <3> QED
      BY <1>1, <1>2, <3>1 DEF InOrder
  <2> QED
    BY <1>4, <1>5, <2>1, <2>2, <2>3, <2>4, <2>5 DEF IInv, Phases
<1>7. CASE ~ batchReady(pending)
  <2>1. /\ nHandlers' = nHandlers - 1
        /\ pc' = [pc EXCEPT ![g] = "exiting"]
        /\ UNCHANGED <<pending, batch, taken>>
    BY <1>7 DEF TakeNext
  <2>2. HandlersCounted' /\ nHandlers' \in Nat
    <3>1. Moves(pc, pc', g, "exiting")
      BY <1>3, <2>1 DEF Moves, Phases
    <3>2. /\ pc[g] \in Holding /\ "exiting" \notin Holding
          /\ pc[g] \in Alive /\ "exiting" \in Alive
      BY <1>2 DEF Holding, Alive
    <3>3. /\ nHandlers' = Count(pc', Holding) /\ wg' = Count(pc', Alive)
          /\ nHandlers' \in Nat
      BY <1>2, <1>3, <2>1, <3>1, <3>2, CountMove
    <3> QED
      BY <1>2, <1>3, <2>1, <3>3 DEF HandlersCounted, Count
  <2>3. TypeOK'
    BY <1>1, <1>2, <2>1, <2>2 DEF TypeOK, Phases
  <2>4. NoWorkStranded'
    BY <1>2, <1>7, <2>1 DEF NoWorkStranded, batchReady
  <2>5. InOrder'
    BY <1>1, <1>2, <2>1 DEF InOrder
  <2> QED
    BY <1>4, <1>5, <2>1, <2>2, <2>3, <2>4, <2>5 DEF IInv, Phases
<1> QED
  BY <1>6, <1>7

\* A goroutine that moves without touching pending or nHandlers, and keeps
\* its handler slot, keeps the rest of the invariant.
LEMMA HolderMoves ==
    ASSUME IInv, NEW g, NEW x, Moves(pc, pc', g, x),
           pc[g] \in Holding, x \in Holding,
           UNCHANGED <<queueVars, add, stop, accepted, taken>>, TypeOK'
    PROVE  IInv'
<1>1. HandlersCounted'
  <2>1. pc[g] \in Alive /\ x \in Alive
    BY DEF Alive
  <2>2. Count(pc', Holding) = Count(pc, Holding)
    BY CountMove
  <2>3. Count(pc', Alive) = Count(pc, Alive)
    BY <2>1, CountMove
  <2> QED
    BY <2>2, <2>3 DEF IInv, HandlersCounted, Count, queueVars
<1>2. FreshCalls'
  BY DEF IInv, FreshCalls, TypeOK, Holding, Moves
<1> QED
  BY <1>1, <1>2 DEF IInv, StopInOrder, NoWorkStranded, batchReady, InOrder, queueVars

\* No step breaks the invariant.
LEMMA NextIInv == IInv /\ [Next]_vars => IInv'
<1> SUFFICES ASSUME IInv, [Next]_vars
             PROVE  IInv'
  OBVIOUS
<1> USE DEF callerVars, history
<1>0. TypeOK /\ pc \in [Items -> Phases]
  BY DEF IInv, TypeOK
<1>1. ASSUME NEW i \in Items, AddNoWait(i)
      PROVE  IInv'
  BY <1>1, AddNoWaitStep
<1>2. ASSUME NEW i \in Items, AddResult(i)
      PROVE  IInv'
  <2>1. TypeOK'
    BY <1>0, <1>2 DEF AddResult, TypeOK, Returns, queueVars, handlerVars
  <2>2. FreshCalls'
    <3>1. add' = [add EXCEPT ![i] = errc[i]] /\ errc[i] # "idle" /\ UNCHANGED <<pc, accepted>>
      BY <1>0, <1>2 DEF AddResult, TypeOK, Verdicts, Refusals, handlerVars
    <3>2. add \in [Items -> {"idle", "waiting"} \cup Returns]
      BY <1>0 DEF TypeOK
    <3> QED
      BY <3>1, <3>2 DEF IInv, FreshCalls
  <2> QED
    BY <1>2, <2>1, <2>2 DEF AddResult, IInv, HandlersCounted, NoWorkStranded,
       batchReady, InOrder, StopInOrder, queueVars, handlerVars
<1>3. ASSUME NEW i \in Items, AddCtxDone(i)
      PROVE  IInv'
  <2>1. TypeOK'
    BY <1>0, <1>3 DEF AddCtxDone, TypeOK, Returns, queueVars, handlerVars
  <2>2. FreshCalls'
    BY <1>3, <2>1 DEF AddCtxDone, IInv, FreshCalls, TypeOK, handlerVars
  <2> QED
    BY <1>3, <2>1, <2>2 DEF AddCtxDone, IInv, HandlersCounted, NoWorkStranded,
       batchReady, InOrder, StopInOrder, queueVars, handlerVars
<1>4. ASSUME NEW g \in Items, CallHandler(g)
      PROVE  IInv'
  <2>1. TypeOK'
    BY <1>0, <1>4 DEF CallHandler, TypeOK, Phases, queueVars
  <2>2. Moves(pc, pc', g, "calling") /\ pc[g] \in Holding /\ "calling" \in Holding
    BY <1>0, <1>4 DEF CallHandler, Moves, Holding, Phases
  <2>3. UNCHANGED <<queueVars, add, stop, accepted, taken>>
    BY <1>4 DEF CallHandler
  <2> QED
    BY <2>1, <2>2, <2>3, HolderMoves
<1>5. ASSUME NEW g \in Items, NEW v \in Verdicts, HandlerReturns(g, v)
      PROVE  IInv'
  <2>1. TypeOK'
    BY <1>0, <1>5 DEF HandlerReturns, TypeOK, Phases, queueVars
  <2>2. Moves(pc, pc', g, "reporting") /\ pc[g] \in Holding /\ "reporting" \in Holding
    BY <1>0, <1>5 DEF HandlerReturns, Moves, Holding, Phases
  <2>3. UNCHANGED <<queueVars, add, stop, accepted, taken>>
    BY <1>5 DEF HandlerReturns
  <2> QED
    BY <2>1, <2>2, <2>3, HolderMoves
<1>6. ASSUME NEW g \in Items, Report(g)
      PROVE  IInv'
  <2>1. batch[g] \in Seq(Items) /\ batch[g] # << >>
    BY <1>0, <1>6 DEF Report, TypeOK
  <2>2. Head(batch[g]) \in Items /\ Tail(batch[g]) \in Seq(Items)
    BY <2>1, HeadTailProperties
  <2>3. TypeOK'
    BY <1>0, <1>6, <2>2 DEF Report, TypeOK, queueVars
  <2> QED
    BY <1>6, <2>3 DEF Report, IInv, FreshCalls, StopInOrder, HandlersCounted,
       NoWorkStranded, batchReady, InOrder, queueVars
<1>7. ASSUME NEW g \in Items, TakeNext(g)
      PROVE  IInv'
  BY <1>7, TakeNextStep
<1>8. ASSUME NEW g \in Items, WgDone(g)
      PROVE  IInv'
  <2>1. Moves(pc, pc', g, "done")
    BY <1>0, <1>8 DEF WgDone, Moves, Phases
  <2>2. /\ pc[g] \notin Holding /\ "done" \notin Holding
        /\ pc[g] \in Alive /\ "done" \notin Alive
    BY <1>8 DEF WgDone, Holding, Alive
  <2>3. nHandlers = Count(pc, Holding) /\ wg = Count(pc, Alive) /\ wg \in Nat
    BY DEF IInv, HandlersCounted, Count, TypeOK
  <2>4. wg' = wg - 1 /\ nHandlers' = nHandlers
    BY <1>8 DEF WgDone
  <2>5. wg' = Count(pc', Alive) /\ nHandlers' = Count(pc', Holding) /\ wg' \in Nat
    <3>1. Count(pc', Holding) = Count(pc, Holding)
      BY <2>1, <2>2, CountMove
    <3>2. Count(pc', Alive) = Count(pc, Alive) - 1
      BY <2>1, <2>2, CountMove
    <3>3. Count(pc', Alive) \in Nat
      BY <2>1, CountMove
    <3> QED
      BY <2>3, <2>4, <3>1, <3>2, <3>3
  <2>6. TypeOK'
    BY <1>0, <1>8, <2>5 DEF WgDone, TypeOK, Phases
  <2>7. HandlersCounted'
    BY <1>8, <2>5 DEF WgDone, IInv, HandlersCounted, Count
  <2>8. FreshCalls'
    BY <1>0, <1>8 DEF WgDone, IInv, FreshCalls
  <2>9. StopInOrder'
    BY <1>8, <2>3, <2>5 DEF WgDone, IInv, StopInOrder
  <2> QED
    BY <1>8, <2>6, <2>7, <2>8, <2>9 DEF WgDone, IInv, NoWorkStranded, batchReady, InOrder
<1>9. ASSUME ShutdownFlag \/ ShutdownReturns
      PROVE  IInv'
  BY <1>0, <1>9 DEF ShutdownFlag, ShutdownReturns, IInv, TypeOK, FreshCalls, StopInOrder,
     HandlersCounted, NoWorkStranded, batchReady, InOrder, queueVars, handlerVars
<1>10. ASSUME UNCHANGED vars
       PROVE  IInv'
  BY <1>0, <1>10 DEF vars, IInv, TypeOK, FreshCalls, StopInOrder, HandlersCounted,
     NoWorkStranded, batchReady, InOrder, queueVars, handlerVars
<1> QED
  BY <1>1, <1>2, <1>3, <1>4, <1>5, <1>6, <1>7, <1>8, <1>9, <1>10
     DEF Next, GoroutineStep, Finished

\* The invariant holds throughout.
LEMMA Invariance == Spec => []IInv
<1>1. Init => IInv
  BY InitIInv
<1>2. IInv /\ [Next]_vars => IInv'
  BY NextIInv
<1> QED
  BY <1>1, <1>2, PTL DEF Spec
-----------------------------------------------------------------------------
(* The size of the batches given to the handler.                           *)

\* What BatchBounds says of one batch.
Fits(b) ==
    /\ Len(b) > 0
    /\ opts.MaxBatchSize > 0 => Len(b) =< opts.MaxBatchSize
    /\ Len(b) >= opts.MinBatchSize \/ Len(b) = opts.MaxBatchSize

\* What nextBatch takes fits (batcher.go:218-249).
LEMMA TakenFits ==
    ASSUME TypeOK, NEW p \in Seq(Items), batchReady(p)
    PROVE  Fits(nextBatch(p))
<1>1. /\ Len(nextBatch(p)) = batchLen(p) /\ batchLen(p) \in 1 .. Len(p)
      /\ Len(p) >= opts.MinBatchSize
  BY BatchTaken DEF batchReady
<1>2. batchLen(p) = IF opts.MaxBatchSize = 0 \/ Len(p) =< opts.MaxBatchSize
                    THEN Len(p) ELSE opts.MaxBatchSize
  BY BatchLength
<1>3. opts.MaxBatchSize \in Nat /\ opts.MinBatchSize \in Nat /\ Len(p) \in Nat
  BY DEF TypeOK, Options
<1> QED
  BY <1>1, <1>2, <1>3 DEF Fits

\* A goroutine that comes to hold a batch took one that fits, and no step
\* changes a batch that is still to be handled.
LEMMA BoundsKept ==
    ASSUME TypeOK, BatchBounds, [Next]_vars
    PROVE  BatchBounds'
<1> DEFINE Due == {"ready", "calling"}
           Kept(g) == pc[g] \in Due /\ batch'[g] = batch[g]
<1>1. BatchBounds <=> \A g \in Items : pc[g] \in Due => Fits(batch[g])
  BY DEF BatchBounds, Fits
<1>2. opts' = opts
  BY DEF Next, AddNoWait, AddResult, AddCtxDone, GoroutineStep, CallHandler,
     HandlerReturns, Report, TakeNext, WgDone, ShutdownFlag, ShutdownReturns,
     Finished, vars, queueVars
<1>3. BatchBounds' <=> \A g \in Items : pc'[g] \in Due => Fits(batch'[g])
  BY <1>2 DEF BatchBounds, Fits
<1>4. pc \in [Items -> Phases] /\ batch \in [Items -> Seq(Items)] /\ pending \in Seq(Items)
  BY DEF TypeOK
<1>5. ASSUME NEW h \in Items, NEW p \in Seq(Items), batchReady(p), Take(h, p),
             NEW g \in Items, pc'[g] \in Due
      PROVE  Kept(g) \/ Fits(batch'[g])
  <2>1. CASE g = h
    <3>1. batch'[g] = nextBatch(p)
      BY <1>4, <1>5, <2>1 DEF Take
    <3> QED
      BY <1>5, <3>1, TakenFits
  <2>2. CASE g # h
    BY <1>4, <1>5, <2>2 DEF Take
  <2> QED
    BY <2>1, <2>2
<1>6. ASSUME NEW g \in Items, pc'[g] \in Due
      PROVE  Kept(g) \/ Fits(batch'[g])
  <2>1. ASSUME NEW i \in Items, AddNoWait(i)
        PROVE  Kept(g) \/ Fits(batch'[g])
    <3> DEFINE p == Append(pending, i)
    <3>1. p \in Seq(Items)
      BY <1>4, AppendProperties
    <3>2. (batchReady(p) /\ Take(i, p)) \/ (pc' = pc /\ batch' = batch)
      BY <2>1 DEF AddNoWait, Refuse, Accept, handlerVars
    <3> HIDE DEF p
    <3> QED
      BY <1>5, <1>6, <3>1, <3>2
  <2>2. ASSUME NEW i \in Items, AddResult(i) \/ AddCtxDone(i)
        PROVE  Kept(g)
    BY <1>6, <2>2 DEF AddResult, AddCtxDone, handlerVars
  <2>3. ASSUME NEW h \in Items, TakeNext(h)
        PROVE  Kept(g) \/ Fits(batch'[g])
    <3>1. CASE batchReady(pending)
      BY <1>4, <1>5, <1>6, <2>3, <3>1 DEF TakeNext
    <3>2. CASE ~ batchReady(pending)
      BY <1>4, <1>6, <2>3, <3>2 DEF TakeNext
    <3> QED
      BY <3>1, <3>2
  <2>4. ASSUME NEW h \in Items, NEW v \in Verdicts,
               CallHandler(h) \/ HandlerReturns(h, v) \/ Report(h) \/ WgDone(h)
        PROVE  Kept(g)
    BY <1>4, <1>6, <2>4 DEF CallHandler, HandlerReturns, Report, WgDone
  <2>5. ASSUME ShutdownFlag \/ ShutdownReturns \/ UNCHANGED vars
        PROVE  Kept(g)
    BY <1>6, <2>5 DEF ShutdownFlag, ShutdownReturns, vars, handlerVars
  <2>6. "ok" \in Verdicts
    BY DEF Verdicts
  <2> QED
    BY <2>1, <2>2, <2>3, <2>4, <2>5, <2>6 DEF Next, GoroutineStep, Finished
<1> QED
  BY <1>1, <1>3, <1>6

-----------------------------------------------------------------------------
(* Results.                                                                *)

\* Every variable keeps its type; in particular nHandlers and wg are never
\* negative, so that wg.Done never panics (batcher.go:197-208, 270).
THEOREM TypeCorrect == Spec => []TypeOK
<1>1. IInv => TypeOK
  BY DEF IInv
<1> QED
  BY <1>1, Invariance, PTL

\* nHandlers and wg count exactly the goroutines they stand for, and no more
\* than MaxHandlers goroutines hold a handler slot (batcher.go:197-208,
\* 265-273).
THEOREM HandlersAreCounted == Spec => []HandlersCounted
<1>1. IInv => HandlersCounted
  BY DEF IInv
<1> QED
  BY <1>1, Invariance, PTL

\* A full batch never waits without a handler that will come for it
\* (batcher.go:201-202, 266-272).
THEOREM NoLostWakeup == Spec => []NoWorkStranded
<1>1. IInv => NoWorkStranded
  BY DEF IInv
<1> QED
  BY <1>1, Invariance, PTL

\* Items reach the handlers in the order of AddNoWait, each once
\* (batcher.go:197, 218-249).
THEOREM FirstInFirstOut == Spec => []InOrder
<1>1. IInv => InOrder
  BY DEF IInv
<1> QED
  BY <1>1, Invariance, PTL

\* After Shutdown no handler goroutine is left and no full batch either
\* (batcher.go:280-285).
THEOREM ShutdownIsQuiet == Spec => []ShutdownDrains
<1>1. IInv => ShutdownDrains
  <2> SUFFICES ASSUME IInv, stop = "returned"
               PROVE  /\ \A g \in Items : pc[g] \in {"none", "done"}
                      /\ ~ batchReady(pending)
    BY DEF ShutdownDrains
  <2>1. /\ nHandlers = Cardinality({g \in Items : pc[g] \in Holding})
        /\ Cardinality({g \in Items : pc[g] \in Alive}) = 0
    BY DEF IInv, StopInOrder, HandlersCounted
  <2>2. IsFiniteSet({g \in Items : pc[g] \in Alive})
    BY ItemsAssumption, FS_Subset
  <2>3. {g \in Items : pc[g] \in Alive} = {}
    BY <2>1, <2>2, FS_EmptySet
  <2>4. \A g \in Items : pc[g] \in {"none", "done"}
    BY <2>3 DEF IInv, TypeOK, Phases, Alive, Holding
  <2>5. {g \in Items : pc[g] \in Holding} = {}
    BY <2>4 DEF Holding
  <2>6. nHandlers = 0
    BY <2>1, <2>5, FS_EmptySet
  <2> QED
    BY <2>4, <2>6 DEF IInv, TypeOK, Options, NoWorkStranded
<1> QED
  BY <1>1, Invariance, PTL

\* Whatever the options, a batch given to the handler is not empty, is within
\* MaxBatchSize, and is as large as MinBatchSize asks unless MaxBatchSize is
\* smaller (batcher.go:88-98, 218-249).
THEOREM BatchesFit == Spec => []BatchBounds
<1>1. Init => BatchBounds
  BY DEF Init, BatchBounds
<1>2. TypeOK /\ BatchBounds /\ [Next]_vars => BatchBounds'
  BY BoundsKept
<1> QED
  BY <1>1, <1>2, TypeCorrect, PTL DEF Spec
=============================================================================

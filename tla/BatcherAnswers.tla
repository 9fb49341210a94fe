--------------------------- MODULE BatcherAnswers ---------------------------
(***************************************************************************)
(* Proofs about Batcher.tla: what becomes of an item and of its answer.    *)
(***************************************************************************)
EXTENDS BatcherProofs

-----------------------------------------------------------------------------
(* Sequences without repetition.                                           *)

Distinct(s) == \A j, k \in 1 .. Len(s) : s[j] = s[k] => j = k

\* The elements of two sequences in a row.
LEMMA ConcatElements ==
    ASSUME NEW s \in Seq(Items), NEW t \in Seq(Items)
    PROVE  Elements(s \o t) = Elements(s) \cup Elements(t)
<1>1. /\ Len(s) \in Nat /\ Len(t) \in Nat /\ Len(s \o t) = Len(s) + Len(t)
      /\ \A k \in 1 .. Len(s) + Len(t) :
           (s \o t)[k] = IF k =< Len(s) THEN s[k] ELSE t[k - Len(s)]
  BY ConcatProperties
<1>2. Elements(s \o t) \subseteq Elements(s) \cup Elements(t)
  BY <1>1 DEF Elements
<1>3. Elements(s) \subseteq Elements(s \o t)
  BY <1>1 DEF Elements
<1>4. ASSUME NEW k \in 1 .. Len(t)
      PROVE  t[k] \in Elements(s \o t)
  <2>1. k + Len(s) \in 1 .. Len(s) + Len(t) /\ (s \o t)[k + Len(s)] = t[k]
    BY <1>1
  <2> QED
    BY <1>1, <2>1 DEF Elements
<1> QED
  BY <1>2, <1>3, <1>4 DEF Elements

\* If nothing comes twice in s \o t, then neither in s nor in t, nor in both.
LEMMA ConcatApart ==
    ASSUME NEW s \in Seq(Items), NEW t \in Seq(Items), Distinct(s \o t)
    PROVE  Distinct(s) /\ Distinct(t) /\ Elements(s) \cap Elements(t) = {}
<1>1. /\ Len(s) \in Nat /\ Len(t) \in Nat /\ Len(s \o t) = Len(s) + Len(t)
      /\ \A k \in 1 .. Len(s) : (s \o t)[k] = s[k]
      /\ \A k \in 1 .. Len(t) : (s \o t)[k + Len(s)] = t[k]
  BY ConcatProperties
<1>2. Distinct(s)
  BY <1>1 DEF Distinct
<1>3. Distinct(t)
  <2> SUFFICES ASSUME NEW j \in 1 .. Len(t), NEW k \in 1 .. Len(t), t[j] = t[k]
               PROVE  j = k
    BY DEF Distinct
  <2>1. /\ j + Len(s) \in 1 .. Len(s \o t) /\ k + Len(s) \in 1 .. Len(s \o t)
        /\ (s \o t)[j + Len(s)] = (s \o t)[k + Len(s)]
    BY <1>1
  <2>2. j + Len(s) = k + Len(s)
    BY <2>1 DEF Distinct
  <2> QED
    BY <1>1, <2>2
<1>4. ASSUME NEW j \in 1 .. Len(s), NEW k \in 1 .. Len(t), s[j] = t[k]
      PROVE  FALSE
  <2>1. /\ j \in 1 .. Len(s \o t) /\ k + Len(s) \in 1 .. Len(s \o t)
        /\ (s \o t)[j] = (s \o t)[k + Len(s)] /\ j # k + Len(s)
    BY <1>1, <1>4
  <2> QED
    BY <2>1 DEF Distinct
<1> QED
  BY <1>2, <1>3, <1>4 DEF Elements

\* The head of a sequence without repetition is not in its tail.
LEMMA TailApart ==
    ASSUME NEW s \in Seq(Items), s # << >>, Distinct(s)
    PROVE  /\ Head(s) \in Items /\ Tail(s) \in Seq(Items) /\ Distinct(Tail(s))
           /\ Elements(s) = {Head(s)} \cup Elements(Tail(s))
           /\ Head(s) \notin Elements(Tail(s))
<1>1. /\ Head(s) = s[1] /\ Head(s) \in Items /\ Tail(s) \in Seq(Items)
      /\ Len(s) \in Nat /\ Len(s) > 0 /\ Len(Tail(s)) = Len(s) - 1
      /\ \A k \in 1 .. Len(Tail(s)) : Tail(s)[k] = s[k + 1]
  BY HeadTailProperties, EmptySeq, LenProperties
<1>2. Distinct(Tail(s))
  <2> SUFFICES ASSUME NEW j \in 1 .. Len(Tail(s)), NEW k \in 1 .. Len(Tail(s)),
                      Tail(s)[j] = Tail(s)[k]
               PROVE  j = k
    BY DEF Distinct
  <2>1. j + 1 \in 1 .. Len(s) /\ k + 1 \in 1 .. Len(s) /\ s[j + 1] = s[k + 1]
    BY <1>1
  <2>2. j + 1 = k + 1
    BY <2>1 DEF Distinct
  <2> QED
    BY <1>1, <2>2
<1>3. \A k \in 2 .. Len(s) : s[k] = Tail(s)[k - 1] /\ k - 1 \in 1 .. Len(Tail(s))
  BY <1>1
<1>4. Elements(s) = {Head(s)} \cup Elements(Tail(s))
  BY <1>1, <1>3 DEF Elements
<1>5. \A k \in 1 .. Len(Tail(s)) : Tail(s)[k] # s[1]
  <2> SUFFICES ASSUME NEW k \in 1 .. Len(Tail(s)), s[k + 1] = s[1]
               PROVE  FALSE
    BY <1>1
  <2>1. k + 1 \in 1 .. Len(s) /\ 1 \in 1 .. Len(s) /\ k + 1 # 1
    BY <1>1
  <2> QED
    BY <2>1 DEF Distinct
<1> QED
  BY <1>1, <1>2, <1>4, <1>5 DEF Elements
-----------------------------------------------------------------------------
(* The inductive invariant.                                                *)

Held(i) == \E g \in Items : i \in Elements(batch[g])

\* A goroutine that has not started, or is about to end, holds no batch.
IdleHandsEmpty ==
    \A g \in Items : pc[g] \in {"none", "exiting", "done"} => batch[g] = << >>

\* No item is in two batches, or twice in one.
HeldOnce ==
    /\ \A g \in Items : Distinct(batch[g])
    /\ \A g, h \in Items : g # h => Elements(batch[g]) \cap Elements(batch[h]) = {}

HeldTaken == \A i \in Items : Held(i) => i \in Elements(taken)

\* Until its handler answers, an item's channel is empty and its Add waits or
\* has left.
Unanswered ==
    \A i \in Items :
        /\ add[i] = "idle" => errc[i] = "empty"
        /\ i \in Elements(pending) \/ Held(i) =>
              errc[i] = "empty" /\ add[i] \in {"waiting", "ctx"}

\* While a batch is reported, what is left of it has the handler's verdict.
VerdictKnown ==
    \A g \in Items : pc[g] = "reporting" =>
        \A i \in Elements(batch[g]) : verdict[i] = err[g]

\* AnswerKept, with Held for HeldBy.
Answered(i) ==
    \/ Held(i)
    \/ errc[i] = verdict[i]
    \/ add[i] \in {verdict[i], "ctx"} \ {"none"}

AnswerInv ==
    /\ IdleHandsEmpty /\ HeldOnce /\ HeldTaken /\ Unanswered /\ VerdictKnown
    /\ \A i \in Elements(taken) : Answered(i)

\* An item is held if there is a goroutine that holds it.
LEMMA HeldIsHeldBy == \A i \in Items : Held(i) <=> HeldBy(i) # {}
  BY DEF Held, HeldBy

\* The accepted items are those taken and those pending, and none is both.
LEMMA TakenOrPending ==
    ASSUME TypeOK, InOrder
    PROVE  /\ Elements(accepted) = Elements(taken) \cup Elements(pending)
           /\ Elements(taken) \cap Elements(pending) = {}
           /\ Elements(taken) \subseteq Items /\ Elements(pending) \subseteq Items
<1>1. /\ taken \in Seq(Items) /\ pending \in Seq(Items)
      /\ accepted = taken \o pending /\ Distinct(taken \o pending)
  BY DEF TypeOK, InOrder, Distinct
<1>2. \A s \in Seq(Items) : Elements(s) \subseteq Items
  BY ElementOfSeq DEF Elements
<1> QED
  BY <1>1, <1>2, ConcatElements, ConcatApart

\* Before any call no item is held and nothing was answered.
LEMMA InitAnswerInv == Init => AnswerInv
<1> SUFFICES ASSUME Init PROVE AnswerInv
  OBVIOUS
<1>1. \A g \in Items : batch[g] = << >>
  BY DEF Init
<1>2. Len(<< >>) = 0
  BY EmptySeq
<1>3. Elements(<< >>) = {} /\ Distinct(<< >>)
  BY <1>2 DEF Elements, Distinct
<1>4. pending = << >> /\ taken = << >>
  BY DEF Init
<1> QED
  BY <1>1, <1>3, <1>4 DEF Init, AnswerInv, IdleHandsEmpty, HeldOnce, HeldTaken, Unanswered,
     VerdictKnown, Held
-----------------------------------------------------------------------------
(* Taking a batch.                                                         *)

\* What is taken from p moves from pending to goroutine g, whose hands were
\* empty, and was in no batch before.
LEMMA TakeMoves ==
    ASSUME TypeOK, TypeOK', InOrder', HeldOnce, HeldTaken,
           NEW g \in Items, NEW p \in Seq(Items), batchReady(p), Take(g, p),
           batch[g] = << >>
    PROVE  LET b == nextBatch(p) IN
           /\ batch' = [batch EXCEPT ![g] = b]
           /\ Elements(p) = Elements(b) \cup Elements(pending')
           /\ Elements(taken') = Elements(taken) \cup Elements(b)
           /\ Elements(b) \cap Elements(taken) = {}
           /\ \A i \in Items : Held(i)' <=> Held(i) \/ i \in Elements(b)
           /\ HeldOnce' /\ HeldTaken'
<1> DEFINE b == nextBatch(p)
           c == afterBatch(p)
<1>1. /\ b \in Seq(Items) /\ c \in Seq(Items) /\ taken \in Seq(Items)
      /\ b \o c = p
  BY BatchTaken DEF TypeOK
<1>2. /\ batch' = [batch EXCEPT ![g] = b] /\ pending' = c /\ taken' = taken \o b
      /\ batch \in [Items -> Seq(Items)] /\ taken \o b \in Seq(Items)
  BY DEF Take, TypeOK
<1>3. Distinct((taken \o b) \o c)
  BY <1>2 DEF InOrder, Distinct
<1> HIDE DEF b, c
<1>4. Elements(p) = Elements(b) \cup Elements(c)
  BY <1>1, ConcatElements
<1>5. Elements(taken') = Elements(taken) \cup Elements(b)
  BY <1>1, <1>2, ConcatElements
<1>6. Distinct(taken \o b)
  BY <1>1, <1>2, <1>3, ConcatApart
<1>7. Distinct(b) /\ Elements(b) \cap Elements(taken) = {}
  BY <1>1, <1>6, ConcatApart
<1>8. Elements(batch[g]) = {}
  BY EmptySeq DEF Elements
<1>9. \A h \in Items : batch'[h] = IF h = g THEN b ELSE batch[h]
  BY <1>2
<1>10. \A i \in Items : Held(i)' <=> Held(i) \/ i \in Elements(b)
  BY <1>8, <1>9 DEF Held
<1>11. \A h \in Items : Elements(batch[h]) \subseteq Elements(taken)
  <2>1. \A h \in Items : Elements(batch[h]) \subseteq Items
    BY <1>2, ElementOfSeq DEF Elements
  <2> QED
    BY <2>1 DEF HeldTaken, Held
<1>12. HeldOnce'
  BY <1>7, <1>9, <1>11 DEF HeldOnce
<1>13. HeldTaken'
  BY <1>5, <1>10 DEF HeldTaken
<1> QED
  BY <1>2, <1>4, <1>5, <1>7, <1>10, <1>12, <1>13 DEF b
-----------------------------------------------------------------------------
(* Each step.                                                              *)

\* An Add that is refused was told so through a channel that was empty; one
\* that is accepted waits, in pending or in the batch it starts
\* (batcher.go:176-213).
LEMMA AddNoWaitAnswers ==
    ASSUME IInv, IInv', AnswerInv, NEW i \in Items, AddNoWait(i)
    PROVE  AnswerInv'
<1> USE DEF handlerVars
<1>1. /\ TypeOK /\ TypeOK' /\ InOrder /\ InOrder'
      /\ pc[i] = "none" /\ add[i] = "idle" /\ i \notin Elements(accepted)
      /\ add' = [add EXCEPT ![i] = "waiting"] /\ verdict' = verdict
  BY DEF IInv, FreshCalls, AddNoWait
<1>2. /\ i \notin Elements(taken) /\ i \notin Elements(pending) /\ ~ Held(i)
      /\ batch[i] = << >> /\ errc[i] = "empty"
      /\ Elements(taken) \subseteq Items
  BY <1>1, TakenOrPending DEF AnswerInv, IdleHandsEmpty, HeldTaken, Unanswered
<1>3. \A j \in Items : add'[j] = IF j = i THEN "waiting" ELSE add[j]
  BY <1>1 DEF TypeOK
<1>4. ASSUME NEW why, Refuse(i, why)
      PROVE  AnswerInv'
  <2>1. /\ \A j \in Items : errc'[j] = IF j = i THEN why ELSE errc[j]
        /\ UNCHANGED <<pending, pc, batch, err, taken>>
    BY <1>1, <1>4 DEF Refuse, TypeOK
  <2>2. \A j \in Items : Held(j)' <=> Held(j)
    BY <2>1 DEF Held
  <2>3. IdleHandsEmpty' /\ HeldOnce' /\ HeldTaken' /\ VerdictKnown'
    BY <1>1, <2>1, <2>2 DEF AnswerInv, IdleHandsEmpty, HeldOnce, HeldTaken, VerdictKnown
  <2>4. Unanswered'
    BY <1>2, <1>3, <2>1, <2>2 DEF AnswerInv, Unanswered
  <2>5. \A j \in Elements(taken') : Answered(j)'
    BY <1>1, <1>2, <1>3, <2>1, <2>2 DEF AnswerInv, Answered
  <2> QED
    BY <2>3, <2>4, <2>5 DEF AnswerInv
<1>5. ASSUME Accept(i)
      PROVE  AnswerInv'
  <2> DEFINE p == Append(pending, i)
  <2>1. p \in Seq(Items) /\ Elements(p) = Elements(pending) \cup {i} /\ UNCHANGED <<err, errc>>
    <3>1. /\ pending \in Seq(Items) /\ <<i>> \in Seq(Items) /\ p = pending \o <<i>>
      BY <1>1, AppendIsConcat DEF TypeOK
    <3>2. Elements(<<i>>) = {i}
      BY DEF Elements
    <3>3. Elements(pending \o <<i>>) = Elements(pending) \cup Elements(<<i>>)
      BY <3>1, ConcatElements
    <3>4. p \in Seq(Items)
      BY <3>1, AppendProperties
    <3> QED
      BY <1>5, <3>1, <3>2, <3>3, <3>4 DEF Accept
  <2>2. CASE batchReady(p) /\ Take(i, p)
    <3> DEFINE b == nextBatch(p)
    <3>1. /\ batch' = [batch EXCEPT ![i] = b]
          /\ Elements(p) = Elements(b) \cup Elements(pending')
          /\ Elements(taken') = Elements(taken) \cup Elements(b)
          /\ \A j \in Items : Held(j)' <=> Held(j) \/ j \in Elements(b)
          /\ HeldOnce' /\ HeldTaken'
      BY <1>1, <1>2, <2>1, <2>2, TakeMoves DEF AnswerInv
    <3>2. /\ \A g \in Items : batch'[g] = IF g = i THEN b ELSE batch[g]
          /\ \A g \in Items : pc'[g] = IF g = i THEN "ready" ELSE pc[g]
      BY <1>1, <2>2, <3>1 DEF TypeOK, Take
    <3> HIDE DEF b, p
    <3>3. IdleHandsEmpty' /\ VerdictKnown'
      BY <1>1, <2>1, <3>2 DEF AnswerInv, IdleHandsEmpty, VerdictKnown
    <3>4. Unanswered'
      BY <1>2, <1>3, <2>1, <3>1 DEF AnswerInv, Unanswered
    <3>5. \A j \in Elements(taken') : Answered(j)'
      <4>1. Elements(b) \subseteq Items
        BY <1>1, <2>1, <3>1, TakenOrPending
      <4> QED
        BY <1>1, <1>2, <1>3, <2>1, <3>1, <4>1 DEF AnswerInv, Answered
    <3> QED
      BY <3>1, <3>3, <3>4, <3>5 DEF AnswerInv
  <2>3. CASE pending' = p /\ UNCHANGED <<pc, batch, taken>>
    <3>1. \A j \in Items : Held(j)' <=> Held(j)
      BY <2>3 DEF Held
    <3> HIDE DEF p
    <3>2. IdleHandsEmpty' /\ HeldOnce' /\ HeldTaken' /\ VerdictKnown'
      BY <1>1, <2>1, <2>3, <3>1 DEF AnswerInv, IdleHandsEmpty, HeldOnce, HeldTaken, VerdictKnown
    <3>3. Unanswered'
      BY <1>2, <1>3, <2>1, <2>3, <3>1 DEF AnswerInv, Unanswered
    <3>4. \A j \in Elements(taken') : Answered(j)'
      BY <1>1, <1>2, <1>3, <2>1, <2>3, <3>1 DEF AnswerInv, Answered
    <3> QED
      BY <3>2, <3>3, <3>4 DEF AnswerInv
  <2> QED
    BY <1>5, <2>2, <2>3 DEF Accept
<1> QED
  BY <1>4, <1>5 DEF AddNoWait

\* A goroutine that is done with its batch takes another, or ends
\* (batcher.go:265-273).
LEMMA TakeNextAnswers ==
    ASSUME IInv, IInv', AnswerInv, NEW g \in Items, TakeNext(g)
    PROVE  AnswerInv'
<1>1. /\ TypeOK /\ TypeOK' /\ InOrder /\ InOrder'
      /\ pc[g] = "reporting" /\ batch[g] = << >> /\ pending \in Seq(Items)
      /\ UNCHANGED <<err, errc, add, verdict>>
  BY DEF IInv, TypeOK, TakeNext, callerVars
<1>2. CASE batchReady(pending) /\ Take(g, pending)
  <2> DEFINE b == nextBatch(pending)
  <2>1. /\ batch' = [batch EXCEPT ![g] = b]
        /\ Elements(pending) = Elements(b) \cup Elements(pending')
        /\ Elements(taken') = Elements(taken) \cup Elements(b)
        /\ \A j \in Items : Held(j)' <=> Held(j) \/ j \in Elements(b)
        /\ HeldOnce' /\ HeldTaken'
    BY <1>1, <1>2, TakeMoves DEF AnswerInv
  <2>2. /\ \A h \in Items : batch'[h] = IF h = g THEN b ELSE batch[h]
        /\ \A h \in Items : pc'[h] = IF h = g THEN "ready" ELSE pc[h]
    BY <1>1, <1>2, <2>1 DEF TypeOK, Take
  <2> HIDE DEF b
  <2>3. IdleHandsEmpty' /\ VerdictKnown'
    BY <1>1, <2>2 DEF AnswerInv, IdleHandsEmpty, VerdictKnown
  <2>4. Unanswered'
    BY <1>1, <2>1 DEF AnswerInv, Unanswered
  <2>5. \A j \in Elements(taken') : Answered(j)'
    <3>1. Elements(b) \subseteq Items /\ Elements(taken) \subseteq Items
      BY <1>1, <2>1, TakenOrPending
    <3> QED
      BY <1>1, <2>1, <3>1 DEF AnswerInv, Answered
  <2> QED
    BY <2>1, <2>3, <2>4, <2>5 DEF AnswerInv
<1>3. CASE pc' = [pc EXCEPT ![g] = "exiting"] /\ UNCHANGED <<pending, batch, taken>>
  <2>1. \A j \in Items : Held(j)' <=> Held(j)
    BY <1>3 DEF Held
  <2>2. \A h \in Items : pc'[h] = IF h = g THEN "exiting" ELSE pc[h]
    BY <1>1, <1>3 DEF TypeOK
  <2>3. IdleHandsEmpty' /\ VerdictKnown'
    BY <1>1, <1>3, <2>2 DEF AnswerInv, IdleHandsEmpty, VerdictKnown
  <2>6. HeldOnce' /\ HeldTaken'
    BY <1>3, <2>1 DEF AnswerInv, HeldOnce, HeldTaken
  <2>4. Unanswered'
    BY <1>1, <1>3, <2>1 DEF AnswerInv, Unanswered
  <2>5. \A j \in Elements(taken') : Answered(j)'
    BY <1>1, <1>3, <2>1, TakenOrPending DEF AnswerInv, Answered
  <2> QED
    BY <2>3, <2>4, <2>5, <2>6 DEF AnswerInv
<1> QED
  BY <1>2, <1>3 DEF TakeNext

\* The items of a batch get its verdict, and then hear of it one by one
\* (batcher.go:261-264).
LEMMA HandlerReturnsAnswers ==
    ASSUME IInv, AnswerInv, NEW g \in Items, NEW v \in Verdicts, HandlerReturns(g, v)
    PROVE  AnswerInv'
<1> USE DEF callerVars, queueVars
<1>1. /\ TypeOK /\ InOrder /\ pc[g] = "calling"
      /\ \A h \in Items : pc'[h] = IF h = g THEN "reporting" ELSE pc[h]
      /\ \A h \in Items : err'[h] = IF h = g THEN v ELSE err[h]
      /\ \A j \in Items : verdict'[j] = IF j \in Elements(batch[g]) THEN v ELSE verdict[j]
      /\ UNCHANGED <<pending, batch, errc, add, taken>>
  BY DEF IInv, TypeOK, HandlerReturns
<1>2. /\ \A j \in Items : Held(j)' <=> Held(j)
      /\ \A j \in Items : j \in Elements(batch[g]) => Held(j)
      /\ Elements(taken) \subseteq Items
      /\ \A h \in Items : Elements(batch[h]) \subseteq Items
  BY <1>1, TakenOrPending, ElementOfSeq DEF Held, TypeOK, Elements
<1>3. IdleHandsEmpty' /\ HeldOnce' /\ HeldTaken' /\ Unanswered'
  BY <1>1, <1>2 DEF AnswerInv, IdleHandsEmpty, HeldOnce, HeldTaken, Unanswered
<1>4. VerdictKnown'
  <2> SUFFICES ASSUME NEW h \in Items, pc'[h] = "reporting", NEW j \in Elements(batch[h])
               PROVE  verdict'[j] = err'[h]
    BY <1>1 DEF VerdictKnown
  <2>1. CASE h = g
    BY <1>1, <1>2, <2>1
  <2>2. CASE h # g
    <3>1. j \notin Elements(batch[g]) /\ pc[h] = "reporting"
      BY <1>1, <2>2 DEF AnswerInv, HeldOnce
    <3> QED
      BY <1>1, <1>2, <2>2, <3>1 DEF AnswerInv, VerdictKnown
  <2> QED
    BY <2>1, <2>2
<1>5. \A j \in Elements(taken') : Answered(j)'
  BY <1>1, <1>2 DEF AnswerInv, Answered
<1> QED
  BY <1>3, <1>4, <1>5 DEF AnswerInv

\* An item leaves its batch when its channel has the verdict
\* (batcher.go:262-264).
LEMMA ReportAnswers ==
    ASSUME IInv, AnswerInv, NEW g \in Items, Report(g)
    PROVE  AnswerInv'
<1> USE DEF queueVars
<1> DEFINE i == Head(batch[g])
           rest == Tail(batch[g])
<1>1. /\ TypeOK /\ InOrder /\ pc[g] = "reporting"
      /\ batch[g] \in Seq(Items) /\ batch[g] # << >> /\ Distinct(batch[g])
  BY DEF IInv, TypeOK, Report, AnswerInv, HeldOnce
<1>2. /\ i \in Items /\ Distinct(rest) /\ i \notin Elements(rest)
      /\ Elements(batch[g]) = {i} \cup Elements(rest)
  BY <1>1, TailApart
<1>3. /\ \A h \in Items : batch'[h] = IF h = g THEN rest ELSE batch[h]
      /\ \A j \in Items : errc'[j] = IF j = i THEN err[g] ELSE errc[j]
      /\ UNCHANGED <<pending, pc, err, add, taken, verdict>>
  BY <1>1, <1>2 DEF Report, TypeOK, history
<1> HIDE DEF i, rest
<1>4. \A h \in Items \ {g} : i \notin Elements(batch[h])
  BY <1>2 DEF AnswerInv, HeldOnce
<1>5. \A j \in Items : Held(j)' <=> Held(j) /\ j # i
  BY <1>2, <1>3, <1>4 DEF Held
<1>6. /\ Held(i) /\ i \in Elements(taken) /\ i \notin Elements(pending)
      /\ verdict[i] = err[g] /\ add[i] \in {"waiting", "ctx"}
      /\ Elements(taken) \subseteq Items
  BY <1>1, <1>2, TakenOrPending DEF Held, AnswerInv, HeldTaken, VerdictKnown, Unanswered
<1>7. HeldOnce' /\ HeldTaken'
  BY <1>2, <1>3, <1>5 DEF AnswerInv, HeldOnce, HeldTaken
<1>8. IdleHandsEmpty' /\ VerdictKnown'
  BY <1>1, <1>2, <1>3 DEF AnswerInv, IdleHandsEmpty, VerdictKnown
<1>9. Unanswered'
  BY <1>3, <1>5, <1>6 DEF AnswerInv, Unanswered
<1>10. \A j \in Elements(taken') : Answered(j)'
  BY <1>3, <1>5, <1>6 DEF AnswerInv, Answered
<1> QED
  BY <1>7, <1>8, <1>9, <1>10 DEF AnswerInv

\* Add returns what is in the channel, or leaves (batcher.go:165-170).
LEMMA AddReturnsAnswers ==
    ASSUME IInv, AnswerInv, NEW i \in Items, AddResult(i) \/ AddCtxDone(i)
    PROVE  AnswerInv'
<1> USE DEF queueVars, handlerVars, history
<1>1. /\ TypeOK /\ InOrder /\ add[i] = "waiting"
      /\ UNCHANGED <<pending, pc, batch, err, taken, verdict>>
  BY DEF IInv, AddResult, AddCtxDone
<1>2. /\ \A j \in Items : Held(j)' <=> Held(j)
      /\ Elements(taken) \subseteq Items
  BY <1>1, TakenOrPending DEF Held
<1>3. IdleHandsEmpty' /\ HeldOnce' /\ HeldTaken' /\ VerdictKnown'
  BY <1>1, <1>2 DEF AnswerInv, IdleHandsEmpty, HeldOnce, HeldTaken, VerdictKnown
<1>4. CASE AddResult(i)
  <2>1. /\ \A j \in Items : add'[j] = IF j = i THEN errc[i] ELSE add[j]
        /\ \A j \in Items : errc'[j] = IF j = i THEN "empty" ELSE errc[j]
        /\ errc[i] # "empty" /\ errc[i] # "idle" /\ errc[i] # "none"
    BY <1>1, <1>4 DEF AddResult, TypeOK, Verdicts, Refusals
  <2>2. Unanswered'
    BY <1>1, <1>2, <2>1 DEF AnswerInv, Unanswered
  <2>3. verdict[i] # "waiting"
    BY <1>1 DEF TypeOK, Verdicts
  <2>4. \A j \in Elements(taken') : Answered(j)'
    BY <1>1, <1>2, <2>1, <2>3 DEF AnswerInv, Answered
  <2> QED
    BY <1>3, <2>2, <2>4 DEF AnswerInv
<1>5. CASE AddCtxDone(i)
  <2>1. /\ \A j \in Items : add'[j] = IF j = i THEN "ctx" ELSE add[j]
        /\ errc' = errc
    BY <1>1, <1>5 DEF AddCtxDone, TypeOK
  <2>2. Unanswered'
    BY <1>1, <1>2, <2>1 DEF AnswerInv, Unanswered
  <2>3. \A j \in Elements(taken') : Answered(j)'
    BY <1>1, <1>2, <2>1 DEF AnswerInv, Answered
  <2> QED
    BY <1>3, <2>2, <2>3 DEF AnswerInv
<1> QED
  BY <1>4, <1>5

\* The steps that touch no item.
LEMMA OtherAnswers ==
    ASSUME IInv, AnswerInv, UNCHANGED <<pending, batch, err, errc, add, taken, verdict>>,
           \A g \in Items : \/ pc'[g] = pc[g]
                            \/ pc[g] = "ready" /\ pc'[g] = "calling"
                            \/ pc[g] = "exiting" /\ pc'[g] = "done"
    PROVE  AnswerInv'
<1>1. \A j \in Items : Held(j)' <=> Held(j)
  BY DEF Held
<1>2. Elements(taken) \subseteq Items
  BY TakenOrPending DEF IInv
<1>3. HeldOnce' /\ HeldTaken' /\ Unanswered'
  BY <1>1 DEF AnswerInv, HeldOnce, HeldTaken, Unanswered
<1>4. IdleHandsEmpty'
  BY DEF AnswerInv, IdleHandsEmpty
<1>5. VerdictKnown'
  BY DEF AnswerInv, VerdictKnown
<1>6. \A j \in Elements(taken') : Answered(j)'
  BY <1>1, <1>2 DEF AnswerInv, Answered
<1> QED
  BY <1>3, <1>4, <1>5, <1>6 DEF AnswerInv

\* No step loses an answer.
LEMMA NextAnswerInv == IInv /\ IInv' /\ AnswerInv /\ [Next]_vars => AnswerInv'
<1> SUFFICES ASSUME IInv, IInv', AnswerInv, [Next]_vars
             PROVE  AnswerInv'
  OBVIOUS
<1>0. pc \in [Items -> Phases]
  BY DEF IInv, TypeOK
<1>1. ASSUME NEW g \in Items, CallHandler(g) \/ WgDone(g)
      PROVE  AnswerInv'
  BY <1>0, <1>1, OtherAnswers DEF CallHandler, WgDone, queueVars, callerVars, history
<1>2. ASSUME ShutdownFlag \/ ShutdownReturns \/ UNCHANGED vars
      PROVE  AnswerInv'
  BY <1>2, OtherAnswers
     DEF ShutdownFlag, ShutdownReturns, vars, queueVars, handlerVars, callerVars, history
<1>3. ASSUME NEW i \in Items, AddNoWait(i)
      PROVE  AnswerInv'
  BY <1>3, AddNoWaitAnswers
<1>4. ASSUME NEW i \in Items, AddResult(i) \/ AddCtxDone(i)
      PROVE  AnswerInv'
  BY <1>4, AddReturnsAnswers
<1>5. ASSUME NEW g \in Items, NEW v \in Verdicts, HandlerReturns(g, v)
      PROVE  AnswerInv'
  BY <1>5, HandlerReturnsAnswers
<1>6. ASSUME NEW g \in Items, Report(g)
      PROVE  AnswerInv'
  BY <1>6, ReportAnswers
<1>7. ASSUME NEW g \in Items, TakeNext(g)
      PROVE  AnswerInv'
  BY <1>7, TakeNextAnswers
<1> QED
  BY <1>1, <1>2, <1>3, <1>4, <1>5, <1>6, <1>7 DEF Next, GoroutineStep, Finished

\* AnswerInv holds throughout, on top of IInv.
LEMMA AnswersInvariant == Spec => []AnswerInv
<1>1. Init => AnswerInv
  BY InitAnswerInv
<1>2. IInv /\ IInv' /\ AnswerInv /\ [Next]_vars => AnswerInv'
  BY NextAnswerInv
<1> QED
  BY <1>1, <1>2, Invariance, PTL DEF Spec
-----------------------------------------------------------------------------
(* Results.                                                                *)

\* An item is in the hands of one goroutine at most, once, and its channel is
\* empty there: a handler goroutine never blocks on m.errc <- err
\* (batcher.go:180, 247, 262-264).
THEOREM HeldByOne == Spec => []OneHandler
<1>1. AnswerInv => OneHandler
  <2> SUFFICES ASSUME AnswerInv, NEW i \in Items
               PROVE  /\ Cardinality(HeldBy(i)) =< 1
                      /\ \A g \in HeldBy(i) : \A j, k \in 1 .. Len(batch[g]) :
                            batch[g][j] = i /\ batch[g][k] = i => j = k
                      /\ HeldBy(i) # {} => errc[i] = "empty" /\ add[i] \in {"waiting", "ctx"}
    BY DEF OneHandler
  <2>1. \A g, h \in HeldBy(i) : g = h
    BY DEF AnswerInv, HeldOnce, HeldBy
  <2>2. Cardinality(HeldBy(i)) =< 1
    <3>1. CASE HeldBy(i) = {}
      BY <3>1, FS_EmptySet
    <3>2. CASE HeldBy(i) # {}
      <4>1. PICK g \in HeldBy(i) : TRUE
        BY <3>2
      <4>2. HeldBy(i) = {g}
        BY <2>1, <4>1
      <4>3. Cardinality({g}) = 1
        BY FS_Singleton
      <4> QED
        BY <4>2, <4>3
    <3> QED
      BY <3>1, <3>2
  <2>3. \A g \in HeldBy(i) : \A j, k \in 1 .. Len(batch[g]) :
          batch[g][j] = i /\ batch[g][k] = i => j = k
    BY DEF AnswerInv, HeldOnce, HeldBy, Distinct
  <2>4. HeldBy(i) # {} => errc[i] = "empty" /\ add[i] \in {"waiting", "ctx"}
    BY HeldIsHeldBy DEF AnswerInv, Unanswered
  <2> QED
    BY <2>2, <2>3, <2>4
<1> QED
  BY <1>1, AnswersInvariant, PTL

\* No answer is lost, given twice or given to another caller, in whatever
\* order goroutines report and callers leave (batcher.go:162-171, 261-264).
THEOREM NoAnswerLost == Spec => []AnswerKept
<1>1. IInv /\ AnswerInv => AnswerKept
  <2> SUFFICES ASSUME IInv, AnswerInv
               PROVE  AnswerKept
    OBVIOUS
  <2>1. Elements(taken) \subseteq Items
    BY TakenOrPending DEF IInv
  <2> QED
    BY <2>1, HeldIsHeldBy DEF AnswerInv, Answered, AnswerKept
<1> QED
  BY <1>1, Invariance, AnswersInvariant, PTL
=============================================================================

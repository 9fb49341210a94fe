------------------------- MODULE SubscriptionProofs -------------------------
(***************************************************************************)
(* Proofs about DeliverySubscription.tla and SmtpDelivery.tla, for any     *)
(* number of Receives and Shutdowns, any events and any options.           *)
(***************************************************************************)
EXTENDS SmtpDelivery, CommonLemmas

-----------------------------------------------------------------------------
(* Sequences without repetition.                                           *)

Distinct(s) == \A j, k \in 1 .. Len(s) : s[j] = s[k] => j = k

\* The empty sequence.
LEMMA EmptyElements ==
    /\ Elements(<< >>) = {} /\ Distinct(<< >>)
    /\ \A S : << >> \in Seq(S)
  BY DEF Elements, Distinct

\* Two sequences in a row.
LEMMA ConcatElements ==
    ASSUME NEW S, NEW s \in Seq(S), NEW t \in Seq(S)
    PROVE  /\ s \o t \in Seq(S)
           /\ Elements(s \o t) = Elements(s) \cup Elements(t)
<1>1. /\ Len(s) \in Nat /\ Len(t) \in Nat /\ Len(s \o t) = Len(s) + Len(t)
      /\ s \o t \in Seq(S)
      /\ \A k \in 1 .. Len(s) + Len(t) :
           (s \o t)[k] = IF k =< Len(s) THEN s[k] ELSE t[k - Len(s)]
  BY ConcatProperties
<1>2. Elements(s \o t) \subseteq Elements(s) \cup Elements(t)
  BY <1>1 DEF Elements
<1>3. Elements(s) \subseteq Elements(s \o t)
  BY <1>1 DEF Elements
<1>4. ASSUME NEW k \in 1 .. Len(t)
      PROVE  t[k] \in Elements(s \o t)
  <2>1. k + Len(s) \in 1 .. Len(s) + Len(t) /\ (s \o t)[k + Len(s)] = t[k]
    BY <1>1
  <2> QED
    BY <1>1, <2>1 DEF Elements
<1> QED
  BY <1>1, <1>2, <1>3, <1>4 DEF Elements

\* Two sequences in which nothing comes twice, and that have nothing in common.
LEMMA ConcatDistinct ==
    ASSUME NEW S, NEW s \in Seq(S), NEW t \in Seq(S), Distinct(s), Distinct(t),
           Elements(s) \cap Elements(t) = {}
    PROVE  Distinct(s \o t)
<1>1. /\ Len(s) \in Nat /\ Len(t) \in Nat /\ Len(s \o t) = Len(s) + Len(t)
      /\ \A k \in 1 .. Len(s) + Len(t) :
           (s \o t)[k] = IF k =< Len(s) THEN s[k] ELSE t[k - Len(s)]
  BY ConcatProperties
<1>2. \A j \in 1 .. Len(s), k \in 1 .. Len(t) : s[j] # t[k]
  BY DEF Elements
<1> SUFFICES ASSUME NEW j \in 1 .. Len(s) + Len(t), NEW k \in 1 .. Len(s) + Len(t),
                    (s \o t)[j] = (s \o t)[k], j < k
             PROVE  FALSE
  BY <1>1 DEF Distinct
<1>3. CASE k =< Len(s)
  BY <1>1, <1>3 DEF Distinct
<1>4. CASE j =< Len(s) /\ k > Len(s)
  <2>1. k - Len(s) \in 1 .. Len(t) /\ j \in 1 .. Len(s)
    BY <1>1, <1>4
  <2> QED
    BY <1>1, <1>2, <1>4, <2>1
<1>5. CASE j > Len(s)
  <2>1. j - Len(s) \in 1 .. Len(t) /\ k - Len(s) \in 1 .. Len(t)
    BY <1>1, <1>5
  <2>2. t[j - Len(s)] = t[k - Len(s)]
    BY <1>1, <1>5
  <2>3. j - Len(s) = k - Len(s)
    BY <2>1, <2>2 DEF Distinct
  <2> QED
    BY <1>1, <2>3
<1> QED
  BY <1>3, <1>4, <1>5, <1>1

\* One more element, that was not there.
LEMMA AppendDistinct ==
    ASSUME NEW S, NEW s \in Seq(S), NEW m \in S
    PROVE  /\ Append(s, m) \in Seq(S) /\ Elements(Append(s, m)) = Elements(s) \cup {m}
           /\ Distinct(s) /\ m \notin Elements(s) => Distinct(Append(s, m))
<1>1. /\ Len(s) \in Nat /\ Append(s, m) \in Seq(S) /\ Len(Append(s, m)) = Len(s) + 1
      /\ \A k \in 1 .. Len(s) + 1 : Append(s, m)[k] = IF k = Len(s) + 1 THEN m ELSE s[k]
  OBVIOUS
<1>2. Elements(Append(s, m)) = Elements(s) \cup {m}
  <2>1. Elements(Append(s, m)) \subseteq Elements(s) \cup {m}
    BY <1>1 DEF Elements
  <2>2. Elements(s) \subseteq Elements(Append(s, m))
    BY <1>1 DEF Elements
  <2>3. m \in Elements(Append(s, m))
    BY <1>1 DEF Elements
  <2> QED
    BY <2>1, <2>2, <2>3
<1>3. ASSUME Distinct(s), m \notin Elements(s)
      PROVE  Distinct(Append(s, m))
  <2>1. \A k \in 1 .. Len(s) : s[k] # m
    BY <1>3 DEF Elements
  <2> QED
    BY <1>1, <1>3, <2>1 DEF Distinct
<1> QED
  BY <1>1, <1>2, <1>3

\* A sequence in which nothing comes twice, cut in two.
LEMMA CutDistinct ==
    ASSUME NEW S, NEW s \in Seq(S), Distinct(s), NEW n \in 0 .. Len(s)
    PROVE  LET t == SubSeq(s, 1, n)  u == SubSeq(s, n + 1, Len(s)) IN
           /\ t \in Seq(S) /\ u \in Seq(S) /\ Distinct(t) /\ Distinct(u)
           /\ Elements(s) = Elements(t) \cup Elements(u)
           /\ Elements(t) \cap Elements(u) = {}
<1> DEFINE t == SubSeq(s, 1, n)
           u == SubSeq(s, n + 1, Len(s))
<1>1. /\ Len(s) \in Nat /\ Len(t) = n /\ Len(u) = Len(s) - n
      /\ t \in Seq(S) /\ u \in Seq(S)
      /\ \A k \in 1 .. n : t[k] = s[k]
      /\ \A k \in 1 .. Len(s) - n : u[k] = s[k + n]
  BY SubSeqProperties
<1> HIDE DEF t, u
<1>2. Distinct(t)
  BY <1>1 DEF Distinct
<1>3. Distinct(u)
  <2> SUFFICES ASSUME NEW j \in 1 .. Len(u), NEW k \in 1 .. Len(u), u[j] = u[k]
               PROVE  j = k
    BY DEF Distinct
  <2>1. j + n \in 1 .. Len(s) /\ k + n \in 1 .. Len(s) /\ s[j + n] = s[k + n]
    BY <1>1
  <2>2. j + n = k + n
    BY <2>1 DEF Distinct
  <2> QED
    BY <1>1, <2>2
<1>4. \A j \in 1 .. Len(t), k \in 1 .. Len(u) : t[j] # u[k]
  <2> SUFFICES ASSUME NEW j \in 1 .. n, NEW k \in 1 .. Len(s) - n, s[j] = s[k + n]
               PROVE  FALSE
    BY <1>1
  <2>1. j \in 1 .. Len(s) /\ k + n \in 1 .. Len(s) /\ j # k + n
    BY <1>1
  <2> QED
    BY <2>1 DEF Distinct
<1>5. Elements(s) \subseteq Elements(t) \cup Elements(u)
  <2> SUFFICES ASSUME NEW k \in 1 .. Len(s)
               PROVE  s[k] \in Elements(t) \cup Elements(u)
    BY DEF Elements
  <2>1. CASE k =< n
    BY <1>1, <2>1 DEF Elements
  <2>2. CASE k > n
    <3>1. k - n \in 1 .. Len(u) /\ u[k - n] = s[k]
      BY <1>1, <2>2
    <3> QED
      BY <3>1 DEF Elements
  <2> QED
    BY <1>1, <2>1, <2>2
<1>6. Elements(t) \subseteq Elements(s)
  BY <1>1 DEF Elements
<1>7. Elements(u) \subseteq Elements(s)
  BY <1>1 DEF Elements
<1>8. Elements(t) \cap Elements(u) = {}
  BY <1>4 DEF Elements
<1> QED
  BY <1>1, <1>2, <1>3, <1>5, <1>6, <1>7, <1>8 DEF t, u

\* The head of a sequence in which nothing comes twice is not in its tail.
LEMMA TailApart ==
    ASSUME NEW S, NEW s \in Seq(S), s # << >>, Distinct(s)
    PROVE  /\ Head(s) \in S /\ Tail(s) \in Seq(S) /\ Distinct(Tail(s))
           /\ Elements(s) = {Head(s)} \cup Elements(Tail(s))
           /\ Head(s) \notin Elements(Tail(s))
<1>1. /\ Head(s) = s[1] /\ Head(s) \in S /\ Tail(s) \in Seq(S)
      /\ Len(s) \in Nat /\ Len(s) > 0 /\ Len(Tail(s)) = Len(s) - 1
      /\ \A k \in 1 .. Len(Tail(s)) : Tail(s)[k] = s[k + 1]
  BY HeadTailProperties, EmptySeq, LenProperties
<1>2. Distinct(Tail(s))
  <2> SUFFICES ASSUME NEW j \in 1 .. Len(Tail(s)), NEW k \in 1 .. Len(Tail(s)),
                      Tail(s)[j] = Tail(s)[k]
               PROVE  j = k
    BY DEF Distinct
  <2>1. j + 1 \in 1 .. Len(s) /\ k + 1 \in 1 .. Len(s) /\ s[j + 1] = s[k + 1]
    BY <1>1
  <2>2. j + 1 = k + 1
    BY <2>1 DEF Distinct
  <2> QED
    BY <1>1, <2>2
<1>3. \A k \in 2 .. Len(s) : s[k] = Tail(s)[k - 1] /\ k - 1 \in 1 .. Len(Tail(s))
  BY <1>1
<1>4. Elements(s) = {Head(s)} \cup Elements(Tail(s))
  BY <1>1, <1>3 DEF Elements
<1>5. \A k \in 1 .. Len(Tail(s)) : Tail(s)[k] # s[1]
  <2> SUFFICES ASSUME NEW k \in 1 .. Len(Tail(s)), s[k + 1] = s[1]
               PROVE  FALSE
    BY <1>1
  <2>1. k + 1 \in 1 .. Len(s) /\ 1 \in 1 .. Len(s) /\ k + 1 # 1
    BY <1>1
  <2> QED
    BY <2>1 DEF Distinct
<1> QED
  BY <1>1, <1>2, <1>4, <1>5 DEF Elements

\* As many elements as places.
LEMMA DistinctSize ==
    ASSUME NEW S, NEW s \in Seq(S), Distinct(s)
    PROVE  IsFiniteSet(Elements(s)) /\ Cardinality(Elements(s)) = Len(s)
<1> DEFINE f == [k \in 1 .. Len(s) |-> s[k]]
<1>1. Len(s) \in Nat
  OBVIOUS
<1>2. f \in Bijection(1 .. Len(s), Elements(s))
  BY <1>1 DEF Bijection, Injection, Surjection, IsInjective, Elements, Distinct
<1>3. ExistsBijection(1 .. Len(s), Elements(s))
  BY <1>2 DEF ExistsBijection
<1>4. IsFiniteSet(1 .. Len(s)) /\ Cardinality(1 .. Len(s)) = Len(s)
  BY <1>1, FS_Interval
<1> QED
  BY <1>3, <1>4, FS_Bijection
-----------------------------------------------------------------------------
(* The inductive invariant.                                                *)

\* waitc is set while there is a fetch, and only then.
FetchInv == (waitc <=> fetch # "none") /\ WaitersHaveFetch

\* A call has no result before it returns.
NoResultYet == \A c \in Receivers : rc[c] # "returned" => result[c] = "none"

\* The messages that a fetch has received are on their way while it asks, and
\* only a call that is running holds any.
OnTheWay ==
    /\ fetch # "asking" => got = << >>
    /\ \A k \in Pieces : acked[k] # << >> =>
          driver = "smtp" /\ fetch = "asking" /\ k \in DOMAIN piece /\ piece[k] = "running"

\* No message is in two places, or twice in one.
Apart ==
    /\ Distinct(server) /\ Distinct(got) /\ Distinct(arrived)
    /\ Elements(server) \cap (Elements(got) \cup Elements(arrived) \cup lost) = {}
    /\ Elements(got) \cap (Elements(arrived) \cup lost) = {}
    /\ Elements(arrived) \cap lost = {}
    /\ \A k \in Pieces :
         /\ Distinct(acked[k])
         /\ Elements(acked[k])
              \cap (Elements(server) \cup Elements(got) \cup Elements(arrived) \cup lost) = {}
         /\ \A j \in Pieces \ {k} : Elements(acked[j]) \cap Elements(acked[k]) = {}

\* Every message is somewhere, and lost only with an error.
Whole ==
    /\ Messages \subseteq Elements(server) \cup InFlight \cup Elements(got)
                     \cup Elements(arrived) \cup lost
    /\ lost # {} => err # "nil"

\* What is handed out is the front of what arrived, to one Receive each.
HandedOut ==
    /\ arrived = handed \o q
    /\ \A m \in Messages :
         Cardinality({c \in Receivers : result[c] = m})
           = Cardinality({k \in 1 .. Len(handed) : handed[k] = m})

SubscriptionInv ==
    /\ DeliveryTypeOK /\ FetchInv /\ NoResultYet /\ OnTheWay
    /\ Apart /\ Whole /\ HandedOut
-----------------------------------------------------------------------------
(* Types.                                                                  *)

\* The events are a finite set, and no results of another kind.
LEMMA MessagesFacts ==
    /\ Events \in Seq(Messages) /\ Distinct(Events) /\ IsFiniteSet(Messages)
    /\ "none" \notin Messages /\ "ctx" \notin Messages /\ Permanent \cap Messages = {}
<1>1. Events \in Seq(Messages) /\ Distinct(Events)
  BY SubscriptionAssumption DEF Distinct
<1> QED
  BY <1>1, DistinctSize, SubscriptionAssumption DEF Messages

\* The next size and the number wanted are numbers.
LEMMA PrefetchTypes ==
    ASSUME TypeOK, Prefetch
    PROVE  /\ waitc' \in BOOLEAN /\ running' \in Sizes /\ measured' \in BOOLEAN
           /\ fetch' \in {"none", "starting", "asking"} /\ want' \in Nat
           /\ UNCHANGED <<asks, piece, got, gotErr>>
<1>1. CASE ~ waitc /\ RunningOut
  <2>1. \A r \in NextSizes : r \in Sizes
    BY DEF NextSizes, TypeOK
  <2>2. \A r \in Sizes : Ceil(r) \in Nat
    BY SubscriptionAssumption DEF Ceil
  <2> QED
    BY <1>1, <2>1, <2>2 DEF Prefetch, TypeOK
<1>2. CASE ~ (~ waitc /\ RunningOut)
  BY <1>2 DEF Prefetch, TypeOK, fetchVars
<1> QED
  BY <1>1, <1>2

\* A new subscription has the types.
LEMMA InitTypes == DeliveryInit => DeliveryTypeOK
<1> SUFFICES ASSUME DeliveryInit PROVE DeliveryTypeOK
  OBVIOUS
<1>1. << >> \in Seq(Messages) /\ << >> \in Seq(Nat) /\ << >> \in Seq({"running", "ok", "failed"})
  BY EmptyElements
<1>2. opts \in Options /\ 4 \in Sizes /\ server \in Seq(Messages)
  BY SubscriptionAssumption DEF DeliveryInit, Init
<1>3. TypeOK
  BY <1>1, <1>2 DEF DeliveryInit, Init, TypeOK
<1> QED
  BY <1>1, <1>3 DEF DeliveryInit, DeliveryTypeOK

\* Every step keeps the types.
LEMMA TypesStep == DeliveryTypeOK /\ [DeliveryNext]_deliveryVars => DeliveryTypeOK'
<1> SUFFICES ASSUME DeliveryTypeOK, [DeliveryNext]_deliveryVars
             PROVE  DeliveryTypeOK'
  OBVIOUS
<1>0. TypeOK
  BY DEF DeliveryTypeOK
<1> USE DEF DeliveryTypeOK, subVars, fetchVars, history
<1>1. ASSUME NEW c \in Receivers, Receive(c) \/ CtxDone(c) \/ LoopError(c),
             UNCHANGED <<driver, acked>>
      PROVE  DeliveryTypeOK'
  BY <1>1 DEF Receive, CtxDone, LoopError, AtTop, Return, TypeOK
<1>2. ASSUME NEW c \in Receivers, LoopTake(c), UNCHANGED <<driver, acked>>
      PROVE  DeliveryTypeOK'
  <2>1. Head(q) \in Messages /\ Tail(q) \in Seq(Messages)
    BY <1>2 DEF LoopTake, TypeOK
  <2> QED
    BY <1>0, <1>2, <2>1, PrefetchTypes DEF LoopTake, Return, TypeOK
<1>3. ASSUME NEW c \in Receivers, LoopWait(c), UNCHANGED <<driver, acked>>
      PROVE  DeliveryTypeOK'
  BY <1>0, <1>3, PrefetchTypes DEF LoopWait, TypeOK
<1>4. ASSUME FetchStart, UNCHANGED <<driver, acked>>
      PROVE  DeliveryTypeOK'
  <2>1. Split(want, opts) \in Seq(Nat)
    BY SplitType DEF TypeOK
  <2>2. piece' \in Seq({"running", "ok", "failed"})
    BY <1>4, <2>1 DEF FetchStart
  <2> QED
    BY <1>4, <2>1, <2>2, EmptyElements DEF FetchStart, TypeOK
<1>5. ASSUME FetchEnd, UNCHANGED <<driver, acked>>
      PROVE  DeliveryTypeOK'
  <2>1. q \o got \in Seq(Messages) /\ arrived \o got \in Seq(Messages)
    BY ConcatElements DEF TypeOK
  <2>2. Elements(got) \subseteq Messages
    BY DEF Elements, TypeOK
  <2> QED
    BY <1>5, <2>1, <2>2, EmptyElements DEF FetchEnd, FetchOver, WakeAll, TypeOK, Permanent
<1>6. ASSUME NEW s \in Stoppers, Shutdown(s) \/ ShutdownCancel(s) \/ ShutdownClose(s),
             UNCHANGED <<driver, acked>>
      PROVE  DeliveryTypeOK'
  <2>1. CASE Shutdown(s)
    BY <1>6, <2>1 DEF Shutdown, TypeOK, Permanent
  <2>2. CASE ShutdownCancel(s)
    BY <1>6, <2>2 DEF ShutdownCancel, TypeOK
  <2>3. CASE ShutdownClose(s)
    BY <1>6, <2>3 DEF ShutdownClose, TypeOK
  <2> QED
    BY <1>6, <2>1, <2>2, <2>3
<1>7. ASSUME NEW k \in Pieces, AnyAnswers(k), UNCHANGED <<driver, acked>>
      PROVE  DeliveryTypeOK'
  <2>1. ASSUME NEW n \in 0 .. Len(server), PieceReceives(k, n)
        PROVE  DeliveryTypeOK'
    <3>1. /\ SubSeq(server, 1, n) \in Seq(Messages)
          /\ SubSeq(server, n + 1, Len(server)) \in Seq(Messages)
      BY SubSeqProperties DEF TypeOK
    <3>2. got \o SubSeq(server, 1, n) \in Seq(Messages)
      BY <3>1, ConcatElements DEF TypeOK
    <3>3. piece' \in Seq({"running", "ok", "failed"})
      <4>1. k \in 1 .. Len(piece) /\ piece' = [piece EXCEPT ![k] = "ok"]
        <5>1. k \in DOMAIN piece
          BY <1>7, Zenon DEF AnyAnswers
        <5>2. piece' = [piece EXCEPT ![k] = "ok"]
          BY <2>1, Zenon DEF PieceReceives
        <5> QED
          BY <1>0, <5>1, <5>2 DEF TypeOK
      <4> QED
        BY <4>1, ExceptSeq DEF TypeOK
    <3>4. /\ got' \in Seq(Messages) /\ server' \in Seq(Messages)
          /\ UNCHANGED <<subVars, fetch, want, asks, gotErr, rc, result, shut, history>>
      <4> HIDE DEF subVars, history, DeliveryTypeOK
      <4> QED
        BY <2>1, <3>1, <3>2 DEF PieceReceives
    <3> QED
      BY <1>0, <1>7, <3>3, <3>4 DEF DeliveryTypeOK, TypeOK
  <2>2. ASSUME NEW e \in {"fatal", "canceled"}, PieceFails(k, e)
        PROVE  DeliveryTypeOK'
    BY <1>7, <2>2 DEF PieceFails, AnyAnswers, TypeOK
  <2> QED
    BY <1>7, <2>1, <2>2 DEF AnyAnswers, PieceAnswers
<1>8. ASSUME NEW k \in Pieces, SmtpReceives(k)
      PROVE  DeliveryTypeOK'
  <2>1. Head(server) \in Messages /\ Tail(server) \in Seq(Messages)
    BY <1>8 DEF SmtpReceives, TypeOK
  <2> QED
    BY <1>8, <2>1 DEF SmtpReceives, TypeOK
<1>9. ASSUME NEW k \in Pieces, SmtpEnds(k)
      PROVE  DeliveryTypeOK'
  <2>1. ASSUME NEW e \in {"nil", "fatal", "canceled"}, NEW out \in Seq(Messages),
               Receiving(k), SmtpReturns(k, e, out), server' \in Seq(Messages)
        PROVE  DeliveryTypeOK'
    <3>1. got \o out \in Seq(Messages)
      BY ConcatElements DEF TypeOK
    <3> QED
      BY <2>1, <3>1, EmptyElements DEF Receiving, SmtpReturns, TypeOK
  <2>2. CASE SmtpUnmarshalFails(k)
    <3>1. /\ Head(server) \in Messages /\ Tail(server) \in Seq(Messages)
          /\ Append(acked[k], Head(server)) \in Seq(Messages)
      BY <2>2 DEF SmtpUnmarshalFails, TypeOK
    <3> QED
      BY <2>1, <2>2, <3>1 DEF SmtpUnmarshalFails
  <2>3. CASE SmtpDone(k)
    BY <2>1, <2>3 DEF SmtpDone, TypeOK
  <2>4. CASE \E e \in {"fatal", "canceled"} : SmtpReceiveFails(k, e)
    BY <2>1, <2>4 DEF SmtpReceiveFails, TypeOK
  <2> QED
    BY <1>9, <2>2, <2>3, <2>4 DEF SmtpEnds
<1>10. ASSUME UNCHANGED vars, UNCHANGED <<driver, acked>>
       PROVE  DeliveryTypeOK'
  BY <1>10 DEF vars, TypeOK
<1> QED
  BY <1>1, <1>2, <1>3, <1>4, <1>5, <1>6, <1>7, <1>8, <1>9, <1>10
     DEF DeliveryNext, SubscriptionStep, Loop, Finished, deliveryVars
-----------------------------------------------------------------------------
(* Waiting, and what a call returns.                                       *)

\* After a step that may start a fetch, waitc is set if there is one; it is,
\* if q was empty.
LEMMA PrefetchStarts ==
    ASSUME TypeOK, waitc <=> fetch # "none", Prefetch
    PROVE  (waitc' <=> fetch' # "none") /\ (waitc => waitc') /\ (q = << >> => waitc')
<1>1. q = << >> => RunningOut
  BY SubscriptionAssumption DEF TypeOK, RunningOut
<1> QED
  BY <1>1 DEF Prefetch, fetchVars

\* Every step keeps waitc and the waiting calls in line with the fetch.
LEMMA FetchStep ==
    DeliveryTypeOK /\ FetchInv /\ [DeliveryNext]_deliveryVars => FetchInv'
<1> SUFFICES ASSUME DeliveryTypeOK, FetchInv, [DeliveryNext]_deliveryVars
             PROVE  FetchInv'
  OBVIOUS
<1>0. TypeOK /\ (waitc <=> fetch # "none") /\ WaitersHaveFetch
  BY DEF DeliveryTypeOK, FetchInv
<1> USE DEF subVars, fetchVars
<1>1. ASSUME UNCHANGED <<waitc, fetch>>,
             \A c \in Receivers : rc'[c] = "waiting" => rc[c] = "waiting"
      PROVE  FetchInv'
  BY <1>0, <1>1 DEF FetchInv, WaitersHaveFetch
<1>2. ASSUME NEW c \in Receivers, Receive(c) \/ CtxDone(c) \/ LoopError(c)
      PROVE  FetchInv'
  BY <1>0, <1>1, <1>2 DEF Receive, CtxDone, LoopError, Return, TypeOK
<1>3. ASSUME NEW c \in Receivers, LoopTake(c)
      PROVE  FetchInv'
  BY <1>0, <1>3, PrefetchStarts DEF LoopTake, Return, TypeOK, FetchInv, WaitersHaveFetch
<1>4. ASSUME NEW c \in Receivers, LoopWait(c)
      PROVE  FetchInv'
  BY <1>0, <1>4, PrefetchStarts DEF LoopWait, TypeOK, FetchInv, WaitersHaveFetch
<1>5. CASE FetchStart
  BY <1>0, <1>5 DEF FetchStart, FetchInv, WaitersHaveFetch
<1>6. CASE FetchEnd
  <2>1. \A c \in Receivers : rc'[c] # "waiting"
    BY <1>6 DEF FetchEnd, WakeAll
  <2> QED
    BY <1>6, <2>1 DEF FetchEnd, FetchOver, FetchInv, WaitersHaveFetch
<1>7. ASSUME NEW s \in Stoppers, Shutdown(s) \/ ShutdownCancel(s) \/ ShutdownClose(s)
      PROVE  FetchInv'
  BY <1>1, <1>7 DEF Shutdown, ShutdownCancel, ShutdownClose
<1>8. ASSUME NEW k \in Pieces, AnyAnswers(k)
      PROVE  FetchInv'
  BY <1>1, <1>8 DEF AnyAnswers, PieceAnswers, PieceReceives, PieceFails
<1>9. ASSUME NEW k \in Pieces, SmtpReceives(k) \/ SmtpEnds(k)
      PROVE  FetchInv'
  BY <1>1, <1>9 DEF SmtpReceives, SmtpEnds, SmtpUnmarshalFails, SmtpDone, SmtpReceiveFails,
     SmtpReturns
<1>10. CASE UNCHANGED vars
  BY <1>1, <1>10 DEF vars
<1> QED
  BY <1>2, <1>3, <1>4, <1>5, <1>6, <1>7, <1>8, <1>9, <1>10
     DEF DeliveryNext, SubscriptionStep, Loop, Finished, deliveryVars

\* Every step gives a result only to a call that returns.
LEMMA NoResultStep ==
    DeliveryTypeOK /\ NoResultYet /\ [DeliveryNext]_deliveryVars => NoResultYet'
<1> SUFFICES ASSUME DeliveryTypeOK, NoResultYet, [DeliveryNext]_deliveryVars
             PROVE  NoResultYet'
  OBVIOUS
<1>0. TypeOK
  BY DEF DeliveryTypeOK
<1>1. ASSUME UNCHANGED result,
             \A c \in Receivers : rc[c] = "returned" => rc'[c] = "returned"
      PROVE  NoResultYet'
  BY <1>1 DEF NoResultYet
<1>2. ASSUME NEW c \in Receivers, Receive(c) \/ LoopWait(c)
      PROVE  NoResultYet'
  BY <1>0, <1>1, <1>2 DEF Receive, LoopWait, AtTop, TypeOK
<1>3. ASSUME NEW c \in Receivers, CtxDone(c) \/ LoopError(c) \/ LoopTake(c)
      PROVE  NoResultYet'
  <2>1. PICK r : Return(c, r)
    BY <1>3 DEF CtxDone, LoopError, LoopTake
  <2> QED
    BY <1>0, <2>1 DEF Return, TypeOK, NoResultYet
<1>4. ASSUME FetchStart \/ FetchEnd
      PROVE  NoResultYet'
  BY <1>0, <1>1, <1>4 DEF FetchStart, FetchEnd, WakeAll, TypeOK
<1>5. ASSUME NEW s \in Stoppers, Shutdown(s) \/ ShutdownCancel(s) \/ ShutdownClose(s)
      PROVE  NoResultYet'
  BY <1>1, <1>5 DEF Shutdown, ShutdownCancel, ShutdownClose
<1>6. ASSUME NEW k \in Pieces, AnyAnswers(k)
      PROVE  NoResultYet'
  BY <1>1, <1>6 DEF AnyAnswers, PieceAnswers, PieceReceives, PieceFails
<1>7. ASSUME NEW k \in Pieces, SmtpReceives(k) \/ SmtpEnds(k)
      PROVE  NoResultYet'
  BY <1>1, <1>7 DEF SmtpReceives, SmtpEnds, SmtpUnmarshalFails, SmtpDone, SmtpReceiveFails,
     SmtpReturns
<1>8. CASE UNCHANGED vars
  BY <1>1, <1>8 DEF vars
<1> QED
  BY <1>2, <1>3, <1>4, <1>5, <1>6, <1>7, <1>8
     DEF DeliveryNext, SubscriptionStep, Loop, Finished, deliveryVars
-----------------------------------------------------------------------------
(* Where the messages are.                                                 *)

\* Every step has messages on their way only while a fetch asks for them.
LEMMA OnTheWayStep ==
    DeliveryTypeOK /\ FetchInv /\ OnTheWay /\ [DeliveryNext]_deliveryVars => OnTheWay'
<1> SUFFICES ASSUME DeliveryTypeOK, FetchInv, OnTheWay, [DeliveryNext]_deliveryVars
             PROVE  OnTheWay'
  OBVIOUS
<1>0. TypeOK /\ (waitc <=> fetch # "none") /\ acked \in [Pieces -> Seq(Messages)]
  BY DEF DeliveryTypeOK, FetchInv
<1>1. ASSUME UNCHANGED <<fetch, piece, got, driver, acked>>
      PROVE  OnTheWay'
  BY <1>1 DEF OnTheWay
<1>2. ASSUME Prefetch, UNCHANGED <<driver, acked>>
      PROVE  OnTheWay'
  BY <1>0, <1>1, <1>2 DEF Prefetch, fetchVars, OnTheWay
<1>3. ASSUME NEW c \in Receivers, Receive(c) \/ Loop(c) \/ CtxDone(c), UNCHANGED <<driver, acked>>
      PROVE  OnTheWay'
  BY <1>1, <1>2, <1>3 DEF Receive, Loop, LoopError, LoopTake, LoopWait, CtxDone, fetchVars
<1>4. ASSUME FetchStart, UNCHANGED <<driver, acked>>
      PROVE  OnTheWay'
  BY <1>4 DEF FetchStart, OnTheWay
<1>5. ASSUME FetchEnd, UNCHANGED <<driver, acked>>
      PROVE  OnTheWay'
  BY <1>5 DEF FetchEnd, FetchOver, OnTheWay
<1>6. ASSUME NEW s \in Stoppers, Shutdown(s) \/ ShutdownCancel(s) \/ ShutdownClose(s),
             UNCHANGED <<driver, acked>>
      PROVE  OnTheWay'
  BY <1>1, <1>6 DEF Shutdown, ShutdownCancel, ShutdownClose, fetchVars
<1>7. ASSUME NEW k \in Pieces, AnyAnswers(k), UNCHANGED <<driver, acked>>
      PROVE  OnTheWay'
  <2>1. driver = "any" /\ fetch = "asking" /\ UNCHANGED fetch
    BY <1>7 DEF AnyAnswers, PieceAnswers, PieceReceives, PieceFails
  <2> QED
    BY <1>7, <2>1 DEF OnTheWay
<1>8. ASSUME NEW k \in Pieces, SmtpReceives(k)
      PROVE  OnTheWay'
  BY <1>0, <1>8 DEF SmtpReceives, Receiving, fetchVars, OnTheWay
<1>9. ASSUME NEW k \in Pieces, SmtpEnds(k)
      PROVE  OnTheWay'
  <2>1. PICK v : /\ fetch = "asking" /\ acked' = [acked EXCEPT ![k] = << >>]
                 /\ piece' = [piece EXCEPT ![k] = v]
                 /\ UNCHANGED <<fetch, driver>>
    BY <1>9 DEF SmtpEnds, SmtpUnmarshalFails, SmtpDone, SmtpReceiveFails, SmtpReturns, Receiving
  <2>2. \A j \in DOMAIN piece : j \in DOMAIN piece' /\ (j # k => piece'[j] = piece[j])
    BY <1>0, <2>1 DEF TypeOK
  <2> QED
    BY <1>0, <2>1, <2>2 DEF OnTheWay
<1>10. ASSUME UNCHANGED vars, UNCHANGED <<driver, acked>>
       PROVE  OnTheWay'
  BY <1>1, <1>10 DEF vars, fetchVars
<1> QED
  BY <1>3, <1>4, <1>5, <1>6, <1>7, <1>8, <1>9, <1>10
     DEF DeliveryNext, SubscriptionStep, Finished, deliveryVars

\* What a call holds moves on to the fetch, with one more message or without.
LEMMA CallHandsOver ==
    ASSUME DeliveryTypeOK, Apart, Whole, NEW k \in Pieces,
           UNCHANGED <<arrived, lost, err>>, acked' = [acked EXCEPT ![k] = << >>],
           NEW out, got' = got \o out,
           \/ out = acked[k] /\ UNCHANGED server
           \/ server # << >> /\ server' = Tail(server) /\ out = Append(acked[k], Head(server))
    PROVE  Apart' /\ Whole'
<1>0. /\ acked \in [Pieces -> Seq(Messages)] /\ acked[k] \in Seq(Messages)
      /\ server \in Seq(Messages) /\ got \in Seq(Messages)
  BY DEF DeliveryTypeOK, TypeOK
<1> DEFINE H == IF out = acked[k] /\ UNCHANGED server THEN {} ELSE {Head(server)}
<1>1. /\ Distinct(server') /\ Elements(server) = H \cup Elements(server')
      /\ H \cap Elements(server') = {}
      /\ out \in Seq(Messages) /\ Distinct(out) /\ Elements(out) = Elements(acked[k]) \cup H
  <2>1. CASE out = acked[k] /\ UNCHANGED server
    BY <1>0, <2>1 DEF Apart
  <2>2. CASE ~ (out = acked[k] /\ UNCHANGED server)
    <3>1. /\ Head(server) \in Messages /\ Distinct(Tail(server))
          /\ Elements(server) = {Head(server)} \cup Elements(Tail(server))
          /\ Head(server) \notin Elements(Tail(server))
      BY <1>0, <2>2, TailApart DEF Apart
    <3>2. Head(server) \notin Elements(acked[k])
      BY <3>1 DEF Apart
    <3>3. /\ out \in Seq(Messages) /\ Elements(out) = Elements(acked[k]) \cup {Head(server)}
          /\ Distinct(out)
      <4>1. out = Append(acked[k], Head(server)) /\ Distinct(acked[k])
        BY <2>2 DEF Apart
      <4> QED
        BY <1>0, <3>1, <3>2, <4>1, AppendDistinct
    <3>4. H = {Head(server)} /\ server' = Tail(server)
      BY <2>2
    <3> HIDE DEF H
    <3> QED
      BY <3>1, <3>3, <3>4
  <2> QED
    BY <2>1, <2>2
<1> HIDE DEF H
<1>2. Elements(got') = Elements(got) \cup Elements(acked[k]) \cup H
  BY <1>0, <1>1, ConcatElements
<1>3. Distinct(got')
  <2>1. Elements(got) \cap Elements(out) = {}
    BY <1>1 DEF Apart
  <2> QED
    BY <1>0, <1>1, <2>1, ConcatDistinct DEF Apart
<1>4. /\ acked'[k] = << >> /\ Elements(acked'[k]) = {} /\ Distinct(acked'[k])
      /\ \A j \in Pieces \ {k} : acked'[j] = acked[j]
  BY <1>0, EmptyElements
<1>5. /\ Distinct(got') /\ Distinct(server') /\ Distinct(arrived')
      /\ Elements(server') \cap (Elements(got') \cup Elements(arrived') \cup lost') = {}
      /\ Elements(got') \cap (Elements(arrived') \cup lost') = {}
      /\ Elements(arrived') \cap lost' = {}
  BY <1>1, <1>2, <1>3 DEF Apart
<1>6. ASSUME NEW j \in Pieces
      PROVE  /\ Distinct(acked'[j])
             /\ Elements(acked'[j])
                  \cap (Elements(server') \cup Elements(got') \cup Elements(arrived') \cup lost') = {}
             /\ \A i \in Pieces \ {j} : Elements(acked'[i]) \cap Elements(acked'[j]) = {}
  BY <1>1, <1>2, <1>4 DEF Apart
<1>7. Apart'
  BY <1>5, <1>6 DEF Apart
<1>8. ASSUME NEW m \in Messages
      PROVE  m \in Elements(server') \cup InFlight' \cup Elements(got')
                   \cup Elements(arrived') \cup lost'
  <2>1. CASE m \in InFlight
    <3>1. PICK j \in Pieces : m \in Elements(acked[j])
      BY <2>1 DEF InFlight
    <3> QED
      BY <1>2, <1>4, <3>1 DEF InFlight
  <2>2. CASE m \notin InFlight
    BY <1>1, <1>2, <2>2 DEF Whole
  <2> QED
    BY <2>1, <2>2
<1> QED
  BY <1>7, <1>8 DEF Whole

\* Every step keeps each message in one place, and lets none vanish.
LEMMA PlacesStep ==
    DeliveryTypeOK /\ FetchInv /\ OnTheWay /\ Apart /\ Whole /\ [DeliveryNext]_deliveryVars
      => Apart' /\ Whole'
<1> SUFFICES ASSUME DeliveryTypeOK, FetchInv, OnTheWay, Apart, Whole, [DeliveryNext]_deliveryVars
             PROVE  Apart' /\ Whole'
  OBVIOUS
<1>0. /\ TypeOK /\ acked \in [Pieces -> Seq(Messages)]
      /\ server \in Seq(Messages) /\ got \in Seq(Messages) /\ arrived \in Seq(Messages)
  BY DEF DeliveryTypeOK, TypeOK
<1>1. ASSUME UNCHANGED <<server, got, arrived, lost, acked>>, err # "nil" => err' # "nil"
      PROVE  Apart' /\ Whole'
  BY <1>1 DEF Apart, Whole, InFlight
<1>2. ASSUME NEW c \in Receivers, Receive(c) \/ Loop(c) \/ CtxDone(c), UNCHANGED <<driver, acked>>
      PROVE  Apart' /\ Whole'
  <2>1. Prefetch => UNCHANGED got
    BY DEF Prefetch, fetchVars
  <2> QED
    BY <1>1, <1>2, <2>1 DEF Receive, Loop, LoopError, LoopTake, LoopWait, CtxDone,
       subVars, fetchVars, history
<1>3. ASSUME FetchStart, UNCHANGED <<driver, acked>>
      PROVE  Apart' /\ Whole'
  <2>1. got' = got
    BY <1>3 DEF FetchStart, OnTheWay
  <2> QED
    BY <1>1, <1>3, <2>1 DEF FetchStart, subVars, history
<1>4. ASSUME FetchEnd, UNCHANGED <<driver, acked>>
      PROVE  Apart' /\ Whole'
  <2>1. Elements(got') = {} /\ Distinct(got') /\ UNCHANGED server
    BY <1>4, EmptyElements DEF FetchEnd, FetchOver
  <2>2. CASE gotErr # "nil"
    <3>1. err' # "nil" /\ lost' = lost \cup Elements(got) /\ UNCHANGED arrived
      BY <1>4, <2>2 DEF FetchEnd
    <3> QED
      BY <1>4, <2>1, <3>1 DEF Apart, Whole, InFlight
  <2>3. CASE gotErr = "nil"
    <3>1. arrived' = arrived \o got /\ UNCHANGED <<err, lost>>
      BY <1>4, <2>3 DEF FetchEnd
    <3>2. Elements(arrived') = Elements(arrived) \cup Elements(got)
      BY <1>0, <3>1, ConcatElements
    <3>3. Distinct(arrived')
      BY <1>0, <3>1, ConcatDistinct DEF Apart
    <3>4. /\ Elements(got') \cap (Elements(arrived') \cup lost') = {}
          /\ Elements(server') \cap (Elements(got') \cup Elements(arrived') \cup lost') = {}
          /\ Elements(arrived') \cap lost' = {}
          /\ Distinct(server') /\ Distinct(got') /\ Distinct(arrived')
      BY <2>1, <3>1, <3>2, <3>3 DEF Apart
    <3>5. Apart'
      BY <1>4, <2>1, <3>1, <3>2, <3>4 DEF Apart
    <3>6. Whole'
      BY <1>4, <2>1, <3>1, <3>2 DEF Whole, InFlight
    <3> QED
      BY <3>5, <3>6
  <2> QED
    BY <2>2, <2>3
<1>5. ASSUME NEW s \in Stoppers, Shutdown(s) \/ ShutdownCancel(s) \/ ShutdownClose(s),
             UNCHANGED <<driver, acked>>
      PROVE  Apart' /\ Whole'
  BY <1>1, <1>5 DEF Shutdown, ShutdownCancel, ShutdownClose, fetchVars, history
<1>6. ASSUME NEW k \in Pieces, NEW n \in 0 .. Len(server), PieceReceives(k, n), UNCHANGED acked
      PROVE  Apart' /\ Whole'
  <2> DEFINE t == SubSeq(server, 1, n)
             u == SubSeq(server, n + 1, Len(server))
  <2>1. got' = got \o t /\ server' = u /\ UNCHANGED <<err, arrived, lost, acked>>
    BY <1>6 DEF PieceReceives, subVars, history
  <2>2. /\ t \in Seq(Messages) /\ Distinct(t) /\ Distinct(u)
        /\ Elements(server) = Elements(t) \cup Elements(u)
        /\ Elements(t) \cap Elements(u) = {}
    BY <1>0, CutDistinct DEF Apart
  <2> HIDE DEF t, u
  <2>3. Elements(got') = Elements(got) \cup Elements(t)
    BY <1>0, <2>1, <2>2, ConcatElements
  <2>4. Distinct(got')
    <3>1. Elements(got) \cap Elements(t) = {} /\ Distinct(got)
      BY <2>2 DEF Apart
    <3> QED
      BY <1>0, <2>1, <2>2, <3>1, ConcatDistinct
  <2>5. Apart'
    BY <2>1, <2>2, <2>3, <2>4 DEF Apart
  <2>6. Whole'
    BY <2>1, <2>2, <2>3 DEF Whole, InFlight
  <2> QED
    BY <2>5, <2>6
<1>7. ASSUME NEW k \in Pieces, NEW e \in {"fatal", "canceled"}, PieceFails(k, e), UNCHANGED acked
      PROVE  Apart' /\ Whole'
  BY <1>1, <1>7 DEF PieceFails, subVars, history
<1>8. ASSUME NEW k \in Pieces, SmtpReceives(k)
      PROVE  Apart' /\ Whole'
  <2> DEFINE h == Head(server)
  <2>1. /\ server # << >> /\ server' = Tail(server) /\ UNCHANGED <<got, err, arrived, lost>>
        /\ acked' = [acked EXCEPT ![k] = Append(@, h)]
    BY <1>8 DEF SmtpReceives, subVars, fetchVars, history
  <2>2. /\ h \in Messages /\ Distinct(server')
        /\ Elements(server) = {h} \cup Elements(server') /\ h \notin Elements(server')
    BY <1>0, <2>1, TailApart DEF Apart
  <2> HIDE DEF h
  <2>3. \A j \in Pieces \ {k} : acked'[j] = acked[j]
    BY <1>0, <2>1
  <2>4. Distinct(acked'[k]) /\ Elements(acked'[k]) = Elements(acked[k]) \cup {h}
    <3>1. acked[k] \in Seq(Messages) /\ acked'[k] = Append(acked[k], h)
      BY <1>0, <2>1
    <3>2. h \notin Elements(acked[k]) /\ Distinct(acked[k])
      BY <2>2 DEF Apart
    <3> QED
      BY <2>2, <3>1, <3>2, AppendDistinct
  <2>5. /\ Distinct(server') /\ Distinct(got') /\ Distinct(arrived')
        /\ Elements(server') \cap (Elements(got') \cup Elements(arrived') \cup lost') = {}
        /\ Elements(got') \cap (Elements(arrived') \cup lost') = {}
        /\ Elements(arrived') \cap lost' = {}
    BY <2>1, <2>2 DEF Apart
  <2>6. ASSUME NEW j \in Pieces
        PROVE  /\ Distinct(acked'[j])
               /\ Elements(acked'[j])
                    \cap (Elements(server') \cup Elements(got') \cup Elements(arrived') \cup lost') = {}
               /\ \A i \in Pieces \ {j} : Elements(acked'[i]) \cap Elements(acked'[j]) = {}
    <3>1. \A i \in Pieces : i = k \/ acked'[i] = acked[i]
      BY <2>3
    <3>2. CASE j = k
      <4>1. h \notin Elements(got) \cup Elements(arrived) \cup lost
        BY <2>2 DEF Apart
      <4>2. \A i \in Pieces \ {k} :
              Elements(acked[i]) \cap Elements(acked[k]) = {} /\ h \notin Elements(acked[i])
        BY <2>2 DEF Apart
      <4>3. \A i \in Pieces \ {k} : Elements(acked'[i]) \cap Elements(acked'[k]) = {}
        BY <2>3, <2>4, <4>2
      <4>4. Elements(acked'[k])
              \cap (Elements(server') \cup Elements(got') \cup Elements(arrived') \cup lost') = {}
        BY <2>1, <2>2, <2>4, <4>1 DEF Apart
      <4> QED
        BY <2>4, <3>2, <4>3, <4>4
    <3>3. CASE j # k
      BY <2>1, <2>2, <2>3, <2>4, <3>1, <3>3 DEF Apart
    <3> QED
      BY <3>2, <3>3
  <2>7. Apart'
    BY <2>5, <2>6 DEF Apart
  <2>8. ASSUME NEW m \in Messages
        PROVE  m \in Elements(server') \cup InFlight' \cup Elements(got')
                     \cup Elements(arrived') \cup lost'
    <3>1. CASE m \in InFlight
      <4>1. PICK j \in Pieces : m \in Elements(acked[j])
        BY <3>1 DEF InFlight
      <4>2. m \in Elements(acked'[j])
        BY <2>3, <2>4, <4>1
      <4> QED
        BY <4>2 DEF InFlight
    <3>2. CASE m = h
      BY <2>4, <3>2 DEF InFlight
    <3>3. CASE m \notin InFlight /\ m # h
      BY <2>1, <2>2, <3>3 DEF Whole
    <3> QED
      BY <3>1, <3>2, <3>3
  <2> QED
    BY <2>1, <2>7, <2>8 DEF Whole
<1>9. ASSUME NEW k \in Pieces, SmtpEnds(k)
      PROVE  Apart' /\ Whole'
  <2>1. ASSUME NEW e, NEW out, SmtpReturns(k, e, out)
        PROVE  got' = got \o out /\ acked' = [acked EXCEPT ![k] = << >>]
                 /\ UNCHANGED <<err, arrived, lost>>
    BY <2>1 DEF SmtpReturns, subVars, history
  <2>2. CASE SmtpUnmarshalFails(k)
    <3>1. /\ SmtpReturns(k, "fatal", Append(acked[k], Head(server)))
          /\ server # << >> /\ server' = Tail(server)
      BY <2>2 DEF SmtpUnmarshalFails
    <3>2. /\ got' = got \o Append(acked[k], Head(server))
          /\ acked' = [acked EXCEPT ![k] = << >>]
          /\ UNCHANGED <<err, arrived, lost>>
      BY <2>1, <3>1
    <3> QED
      BY <3>1, <3>2, CallHandsOver
  <2>3. CASE SmtpDone(k)
    BY <2>1, <2>3, CallHandsOver DEF SmtpDone
  <2>4. CASE \E e \in {"fatal", "canceled"} : SmtpReceiveFails(k, e)
    BY <2>1, <2>4, CallHandsOver DEF SmtpReceiveFails
  <2> QED
    BY <1>9, <2>2, <2>3, <2>4 DEF SmtpEnds
<1>10. ASSUME UNCHANGED vars, UNCHANGED <<driver, acked>>
       PROVE  Apart' /\ Whole'
  BY <1>1, <1>10 DEF vars, subVars, fetchVars, history
<1>11. ASSUME NEW k \in Pieces, AnyAnswers(k), UNCHANGED <<driver, acked>>
       PROVE  Apart' /\ Whole'
  BY <1>6, <1>7, <1>11 DEF AnyAnswers, PieceAnswers
<1> QED
  BY <1>2, <1>3, <1>4, <1>5, <1>8, <1>9, <1>10, <1>11
     DEF DeliveryNext, SubscriptionStep, Finished, deliveryVars
-----------------------------------------------------------------------------
(* What is handed out.                                                     *)

\* The head of one sequence moved to the end of the one before it.
LEMMA TakeInOrder ==
    ASSUME NEW S, NEW s \in Seq(S), NEW t \in Seq(S), t # << >>
    PROVE  s \o t = Append(s, Head(t)) \o Tail(t)
<1>1. /\ Head(t) \in S /\ Tail(t) \in Seq(S) /\ Append(s, Head(t)) \in Seq(S)
      /\ Len(t) \in Nat /\ Len(t) > 0 /\ Len(Tail(t)) = Len(t) - 1 /\ Head(t) = t[1]
      /\ \A k \in 1 .. Len(t) - 1 : Tail(t)[k] = t[k + 1]
      /\ Len(s) \in Nat /\ Len(Append(s, Head(t))) = Len(s) + 1
      /\ \A k \in 1 .. Len(s) + 1 : Append(s, Head(t))[k] = IF k = Len(s) + 1 THEN t[1] ELSE s[k]
  BY HeadTailProperties, EmptySeq, LenProperties
<1> DEFINE a == s \o t
           b == Append(s, Head(t)) \o Tail(t)
<1>2. /\ a \in Seq(S) /\ Len(a) = Len(s) + Len(t)
      /\ \A k \in 1 .. Len(s) + Len(t) : a[k] = IF k =< Len(s) THEN s[k] ELSE t[k - Len(s)]
  BY ConcatProperties
<1>3. /\ b \in Seq(S) /\ Len(b) = Len(s) + Len(t)
      /\ \A k \in 1 .. Len(s) + Len(t) :
           b[k] = IF k =< Len(s) + 1 THEN Append(s, Head(t))[k] ELSE Tail(t)[k - (Len(s) + 1)]
  BY <1>1, ConcatProperties
<1> HIDE DEF a, b
<1>4. ASSUME NEW k \in 1 .. Len(s) + Len(t)
      PROVE  a[k] = b[k]
  <2>1. CASE k =< Len(s)
    BY <1>1, <1>2, <1>3, <2>1
  <2>2. CASE k = Len(s) + 1
    BY <1>1, <1>2, <1>3, <2>2
  <2>3. CASE k > Len(s) + 1
    <3>1. /\ k - (Len(s) + 1) \in 1 .. Len(t) - 1
          /\ k - (Len(s) + 1) + 1 = k - Len(s)
      BY <1>1, <2>3
    <3>2. b[k] = t[k - Len(s)]
      BY <1>1, <1>3, <2>3, <3>1
    <3> QED
      BY <1>1, <1>2, <2>3, <3>2
  <2> QED
    BY <1>1, <2>1, <2>2, <2>3
<1>5. a = b
  BY <1>2, <1>3, <1>4, SeqEqual
<1> QED
  BY <1>5 DEF a, b

\* Three sequences in a row.
LEMMA ConcatThrice ==
    ASSUME NEW S, NEW s \in Seq(S), NEW t \in Seq(S), NEW u \in Seq(S)
    PROVE  (s \o t) \o u = s \o (t \o u)
  BY ConcatAssociative

ResultsOf(m) == {c \in Receivers : result[c] = m}
HandedAt(m)  == {k \in 1 .. Len(handed) : handed[k] = m}

\* A call returns something that is not a message.
LEMMA NoMessageReturned ==
    ASSUME DeliveryTypeOK, NoResultYet, HandedOut, NEW c \in Receivers, rc[c] # "returned",
           NEW r, r \notin Messages, Return(c, r), UNCHANGED <<arrived, handed, q>>
    PROVE  HandedOut'
<1>1. result[c] \notin Messages
  BY MessagesFacts DEF NoResultYet
<1>2. ASSUME NEW m \in Messages
      PROVE  {d \in Receivers : result'[d] = m} = {d \in Receivers : result[d] = m}
  BY <1>1 DEF Return, DeliveryTypeOK, TypeOK
<1> QED
  BY <1>2 DEF HandedOut

\* A call returns the head of q.
LEMMA HeadReturned ==
    ASSUME DeliveryTypeOK, NoResultYet, HandedOut, NEW c \in Receivers, rc[c] # "returned",
           q # << >>, q' = Tail(q), handed' = Append(handed, Head(q)), UNCHANGED arrived,
           Return(c, Head(q))
    PROVE  HandedOut'
<1>0. /\ q \in Seq(Messages) /\ handed \in Seq(Messages) /\ Head(q) \in Messages
      /\ Len(handed) \in Nat /\ result[c] \notin Messages
  BY MessagesFacts DEF DeliveryTypeOK, TypeOK, NoResultYet
<1>1. arrived' = handed' \o q'
  BY <1>0, TakeInOrder DEF HandedOut
<1>2. /\ \A d \in Receivers \ {c} : result'[d] = result[d]
      /\ result'[c] = Head(q)
  BY DEF Return, DeliveryTypeOK, TypeOK
<1>3. /\ Len(handed') = Len(handed) + 1 /\ handed'[Len(handed) + 1] = Head(q)
      /\ \A k \in 1 .. Len(handed) : handed'[k] = handed[k]
  BY <1>0
<1>4. ASSUME NEW m \in Messages
      PROVE  Cardinality(ResultsOf(m)') = Cardinality(HandedAt(m)')
  <2>1. Cardinality(ResultsOf(m)) = Cardinality(HandedAt(m))
    BY DEF HandedOut, ResultsOf, HandedAt
  <2>2. IsFiniteSet(ResultsOf(m)) /\ IsFiniteSet(HandedAt(m))
    <3>1. IsFiniteSet(Receivers) /\ ResultsOf(m) \subseteq Receivers
      BY SubscriptionAssumption DEF ResultsOf
    <3>2. IsFiniteSet(1 .. Len(handed)) /\ HandedAt(m) \subseteq 1 .. Len(handed)
      BY <1>0, FS_Interval DEF HandedAt
    <3> QED
      BY <3>1, <3>2, FS_Subset
  <2>3. CASE m = Head(q)
    <3>1. ResultsOf(m)' = ResultsOf(m) \cup {c} /\ c \notin ResultsOf(m)
      BY <1>0, <1>2, <2>3 DEF ResultsOf
    <3>2. /\ HandedAt(m)' = HandedAt(m) \cup {Len(handed) + 1}
          /\ Len(handed) + 1 \notin HandedAt(m)
      BY <1>0, <1>3, <2>3 DEF HandedAt
    <3>3. Cardinality(ResultsOf(m)') = Cardinality(ResultsOf(m)) + 1
      BY <2>2, <3>1, FS_AddElement
    <3>4. Cardinality(HandedAt(m)') = Cardinality(HandedAt(m)) + 1
      BY <2>2, <3>2, FS_AddElement
    <3> QED
      BY <2>1, <3>3, <3>4
  <2>4. CASE m # Head(q)
    <3>1. ResultsOf(m)' = ResultsOf(m)
      BY <1>0, <1>2, <2>4 DEF ResultsOf
    <3>2. HandedAt(m)' = HandedAt(m)
      BY <1>0, <1>3, <2>4 DEF HandedAt
    <3> QED
      BY <2>1, <3>1, <3>2
  <2> QED
    BY <2>3, <2>4
<1> QED
  BY <1>1, <1>4 DEF HandedOut, ResultsOf, HandedAt

\* Every step hands out the front of what arrived, or nothing.
LEMMA HandedOutStep ==
    DeliveryTypeOK /\ NoResultYet /\ HandedOut /\ [DeliveryNext]_deliveryVars => HandedOut'
<1> SUFFICES ASSUME DeliveryTypeOK, NoResultYet, HandedOut, [DeliveryNext]_deliveryVars
             PROVE  HandedOut'
  OBVIOUS
<1>0. TypeOK
  BY DEF DeliveryTypeOK
<1>1. ASSUME UNCHANGED <<arrived, handed, q, result>>
      PROVE  HandedOut'
  BY <1>1 DEF HandedOut
<1>2. ASSUME NEW c \in Receivers, Receive(c) \/ LoopWait(c)
      PROVE  HandedOut'
  BY <1>1, <1>2 DEF Receive, LoopWait, subVars, history
<1>3. ASSUME NEW c \in Receivers, CtxDone(c)
      PROVE  HandedOut'
  <2>1. rc[c] # "returned" /\ "ctx" \notin Messages
    BY <1>3, MessagesFacts DEF CtxDone
  <2>2. Return(c, "ctx") /\ UNCHANGED <<arrived, handed, q>>
    BY <1>3 DEF CtxDone, subVars, history
  <2> QED
    BY <2>1, <2>2, NoMessageReturned
<1>4. ASSUME NEW c \in Receivers, LoopError(c)
      PROVE  HandedOut'
  <2>1. rc[c] # "returned"
    BY <1>4 DEF LoopError, AtTop
  <2>2. err \notin Messages
    BY <1>0, <1>4, MessagesFacts DEF LoopError, TypeOK
  <2>3. Return(c, err) /\ UNCHANGED <<arrived, handed, q>>
    BY <1>4 DEF LoopError, subVars, history
  <2> QED
    BY <2>1, <2>2, <2>3, NoMessageReturned
<1>5. ASSUME NEW c \in Receivers, LoopTake(c)
      PROVE  HandedOut'
  BY <1>5, HeadReturned DEF LoopTake, AtTop
<1>6. CASE FetchStart
  BY <1>1, <1>6 DEF FetchStart, subVars, history
<1>7. CASE FetchEnd
  <2>1. CASE gotErr # "nil"
    BY <1>1, <1>7, <2>1 DEF FetchEnd
  <2>2. CASE gotErr = "nil"
    <3>1. q' = q \o got /\ arrived' = arrived \o got /\ UNCHANGED <<handed, result>>
      BY <1>7, <2>2 DEF FetchEnd
    <3>2. arrived' = handed \o q'
      <4>1. handed \in Seq(Messages) /\ q \in Seq(Messages) /\ got \in Seq(Messages)
        BY <1>0 DEF TypeOK
      <4>2. (handed \o q) \o got = handed \o (q \o got)
        BY <4>1, ConcatThrice
      <4> QED
        BY <3>1, <4>2 DEF HandedOut
    <3> QED
      BY <3>1, <3>2 DEF HandedOut
  <2> QED
    BY <2>1, <2>2
<1>8. ASSUME NEW s \in Stoppers, Shutdown(s) \/ ShutdownCancel(s) \/ ShutdownClose(s)
      PROVE  HandedOut'
  BY <1>1, <1>8 DEF Shutdown, ShutdownCancel, ShutdownClose, history
<1>9. ASSUME NEW k \in Pieces, AnyAnswers(k)
      PROVE  HandedOut'
  BY <1>1, <1>9 DEF AnyAnswers, PieceAnswers, PieceReceives, PieceFails, subVars, history
<1>10. ASSUME NEW k \in Pieces, SmtpReceives(k) \/ SmtpEnds(k)
       PROVE  HandedOut'
  BY <1>1, <1>10 DEF SmtpReceives, SmtpEnds, SmtpUnmarshalFails, SmtpDone, SmtpReceiveFails,
     SmtpReturns, subVars, history
<1>11. CASE UNCHANGED vars
  BY <1>1, <1>11 DEF vars, subVars, history
<1> QED
  BY <1>2, <1>3, <1>4, <1>5, <1>6, <1>7, <1>8, <1>9, <1>10, <1>11
     DEF DeliveryNext, SubscriptionStep, Loop, Finished, deliveryVars
-----------------------------------------------------------------------------
(* Results.                                                                *)

\* A new subscription satisfies the invariant.
LEMMA InitSubscriptionInv == DeliveryInit => SubscriptionInv
<1> SUFFICES ASSUME DeliveryInit PROVE SubscriptionInv
  OBVIOUS
<1> USE EmptyElements DEF DeliveryInit, Init
<1>1. DeliveryTypeOK
  BY InitTypes
<1>2. FetchInv /\ NoResultYet /\ OnTheWay
  BY DEF FetchInv, WaitersHaveFetch, NoResultYet, OnTheWay
<1>3. \A k \in Pieces : acked[k] = << >> /\ Elements(acked[k]) = {} /\ Distinct(acked[k])
  OBVIOUS
<1>4. Elements(server) = Messages /\ Distinct(server)
  BY MessagesFacts DEF Messages
<1>5. Apart
  BY <1>3, <1>4 DEF Apart
<1>6. Whole
  BY <1>4 DEF Whole
<1>7. HandedOut
  <2>1. << >> \o << >> = << >>
    OBVIOUS
  <2>2. ASSUME NEW m \in Messages
        PROVE  {c \in Receivers : result[c] = m} = {} /\ {k \in 1 .. Len(handed) : handed[k] = m} = {}
    BY MessagesFacts
  <2> QED
    BY <2>1, <2>2 DEF HandedOut
<1> QED
  BY <1>1, <1>2, <1>5, <1>6, <1>7 DEF SubscriptionInv

\* The invariant holds throughout.
LEMMA SubscriptionInvariance == DeliverySpec => []SubscriptionInv
<1>1. SubscriptionInv /\ [DeliveryNext]_deliveryVars => SubscriptionInv'
  BY TypesStep, FetchStep, NoResultStep, OnTheWayStep, PlacesStep, HandedOutStep
     DEF SubscriptionInv
<1> QED
  BY <1>1, InitSubscriptionInv, PTL DEF DeliverySpec

\* The variables of the subscription and of its driver keep their types: s.err
\* is one of three errors, asks a sequence of numbers of messages, and each
\* piece of a fetch holds a sequence of messages.
THEOREM SubscriptionTypeCorrect == DeliverySpec => []DeliveryTypeOK
<1>1. SubscriptionInv => DeliveryTypeOK
  BY DEF SubscriptionInv
<1> QED
  BY <1>1, SubscriptionInvariance, PTL

\* No Receive waits for a channel that nobody will close, whatever the options
\* and however many calls (delivery_subscription.go:270, 324-325).
THEOREM NobodyWaitsAlone == DeliverySpec => []WaitersHaveFetch
<1>1. SubscriptionInv => WaitersHaveFetch
  BY DEF SubscriptionInv, FetchInv
<1> QED
  BY <1>1, SubscriptionInvariance, PTL

\* Messages are handed out in the order in which they arrived, each to one
\* Receive (delivery_subscription.go:288-291, 296-299).
THEOREM HandsOutEachOnce == DeliverySpec => []EachHandedOnce
<1>1. SubscriptionInv => EachHandedOnce
  BY DEF SubscriptionInv, HandedOut, Apart, Distinct, EachHandedOnce
<1> QED
  BY <1>1, SubscriptionInvariance, PTL

\* Five sets that are apart, counted one by one and together.
LEMMA PlacesSum ==
    ASSUME NEW A, NEW B, NEW C, NEW D, NEW E, IsFiniteSet(A), IsFiniteSet(B), IsFiniteSet(C),
           IsFiniteSet(D), IsFiniteSet(E),
           A \cap (B \cup C \cup D \cup E) = {}, B \cap (C \cup D \cup E) = {},
           C \cap (D \cup E) = {}, D \cap E = {}
    PROVE  Cardinality(A) + Cardinality(B) + Cardinality(C) + Cardinality(D) + Cardinality(E)
             = Cardinality(A \cup B \cup C \cup D \cup E)
<1>0. ASSUME NEW S, NEW T, IsFiniteSet(S), IsFiniteSet(T), S \cap T = {}
      PROVE  IsFiniteSet(S \cup T) /\ Cardinality(S \cup T) = Cardinality(S) + Cardinality(T)
               /\ Cardinality(S) \in Nat /\ Cardinality(T) \in Nat
  <2>1. Cardinality(S) \in Nat /\ Cardinality(T) \in Nat
    BY <1>0, FS_CardinalityType
  <2>2. IsFiniteSet(S \cup T)
          /\ Cardinality(S \cup T) = Cardinality(S) + Cardinality(T) - Cardinality(S \cap T)
    BY <1>0, FS_Union
  <2>3. Cardinality(S \cap T) = 0
    BY <1>0, FS_EmptySet
  <2> QED
    BY <2>1, <2>2, <2>3
<1>1. /\ IsFiniteSet(A \cup B) /\ Cardinality(A \cup B) = Cardinality(A) + Cardinality(B)
      /\ Cardinality(A) \in Nat /\ Cardinality(B) \in Nat
  <2>1. A \cap B = {}
    OBVIOUS
  <2> QED
    BY <1>0, <2>1
<1>2. /\ IsFiniteSet(A \cup B \cup C)
      /\ Cardinality(A \cup B \cup C) = Cardinality(A \cup B) + Cardinality(C)
      /\ Cardinality(C) \in Nat
  <2>1. (A \cup B) \cap C = {}
    OBVIOUS
  <2> QED
    BY <1>0, <1>1, <2>1
<1>3. /\ IsFiniteSet(A \cup B \cup C \cup D)
      /\ Cardinality(A \cup B \cup C \cup D) = Cardinality(A \cup B \cup C) + Cardinality(D)
      /\ Cardinality(D) \in Nat
  <2>1. (A \cup B \cup C) \cap D = {}
    OBVIOUS
  <2> QED
    BY <1>0, <1>2, <2>1
<1>4. /\ Cardinality(A \cup B \cup C \cup D \cup E)
            = Cardinality(A \cup B \cup C \cup D) + Cardinality(E)
      /\ Cardinality(E) \in Nat
  <2>1. (A \cup B \cup C \cup D) \cap E = {}
    OBVIOUS
  <2> QED
    BY <1>0, <1>3, <2>1
<1> QED
  BY <1>1, <1>2, <1>3, <1>4

\* Every event is in just one place, and one that is dropped leaves a permanent
\* error behind, with either driver and however its calls end
\* (smtpemail/delivery_subscription.go:45-58, 87, 118;
\* delivery_subscription.go:285-291, 353-371).
THEOREM LosesNothingSilently == DeliverySpec => []NothingLostInSilence
<1>1. SubscriptionInv => NothingLostInSilence
  <2> SUFFICES ASSUME SubscriptionInv
               PROVE  NothingLostInSilence
    OBVIOUS
  <2> DEFINE SV == Elements(server)
             G  == Elements(got)
             A  == Elements(arrived)
  <2>0. /\ Apart /\ Whole /\ server \in Seq(Messages) /\ got \in Seq(Messages)
        /\ arrived \in Seq(Messages) /\ lost \subseteq Messages
        /\ acked \in [Pieces -> Seq(Messages)]
    BY DEF SubscriptionInv, DeliveryTypeOK, TypeOK
  <2>1. \A s \in Seq(Messages) : Elements(s) \subseteq Messages
    BY DEF Elements
  <2>2. InFlight \subseteq Messages
    BY <2>0, <2>1 DEF InFlight
  <2>3. Messages = SV \cup InFlight \cup G \cup A \cup lost
    BY <2>0, <2>1, <2>2 DEF Whole
  <2>4. IsFiniteSet(InFlight) /\ IsFiniteSet(lost)
    BY <2>0, <2>2, MessagesFacts, FS_Subset
  <2>5. /\ IsFiniteSet(SV) /\ Cardinality(SV) = Len(server)
        /\ IsFiniteSet(G) /\ Cardinality(G) = Len(got)
        /\ IsFiniteSet(A) /\ Cardinality(A) = Len(arrived)
    BY <2>0, DistinctSize DEF Apart
  <2>6. InFlight \cap (SV \cup G \cup A \cup lost) = {}
    BY <2>0 DEF Apart, InFlight
  <2>7. /\ SV \cap (InFlight \cup G \cup A \cup lost) = {} /\ InFlight \cap (G \cup A \cup lost) = {}
        /\ G \cap (A \cup lost) = {} /\ A \cap lost = {}
    BY <2>0, <2>6 DEF Apart
  <2> HIDE DEF SV, G, A
  <2>8. Cardinality(SV) + Cardinality(InFlight) + Cardinality(G) + Cardinality(A) + Cardinality(lost)
          = Cardinality(Messages)
    BY <2>3, <2>4, <2>5, <2>7, PlacesSum
  <2> QED
    BY <2>0, <2>3, <2>5, <2>8 DEF Whole, NothingLostInSilence, SV, G, A
<1> QED
  BY <1>1, SubscriptionInvariance, PTL
=============================================================================

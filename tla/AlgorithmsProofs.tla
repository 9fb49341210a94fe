-------------------------- MODULE AlgorithmsProofs --------------------------
(***************************************************************************)
(* Proofs about Algorithms.tla: what the pure functions of the batcher     *)
(* package, of emailtemplate and of the SMTP driver answer, whatever they  *)
(* are asked.                                                              *)
(***************************************************************************)
EXTENDS Algorithms, CommonLemmas
LOCAL INSTANCE SequencesExt
LOCAL INSTANCE FiniteSetsExt

\* The answer, once there is one, is the one to the question.
Honest ==
    /\ question \in Questions
    /\ answer # << >> => answer = <<Answer(question)>>

\* An answer is the one to the question that was asked.
LEMMA AnswersHonestly == Spec => []Honest
<1>1. Init => Honest
  BY DEF Init, Honest
<1>2. Honest /\ [Next]_<<question, answer>> => Honest'
  BY DEF Honest, Next, Ask, Answered
<1> QED
  BY <1>1, <1>2, PTL DEF Spec

\* Sums are what the recursive definition in SplitWithinLimits adds up.
RunningTotal(sizes) ==
    CHOOSE sum : sum = [k \in 0 .. Len(sizes) |->
                          IF k = 0 THEN 0 ELSE sum[k - 1] + sizes[k]]

\* Any function that adds up the sizes has the same total.
LEMMA TotalIs ==
    ASSUME NEW sizes \in Seq(Nat), NEW f, Sums(f, sizes)
    PROVE  RunningTotal(sizes)[Len(sizes)] = f[Len(sizes)]
<1> DEFINE sum == RunningTotal(sizes)
<1>1. sum = [k \in 0 .. Len(sizes) |-> IF k = 0 THEN 0 ELSE sum[k - 1] + sizes[k]]
  <2>1. f = [k \in 0 .. Len(sizes) |-> IF k = 0 THEN 0 ELSE f[k - 1] + sizes[k]]
    BY DEF Sums
  <2> QED
    BY <2>1 DEF RunningTotal
<1> HIDE DEF sum
<1> DEFINE X == {k \in 0 .. Len(sizes) : sum[k] # f[k]}
<1>2. SUFFICES X = {}
  BY DEF sum
<1>3. SUFFICES ASSUME X # {} PROVE FALSE
  OBVIOUS
<1>4. PICK k \in X : \A j \in X : k =< j
  <2>1. X \in SUBSET Nat
    OBVIOUS
  <2> QED
    BY <1>3, <2>1, LeastNatural
<1>5. k # 0
  BY <1>1 DEF Sums
<1>6. k - 1 \in 0 .. Len(sizes) /\ sum[k - 1] = f[k - 1]
  BY <1>4, <1>5
<1>7. sum[k] = sum[k - 1] + sizes[k]
  BY <1>1, <1>5
<1>8. f[k] = f[k - 1] + sizes[k]
  BY <1>5 DEF Sums
<1> QED
  BY <1>6, <1>7, <1>8

\* Split, for any number of items and any options (batcher.go:37-61).
THEOREM SplitKeepsLimits == Spec => []SplitWithinLimits
<1>1. Honest => SplitWithinLimits
  <2> SUFFICES ASSUME Honest, Asked("split")
               PROVE  SplitWithinLimits
    BY DEF SplitWithinLimits
  <2> DEFINE o     == newOptionsWithDefaults(question.opts)
             sizes == answer[1]
             n     == question.n
  <2>1. sizes = Split(n, question.opts)
    BY DEF Honest, Asked, Answer
  <2>2. n \in Nat /\ question.opts \in Options
    BY QuestionsAssumption DEF Honest, Asked, IsSequence
  <2>3. PICK rest \in Nat :
          /\ Fits(o, n, sizes, rest)
          /\ rest > 0 => rest < o.MinBatchSize \/ Len(sizes) = o.MaxHandlers
    BY <2>1, <2>2, SplitFits
  <2> HIDE DEF o, sizes, n
  <2>4. n - RunningTotal(sizes)[Len(sizes)] = rest
    <3>1. PICK f : Sums(f, sizes) /\ f[Len(sizes)] = n - rest
      BY <2>3 DEF Fits
    <3> QED
      BY <2>2, <2>3, <3>1, TotalIs DEF Fits
  <2> QED
    BY <2>3, <2>4 DEF Fits, SplitWithinLimits, RunningTotal, o, sizes, n
<1> QED
  BY <1>1, AnswersHonestly, PTL

\* The merged options allow the sizes and the handlers that both allow.
LEMMA MergedLimits ==
    ASSUME NEW o \in Options, NEW p \in Options, NEW k \in Nat
    PROVE  LET m == NewMergedOptions(o, p) IN
           /\ Allows(m, k) <=> Allows(o, k) /\ Allows(p, k)
           /\ (m.MaxHandlers > 0 => k =< m.MaxHandlers)
                <=> /\ o.MaxHandlers > 0 => k =< o.MaxHandlers
                    /\ p.MaxHandlers > 0 => k =< p.MaxHandlers
  BY DEF Options, NewMergedOptions, SmallerLimit, LargerLimit, Allows

\* NewMergedOptions, for any two sets of options (batcher.go:116-141).
THEOREM MergeKeepsBoth == Spec => []MergedAllowsBoth
<1>1. Honest => MergedAllowsBoth
  <2> SUFFICES ASSUME Honest, Asked("merge")
               PROVE  MergedAllowsBoth
    BY DEF MergedAllowsBoth
  <2>1. answer[1] = NewMergedOptions(question.opts, question.other)
    BY DEF Honest, Asked, Answer
  <2>2. question.opts \in Options /\ question.other \in Options
    BY QuestionsAssumption DEF Honest, Asked, IsSequence
  <2> QED
    BY <2>1, <2>2, CountsAssumption, MergedLimits, ZenonT(40) DEF MergedAllowsBoth
<1> QED
  BY <1>1, AnswersHonestly, PTL

\* The innermost layer of template data wins, whatever the layers
\* (template.go:201-203, 221-223).
THEOREM InnermostLayerWins == Spec => []DataLayers
<1>1. Honest => DataLayers
  <2> SUFFICES ASSUME Honest, Asked("data")
               PROVE  DataLayers
    BY DEF DataLayers
  <2>1. answer[1] = renderData(question.general, question.template,
                               question.version, question.message)
    BY DEF Honest, Asked, Answer
  <2> QED
    BY <2>1 DEF renderData, templateData, versionData, mergeData, DataLayers
<1> QED
  BY <1>1, AnswersHonestly, PTL

\* The outcomes of a batch are those of its first messages, up to and with the
\* first that fails.
LEMMA SendBatchInOrder ==
    ASSUME NEW S, NEW msgs \in Seq(S)
    PROVE  /\ DOMAIN SendBatch(msgs) = 1 .. Len(SendBatch(msgs))
           /\ Len(SendBatch(msgs)) \in 0 .. Len(msgs)
           /\ \A k \in DOMAIN SendBatch(msgs) :
                /\ k \in DOMAIN msgs /\ SendBatch(msgs)[k] = send(msgs[k].to, msgs[k].script)
                /\ ~SendBatch(msgs)[k].ok => k = Len(SendBatch(msgs))
           /\ Len(SendBatch(msgs)) < Len(msgs) =>
                Len(SendBatch(msgs)) > 0 /\ ~SendBatch(msgs)[Len(SendBatch(msgs))].ok
<1> DEFINE outcomes == [j \in DOMAIN msgs |-> send(msgs[j].to, msgs[j].script)]
           failed   == SelectInSeq(outcomes, LAMBDA o : ~o.ok)
           I        == {j \in 1 .. Len(outcomes) : ~outcomes[j].ok}
<1>1. DOMAIN msgs = 1 .. Len(msgs) /\ Len(msgs) \in Nat
  OBVIOUS
<1>2. \A j \in DOMAIN msgs : outcomes[j] = send(msgs[j].to, msgs[j].script)
  OBVIOUS
<1>3. /\ DOMAIN outcomes = 1 .. Len(msgs) /\ Len(outcomes) = Len(msgs)
      /\ outcomes \in Seq({outcomes[j] : j \in 1 .. Len(msgs)})
  BY <1>1
<1> HIDE DEF outcomes
<1>4. CASE I = {}
  <2>1. failed = 0
    BY <1>4 DEF SelectInSeq
  <2>2. SendBatch(msgs) = outcomes
    BY <2>1 DEF SendBatch, outcomes
  <2> QED
    BY <1>1, <1>2, <1>3, <1>4, <2>2
<1>5. CASE I # {}
  <2>1. \E m \in I : \A j \in I : m =< j
    <3>1. I \in SUBSET Nat
      BY <1>1, <1>3
    <3> QED
      BY <1>5, <3>1, LeastNatural
  <2>2. Min(I) \in I /\ \A j \in I : Min(I) =< j
    BY <2>1 DEF Min
  <2>3. failed = Min(I)
    BY <1>5 DEF SelectInSeq
  <2>4. /\ failed \in 1 .. Len(msgs) /\ ~outcomes[failed].ok
        /\ \A j \in 1 .. Len(msgs) : ~outcomes[j].ok => failed =< j
    BY <1>3, <2>2, <2>3
  <2>5. SendBatch(msgs) = SubSeq(outcomes, 1, failed)
    BY <2>4 DEF SendBatch, outcomes
  <2> HIDE DEF failed, I
  <2>6. /\ SendBatch(msgs) \in Seq({outcomes[j] : j \in 1 .. Len(msgs)})
        /\ Len(SendBatch(msgs)) = failed
        /\ \A k \in 1 .. failed : SendBatch(msgs)[k] = outcomes[k]
    BY <1>1, <1>3, <2>4, <2>5
  <2>7. DOMAIN SendBatch(msgs) = 1 .. failed
    BY <2>6
  <2> QED
    BY <1>1, <1>2, <2>4, <2>6, <2>7
<1> QED
  BY <1>4, <1>5

\* Wherever sendMessage ends, with a server that still answers, it has reset
\* the connection, or the data could not be written.
LEMMA SendLeavesIdle ==
    ASSUME NEW to, NEW script, script.reset = "ok", script.mail # "eof",
           NEW o, o = send(to, script), ~o.panics
    PROVE  o.at = "idle" \/ (o.at = "data" /\ script.write = "error")
  BY DEF send, sendMessage, Failed, Outcome, Reset

\* The connection is between two transactions after every message, for any
\* batch and whatever the server answers, if it can be reset
\* (smtp_sender.go:58-62, 96, 115, 124, 134-141).
THEOREM ConnectionComesBack == Spec => []ConnectionReusable
<1>1. Honest => ConnectionReusable
  <2> SUFFICES ASSUME Honest, Asked("smtp"), NEW k \in DOMAIN answer[1],
                      question.msgs[k].script.reset = "ok", ~answer[1][k].panics,
                      question.msgs[k].script.mail # "eof"
               PROVE  \/ answer[1][k].at = "idle"
                      \/ /\ answer[1][k].at = "data"
                         /\ question.msgs[k].script.write = "error"
    BY DEF ConnectionReusable
  <2>1. answer[1] = SendBatch(question.msgs)
    BY DEF Honest, Asked, Answer
  <2>2. PICK S : question.msgs \in Seq(S)
    BY QuestionsAssumption DEF Honest, Asked, IsSequence
  <2>3. answer[1][k] = send(question.msgs[k].to, question.msgs[k].script)
    BY <2>1, <2>2, SendBatchInOrder
  <2> QED
    BY <2>3, SendLeavesIdle
<1> QED
  BY <1>1, AnswersHonestly, PTL

\* What send answers to one message.
LEMMA SendTells ==
    ASSUME NEW to, NEW script, NEW o, o = send(to, script)
    PROVE  LET refused == refusedIn(to, script.rcpt) IN
           /\ o.event.Type = "send" => o.taken = "yes" /\ refused = {}
           /\ o.event.Type = "bounce" =>
                /\ o.taken = "no" /\ refused # {}
                /\ DOMAIN o.event.recipients = refused
                /\ \A j \in refused : o.event.recipients[j].Email = to[j]
           /\ o.event.Type = "none" => ~o.ok /\ (o.taken = "yes" => script.publish # "ok")
           /\ ~o.ok => o.event.Type = "none"
           /\ o.taken # "no" => refused = {}
<1> DEFINE r == sendMessage(to, script)
           e == IF r.ok /\ script.publish = "ok" THEN received(published(r.event)) ELSE NoEvent
<1>1. /\ o.event = e /\ o.ok = (r.ok /\ script.publish = "ok") /\ o.taken = r.taken
  BY DEF send
<1>2. \/ ~r.ok /\ r.taken = "no"
      \/ ~r.ok /\ r.taken = "perhaps" /\ ~HasBounced(to, script.rcpt)
      \/ r.ok /\ r.taken = "yes" /\ ~HasBounced(to, script.rcpt) /\ r.event = SendEvent
      \/ /\ r.ok /\ r.taken = "no" /\ HasBounced(to, script.rcpt)
         /\ r.event = BounceEvent(to, script.rcpt)
  BY DEF sendMessage, Outcome, Failed, redial
<1>3. received(published(SendEvent)).Type = "send"
  BY SMTT(30) DEF received, published, SendEvent, NoEvent, driverEventTypeToPb, protoEventTypeToDriver
<1>4. LET b == received(published(BounceEvent(to, script.rcpt))) IN
      /\ b.Type = "bounce"
      /\ DOMAIN b.recipients = refusedIn(to, script.rcpt)
      /\ \A j \in refusedIn(to, script.rcpt) : b.recipients[j].Email = to[j]
  BY DEF received, published, BounceEvent, driverEventTypeToPb, protoEventTypeToDriver
<1>5. NoEvent.Type = "none"
  BY SMTT(30) DEF NoEvent
<1> HIDE DEF r
<1> QED
  BY <1>1, <1>2, <1>3, <1>4, <1>5 DEF HasBounced

\* A message goes to all of its recipients or to none, and its event says
\* which, for any batch and whatever the server answers
\* (smtp_sender.go:47-149; message_sender.go:54-62, 181-217).
THEOREM AllGetItOrNone == Spec => []AllOrNobody
<1>1. Honest => AllOrNobody
  <2> SUFFICES ASSUME Honest, Asked("smtp"), NEW k \in DOMAIN answer[1]
               PROVE  LET o == answer[1][k]  m == question.msgs[k]
                          refused == {j \in DOMAIN m.to : Refused(m.script.rcpt[m.to[j]])}
                      IN  /\ o.event.Type = "send" => o.taken = "yes" /\ refused = {}
                          /\ o.event.Type = "bounce" =>
                               /\ o.taken = "no" /\ refused # {}
                               /\ DOMAIN o.event.recipients = refused
                               /\ \A j \in refused : o.event.recipients[j].Email = m.to[j]
                          /\ o.event.Type = "none" =>
                               /\ o.taken = "yes" => m.script.publish # "ok"
                               /\ k = Len(answer[1])
                          /\ o.taken # "no" => refused = {}
                          /\ Len(answer[1]) < Len(question.msgs) =>
                               answer[1][Len(answer[1])].event.Type = "none"
    BY DEF AllOrNobody
  <2> DEFINE m == question.msgs[k]
  <2>1. answer[1] = SendBatch(question.msgs)
    BY DEF Honest, Asked, Answer
  <2>2. PICK S : question.msgs \in Seq(S)
    BY QuestionsAssumption DEF Honest, Asked, IsSequence
  <2>3. /\ DOMAIN answer[1] = 1 .. Len(answer[1]) /\ Len(answer[1]) \in 0 .. Len(question.msgs)
        /\ \A j \in DOMAIN answer[1] :
             /\ answer[1][j] = send(question.msgs[j].to, question.msgs[j].script)
             /\ ~answer[1][j].ok => j = Len(answer[1])
        /\ Len(answer[1]) < Len(question.msgs) =>
             Len(answer[1]) > 0 /\ ~answer[1][Len(answer[1])].ok
    BY <2>1, <2>2, SendBatchInOrder
  <2>4. refusedIn(m.to, m.script.rcpt) = {j \in DOMAIN m.to : Refused(m.script.rcpt[m.to[j]])}
    BY DEF refusedIn
  <2>5. Len(answer[1]) < Len(question.msgs) =>
           answer[1][Len(answer[1])].event.Type = "none"
    <3>1. Len(answer[1]) < Len(question.msgs) => Len(answer[1]) \in DOMAIN answer[1]
      BY <2>3
    <3> QED
      BY <2>3, <3>1, SendTells
  <2>6. answer[1][k] = send(m.to, m.script) /\ (~answer[1][k].ok => k = Len(answer[1]))
    BY <2>3
  <2> DEFINE o == answer[1][k]
             refused == refusedIn(m.to, m.script.rcpt)
  <2>7. /\ o.event.Type = "send" => o.taken = "yes" /\ refused = {}
        /\ o.event.Type = "bounce" =>
             /\ o.taken = "no" /\ refused # {}
             /\ DOMAIN o.event.recipients = refused
             /\ \A j \in refused : o.event.recipients[j].Email = m.to[j]
        /\ o.event.Type = "none" => ~o.ok /\ (o.taken = "yes" => m.script.publish # "ok")
        /\ o.taken # "no" => refused = {}
    BY <2>6, SendTells
  <2> QED
    BY <2>4, <2>5, <2>6, <2>7, ZenonT(40)
<1> QED
  BY <1>1, AnswersHonestly, PTL

\* That u is s and then t.
Joins(u, s, t) == u = s \o t

\* Two sequences, one after the other.
LEMMA ConcatIs ==
    ASSUME NEW s, IsSequence(s), NEW t, IsSequence(t), NEW u, Joins(u, s, t)
    PROVE  /\ IsSequence(u)
           /\ Len(s) \in Nat /\ Len(t) \in Nat /\ Len(u) = Len(s) + Len(t)
           /\ DOMAIN s = 1 .. Len(s) /\ DOMAIN t = 1 .. Len(t)
           /\ DOMAIN u = 1 .. Len(s) + Len(t)
           /\ \A k \in 1 .. Len(s) : u[k] = s[k]
           /\ \A k \in 1 .. Len(t) : u[Len(s) + k] = t[k]
<1>1. PICK S, T : s \in Seq(S) /\ t \in Seq(T)
  BY DEF IsSequence
<1>2. PICK V : V = S \cup T
  OBVIOUS
<1>3. s \in Seq(V) /\ t \in Seq(V)
  BY <1>1, <1>2
<1>4. /\ u \in Seq(V) /\ Len(u) = Len(s) + Len(t)
      /\ \A i \in 1 .. Len(s) + Len(t) :
            u[i] = IF i <= Len(s) THEN s[i] ELSE t[i - Len(s)]
  BY <1>3, ConcatProperties DEF Joins
<1>5. /\ Len(s) \in Nat /\ Len(t) \in Nat
      /\ DOMAIN s = 1 .. Len(s) /\ DOMAIN t = 1 .. Len(t)
  BY <1>3
<1>6. DOMAIN u = 1 .. Len(u) /\ u = [k \in 1 .. Len(u) |-> u[k]]
  BY <1>4
<1>7. u \in [1 .. Len(u) -> {u[k] : k \in DOMAIN u}]
  BY <1>6
<1>8. IsSequence(u)
  <2>1. Len(u) \in Nat
    BY <1>4
  <2>2. u \in Seq({u[k] : k \in DOMAIN u})
    BY <1>7, <2>1
  <2> QED
    BY <2>2 DEF IsSequence
<1>9. \A k \in 1 .. Len(s) : u[k] = s[k]
  BY <1>4, <1>5
<1>10. \A k \in 1 .. Len(t) : u[Len(s) + k] = t[k]
  BY <1>4, <1>5
<1> QED
  BY <1>4, <1>5, <1>6, <1>8, <1>9, <1>10

\* The empty sequence.
LEMMA EmptyIs == IsSequence(<< >>) /\ Len(<< >>) = 0 /\ DOMAIN << >> = {}
  BY DEF IsSequence

\* Both are one sequence.
LEMMA SequencesInARow ==
    ASSUME NEW s, IsSequence(s), NEW t, IsSequence(t)
    PROVE  IsSequence(s \o t)
<1>1. PICK u : Joins(u, s, t)
  BY DEF Joins
<1>2. IsSequence(u)
  BY <1>1, ConcatIs
<1> QED
  BY <1>1, <1>2 DEF Joins

\* A function on 1 .. n is a sequence.
LEMMA SequenceOf ==
    ASSUME NEW n \in Nat, NEW f, DOMAIN f = 1 .. n, f = [k \in 1 .. n |-> f[k]]
    PROVE  IsSequence(f) /\ Len(f) = n
<1>1. f \in [1 .. n -> {f[k] : k \in DOMAIN f}]
  OBVIOUS
<1>2. f \in Seq({f[k] : k \in DOMAIN f}) /\ Len(f) = n
  BY <1>1
<1> QED
  BY <1>2 DEF IsSequence

Happened(e, name, stack) == [event |-> e, of |-> name, in |-> stack]
Events(e, names, stack) == [k \in DOMAIN names |-> Happened(e, names[k], stack)]

\* The events of a kind stand behind position p.
Stand(out, p, e, names, stack) ==
    \A k \in 1 .. Len(names) : out[p + k] = Happened(e, names[k], stack)

\* u begins with s.
Extended(u, s) == \A k \in 1 .. Len(s) : u[k] = s[k]

\* Events of one kind that are added stand behind those that were there.
LEMMA EventsAdded ==
    ASSUME NEW out, IsSequence(out), NEW e, NEW names, IsSequence(names), NEW stack,
           NEW u, Joins(u, out, Events(e, names, stack))
    PROVE  /\ IsSequence(u) /\ Len(u) = Len(out) + Len(names)
           /\ DOMAIN u = 1 .. Len(out) + Len(names)
           /\ Len(out) \in Nat /\ Len(names) \in Nat
           /\ Extended(u, out)
           /\ Stand(u, Len(out), e, names, stack)
<1> DEFINE r == Events(e, names, stack)
<1>1. DOMAIN names = 1 .. Len(names) /\ Len(names) \in Nat
  BY DEF IsSequence
<1>2. DOMAIN r = 1 .. Len(names) /\ \A k \in 1 .. Len(names) : r[k] = Happened(e, names[k], stack)
  BY <1>1 DEF Events
<1>3. r = [k \in 1 .. Len(names) |-> r[k]]
  BY <1>1 DEF Events
<1> HIDE DEF r
<1>4. IsSequence(r) /\ Len(r) = Len(names)
  BY <1>1, <1>2, <1>3, SequenceOf
<1>5. Joins(u, out, r)
  BY DEF r
<1>6. /\ IsSequence(u)
      /\ Len(out) \in Nat /\ Len(u) = Len(out) + Len(r)
      /\ DOMAIN u = 1 .. Len(out) + Len(r)
      /\ \A k \in 1 .. Len(out) : u[k] = out[k]
      /\ \A k \in 1 .. Len(r) : u[Len(out) + k] = r[k]
  BY <1>4, <1>5, ConcatIs
<1>7. /\ IsSequence(u) /\ Len(u) = Len(out) + Len(names)
      /\ DOMAIN u = 1 .. Len(out) + Len(names)
      /\ Len(out) \in Nat
      /\ \A k \in 1 .. Len(out) : u[k] = out[k]
      /\ \A k \in 1 .. Len(names) : u[Len(out) + k] = Happened(e, names[k], stack)
  BY <1>2, <1>4, <1>6
<1>8. Extended(u, out) /\ Stand(u, Len(out), e, names, stack)
  BY <1>7 DEF Extended, Stand
<1> QED
  BY <1>1, <1>7, <1>8


\* The stacks of multiparts that writeMessage builds up.
Behind(has, stack, type) == IF has THEN Append(stack, type) ELSE stack

Opened(has, type, s) == IF has THEN openMultipart(s, type) ELSE s
Closed(has, s) == IF has THEN closeMultipart(s) ELSE s
Only(has, x) == IF has THEN <<x>> ELSE << >>
Bit(has) == IF has THEN 1 ELSE 0

\* A multipart that is there or is not.
LEMMA OnlyLength ==
    ASSUME NEW has \in BOOLEAN, NEW x
    PROVE  IsSequence(Only(has, x)) /\ Len(Only(has, x)) = Bit(has) /\ Bit(has) \in {0, 1}
<1>1. IsSequence(<<x>>) /\ Len(<<x>>) = 1 /\ IsSequence(<< >>) /\ Len(<< >>) = 0
  BY DEF IsSequence
<1> QED
  BY <1>1 DEF Only, Bit

\* One more event, where there is one.
LEMMA JoinsOne ==
    ASSUME NEW out, IsSequence(out), NEW e, NEW name, NEW stack, NEW has \in BOOLEAN, NEW u,
           has => u = Append(out, Happened(e, name, stack)), ~has => u = out
    PROVE  Joins(u, out, Events(e, Only(has, name), stack))
<1>1. PICK S : out \in Seq(S)
  BY DEF IsSequence
<1> DEFINE h == Happened(e, name, stack)
<1>2. CASE has
  <2>1. Events(e, <<name>>, stack) = <<h>>
    BY DEF Events
  <2> HIDE DEF h
  <2>2. PICK V : V = S \cup {h}
    OBVIOUS
  <2>3. out \in Seq(V) /\ h \in V
    BY <1>1, <2>2
  <2>4. Append(out, h) = out \o <<h>>
    BY <2>3, AppendIsConcat
  <2>5. u = out \o <<h>>
    BY <1>2, <2>4 DEF h
  <2>6. Only(has, name) = <<name>>
    BY <1>2 DEF Only
  <2> QED
    BY <2>1, <2>5, <2>6 DEF Joins
<1>3. CASE ~has
  <2>1. Events(e, << >>, stack) = << >>
    BY DEF Events
  <2>2. out \o << >> = out
    BY <1>1
  <2>3. Only(has, name) = << >>
    BY <1>3 DEF Only
  <2> QED
    BY <1>3, <2>1, <2>2, <2>3 DEF Joins
<1> QED
  BY <1>2, <1>3

\* A stack with one more on it, and without that again.
LEMMA OneMore ==
    ASSUME NEW before, IsSequence(before), NEW type
    PROVE  LET s == Append(before, type) IN
           /\ IsSequence(s) /\ s # << >> /\ s[Len(s)] = type
           /\ SubSeq(s, 1, Len(s) - 1) = before
<1> DEFINE s == Append(before, type)
<1>1. PICK S : before \in Seq(S)
  BY DEF IsSequence
<1>2. PICK V : V = S \cup {type}
  OBVIOUS
<1>3. before \in Seq(V) /\ type \in V
  BY <1>1, <1>2
<1>4. /\ s \in Seq(V) /\ s # << >> /\ Len(s) = Len(before) + 1 /\ s[Len(before) + 1] = type
      /\ \A k \in 1 .. Len(before) : s[k] = before[k]
  BY <1>3, AppendProperties
<1> HIDE DEF s
<1>5. PICK n \in Nat : n = Len(before)
  BY <1>3
<1>6. PICK f : f = SubSeq(s, 1, n)
  OBVIOUS
<1>7. f \in Seq(V) /\ Len(f) = n /\ \A k \in 1 .. n : f[k] = s[k]
  BY <1>4, <1>5, <1>6
<1>8. f = before
  BY <1>3, <1>4, <1>5, <1>7, SeqEqual
<1>9. n = Len(s) - 1
  BY <1>4, <1>5
<1>10. IsSequence(s)
  <2>1. DOMAIN s = 1 .. Len(s) /\ Len(s) \in Nat /\ s = [k \in 1 .. Len(s) |-> s[k]]
    BY <1>4
  <2> QED
    BY <2>1, SequenceOf
<1> QED
  BY <1>4, <1>5, <1>6, <1>8, <1>9, <1>10 DEF s

\* What opening a multipart writes.
LEMMA Opening ==
    ASSUME NEW s, IsSequence(s.open), IsSequence(s.out), NEW type, NEW has \in BOOLEAN
    PROVE  LET t == Opened(has, type, s) IN
           /\ Joins(t.out, s.out, Events("open", Only(has, type), s.open))
           /\ t.open = Behind(has, s.open, type)
           /\ IsSequence(t.open)
           /\ IsSequence(t.out)
<1> DEFINE t == Opened(has, type, s)
<1>1. t.open = Behind(has, s.open, type)
  BY DEF Opened, openMultipart, Behind
<1>2. /\ has => t.out = Append(s.out, Happened("open", type, s.open))
      /\ ~has => t.out = s.out
  BY DEF Opened, openMultipart, Event, Happened
<1> HIDE DEF t
<1>3. Joins(t.out, s.out, Events("open", Only(has, type), s.open))
  BY <1>2, JoinsOne
<1>4. IsSequence(t.open)
  BY <1>1, OneMore DEF Behind
<1>5. IsSequence(t.out)
  BY <1>3, OnlyLength, EventsAdded
<1> QED
  BY <1>1, <1>3, <1>4, <1>5 DEF t

\* What closing it writes; the stack is as before.
LEMMA Closing ==
    ASSUME NEW s, IsSequence(s.out), NEW before, IsSequence(before),
           NEW type, NEW has \in BOOLEAN,
           s.open = Behind(has, before, type)
    PROVE  LET t == Closed(has, s) IN
           /\ Joins(t.out, s.out, Events("close", Only(has, type), s.open))
           /\ t.open = before
           /\ IsSequence(t.out)
<1> DEFINE t == Closed(has, s)
           n == Len(s.open)
<1>1. has => /\ s.open # << >> /\ s.open[n] = type
             /\ SubSeq(s.open, 1, n - 1) = before
  BY OneMore DEF Behind
<1>4. t.open = before
  BY <1>1 DEF Closed, closeMultipart, Behind
<1>5. /\ has => t.out = Append(s.out, Happened("close", type, s.open))
      /\ ~has => t.out = s.out
  BY <1>1 DEF Closed, closeMultipart, Event, Happened
<1> HIDE DEF t
<1>6. Joins(t.out, s.out, Events("close", Only(has, type), s.open))
  BY <1>5, JoinsOne
<1>7. IsSequence(t.out)
  BY <1>6, OnlyLength, EventsAdded
<1> QED
  BY <1>4, <1>6, <1>7 DEF t

\* What the leaves write.
LEMMA Leaving ==
    ASSUME NEW s, IsSequence(s.out), NEW as, NEW names, IsSequence(names), NEW fails
    PROVE  LET t == writeLeaves(s, as, names, fails) IN
           /\ Joins(t.out, s.out, Events(as, names, s.open))
           /\ t.open = s.open
           /\ IsSequence(t.out)
<1> DEFINE t == writeLeaves(s, as, names, fails)
<1>1. Joins(t.out, s.out, Events(as, names, s.open)) /\ t.open = s.open
  BY DEF writeLeaves, Joins, Events, Event, Happened
<1> HIDE DEF t
<1>2. IsSequence(t.out)
  BY <1>1, EventsAdded
<1> QED
  BY <1>1, <1>2 DEF t

\* Where what writeMessage writes stands.
Layout(out, m) ==
    LET mixed       == hasMixedPart(m)
        related     == hasRelatedPart(m)
        alternative == hasAlternativePart(m)
        a  == Bit(mixed)
        b  == Bit(related)
        c  == Bit(alternative)
        in1 == Behind(mixed, << >>, "mixed")
        in2 == Behind(related, in1, "related")
        in3 == Behind(alternative, in2, "alternative")
        p  == a + b + c
        q  == p + Len(m.parts)
        r  == q + c + Len(m.embedded)
        n  == r + b + Len(m.attachments)
    IN  /\ DOMAIN out = 1 .. n + a
        /\ Stand(out, 0, "open", Only(mixed, "mixed"), << >>)
        /\ Stand(out, a, "open", Only(related, "related"), in1)
        /\ Stand(out, a + b, "open", Only(alternative, "alternative"), in2)
        /\ Stand(out, p, "body", Bodies(m.parts, m.charset), in3)
        /\ Stand(out, q, "close", Only(alternative, "alternative"), in3)
        /\ Stand(out, q + c, "inline", Filenames(m.embedded), in2)
        /\ Stand(out, r, "close", Only(related, "related"), in2)
        /\ Stand(out, r + b, "attachment", Filenames(m.attachments), in1)
        /\ Stand(out, n, "close", Only(mixed, "mixed"), in1)

\* As many bodies as there are parts, and as many names as files.
LEMMA NamesLength ==
    ASSUME NEW s, IsSequence(s), NEW charset
    PROVE  /\ IsSequence(Bodies(s, charset)) /\ Len(Bodies(s, charset)) = Len(s)
           /\ IsSequence(Filenames(s)) /\ Len(Filenames(s)) = Len(s)
<1>1. DOMAIN s = 1 .. Len(s) /\ Len(s) \in Nat
  BY DEF IsSequence
<1> DEFINE c == Bodies(s, charset)
           f == Filenames(s)
<1>2. DOMAIN c = 1 .. Len(s) /\ c = [k \in 1 .. Len(s) |-> c[k]]
  BY <1>1 DEF Bodies
<1>3. DOMAIN f = 1 .. Len(s) /\ f = [k \in 1 .. Len(s) |-> f[k]]
  BY <1>1 DEF Filenames
<1> HIDE DEF c, f
<1>4. IsSequence(c) /\ Len(c) = Len(s)
  BY <1>1, <1>2, SequenceOf
<1>5. IsSequence(f) /\ Len(f) = Len(s)
  BY <1>1, <1>3, SequenceOf
<1> QED
  BY <1>4, <1>5 DEF c, f

\* What begins with what begins with s begins with s.
LEMMA ExtendedAgain ==
    ASSUME NEW s, NEW t, NEW u, Len(s) \in Nat, Len(t) \in Nat, Len(s) =< Len(t),
           Extended(t, s), Extended(u, t)
    PROVE  Extended(u, s)
  BY DEF Extended

\* What stands somewhere stands there when something is added.
LEMMA StandsStill ==
    ASSUME NEW out, NEW u, Extended(u, out), NEW p \in Nat, NEW e, NEW names, NEW stack,
           Len(out) \in Nat, Len(names) \in Nat, p + Len(names) =< Len(out),
           Stand(out, p, e, names, stack)
    PROVE  Stand(u, p, e, names, stack)
<1>1. ASSUME NEW k \in 1 .. Len(names) PROVE u[p + k] = Happened(e, names[k], stack)
  <2>1. p + k \in 1 .. Len(out)
    OBVIOUS
  <2> QED
    BY <2>1 DEF Stand, Extended
<1> QED
  BY <1>1 DEF Stand

\* writeMessage writes all in its place, whatever the message has.
LEMMA WrittenAs ==
    ASSUME NEW m, IsSequence(m.parts), IsSequence(m.embedded), IsSequence(m.attachments)
    PROVE  Layout(WriteTo(m).out, m) /\ IsSequence(WriteTo(m).out)
<1> DEFINE mixed       == hasMixedPart(m)
           related     == hasRelatedPart(m)
           alternative == hasAlternativePart(m)
           in1 == Behind(mixed, << >>, "mixed")
           in2 == Behind(related, in1, "related")
           in3 == Behind(alternative, in2, "alternative")
           s0 == [open |-> << >>, err |-> FALSE, out |-> << >>]
           s1 == Opened(mixed, "mixed", s0)
           s2 == Opened(related, "related", s1)
           s3 == Opened(alternative, "alternative", s2)
           s4 == writeParts(m, s3)
           s5 == Closed(alternative, s4)
           s6 == addFiles(m.embedded, FALSE, s5)
           s7 == Closed(related, s6)
           s8 == addFiles(m.attachments, TRUE, s7)
           s9 == Closed(mixed, s8)
<1>1. WriteTo(m) = s9
  BY DEF WriteTo, writeMessage, Within, Opened, Closed
<1>2. mixed \in BOOLEAN /\ related \in BOOLEAN /\ alternative \in BOOLEAN
  BY DEF hasMixedPart, hasRelatedPart, hasAlternativePart
<1> HIDE DEF mixed, related, alternative
<1>3. /\ s0.open = << >> /\ s0.out = << >> /\ IsSequence(s0.out) /\ Len(s0.out) = 0
      /\ IsSequence(s0.open) /\ IsSequence(<< >>)
  BY DEF IsSequence
<1> HIDE DEF s0, in1, in2, in3
<1> DEFINE a == Bit(mixed)
           b == Bit(related)
           c == Bit(alternative)
           P == Len(m.parts)
           E == Len(m.embedded)
           A == Len(m.attachments)
<1>4. /\ P \in Nat /\ E \in Nat /\ A \in Nat
      /\ Len(Bodies(m.parts, m.charset)) = P /\ IsSequence(Bodies(m.parts, m.charset))
      /\ Len(Filenames(m.embedded)) = E /\ IsSequence(Filenames(m.embedded))
      /\ Len(Filenames(m.attachments)) = A /\ IsSequence(Filenames(m.attachments))
  <2>1. P \in Nat /\ E \in Nat /\ A \in Nat
    BY DEF IsSequence
  <2> QED
    BY <2>1, NamesLength
<1>5. /\ a \in Nat /\ b \in Nat /\ c \in Nat
      /\ \A x : IsSequence(Only(mixed, x)) /\ Len(Only(mixed, x)) = a
      /\ \A x : IsSequence(Only(related, x)) /\ Len(Only(related, x)) = b
      /\ \A x : IsSequence(Only(alternative, x)) /\ Len(Only(alternative, x)) = c
  BY <1>2, OnlyLength
<1> HIDE DEF a, b, c, P, E, A
<1>6. /\ Joins(s1.out, s0.out, Events("open", Only(mixed, "mixed"), << >>))
      /\ s1.open = in1 /\ IsSequence(in1)
      /\ IsSequence(s1.out)
  <2>1. IsSequence(s0.open) /\ IsSequence(s0.out) /\ s0.open = << >>
    BY <1>3
  <2>2. /\ Joins(s1.out, s0.out, Events("open", Only(mixed, "mixed"), s0.open))
        /\ s1.open = Behind(mixed, s0.open, "mixed")
        /\ IsSequence(s1.open)
        /\ IsSequence(s1.out)
    BY <1>2, <2>1, Opening
  <2> HIDE DEF s1
  <2> QED
    BY <2>1, <2>2 DEF in1
<1> HIDE DEF s1
<1>7. /\ Joins(s2.out, s1.out, Events("open", Only(related, "related"), in1))
      /\ s2.open = in2 /\ IsSequence(in2)
      /\ IsSequence(s2.out)
  <2>1. IsSequence(s1.open) /\ IsSequence(s1.out) /\ s1.open = in1
    BY <1>6
  <2>2. /\ Joins(s2.out, s1.out, Events("open", Only(related, "related"), s1.open))
        /\ s2.open = Behind(related, s1.open, "related")
        /\ IsSequence(s2.open)
        /\ IsSequence(s2.out)
    BY <1>2, <2>1, Opening
  <2> HIDE DEF s2
  <2> QED
    BY <2>1, <2>2 DEF in2
<1> HIDE DEF s2
<1>8. /\ Joins(s3.out, s2.out, Events("open", Only(alternative, "alternative"), in2))
      /\ s3.open = in3 /\ IsSequence(in3)
      /\ IsSequence(s3.out)
  <2>1. IsSequence(s2.open) /\ IsSequence(s2.out) /\ s2.open = in2
    BY <1>7
  <2>2. /\ Joins(s3.out, s2.out, Events("open", Only(alternative, "alternative"), s2.open))
        /\ s3.open = Behind(alternative, s2.open, "alternative")
        /\ IsSequence(s3.open)
        /\ IsSequence(s3.out)
    BY <1>2, <2>1, Opening
  <2> HIDE DEF s3
  <2> QED
    BY <2>1, <2>2 DEF in3
<1> HIDE DEF s3
<1>9. /\ Joins(s4.out, s3.out, Events("body", Bodies(m.parts, m.charset), in3))
      /\ s4.open = in3
      /\ IsSequence(s4.out)
  BY <1>4, <1>8, Leaving DEF writeParts
<1> HIDE DEF s4
<1>10. /\ Joins(s5.out, s4.out, Events("close", Only(alternative, "alternative"), in3))
      /\ s5.open = in2
      /\ IsSequence(s5.out)
  <2>1. /\ IsSequence(s4.out) /\ IsSequence(in2) /\ s4.open = in3
        /\ s4.open = Behind(alternative, in2, "alternative")
    BY <1>7, <1>9 DEF in3
  <2>2. /\ Joins(s5.out, s4.out, Events("close", Only(alternative, "alternative"), s4.open))
        /\ s5.open = in2
        /\ IsSequence(s5.out)
    BY <1>2, <2>1, Closing
  <2> HIDE DEF s5
  <2> QED
    BY <2>1, <2>2
<1> HIDE DEF s5
<1>11. /\ Joins(s6.out, s5.out, Events("inline", Filenames(m.embedded), in2))
      /\ s6.open = in2
      /\ IsSequence(s6.out)
  BY <1>4, <1>10, Leaving DEF addFiles
<1> HIDE DEF s6
<1>12. /\ Joins(s7.out, s6.out, Events("close", Only(related, "related"), in2))
      /\ s7.open = in1
      /\ IsSequence(s7.out)
  <2>1. /\ IsSequence(s6.out) /\ IsSequence(in1) /\ s6.open = in2
        /\ s6.open = Behind(related, in1, "related")
    BY <1>6, <1>11 DEF in2
  <2>2. /\ Joins(s7.out, s6.out, Events("close", Only(related, "related"), s6.open))
        /\ s7.open = in1
        /\ IsSequence(s7.out)
    BY <1>2, <2>1, Closing
  <2> HIDE DEF s7
  <2> QED
    BY <2>1, <2>2
<1> HIDE DEF s7
<1>13. /\ Joins(s8.out, s7.out, Events("attachment", Filenames(m.attachments), in1))
      /\ s8.open = in1
      /\ IsSequence(s8.out)
  BY <1>4, <1>12, Leaving DEF addFiles
<1> HIDE DEF s8
<1>14. /\ Joins(s9.out, s8.out, Events("close", Only(mixed, "mixed"), in1))
      /\ s9.open = << >>
      /\ IsSequence(s9.out)
  <2>1. /\ IsSequence(s8.out) /\ IsSequence(<< >>) /\ s8.open = in1
        /\ s8.open = Behind(mixed, << >>, "mixed")
    BY <1>3, <1>13 DEF in1
  <2>2. /\ Joins(s9.out, s8.out, Events("close", Only(mixed, "mixed"), s8.open))
        /\ s9.open = << >>
        /\ IsSequence(s9.out)
    BY <1>2, <2>1, Closing
  <2> HIDE DEF s9
  <2> QED
    BY <2>1, <2>2
<1> HIDE DEF s9
<1> DEFINE p == a + b + c
           q == p + P
           r == q + c + E
           n == r + b + A
<1>15. /\ Len(s1.out) = a /\ Len(s1.out) \in Nat /\ DOMAIN s1.out = 1 .. Len(s1.out)
      /\ Len(s0.out) =< Len(s1.out)
      /\ Extended(s1.out, s0.out)
      /\ Stand(s1.out, 0, "open", Only(mixed, "mixed"), << >>)
  <2>1. /\ Len(s0.out) = 0 /\ Len(s0.out) \in Nat /\ IsSequence(s0.out)
        /\ IsSequence(Only(mixed, "mixed")) /\ Len(Only(mixed, "mixed")) = a /\ a \in Nat
    BY <1>4, <1>5, <1>3, <1>3
  <2>2. /\ IsSequence(s1.out) /\ Len(s1.out) = Len(s0.out) + Len(Only(mixed, "mixed"))
        /\ DOMAIN s1.out = 1 .. Len(s0.out) + Len(Only(mixed, "mixed"))
        /\ Extended(s1.out, s0.out)
        /\ Stand(s1.out, Len(s0.out), "open", Only(mixed, "mixed"), << >>)
    BY <1>6, <2>1, EventsAdded, SMTT(30)
  <2> QED
    BY <2>1, <2>2, <1>4, <1>5, SMTT(30)
<1>16. /\ Len(s2.out) = a + b /\ Len(s2.out) \in Nat /\ DOMAIN s2.out = 1 .. Len(s2.out)
      /\ Len(s1.out) =< Len(s2.out)
      /\ Extended(s2.out, s1.out)
      /\ Stand(s2.out, a, "open", Only(related, "related"), in1)
  <2>1. /\ Len(s1.out) = a /\ Len(s1.out) \in Nat /\ IsSequence(s1.out)
        /\ IsSequence(Only(related, "related")) /\ Len(Only(related, "related")) = b /\ b \in Nat
    BY <1>4, <1>5, <1>15, <1>6
  <2>2. /\ IsSequence(s2.out) /\ Len(s2.out) = Len(s1.out) + Len(Only(related, "related"))
        /\ DOMAIN s2.out = 1 .. Len(s1.out) + Len(Only(related, "related"))
        /\ Extended(s2.out, s1.out)
        /\ Stand(s2.out, Len(s1.out), "open", Only(related, "related"), in1)
    BY <1>7, <2>1, EventsAdded, SMTT(30)
  <2> QED
    BY <2>1, <2>2, <1>4, <1>5, SMTT(30)
<1>17. /\ Len(s3.out) = p /\ Len(s3.out) \in Nat /\ DOMAIN s3.out = 1 .. Len(s3.out)
      /\ Len(s2.out) =< Len(s3.out)
      /\ Extended(s3.out, s2.out)
      /\ Stand(s3.out, a + b, "open", Only(alternative, "alternative"), in2)
  <2>1. /\ Len(s2.out) = a + b /\ Len(s2.out) \in Nat /\ IsSequence(s2.out)
        /\ IsSequence(Only(alternative, "alternative")) /\ Len(Only(alternative, "alternative")) = c /\ c \in Nat
    BY <1>4, <1>5, <1>16, <1>7
  <2>2. /\ IsSequence(s3.out) /\ Len(s3.out) = Len(s2.out) + Len(Only(alternative, "alternative"))
        /\ DOMAIN s3.out = 1 .. Len(s2.out) + Len(Only(alternative, "alternative"))
        /\ Extended(s3.out, s2.out)
        /\ Stand(s3.out, Len(s2.out), "open", Only(alternative, "alternative"), in2)
    BY <1>8, <2>1, EventsAdded, SMTT(30)
  <2> QED
    BY <2>1, <2>2, <1>4, <1>5, SMTT(30)
<1>18. /\ Len(s4.out) = q /\ Len(s4.out) \in Nat /\ DOMAIN s4.out = 1 .. Len(s4.out)
      /\ Len(s3.out) =< Len(s4.out)
      /\ Extended(s4.out, s3.out)
      /\ Stand(s4.out, p, "body", Bodies(m.parts, m.charset), in3)
  <2>1. /\ Len(s3.out) = p /\ Len(s3.out) \in Nat /\ IsSequence(s3.out)
        /\ IsSequence(Bodies(m.parts, m.charset)) /\ Len(Bodies(m.parts, m.charset)) = P /\ P \in Nat
    BY <1>4, <1>5, <1>17, <1>8
  <2>2. /\ IsSequence(s4.out) /\ Len(s4.out) = Len(s3.out) + Len(Bodies(m.parts, m.charset))
        /\ DOMAIN s4.out = 1 .. Len(s3.out) + Len(Bodies(m.parts, m.charset))
        /\ Extended(s4.out, s3.out)
        /\ Stand(s4.out, Len(s3.out), "body", Bodies(m.parts, m.charset), in3)
    BY <1>9, <2>1, EventsAdded, SMTT(30)
  <2> QED
    BY <2>1, <2>2, <1>4, <1>5, SMTT(30)
<1>19. /\ Len(s5.out) = q + c /\ Len(s5.out) \in Nat /\ DOMAIN s5.out = 1 .. Len(s5.out)
      /\ Len(s4.out) =< Len(s5.out)
      /\ Extended(s5.out, s4.out)
      /\ Stand(s5.out, q, "close", Only(alternative, "alternative"), in3)
  <2>1. /\ Len(s4.out) = q /\ Len(s4.out) \in Nat /\ IsSequence(s4.out)
        /\ IsSequence(Only(alternative, "alternative")) /\ Len(Only(alternative, "alternative")) = c /\ c \in Nat
    BY <1>4, <1>5, <1>18, <1>9
  <2>2. /\ IsSequence(s5.out) /\ Len(s5.out) = Len(s4.out) + Len(Only(alternative, "alternative"))
        /\ DOMAIN s5.out = 1 .. Len(s4.out) + Len(Only(alternative, "alternative"))
        /\ Extended(s5.out, s4.out)
        /\ Stand(s5.out, Len(s4.out), "close", Only(alternative, "alternative"), in3)
    BY <1>10, <2>1, EventsAdded, SMTT(30)
  <2> QED
    BY <2>1, <2>2, <1>4, <1>5, SMTT(30)
<1>20. /\ Len(s6.out) = r /\ Len(s6.out) \in Nat /\ DOMAIN s6.out = 1 .. Len(s6.out)
      /\ Len(s5.out) =< Len(s6.out)
      /\ Extended(s6.out, s5.out)
      /\ Stand(s6.out, q + c, "inline", Filenames(m.embedded), in2)
  <2>1. /\ Len(s5.out) = q + c /\ Len(s5.out) \in Nat /\ IsSequence(s5.out)
        /\ IsSequence(Filenames(m.embedded)) /\ Len(Filenames(m.embedded)) = E /\ E \in Nat
    BY <1>4, <1>5, <1>19, <1>10
  <2>2. /\ IsSequence(s6.out) /\ Len(s6.out) = Len(s5.out) + Len(Filenames(m.embedded))
        /\ DOMAIN s6.out = 1 .. Len(s5.out) + Len(Filenames(m.embedded))
        /\ Extended(s6.out, s5.out)
        /\ Stand(s6.out, Len(s5.out), "inline", Filenames(m.embedded), in2)
    BY <1>11, <2>1, EventsAdded, SMTT(30)
  <2> QED
    BY <2>1, <2>2, <1>4, <1>5, SMTT(30)
<1>21. /\ Len(s7.out) = r + b /\ Len(s7.out) \in Nat /\ DOMAIN s7.out = 1 .. Len(s7.out)
      /\ Len(s6.out) =< Len(s7.out)
      /\ Extended(s7.out, s6.out)
      /\ Stand(s7.out, r, "close", Only(related, "related"), in2)
  <2>1. /\ Len(s6.out) = r /\ Len(s6.out) \in Nat /\ IsSequence(s6.out)
        /\ IsSequence(Only(related, "related")) /\ Len(Only(related, "related")) = b /\ b \in Nat
    BY <1>4, <1>5, <1>20, <1>11
  <2>2. /\ IsSequence(s7.out) /\ Len(s7.out) = Len(s6.out) + Len(Only(related, "related"))
        /\ DOMAIN s7.out = 1 .. Len(s6.out) + Len(Only(related, "related"))
        /\ Extended(s7.out, s6.out)
        /\ Stand(s7.out, Len(s6.out), "close", Only(related, "related"), in2)
    BY <1>12, <2>1, EventsAdded, SMTT(30)
  <2> QED
    BY <2>1, <2>2, <1>4, <1>5, SMTT(30)
<1>22. /\ Len(s8.out) = n /\ Len(s8.out) \in Nat /\ DOMAIN s8.out = 1 .. Len(s8.out)
      /\ Len(s7.out) =< Len(s8.out)
      /\ Extended(s8.out, s7.out)
      /\ Stand(s8.out, r + b, "attachment", Filenames(m.attachments), in1)
  <2>1. /\ Len(s7.out) = r + b /\ Len(s7.out) \in Nat /\ IsSequence(s7.out)
        /\ IsSequence(Filenames(m.attachments)) /\ Len(Filenames(m.attachments)) = A /\ A \in Nat
    BY <1>4, <1>5, <1>21, <1>12
  <2>2. /\ IsSequence(s8.out) /\ Len(s8.out) = Len(s7.out) + Len(Filenames(m.attachments))
        /\ DOMAIN s8.out = 1 .. Len(s7.out) + Len(Filenames(m.attachments))
        /\ Extended(s8.out, s7.out)
        /\ Stand(s8.out, Len(s7.out), "attachment", Filenames(m.attachments), in1)
    BY <1>13, <2>1, EventsAdded, SMTT(30)
  <2> QED
    BY <2>1, <2>2, <1>4, <1>5, SMTT(30)
<1>23. /\ Len(s9.out) = n + a /\ Len(s9.out) \in Nat /\ DOMAIN s9.out = 1 .. Len(s9.out)
      /\ Len(s8.out) =< Len(s9.out)
      /\ Extended(s9.out, s8.out)
      /\ Stand(s9.out, n, "close", Only(mixed, "mixed"), in1)
  <2>1. /\ Len(s8.out) = n /\ Len(s8.out) \in Nat /\ IsSequence(s8.out)
        /\ IsSequence(Only(mixed, "mixed")) /\ Len(Only(mixed, "mixed")) = a /\ a \in Nat
    BY <1>4, <1>5, <1>22, <1>13
  <2>2. /\ IsSequence(s9.out) /\ Len(s9.out) = Len(s8.out) + Len(Only(mixed, "mixed"))
        /\ DOMAIN s9.out = 1 .. Len(s8.out) + Len(Only(mixed, "mixed"))
        /\ Extended(s9.out, s8.out)
        /\ Stand(s9.out, Len(s8.out), "close", Only(mixed, "mixed"), in1)
    BY <1>14, <2>1, EventsAdded, SMTT(30)
  <2> QED
    BY <2>1, <2>2, <1>4, <1>5, SMTT(30)
<1>24. Extended(s9.out, s7.out) /\ Len(s7.out) \in Nat
  BY <1>21, <1>22, <1>23, ExtendedAgain
<1>25. Extended(s9.out, s6.out) /\ Len(s6.out) \in Nat
  BY <1>20, <1>21, <1>24, ExtendedAgain
<1>26. Extended(s9.out, s5.out) /\ Len(s5.out) \in Nat
  BY <1>19, <1>20, <1>25, ExtendedAgain
<1>27. Extended(s9.out, s4.out) /\ Len(s4.out) \in Nat
  BY <1>18, <1>19, <1>26, ExtendedAgain
<1>28. Extended(s9.out, s3.out) /\ Len(s3.out) \in Nat
  BY <1>17, <1>18, <1>27, ExtendedAgain
<1>29. Extended(s9.out, s2.out) /\ Len(s2.out) \in Nat
  BY <1>16, <1>17, <1>28, ExtendedAgain
<1>30. Extended(s9.out, s1.out) /\ Len(s1.out) \in Nat
  BY <1>15, <1>16, <1>29, ExtendedAgain
<1>31. Stand(s9.out, 0, "open", Only(mixed, "mixed"), << >>)
  <2>1. /\ 0 \in Nat
        /\ Len(Only(mixed, "mixed")) \in Nat
        /\ 0 + Len(Only(mixed, "mixed")) =< Len(s1.out)
        /\ Len(s1.out) \in Nat
    BY <1>4, <1>5, <1>15
  <2> QED
    BY <1>15, <1>30, <2>1, StandsStill
<1>32. Stand(s9.out, a, "open", Only(related, "related"), in1)
  <2>1. /\ a \in Nat
        /\ Len(Only(related, "related")) \in Nat
        /\ a + Len(Only(related, "related")) =< Len(s2.out)
        /\ Len(s2.out) \in Nat
    BY <1>4, <1>5, <1>16
  <2> QED
    BY <1>16, <1>29, <2>1, StandsStill
<1>33. Stand(s9.out, a + b, "open", Only(alternative, "alternative"), in2)
  <2>1. /\ a + b \in Nat
        /\ Len(Only(alternative, "alternative")) \in Nat
        /\ a + b + Len(Only(alternative, "alternative")) =< Len(s3.out)
        /\ Len(s3.out) \in Nat
    BY <1>4, <1>5, <1>17
  <2> QED
    BY <1>17, <1>28, <2>1, StandsStill
<1>34. Stand(s9.out, p, "body", Bodies(m.parts, m.charset), in3)
  <2>1. /\ p \in Nat
        /\ Len(Bodies(m.parts, m.charset)) \in Nat
        /\ p + Len(Bodies(m.parts, m.charset)) =< Len(s4.out)
        /\ Len(s4.out) \in Nat
    BY <1>4, <1>5, <1>18
  <2> QED
    BY <1>18, <1>27, <2>1, StandsStill
<1>35. Stand(s9.out, q, "close", Only(alternative, "alternative"), in3)
  <2>1. /\ q \in Nat
        /\ Len(Only(alternative, "alternative")) \in Nat
        /\ q + Len(Only(alternative, "alternative")) =< Len(s5.out)
        /\ Len(s5.out) \in Nat
    BY <1>4, <1>5, <1>19
  <2> QED
    BY <1>19, <1>26, <2>1, StandsStill
<1>36. Stand(s9.out, q + c, "inline", Filenames(m.embedded), in2)
  <2>1. /\ q + c \in Nat
        /\ Len(Filenames(m.embedded)) \in Nat
        /\ q + c + Len(Filenames(m.embedded)) =< Len(s6.out)
        /\ Len(s6.out) \in Nat
    BY <1>4, <1>5, <1>20
  <2> QED
    BY <1>20, <1>25, <2>1, StandsStill
<1>37. Stand(s9.out, r, "close", Only(related, "related"), in2)
  <2>1. /\ r \in Nat
        /\ Len(Only(related, "related")) \in Nat
        /\ r + Len(Only(related, "related")) =< Len(s7.out)
        /\ Len(s7.out) \in Nat
    BY <1>4, <1>5, <1>21
  <2> QED
    BY <1>21, <1>24, <2>1, StandsStill
<1>38. Stand(s9.out, r + b, "attachment", Filenames(m.attachments), in1)
  <2>1. /\ r + b \in Nat
        /\ Len(Filenames(m.attachments)) \in Nat
        /\ r + b + Len(Filenames(m.attachments)) =< Len(s8.out)
        /\ Len(s8.out) \in Nat
    BY <1>4, <1>5, <1>22, SMTT(30)
  <2> QED
    BY <1>22, <1>23, <2>1, StandsStill
<1>39. DOMAIN s9.out = 1 .. n + a
  BY <1>23
<1> HIDE DEF p, q, r, n
<1>40. Layout(s9.out, m)
  BY <1>39, <1>31, <1>32, <1>33, <1>34, <1>35, <1>36, <1>37, <1>38, <1>23
     DEF Layout, mixed, related, alternative, in1, in2, in3, a, b, c, p, q, r, n, P, E, A
<1> QED
  BY <1>1, <1>14, <1>40
\* What a stack is with one more multipart, or without.
LEMMA Stacks ==
    ASSUME NEW stack, IsSequence(stack), NEW type, NEW has \in BOOLEAN
    PROVE  LET s == Behind(has, stack, type) IN
           /\ IsSequence(s) /\ Len(s) = Len(stack) + Bit(has) /\ Len(s) \in Nat
           /\ s = << >> <=> Len(s) = 0
           /\ has => s # << >> /\ s[Len(s)] = type
<1> DEFINE s == Behind(has, stack, type)
<1>1. PICK S : stack \in Seq(S)
  BY DEF IsSequence
<1>2. PICK V : V = S \cup {type}
  OBVIOUS
<1>3. stack \in Seq(V) /\ type \in V
  BY <1>1, <1>2
<1>4. CASE has
  <2>1. s = Append(stack, type)
    BY <1>4 DEF Behind
  <2>2. s # << >> /\ s[Len(s)] = type /\ IsSequence(s)
    BY <2>1, OneMore
  <2>3. Len(Append(stack, type)) = Len(stack) + 1 /\ Len(stack) \in Nat
    BY <1>3, AppendProperties
  <2>4. Len(s) = Len(stack) + 1 /\ Len(s) \in Nat /\ Len(s) # 0
    BY <2>1, <2>3
  <2> HIDE DEF s
  <2> QED
    BY <1>4, <2>2, <2>4 DEF s, Bit
<1>5. CASE ~has
  <2>1. s = stack
    BY <1>5 DEF Behind
  <2>2. Len(stack) \in Nat /\ (stack = << >> <=> Len(stack) = 0)
    BY <1>1
  <2> QED
    BY <1>5, <2>1, <2>2 DEF Bit
<1> QED
  BY <1>4, <1>5

\* So many positions, behind lo.
Block(lo, many) == lo + 1 .. lo + many

Is(out, k, e, stack) == out[k].event = e /\ out[k].in = stack
Span(out, lo, many, e, stack) == \A k \in Block(lo, many) : Is(out, k, e, stack)
Named(out, lo, names) == \A j \in DOMAIN names : out[lo + j].of = names[j]

\* What stands somewhere spans as many events, of those names.
LEMMA StandSpans ==
    ASSUME NEW out, NEW p \in Nat, NEW e, NEW names, IsSequence(names), NEW stack,
           NEW many \in Nat, Len(names) = many, Stand(out, p, e, names, stack)
    PROVE  Span(out, p, many, e, stack) /\ Named(out, p, names)
<1>1. ASSUME NEW j \in 1 .. many
      PROVE  /\ out[p + j].event = e /\ out[p + j].in = stack
             /\ out[p + j].of = names[j]
  <2>1. j \in 1 .. Len(names)
    OBVIOUS
  <2>2. PICK o : o = out[p + j]
    OBVIOUS
  <2>3. o = Happened(e, names[j], stack)
    BY <2>1, <2>2 DEF Stand
  <2>4. o.event = e /\ o.in = stack /\ o.of = names[j]
    BY <2>3 DEF Happened
  <2> QED
    BY <2>2, <2>4
<1>2. ASSUME NEW k \in p + 1 .. p + many
      PROVE  out[k].event = e /\ out[k].in = stack
  <2>1. k - p \in 1 .. many /\ p + (k - p) = k
    OBVIOUS
  <2>2. out[p + (k - p)].event = e /\ out[p + (k - p)].in = stack
    BY <1>1, <2>1
  <2> QED
    BY <2>1, <2>2
<1>3. DOMAIN names = 1 .. many
  BY DEF IsSequence
<1>4. Span(out, p, many, e, stack)
  BY <1>2 DEF Span, Block, Is
<1>5. Named(out, p, names)
  BY <1>1, <1>3 DEF Named
<1> QED
  BY <1>4, <1>5

\* A multipart that is opened or closed.
IsPart(out, k, e, stack, type) == Is(out, k, e, stack) /\ out[k].of = type
SpanOf(out, lo, many, e, stack, type) ==
    \A k \in Block(lo, many) : IsPart(out, k, e, stack, type)

\* A multipart, where there is one, spans one event.
LEMMA OnlySpans ==
    ASSUME NEW out, NEW p \in Nat, NEW e, NEW type, NEW stack, NEW has \in BOOLEAN,
           Stand(out, p, e, Only(has, type), stack)
    PROVE  SpanOf(out, p, Bit(has), e, stack, type)
<1>1. CASE has
  <2>1. Only(has, type) = <<type>> /\ Bit(has) = 1
    BY <1>1 DEF Only, Bit
  <2>2. Stand(out, p, e, <<type>>, stack)
    BY <2>1
  <2>3. out[p + 1] = Happened(e, type, stack)
    <3>1. PICK names : names = <<type>>
      OBVIOUS
    <3>2. 1 \in 1 .. Len(names) /\ names[1] = type
      BY <3>1
    <3> QED
      BY <2>2, <3>1, <3>2 DEF Stand
  <2>4. PICK h : h = Happened(e, type, stack)
    OBVIOUS
  <2>5. h.event = e /\ h.in = stack /\ h.of = type
    BY <2>4 DEF Happened
  <2>6. ASSUME NEW k \in Block(p, 1) PROVE IsPart(out, k, e, stack, type)
    <3>1. k = p + 1
      BY DEF Block
    <3>2. out[k] = h
      BY <2>3, <2>4, <3>1
    <3> QED
      BY <2>5, <3>2 DEF IsPart, Is
  <2> QED
    BY <2>1, <2>6 DEF SpanOf
<1>2. CASE ~has
  <2>1. Bit(has) = 0
    BY <1>2 DEF Bit
  <2>2. Block(p, 0) = {}
    BY DEF Block
  <2> QED
    BY <2>1, <2>2 DEF SpanOf
<1> QED
  BY <1>1, <1>2

\* What a stack contains with one more multipart, or without.
LEMMA InsideBehind ==
    ASSUME NEW stack, IsSequence(stack), NEW type, NEW has \in BOOLEAN, NEW x
    PROVE  Inside(Behind(has, stack, type), x) <=> Inside(stack, x) \/ (has /\ x = type)
<1>1. PICK S : stack \in Seq(S)
  BY DEF IsSequence
<1>2. PICK V : V = S \cup {type}
  OBVIOUS
<1>3. stack \in Seq(V) /\ type \in V
  BY <1>1, <1>2
<1>4. CASE has
  <2> DEFINE s == Append(stack, type)
             n == Len(stack)
  <2>1. Behind(has, stack, type) = s
    BY <1>4 DEF Behind
  <2>2. /\ n \in Nat /\ DOMAIN stack = 1 .. n
        /\ s \in Seq(V) /\ Len(s) = n + 1 /\ s[n + 1] = type
        /\ \A k \in 1 .. n : s[k] = stack[k]
    BY <1>3, AppendProperties
  <2>3. DOMAIN s = 1 .. n + 1
    BY <2>2
  <2> HIDE DEF s, n
  <2>4. ASSUME NEW d \in DOMAIN s, s[d] = x
        PROVE  Inside(stack, x) \/ x = type
    <3>1. d = n + 1 \/ d \in 1 .. n
      BY <2>2, <2>3, <2>4
    <3> QED
      BY <2>2, <2>4, <3>1 DEF Inside
  <2>5. ASSUME NEW d \in DOMAIN stack, stack[d] = x
        PROVE  Inside(s, x)
    <3>1. d \in DOMAIN s /\ s[d] = x
      BY <2>2, <2>3, <2>5
    <3> QED
      BY <3>1 DEF Inside
  <2>6. ASSUME x = type PROVE Inside(s, x)
    <3>1. n + 1 \in DOMAIN s
      BY <2>2, <2>3
    <3> QED
      BY <2>2, <2>6, <3>1 DEF Inside
  <2>7. Inside(s, x) <=> Inside(stack, x) \/ x = type
    BY <2>4, <2>5, <2>6 DEF Inside
  <2> QED
    BY <1>4, <2>1, <2>7
<1>5. CASE ~has
  BY <1>5 DEF Behind
<1> QED
  BY <1>4, <1>5

\* Which of the events of a kind are of a type, and which are within it.
MarksAt(out, N, e, type, lo, bit) ==
    \A k \in 1 .. N : out[k].event = e /\ out[k].of = type <=> k \in Block(lo, bit)
HoldsIn(out, N, type, lo, hi) ==
    \A k \in 1 .. N : Inside(out[k].in, type) <=> lo + 1 < k /\ k =< hi + 1

\* When a multipart is opened and closed around what is inside.
LEMMA NestedIf ==
    ASSUME NEW out, NEW N \in Nat, DOMAIN out = 1 .. N, NEW type,
           NEW lo \in Nat, NEW hi \in Nat, NEW bit \in {0, 1},
           bit = 1 => lo < N /\ hi < N,
           MarksAt(out, N, "open", type, lo, bit), MarksAt(out, N, "close", type, hi, bit),
           bit = 1 => HoldsIn(out, N, type, lo, hi)
    PROVE  Nested(out, type)
<1> DEFINE Opens  == {k \in Are(out, "open") : out[k].of = type}
           Closes == {k \in Are(out, "close") : out[k].of = type}
<1>1. CASE bit = 0
  <2>1. Block(lo, bit) = {} /\ Block(hi, bit) = {}
    BY <1>1 DEF Block
  <2>2. Opens = {} /\ Closes = {}
    BY <2>1 DEF Are, MarksAt
  <2> HIDE DEF Opens, Closes
  <2>3. Opens \cup Closes = {}
    BY <2>2
  <2> QED
    BY <2>3 DEF Nested, Opens, Closes
<1>2. CASE bit = 1
  <2>1. PICK first, last : first = lo + 1 /\ last = hi + 1
    OBVIOUS
  <2>2. Block(lo, bit) = {first} /\ Block(hi, bit) = {last}
    BY <1>2, <2>1 DEF Block
  <2>3. first \in 1 .. N /\ last \in 1 .. N
    BY <1>2, <2>1
  <2>4. Opens = {first} /\ Closes = {last}
    BY <2>2, <2>3 DEF Are, MarksAt
  <2>5. \A k \in DOMAIN out : Inside(out[k].in, type) <=> k \in first + 1 .. last
    BY <1>2, <2>1 DEF HoldsIn
  <2> HIDE DEF Opens, Closes
  <2> QED
    BY <2>3, <2>4, <2>5 DEF Nested, Opens, Closes
<1> QED
  BY <1>1, <1>2

\* The length of a sequence with a known domain.
LEMMA LengthIs ==
    ASSUME NEW s, IsSequence(s), NEW N \in Nat, DOMAIN s = 1 .. N
    PROVE  Len(s) = N
<1>1. PICK n \in Nat : n = Len(s) /\ DOMAIN s = 1 .. n
  BY SMTT(30) DEF IsSequence
<1>2. 1 .. n = 1 .. N
  BY <1>1
<1>3. N > n => N \in 1 .. N /\ N \notin 1 .. n
  OBVIOUS
<1>4. n > N => n \in 1 .. n /\ n \notin 1 .. N
  OBVIOUS
<1> QED
  BY <1>1, <1>2, <1>3, <1>4

\* A message that is laid out so is one entity.
LEMMA LayoutIsEntity ==
    ASSUME NEW m, IsSequence(m.parts), IsSequence(m.embedded), IsSequence(m.attachments),
           NEW out, IsSequence(out), out # << >>, Layout(out, m)
    PROVE  OneEntity(out, m)
<1> DEFINE mixed       == hasMixedPart(m)
           related     == hasRelatedPart(m)
           alternative == hasAlternativePart(m)
           a == Bit(mixed)
           b == Bit(related)
           c == Bit(alternative)
           in1 == Behind(mixed, << >>, "mixed")
           in2 == Behind(related, in1, "related")
           in3 == Behind(alternative, in2, "alternative")
           P == Len(m.parts)
           E == Len(m.embedded)
           A == Len(m.attachments)
           p == a + b + c
           q == p + P
           r == q + c + E
           n == r + b + A
           N == n + a
           ab == a + b
           qc == q + c
           rb == r + b
<1>1. /\ DOMAIN out = 1 .. N
      /\ Stand(out, 0, "open", Only(mixed, "mixed"), << >>)
      /\ Stand(out, a, "open", Only(related, "related"), in1)
      /\ Stand(out, ab, "open", Only(alternative, "alternative"), in2)
      /\ Stand(out, p, "body", Bodies(m.parts, m.charset), in3)
      /\ Stand(out, q, "close", Only(alternative, "alternative"), in3)
      /\ Stand(out, qc, "inline", Filenames(m.embedded), in2)
      /\ Stand(out, r, "close", Only(related, "related"), in2)
      /\ Stand(out, rb, "attachment", Filenames(m.attachments), in1)
      /\ Stand(out, n, "close", Only(mixed, "mixed"), in1)
  BY DEF Layout
<1>2. mixed \in BOOLEAN /\ related \in BOOLEAN /\ alternative \in BOOLEAN
  BY DEF hasMixedPart, hasRelatedPart, hasAlternativePart
<1>3. /\ P \in Nat /\ E \in Nat /\ A \in Nat
      /\ m.parts = << >> <=> P = 0
      /\ m.embedded = << >> <=> E = 0
      /\ m.attachments = << >> <=> A = 0
  BY DEF IsSequence
<1>4. /\ mixed <=> (P # 0 /\ A # 0) \/ A > 1
      /\ related <=> (P # 0 /\ E # 0) \/ E > 1
      /\ alternative <=> P > 1
  BY <1>3 DEF hasMixedPart, hasRelatedPart, hasAlternativePart
<1>5. /\ IsSequence(Bodies(m.parts, m.charset)) /\ Len(Bodies(m.parts, m.charset)) = P
      /\ IsSequence(Filenames(m.embedded)) /\ Len(Filenames(m.embedded)) = E
      /\ IsSequence(Filenames(m.attachments)) /\ Len(Filenames(m.attachments)) = A
  BY NamesLength
<1> HIDE DEF mixed, related, alternative
<1>6. /\ a \in {0, 1} /\ (mixed <=> a = 1)
      /\ b \in {0, 1} /\ (related <=> b = 1)
      /\ c \in {0, 1} /\ (alternative <=> c = 1)
  BY <1>2 DEF Bit
<1>7. /\ \A x : IsSequence(Only(mixed, x)) /\ Len(Only(mixed, x)) = a
      /\ \A x : IsSequence(Only(related, x)) /\ Len(Only(related, x)) = b
      /\ \A x : IsSequence(Only(alternative, x)) /\ Len(Only(alternative, x)) = c
  BY <1>2, OnlyLength
<1> HIDE DEF a, b, c
<1>8. /\ in1 = << >> <=> a = 0
      /\ in2 = << >> <=> a + b = 0
      /\ in3 = << >> <=> a + b + c = 0
      /\ b = 1 => DirectlyIn(in2, "related")
      /\ c = 1 => DirectlyIn(in3, "alternative")
      /\ IsSequence(in1) /\ IsSequence(in2)
      /\ a = 1 => in1 = <<"mixed">>
  <2>1. PICK s : s = << >> /\ IsSequence(s) /\ Len(s) = 0
    BY EmptyIs
  <2>2. /\ IsSequence(Behind(mixed, s, "mixed"))
        /\ Len(Behind(mixed, s, "mixed")) = Len(s) + a
        /\ Behind(mixed, s, "mixed") = << >> <=> Len(Behind(mixed, s, "mixed")) = 0
    BY <1>2, <2>1, Stacks DEF a
  <2>3. a = 1 => in1 = <<"mixed">>
    BY <1>6 DEF Behind
  <2>4. Behind(mixed, s, "mixed") = in1
    BY <2>1
  <2> HIDE DEF in1
  <2>5. IsSequence(in1) /\ Len(in1) = a /\ (in1 = << >> <=> Len(in1) = 0)
    BY <1>6, <2>1, <2>2, <2>4
  <2>6. /\ IsSequence(in2) /\ Len(in2) = Len(in1) + b /\ (in2 = << >> <=> Len(in2) = 0)
        /\ related => in2 # << >> /\ in2[Len(in2)] = "related"
    BY <1>2, <2>5, Stacks DEF b
  <2> HIDE DEF in2
  <2>7. /\ Len(in3) = Len(in2) + c /\ (in3 = << >> <=> Len(in3) = 0)
        /\ alternative => in3 # << >> /\ in3[Len(in3)] = "alternative"
    BY <1>2, <2>6, Stacks DEF c
  <2> HIDE DEF in3
  <2>8. /\ b = 1 => DirectlyIn(in2, "related")
        /\ c = 1 => DirectlyIn(in3, "alternative")
    BY <1>6, <2>6, <2>7 DEF DirectlyIn
  <2> QED
    BY <1>6, <2>3, <2>5, <2>6, <2>7, <2>8
\* Which multiparts each of the stacks holds.
<1>30. /\ \A x : ~ Inside(<< >>, x)
       /\ \A x : Inside(in1, x) <=> a = 1 /\ x = "mixed"
       /\ \A x : Inside(in2, x) <=> Inside(in1, x) \/ (b = 1 /\ x = "related")
       /\ \A x : Inside(in3, x) <=> Inside(in2, x) \/ (c = 1 /\ x = "alternative")
  <2>1. PICK s : s = << >> /\ IsSequence(s) /\ DOMAIN s = {}
    BY EmptyIs
  <2>2. \A x : ~ Inside(s, x)
    BY <2>1 DEF Inside
  <2>3. \A x : Inside(Behind(mixed, s, "mixed"), x) <=> Inside(s, x) \/ (mixed /\ x = "mixed")
    BY <1>2, <2>1, InsideBehind
  <2>4. Behind(mixed, s, "mixed") = in1
    BY <2>1
  <2> HIDE DEF in1
  <2>5. \A x : Inside(in2, x) <=> Inside(in1, x) \/ (related /\ x = "related")
    BY <1>2, <1>8, InsideBehind
  <2> HIDE DEF in2
  <2>6. \A x : Inside(in3, x) <=> Inside(in2, x) \/ (alternative /\ x = "alternative")
    BY <1>2, <1>8, InsideBehind
  <2> HIDE DEF in3
  <2> QED
    BY <1>6, <2>1, <2>2, <2>3, <2>4, <2>5, <2>6
<1> HIDE DEF in1, in2, in3, P, E, A
<1>0. /\ a \in Nat /\ b \in Nat /\ c \in Nat /\ a =< 1 /\ b =< 1 /\ c =< 1
      /\ p \in Nat /\ q \in Nat /\ r \in Nat /\ n \in Nat
      /\ p = a + b + c /\ q = p + P /\ r = q + c + E /\ n = r + b + A
      /\ N \in Nat /\ ab \in Nat /\ qc \in Nat /\ rb \in Nat
      /\ N = n + a /\ ab = a + b /\ qc = q + c /\ rb = r + b
  <2>1. a \in Nat /\ b \in Nat /\ c \in Nat /\ a =< 1 /\ b =< 1 /\ c =< 1
    BY <1>6
  <2>2. p \in Nat /\ p = a + b + c /\ ab \in Nat /\ ab = a + b
    BY <2>1
  <2> HIDE DEF p, ab
  <2>3. q \in Nat /\ q = p + P
    BY <1>3, <2>2
  <2> HIDE DEF q
  <2>4. qc \in Nat /\ qc = q + c
    BY <2>1, <2>3
  <2>5. r \in Nat /\ r = q + c + E
    BY <1>3, <2>1, <2>3
  <2> HIDE DEF r, qc
  <2>6. rb \in Nat /\ rb = r + b
    BY <2>1, <2>5
  <2>7. n \in Nat /\ n = r + b + A
    BY <1>3, <2>1, <2>5
  <2> HIDE DEF n, rb
  <2>8. N \in Nat /\ N = n + a
    BY <2>1, <2>7
  <2> HIDE DEF N
  <2> QED
    BY <2>1, <2>2, <2>3, <2>4, <2>5, <2>6, <2>7, <2>8
<1> HIDE DEF p, q, r, n, N, ab, qc, rb
<1>9. SpanOf(out, 0, a, "open", << >>, "mixed")
  <2>1. 0 \in Nat
    BY <1>0, SMTT(30)
  <2> QED
    BY <1>1, <1>2, <2>1, OnlySpans DEF a
<1>10. SpanOf(out, a, b, "open", in1, "related")
  <2>1. a \in Nat
    BY <1>0, SMTT(30)
  <2> QED
    BY <1>1, <1>2, <2>1, OnlySpans DEF b
<1>11. SpanOf(out, ab, c, "open", in2, "alternative")
  <2>1. ab \in Nat
    BY <1>0, SMTT(30)
  <2> QED
    BY <1>1, <1>2, <2>1, OnlySpans DEF c
<1>12. Span(out, p, P, "body", in3) /\ Named(out, p, Bodies(m.parts, m.charset))
  <2>1. p \in Nat
    BY <1>0, SMTT(30)
  <2> QED
    BY <1>1, <1>3, <1>5, <2>1, StandSpans
<1>13. SpanOf(out, q, c, "close", in3, "alternative")
  <2>1. q \in Nat
    BY <1>0, SMTT(30)
  <2> QED
    BY <1>1, <1>2, <2>1, OnlySpans DEF c
<1>14. Span(out, qc, E, "inline", in2) /\ Named(out, qc, Filenames(m.embedded))
  <2>1. qc \in Nat
    BY <1>0, SMTT(30)
  <2> QED
    BY <1>1, <1>3, <1>5, <2>1, StandSpans
<1>15. SpanOf(out, r, b, "close", in2, "related")
  <2>1. r \in Nat
    BY <1>0, SMTT(30)
  <2> QED
    BY <1>1, <1>2, <2>1, OnlySpans DEF b
<1>16. Span(out, rb, A, "attachment", in1) /\ Named(out, rb, Filenames(m.attachments))
  <2>1. rb \in Nat
    BY <1>0, SMTT(30)
  <2> QED
    BY <1>1, <1>3, <1>5, <2>1, StandSpans
<1>17. SpanOf(out, n, a, "close", in1, "mixed")
  <2>1. n \in Nat
    BY <1>0, SMTT(30)
  <2> QED
    BY <1>1, <1>2, <2>1, OnlySpans DEF a
\* What each position holds.
<1>18. ASSUME NEW k \in 1 .. N
       PROVE  \/ k \in Block(0, a) /\ IsPart(out, k, "open", << >>, "mixed")
              \/ k \in Block(a, b) /\ IsPart(out, k, "open", in1, "related")
              \/ k \in Block(ab, c) /\ IsPart(out, k, "open", in2, "alternative")
              \/ k \in Block(p, P) /\ Is(out, k, "body", in3)
              \/ k \in Block(q, c) /\ IsPart(out, k, "close", in3, "alternative")
              \/ k \in Block(qc, E) /\ Is(out, k, "inline", in2)
              \/ k \in Block(r, b) /\ IsPart(out, k, "close", in2, "related")
              \/ k \in Block(rb, A) /\ Is(out, k, "attachment", in1)
              \/ k \in Block(n, a) /\ IsPart(out, k, "close", in1, "mixed")
  <2>1. k \in Nat /\ 1 =< k /\ k =< N
    BY <1>0, SMTT(30)
  <2>2. \/ k \in Block(0, a) \/ k \in Block(a, b) \/ k \in Block(ab, c)
        \/ k \in Block(p, P) \/ k \in Block(q, c) \/ k \in Block(qc, E)
        \/ k \in Block(r, b) \/ k \in Block(rb, A) \/ k \in Block(n, a)
    <3>1. k \in Block(0, a) <=> 0 < k /\ k =< 0 + a
      BY <1>0, <1>3, <2>1, SMTT(30) DEF Block
    <3>2. k \in Block(a, b) <=> a < k /\ k =< a + b
      BY <1>0, <1>3, <2>1, SMTT(30) DEF Block
    <3>3. k \in Block(ab, c) <=> ab < k /\ k =< ab + c
      BY <1>0, <1>3, <2>1, SMTT(30) DEF Block
    <3>4. k \in Block(p, P) <=> p < k /\ k =< p + P
      BY <1>0, <1>3, <2>1, SMTT(30) DEF Block
    <3>5. k \in Block(q, c) <=> q < k /\ k =< q + c
      BY <1>0, <1>3, <2>1, SMTT(30) DEF Block
    <3>6. k \in Block(qc, E) <=> qc < k /\ k =< qc + E
      BY <1>0, <1>3, <2>1, SMTT(30) DEF Block
    <3>7. k \in Block(r, b) <=> r < k /\ k =< r + b
      BY <1>0, <1>3, <2>1, SMTT(30) DEF Block
    <3>8. k \in Block(rb, A) <=> rb < k /\ k =< rb + A
      BY <1>0, <1>3, <2>1, SMTT(30) DEF Block
    <3>9. k \in Block(n, a) <=> n < k /\ k =< N
      BY <1>0, <1>3, <2>1, SMTT(30) DEF Block
    <3> QED
      BY <1>0, <1>3, <2>1, <3>1, <3>2, <3>3, <3>4, <3>5, <3>6, <3>7, <3>8, <3>9, SMTT(30)
  <2> QED
    BY <2>2, <1>9, <1>10, <1>11, <1>12, <1>13, <1>14, <1>15, <1>16, <1>17 DEF Span, SpanOf
<1>19. \A k \in 1 .. N : out[k].event = "body" <=> k \in Block(p, P)
  BY <1>0, <1>3, <1>18, SMTT(30) DEF Block, Is, IsPart
<1>20. \A k \in 1 .. N : out[k].event = "inline" <=> k \in Block(qc, E)
  BY <1>0, <1>3, <1>18, SMTT(30) DEF Block, Is, IsPart
<1>21. \A k \in 1 .. N : out[k].event = "attachment" <=> k \in Block(rb, A)
  BY <1>0, <1>3, <1>18, SMTT(30) DEF Block, Is, IsPart
<1>24. /\ Are(out, "body") = Block(p, P)
       /\ Are(out, "inline") = Block(qc, E)
       /\ Are(out, "attachment") = Block(rb, A)
  <2>1. /\ Block(p, P) \subseteq 1 .. N
        /\ Block(qc, E) \subseteq 1 .. N
        /\ Block(rb, A) \subseteq 1 .. N
    <3>1. /\ p + P =< N /\ qc + E =< N /\ rb + A =< N
      BY <1>0, <1>3, SMTT(30)
    <3>2. Block(p, P) \subseteq 1 .. N
      BY <1>0, <1>3, <3>1, SMTT(30) DEF Block
    <3>3. Block(qc, E) \subseteq 1 .. N
      BY <1>0, <1>3, <3>1, SMTT(30) DEF Block
    <3>4. Block(rb, A) \subseteq 1 .. N
      BY <1>0, <1>3, <3>1, SMTT(30) DEF Block
    <3> QED
      BY <3>2, <3>3, <3>4
  <2>2. Are(out, "body") = Block(p, P)
    BY <1>1, <1>19, <2>1 DEF Are
  <2>3. Are(out, "inline") = Block(qc, E)
    BY <1>1, <1>20, <2>1 DEF Are
  <2>4. Are(out, "attachment") = Block(rb, A)
    BY <1>1, <1>21, <2>1 DEF Are
  <2> QED
    BY <2>2, <2>3, <2>4
<1>25. \A k \in Are(out, "open") \cup Are(out, "close") :
         out[k].of \in {"mixed", "related", "alternative"}
  <2> SUFFICES ASSUME NEW k \in 1 .. N, out[k].event \in {"open", "close"}
               PROVE  out[k].of \in {"mixed", "related", "alternative"}
    BY <1>1 DEF Are
  <2> QED
    BY <1>18 DEF Is, IsPart
<1>31. Nested(out, "mixed")
  <2>1. /\ N \in Nat /\ n \in Nat /\ a \in {0, 1}
        /\ a = 1 => 0 < N /\ n < N
    <3>1. N \in Nat /\ n \in Nat /\ a \in {0, 1}
      BY <1>0, <1>6, SMTT(30)
    <3>2. CASE a = 1
      <4>1. N = n + 1
        BY <1>0, <3>2, SMTT(30)
      <4> QED
        BY <3>1, <4>1
    <3> QED
      BY <3>1, <3>2
  <2>2. MarksAt(out, N, "open", "mixed", 0, a)
    BY <1>0, <1>3, <1>18, SMTT(30) DEF Block, Is, IsPart, MarksAt
  <2>3. MarksAt(out, N, "close", "mixed", n, a)
    BY <1>0, <1>3, <1>18, SMTT(30) DEF Block, Is, IsPart, MarksAt
  <2>4. a = 1 => HoldsIn(out, N, "mixed", 0, n)
    BY <1>0, <1>3, <1>18, <1>30, SMTT(30) DEF Block, Is, IsPart, HoldsIn
  <2> QED
    BY <1>1, <2>1, <2>2, <2>3, <2>4, NestedIf
<1>32. Nested(out, "related")
  <2>1. /\ N \in Nat /\ a \in Nat /\ r \in Nat /\ b \in {0, 1}
        /\ b = 1 => a < N /\ r < N
    <3>1. b \in {0, 1}
      BY <1>6
    <3> HIDE DEF a, b, c
    <3>2. /\ p = a + b + c /\ a \in Nat /\ b \in Nat /\ c \in Nat
      BY <1>0
    <3>3. /\ p \in Nat /\ p =< r /\ r + b =< n
      BY <1>0, <1>3
    <3>4. n =< N /\ r \in Nat /\ n \in Nat /\ N \in Nat
      BY <1>0, <1>3
    <3> QED
      BY <3>1, <3>2, <3>3, <3>4
  <2>2. MarksAt(out, N, "open", "related", a, b)
    BY <1>0, <1>3, <1>18, SMTT(30) DEF Block, Is, IsPart, MarksAt
  <2>3. MarksAt(out, N, "close", "related", r, b)
    BY <1>0, <1>3, <1>18, SMTT(30) DEF Block, Is, IsPart, MarksAt
  <2>4. b = 1 => HoldsIn(out, N, "related", a, r)
    BY <1>0, <1>3, <1>18, <1>30, SMTT(30) DEF Block, Is, IsPart, HoldsIn
  <2> QED
    BY <1>1, <2>1, <2>2, <2>3, <2>4, NestedIf
<1>33. Nested(out, "alternative")
  <2>1. /\ N \in Nat /\ ab \in Nat /\ q \in Nat /\ c \in {0, 1}
        /\ c = 1 => ab < N /\ q < N
    <3>1. c \in {0, 1}
      BY <1>6
    <3> HIDE DEF a, b, c
    <3>2. /\ p = ab + c /\ ab \in Nat /\ c \in Nat
      BY <1>0
    <3>3. /\ q \in Nat /\ p =< q /\ q + c =< r
      BY <1>0, <1>3
    <3>4. r =< n /\ n =< N /\ r \in Nat /\ n \in Nat /\ N \in Nat
      BY <1>0, <1>3
    <3> QED
      BY <3>1, <3>2, <3>3, <3>4
  <2>2. MarksAt(out, N, "open", "alternative", ab, c)
    BY <1>0, <1>3, <1>18, SMTT(30) DEF Block, Is, IsPart, MarksAt
  <2>3. MarksAt(out, N, "close", "alternative", q, c)
    BY <1>0, <1>3, <1>18, SMTT(30) DEF Block, Is, IsPart, MarksAt
  <2>4. c = 1 => HoldsIn(out, N, "alternative", ab, q)
    BY <1>0, <1>3, <1>18, <1>30, SMTT(30) DEF Block, Is, IsPart, HoldsIn
  <2> QED
    BY <1>1, <2>1, <2>2, <2>3, <2>4, NestedIf
\* At the top is the outermost multipart, or the only leaf.
<1>27. (\E j \in DOMAIN out : {k \in DOMAIN out : out[k].event # "close" /\ out[k].in = << >>} = {j})
         \/ (m.parts = << >> /\ A = 1 /\ m.embedded # << >>)
  <2> SUFFICES ASSUME ~ (P = 0 /\ A = 1 /\ E # 0)
               PROVE  \E j \in DOMAIN out : {k \in DOMAIN out : out[k].event # "close" /\ out[k].in = << >>} = {j}
    BY <1>3
  <2>1. N # 0
    <3>1. SUFFICES ASSUME DOMAIN out = {} PROVE FALSE
      BY <1>0, <1>1, SMTT(30)
    <3>2. Len(out) = 0
      BY <3>1 DEF IsSequence
    <3> QED
      BY <3>2 DEF IsSequence
  <2>2. 1 \in 1 .. N
    BY <1>0, <2>1, SMTT(30)
  <2>3. ASSUME NEW k \in 1 .. N
        PROVE  out[k].event # "close" /\ out[k].in = << >> <=> k = 1
    BY <1>0, <1>3, <1>4, <1>6, <1>8, <1>18, <2>2, SMTT(30) DEF Block, Is, IsPart
  <2>4. {k \in DOMAIN out : out[k].event # "close" /\ out[k].in = << >>} = {1}
    BY <1>1, <2>2, <2>3
  <2> QED
    BY <1>1, <2>2, <2>4
<1>28. /\ AllOf(out, "body", Bodies(m.parts, m.charset))
       /\ AllOf(out, "inline", Filenames(m.embedded))
       /\ AllOf(out, "attachment", Filenames(m.attachments))
  <2>1. Len(out) = N
    BY <1>0, <1>1, LengthIs, SMTT(30)
  <2>2. /\ p \in 0 .. Len(out) /\ qc \in 0 .. Len(out) /\ rb \in 0 .. Len(out)
    BY <1>0, <1>3, <2>1, SMTT(30)
  <2>3. AllOf(out, "body", Bodies(m.parts, m.charset))
    BY <1>5, <1>12, <1>24, <2>2 DEF AllOf, Block, Named
  <2>4. AllOf(out, "inline", Filenames(m.embedded))
    BY <1>5, <1>14, <1>24, <2>2 DEF AllOf, Block, Named
  <2>5. AllOf(out, "attachment", Filenames(m.attachments))
    BY <1>5, <1>16, <1>24, <2>2 DEF AllOf, Block, Named
  <2> QED
    BY <2>3, <2>4, <2>5
<1>29. m.parts # << >> =>
         /\ \A k \in Are(out, "attachment") : out[k].in = <<"mixed">>
         /\ \A k \in Are(out, "inline") : DirectlyIn(out[k].in, "related")
         /\ P > 1 => \A k \in Are(out, "body") : DirectlyIn(out[k].in, "alternative")
  <2> SUFFICES ASSUME P # 0
               PROVE  /\ \A k \in Are(out, "attachment") : out[k].in = <<"mixed">>
                      /\ \A k \in Are(out, "inline") : DirectlyIn(out[k].in, "related")
                      /\ P > 1 => \A k \in Are(out, "body") : DirectlyIn(out[k].in, "alternative")
    BY <1>3
  <2>1. ASSUME NEW k \in Are(out, "attachment") PROVE out[k].in = <<"mixed">>
    <3>1. out[k].in = in1 /\ k \in Block(rb, A)
      BY <1>16, <1>24 DEF Span, Is
    <3>2. A # 0
      BY <1>0, <1>3, <3>1, SMTT(30) DEF Block
    <3> QED
      BY <1>3, <1>4, <1>6, <1>8, <3>1, <3>2
  <2>2. ASSUME NEW k \in Are(out, "inline") PROVE DirectlyIn(out[k].in, "related")
    <3>1. out[k].in = in2 /\ k \in Block(qc, E)
      BY <1>14, <1>24 DEF Span, Is
    <3>2. E # 0
      BY <1>0, <1>3, <3>1, SMTT(30) DEF Block
    <3> QED
      BY <1>3, <1>4, <1>6, <1>8, <3>1, <3>2
  <2>3. ASSUME P > 1, NEW k \in Are(out, "body") PROVE DirectlyIn(out[k].in, "alternative")
    <3>1. out[k].in = in3
      BY <1>12, <1>24 DEF Span, Is
    <3> QED
      BY <1>4, <1>6, <1>8, <2>3, <3>1
  <2> QED
    BY <2>1, <2>2, <2>3
<1> QED
  BY <1>25, <1>27, <1>28, <1>29, <1>31, <1>32, <1>33 DEF OneEntity, P, A

\* The fields that a message has.
Fields(m) == m = [ok |-> m.ok, from |-> m.from, to |-> m.to, header |-> m.header,
                  parts |-> m.parts, attachments |-> m.attachments,
                  embedded |-> m.embedded, charset |-> m.charset, encoding |-> m.encoding]

\* What it has is in order.
Sequences(m) == IsSequence(m.parts) /\ IsSequence(m.attachments) /\ IsSequence(m.embedded)
Sound(m) == Fields(m) /\ Sequences(m)

\* A message that was worked on and is in the charset and the encoding that it
\* was in.
Kept(n, m) == Sound(n) /\ n.charset = m.charset /\ n.encoding = m.encoding

\* A field of the header that is set keeps them.
LEMMA PutHeaderKeeps ==
    ASSUME NEW m, Sound(m), NEW f, NEW v
    PROVE  Kept(putHeader(m, f, v), m) /\ Kept(setHeader(m, f, v), m)
<1>1. \A x : Kept(putHeader(m, f, x), m)
  BY DEF Kept, Sound, Fields, Sequences, putHeader
<1> QED
  BY <1>1 DEF setHeader

\* So does a field with an address, whether that parses or not.
LEMMA SetAddressHeaderKeeps ==
    ASSUME NEW m, Sound(m), NEW f, NEW x
    PROVE  Kept(setAddressHeader(m, f, x), m)
<1> DEFINE p == parseSingleAddress(x)
<1>1. setAddressHeader(m, f, x) =
        IF m.ok THEN IF p.ok THEN putHeader(m, f, formatAddress(m, p.val)) ELSE [m EXCEPT !.ok = FALSE]
        ELSE m
  BY DEF setAddressHeader, IfOk
<1> HIDE DEF p
<1>2. Kept(m, m)
  BY DEF Kept
<1>3. \A ok : Kept([m EXCEPT !.ok = ok], m)
  BY DEF Kept, Sound, Fields, Sequences
<1> QED
  BY <1>1, <1>2, <1>3, PutHeaderKeeps

\* The loop over the addresses, header after header.
IsHeading(set, m, headers, n) ==
    set = [k \in 0 .. n |->
             IF k = 0 THEN m
             ELSE setAddressHeader(set[k - 1], headers[k].field, headers[k].addr)]

\* What the recursive function in setAddressHeaders defines exists.
LEMMA HeadingExists ==
    ASSUME NEW m, NEW headers, NEW n \in Nat
    PROVE  \E set : IsHeading(set, m, headers, n)
<1> DEFINE X == {k \in Nat : ~ \E set : IsHeading(set, m, headers, k)}
<1>1. SUFFICES ASSUME X # {} PROVE FALSE
  OBVIOUS
<1>2. PICK k \in X : \A j \in X : k =< j
  BY <1>1, LeastNatural
<1>3. k # 0
  <2> SUFFICES ASSUME k = 0 PROVE FALSE
    OBVIOUS
  <2> DEFINE set == [j \in 0 .. 0 |-> m]
  <2>1. IsHeading(set, m, headers, 0)
    BY DEF IsHeading
  <2> QED
    BY <2>1
<1>4. PICK set : IsHeading(set, m, headers, k - 1)
  BY <1>2, <1>3
<1> DEFINE longer == [j \in 0 .. k |->
                        IF j = k THEN setAddressHeader(set[k - 1], headers[k].field, headers[k].addr)
                        ELSE set[j]]
<1>5. ASSUME NEW j \in 0 .. k
      PROVE  longer[j] = IF j = 0 THEN m
                         ELSE setAddressHeader(longer[j - 1], headers[j].field, headers[j].addr)
  <2>1. CASE j = 0
    BY <1>3, <1>4, <2>1 DEF IsHeading
  <2>2. CASE j # 0
    <3>1. longer[j - 1] = set[j - 1]
      BY <2>2
    <3>2. j # k => set[j] = setAddressHeader(set[j - 1], headers[j].field, headers[j].addr)
      BY <1>4, <2>2 DEF IsHeading
    <3> QED
      BY <2>2, <3>1, <3>2
  <2> QED
    BY <2>1, <2>2
<1>6. IsHeading(longer, m, headers, k)
  BY <1>5 DEF IsHeading
<1> QED
  BY <1>2, <1>6

\* Any number of addresses keep them.
LEMMA SetAddressHeadersKeep ==
    ASSUME NEW m, Sound(m), NEW headers, IsSequence(headers)
    PROVE  Kept(setAddressHeaders(m, headers), m)
<1> DEFINE n == Len(headers)
           f == CHOOSE set : IsHeading(set, m, headers, n)
           X == {k \in 0 .. n : ~Kept(f[k], m)}
<1>1. n \in Nat
  BY DEF IsSequence
<1>2. setAddressHeaders(m, headers) = f[n]
  BY DEF setAddressHeaders, IsHeading
<1>3. IsHeading(f, m, headers, n)
  BY <1>1, HeadingExists
<1> HIDE DEF n, f
<1>4. SUFFICES ASSUME X # {} PROVE FALSE
  BY <1>1, <1>2
<1>5. PICK k \in X : \A j \in X : k =< j
  <2>1. X \in SUBSET Nat
    BY <1>1
  <2> QED
    BY <1>4, <2>1, LeastNatural
<1>6. k # 0
  <2>1. f[0] = m /\ Kept(m, m)
    BY <1>1, <1>3 DEF IsHeading, Kept
  <2> QED
    BY <1>5, <2>1
<1>7. Kept(f[k - 1], m)
  BY <1>1, <1>5, <1>6
<1>8. f[k] = setAddressHeader(f[k - 1], headers[k].field, headers[k].addr)
  BY <1>1, <1>3, <1>5, <1>6 DEF IsHeading
<1>9. Kept(f[k], f[k - 1])
  BY <1>7, <1>8, SetAddressHeaderKeeps DEF Kept
<1> QED
  BY <1>5, <1>7, <1>9 DEF Kept

\* So do the bodies.
LEMMA SetBodiesKeep ==
    ASSUME NEW m, Sound(m), NEW msg
    PROVE  Kept(setBodies(m, msg), m)
<1>1. ASSUME NEW n, Sound(n), NEW type
      PROVE  Kept(setBody(n, type), n) /\ Kept(addAlternative(n, type), n)
  <2>1. IsSequence(<<newPart(n, type)>>)
    BY DEF IsSequence
  <2>2. IsSequence(Append(n.parts, newPart(n, type)))
    BY <1>1, OneMore DEF Sound, Sequences
  <2>3. \A parts : IsSequence(parts) => Kept([n EXCEPT !.parts = parts], n)
    BY <1>1 DEF Kept, Sound, Fields, Sequences
  <2>4. /\ setBody(n, type) = [n EXCEPT !.parts = <<newPart(n, type)>>]
        /\ addAlternative(n, type) = [n EXCEPT !.parts = Append(n.parts, newPart(n, type))]
    BY <1>1 DEF setBody, addAlternative, Sound, Fields
  <2> QED
    BY <2>1, <2>2, <2>3, <2>4
<1> DEFINE html == IF msg.HtmlBody THEN setBody(m, "text/html") ELSE m
<1>2. Kept(html, m)
  BY <1>1 DEF Kept
<1>3. setBodies(m, msg) \in {html, addAlternative(html, "text/plain"), setBody(m, "text/plain")}
  BY DEF setBodies
<1> HIDE DEF html
<1>4. Kept(addAlternative(html, "text/plain"), html)
  BY <1>1, <1>2 DEF Kept
<1> QED
  BY <1>1, <1>2, <1>3, <1>4 DEF Kept

\* appendFile, file after file.
WithFile(s, att, inline) == IF att.Inline = inline THEN Append(s, att) ELSE s
IsAppended(files, atts, inline, n) ==
    files = [k \in 0 .. n |-> IF k = 0 THEN << >> ELSE WithFile(files[k - 1], atts[k], inline)]

\* What the recursive function in appended defines exists.
LEMMA AppendedExists ==
    ASSUME NEW atts, NEW inline, NEW n \in Nat
    PROVE  \E files : IsAppended(files, atts, inline, n)
<1> DEFINE X == {k \in Nat : ~ \E files : IsAppended(files, atts, inline, k)}
           Longer(s, k) == WithFile(s, atts[k], inline)
<1>1. SUFFICES ASSUME X # {} PROVE FALSE
  OBVIOUS
<1>2. PICK k \in X : \A j \in X : k =< j
  BY <1>1, LeastNatural
<1>3. k # 0
  <2> SUFFICES ASSUME k = 0 PROVE FALSE
    OBVIOUS
  <2> DEFINE files == [j \in 0 .. 0 |-> << >>]
  <2>1. IsAppended(files, atts, inline, 0)
    BY DEF IsAppended
  <2> QED
    BY <2>1
<1>4. PICK files : IsAppended(files, atts, inline, k - 1)
  BY <1>2, <1>3
<1> DEFINE longer == [j \in 0 .. k |-> IF j = k THEN Longer(files[k - 1], k) ELSE files[j]]
<1>5. ASSUME NEW j \in 0 .. k
      PROVE  longer[j] = IF j = 0 THEN << >> ELSE Longer(longer[j - 1], j)
  <2>1. CASE j = 0
    BY <1>3, <1>4, <2>1 DEF IsAppended
  <2>2. CASE j # 0
    <3>1. longer[j - 1] = files[j - 1]
      BY <2>2
    <3>2. j # k => files[j] = Longer(files[j - 1], j)
      BY <1>4, <2>2 DEF IsAppended
    <3> QED
      BY <2>2, <3>1, <3>2
  <2> QED
    BY <2>1, <2>2
<1>6. IsAppended(longer, atts, inline, k)
  <2> HIDE DEF longer
  <2>1. longer = [j \in 0 .. k |-> IF j = 0 THEN << >> ELSE Longer(longer[j - 1], j)]
    <3>1. longer = [j \in 0 .. k |-> longer[j]]
      BY DEF longer
    <3> QED
      BY <1>5, <3>1
  <2> QED
    BY <2>1 DEF IsAppended
<1> QED
  BY <1>2, <1>6

\* The files are a sequence.
LEMMA AppendedSeq ==
    ASSUME NEW atts, IsSequence(atts), NEW inline
    PROVE  IsSequence(appended(atts, inline))
<1> DEFINE n == Len(atts)
           f == CHOOSE files : IsAppended(files, atts, inline, n)
           X == {k \in 0 .. n : ~ IsSequence(f[k])}
<1>1. n \in Nat
  BY DEF IsSequence
<1>2. appended(atts, inline) = f[n]
  BY DEF appended, IsAppended, WithFile
<1>3. IsAppended(f, atts, inline, n)
  BY <1>1, AppendedExists
<1> HIDE DEF n, f
<1>4. SUFFICES ASSUME X # {} PROVE FALSE
  BY <1>1, <1>2
<1>5. PICK k \in X : \A j \in X : k =< j
  <2>1. X \in SUBSET Nat
    BY <1>1
  <2> QED
    BY <1>4, <2>1, LeastNatural
<1>6. f[0] = << >> /\ IsSequence(<< >>)
  BY <1>1, <1>3, EmptyIs DEF IsAppended
<1>7. k # 0
  BY <1>5, <1>6
<1>8. IsSequence(f[k - 1])
  BY <1>1, <1>5, <1>7
<1>9. f[k] = Append(f[k - 1], atts[k]) \/ f[k] = f[k - 1]
  BY <1>1, <1>3, <1>5, <1>7 DEF IsAppended, WithFile
<1>10. IsSequence(Append(f[k - 1], atts[k]))
  BY <1>8, OneMore
<1> QED
  BY <1>5, <1>8, <1>9, <1>10

\* So do the files that are added.
LEMMA AddAttachmentsKeep ==
    ASSUME NEW m, Sound(m), NEW atts, IsSequence(atts)
    PROVE  Kept(addAttachments(m, atts), m)
<1> DEFINE E == m.embedded \o appended(atts, TRUE)
           F == m.attachments \o appended(atts, FALSE)
<1>1. addAttachments(m, atts) = [m EXCEPT !.embedded = E, !.attachments = F]
  BY DEF addAttachments, Sound, Fields
<1>2. IsSequence(E) /\ IsSequence(F)
  BY AppendedSeq, SequencesInARow DEF Sound, Sequences
<1> HIDE DEF E, F
<1>3. Kept([[m EXCEPT !.embedded = E] EXCEPT !.attachments = F], m)
  <2>1. Kept([m EXCEPT !.embedded = E], m)
    BY <1>2 DEF Kept, Sound, Fields, Sequences
  <2>2. \A n : Sound(n) => Kept([n EXCEPT !.attachments = F], n)
    BY <1>2 DEF Kept, Sound, Fields, Sequences
  <2> QED
    BY <2>1, <2>2 DEF Kept
<1> QED
  BY <1>1, <1>3 DEF Sound, Fields

\* Addresses in their field are a sequence.
LEMMA AddressFieldsSeq ==
    ASSUME NEW addrs, IsSequence(addrs), NEW field
    PROVE  IsSequence(addressFields(field, addrs))
<1>1. DOMAIN addrs = 1 .. Len(addrs) /\ Len(addrs) \in Nat
  BY DEF IsSequence
<1> DEFINE s == addressFields(field, addrs)
<1>2. s = [k \in 1 .. Len(addrs) |-> [field |-> field, addr |-> addrs[k]]]
  BY <1>1 DEF addressFields
<1> HIDE DEF s
<1>3. DOMAIN s = 1 .. Len(addrs)
  BY <1>2
<1>4. s = [k \in 1 .. Len(addrs) |-> s[k]]
  BY <1>2
<1>5. s \in [1 .. Len(addrs) -> {s[k] : k \in DOMAIN s}]
  BY <1>3, <1>4
<1>6. s \in Seq({s[k] : k \in DOMAIN s})
  BY <1>1, <1>5
<1> QED
  BY <1>6 DEF IsSequence, s

\* Where prepare begins: without what it sets first.
Begun(m, msg) == [m EXCEPT !.from = msg.From, !.to = getRecipients(msg)]

\* prepare keeps them, wherever the first address that does not parse stops it.
LEMMA PrepareKeeps ==
    ASSUME NEW m, Sound(m), NEW msg, IsSequence(msg.To), IsSequence(msg.Cc),
           IsSequence(msg.ReplyTo), IsSequence(msg.Attachments)
    PROVE  Kept(prepare(m, msg), m)
<1> DEFINE heads  == addressFields("From", <<msg.From>>)
                       \o addressFields("To", msg.To) \o addressFields("Cc", msg.Cc)
           replies == addressFields("Reply-To", msg.ReplyTo)
           begun  == Begun(m, msg)
           first  == setAddressHeaders(begun, heads)
           titled == setHeader(first, "Subject", msg.Subject)
           bodied == setBodies(titled, msg)
           full   == addAttachments(bodied, msg.Attachments)
           second == setAddressHeaders(full, replies)
           last   == setHeader(second, "Message-ID", msg.MessageID)
<1>1. prepare(m, msg) \in {first, second, last}
  BY DEF prepare, addressed, filled, withMessageID, Begun
<1>2. IsSequence(heads) /\ IsSequence(replies)
  <2>1. IsSequence(<<msg.From>>)
    BY DEF IsSequence
  <2>2. IsSequence(replies)
    BY AddressFieldsSeq
  <2> DEFINE f == addressFields("From", <<msg.From>>)
             t == addressFields("To", msg.To)
             c == addressFields("Cc", msg.Cc)
  <2>3. IsSequence(f) /\ IsSequence(t) /\ IsSequence(c)
    BY <2>1, AddressFieldsSeq
  <2> HIDE DEF f, t, c
  <2>4. IsSequence(f \o t)
    BY <2>3, SequencesInARow
  <2>5. IsSequence((f \o t) \o c)
    BY <2>3, <2>4, SequencesInARow
  <2> QED
    BY <2>2, <2>5 DEF f, t, c
<1>3. Kept(begun, m)
  <2> DEFINE n == [m EXCEPT !.from = msg.From]
             o == [n EXCEPT !.to = getRecipients(msg)]
  <2>1. begun = o
    BY DEF Begun, Sound, Fields
  <2>2. Kept(n, m)
    BY DEF Kept, Sound, Fields, Sequences
  <2> HIDE DEF n
  <2>3. Kept(o, n)
    BY <2>2 DEF Kept, Sound, Fields, Sequences
  <2> QED
    BY <2>1, <2>2, <2>3 DEF Kept
<1> HIDE DEF heads, replies, begun
<1>4. Kept(first, begun)
  BY <1>2, <1>3, SetAddressHeadersKeep DEF Kept
<1> HIDE DEF first
<1>5. Kept(titled, first)
  BY <1>4, PutHeaderKeeps DEF Kept
<1> HIDE DEF titled
<1>6. Kept(bodied, titled)
  BY <1>5, SetBodiesKeep DEF Kept
<1> HIDE DEF bodied
<1>7. Kept(full, bodied)
  BY <1>6, AddAttachmentsKeep DEF Kept
<1> HIDE DEF full
<1>8. Kept(second, full)
  BY <1>2, <1>7, SetAddressHeadersKeep DEF Kept
<1> HIDE DEF second
<1>9. Kept(last, second)
  BY <1>8, PutHeaderKeeps DEF Kept
<1> HIDE DEF last
<1> QED
  BY <1>1, <1>3, <1>4, <1>5, <1>6, <1>7, <1>8, <1>9 DEF Kept

\* A new message, and what sendMessage makes of one.
LEMMA NewIsSound == Sound(newMessage)
  BY EmptyIs DEF Sound, Fields, Sequences, newMessage

LEMMA WithOptionsSound ==
    ASSUME NEW m, Sound(m), NEW options
    PROVE  LET w == withOptions(m, options)  c == withOptions(newMessage, options) IN
           /\ Sound(w) /\ w.ok = m.ok /\ w.parts = m.parts
           /\ w.embedded = m.embedded /\ w.attachments = m.attachments
           /\ w.charset = c.charset /\ w.encoding = c.encoding
<1> DEFINE charset == IF options.Charset = "" THEN "utf-8" ELSE options.Charset
<1>1. \A n : withOptions(n, options) = [n EXCEPT !.charset = charset, !.encoding = options.Encoding]
  BY DEF withOptions
<1> HIDE DEF charset
<1>2. ASSUME NEW n, Sound(n)
      PROVE  LET w == withOptions(n, options) IN
             /\ Sound(w) /\ w.ok = n.ok /\ w.parts = n.parts
             /\ w.embedded = n.embedded /\ w.attachments = n.attachments
             /\ w.charset = charset /\ w.encoding = options.Encoding
  <2> DEFINE w == withOptions(n, options)
  <2>1. w = [ok |-> n.ok, from |-> n.from, to |-> n.to, header |-> n.header, parts |-> n.parts,
             attachments |-> n.attachments, embedded |-> n.embedded,
             charset |-> charset, encoding |-> options.Encoding]
    <3> DEFINE D == {"ok", "from", "to", "header", "parts", "attachments", "embedded",
                     "charset", "encoding"}
    <3>1. DOMAIN n = D /\ n = [x \in D |-> n[x]]
      BY <1>2 DEF Sound, Fields
    <3>2. w = [x \in D |-> IF x = "charset" THEN charset
                           ELSE IF x = "encoding" THEN options.Encoding ELSE n[x]]
      BY <1>1, <3>1
    <3> HIDE DEF w
    <3> QED
      BY <3>2
  <2> HIDE DEF w
  <2> QED
    BY <1>2, <2>1 DEF Sound, Fields, Sequences, w
<1> QED
  BY <1>2, NewIsSound

\* A message that nothing was done to yet.
Fresh(m) ==
    /\ Sound(m) /\ m.ok = TRUE /\ m.header = << >> /\ m.parts = << >>
    /\ m.attachments = << >> /\ m.embedded = << >>

\* A message that was reset has nothing of what it was but from and to, which
\* prepare sets first, and charset and encoding.
LEMMA ResetIsLike ==
    ASSUME NEW m, Sound(m), NEW new, Fresh(new), NEW msg,
           m.charset = new.charset, m.encoding = new.encoding
    PROVE  prepare(reset(m), msg) = prepare(new, msg)
<1> DEFINE D == {"ok", "from", "to", "header", "parts", "attachments", "embedded",
                 "charset", "encoding"}
           r == reset(m)
           F(x) == IF x = "to" THEN getRecipients(msg) ELSE msg.From
<1>1. DOMAIN m = D /\ m = [x \in D |-> m[x]] /\ DOMAIN new = D
  BY DEF Fresh, Sound, Fields
<1>2. r = [x \in D |-> IF x = "ok" THEN TRUE
                       ELSE IF x \in {"header", "parts", "attachments", "embedded"} THEN << >>
                       ELSE m[x]]
  BY <1>1 DEF reset
<1> HIDE DEF r
<1>3. ASSUME NEW n, DOMAIN n = D
      PROVE  Begun(n, msg) = [x \in D |-> IF x \in {"from", "to"} THEN F(x) ELSE n[x]]
  BY <1>3 DEF Begun
<1>4. \A x \in D : x \notin {"from", "to"} => r[x] = new[x]
  BY <1>2 DEF Fresh
<1>5. DOMAIN r = D
  BY <1>2
<1>6. Begun(r, msg) = Begun(new, msg)
  <2> HIDE DEF F, D
  <2> QED
    BY <1>1, <1>3, <1>4, <1>5
<1> QED
  BY <1>6 DEF prepare, Begun, r

\* The message that a question is about, as it is from the pool.
LEMMA PooledIs ==
    ASSUME question \in Questions, question.kind = "mime"
    PROVE  LET pooled == Pooled(question.before, question.sent, question.options) IN
           /\ \E new \in {newMessage, withOptions(newMessage, question.options)} :
                /\ prepare(pooled, question.msg) = prepare(new, question.msg)
           /\ Sound(prepare(pooled, question.msg))
<1> DEFINE m    == prepare(newMessage, question.before)
           w    == withOptions(m, question.options)
           left == withOptions(newMessage, question.options)
<1>1. \A n \in {question.before, question.msg} :
         /\ IsSequence(n.To) /\ IsSequence(n.Cc) /\ IsSequence(n.ReplyTo)
         /\ IsSequence(n.Attachments)
  BY QuestionsAssumption
<1>2. Kept(m, newMessage)
  BY <1>1, NewIsSound, PrepareKeeps
<1> HIDE DEF m
<1>3. /\ Sound(w) /\ w.charset = left.charset /\ w.encoding = left.encoding
  BY <1>2, WithOptionsSound DEF Kept
<1> HIDE DEF w
<1>4. Fresh(newMessage)
  BY NewIsSound DEF Fresh, newMessage
<1>5. Fresh(left)
  <2>1. left.header = newMessage.header
    BY NewIsSound DEF withOptions, Sound, Fields
  <2>2. /\ Sound(left) /\ left.ok = newMessage.ok /\ left.parts = newMessage.parts
        /\ left.embedded = newMessage.embedded /\ left.attachments = newMessage.attachments
    BY NewIsSound, WithOptionsSound
  <2> HIDE DEF left
  <2> QED
    BY <1>4, <2>1, <2>2 DEF Fresh
<1> HIDE DEF left
<1>6. prepare(reset(m), question.msg) = prepare(newMessage, question.msg)
  BY <1>2, <1>4, ResetIsLike DEF Kept
<1>7. prepare(reset(w), question.msg) = prepare(left, question.msg)
  BY <1>3, <1>5, ResetIsLike
<1>8. Sound(prepare(newMessage, question.msg)) /\ Sound(prepare(left, question.msg))
  BY <1>1, <1>5, NewIsSound, PrepareKeeps DEF Kept, Fresh
<1>9. Pooled(question.before, question.sent, question.options) \in {reset(m), reset(w)}
  BY DEF Pooled, Used, m, w
<1> QED
  BY <1>6, <1>7, <1>8, <1>9 DEF left

\* A message from the pool is prepared as a new one, or as one that is new but
\* for the charset and the encoding of the last message sent, whatever it was
\* before, whether it was sent and with what options: reset clears what prepare
\* only adds to, and prepare sets the sender and the recipients first
\* (message.go:51-100, 206-211, 274-326, smtp_sender.go:128-132).
THEOREM PooledAsNew == Spec => []PooledLikeNew
<1>1. Honest => PooledLikeNew
  <2> SUFFICES ASSUME Honest, Asked("mime")
               PROVE  \E new \in {newMessage, withOptions(newMessage, question.options)} :
                        answer[1].prepared = prepare(new, question.msg)
    BY DEF PooledLikeNew
  <2> DEFINE m == prepare(Pooled(question.before, question.sent, question.options), question.msg)
  <2>1. answer[1] = Prepared(m, question.options)
    BY DEF Honest, Asked, Answer
  <2> HIDE DEF m
  <2>2. answer[1].prepared = m
    BY <2>1 DEF Prepared
  <2> QED
    BY <2>2, PooledIs DEF m, Honest, Asked
<1> QED
  BY <1>1, AnswersHonestly, PTL

\* What is written of a message, new or from the pool, is one MIME entity that
\* has all of its bodies and files, however many there are
\* (writer.go:73-190, 274-311).
THEOREM WritesOneEntity == Spec => []WellNested
<1>1. Honest => WellNested
  <2> SUFFICES ASSUME Honest, Asked("mime"), answer[1].written # << >>
               PROVE  OneEntity(answer[1].written, answer[1].sent)
    BY DEF WellNested
  <2> DEFINE m == prepare(Pooled(question.before, question.sent, question.options), question.msg)
             w == withOptions(m, question.options)
  <2>1. answer[1] = Prepared(m, question.options)
    BY DEF Honest, Asked, Answer
  <2>2. Sound(m)
    BY PooledIs DEF Honest, Asked
  <2> HIDE DEF m
  <2>3. Sequences(w)
    BY <2>2, WithOptionsSound DEF Sound
  <2>4. answer[1].sent = w /\ answer[1].written = IF m.ok THEN WriteTo(w).out ELSE << >>
    BY <2>1 DEF Prepared
  <2> HIDE DEF w
  <2>5. answer[1].written = WriteTo(w).out
    BY <2>4
  <2>6. Layout(WriteTo(w).out, w) /\ IsSequence(WriteTo(w).out)
    BY <2>3, WrittenAs DEF Sequences
  <2> QED
    BY <2>3, <2>4, <2>5, <2>6, LayoutIsEntity DEF Sequences
<1> QED
  BY <1>1, AnswersHonestly, PTL

-----------------------------------------------------------------------------
(* Base64.                                                                 *)

\* The lines after each of n chunks.
IsEncoded(w, chunks, n) ==
    w = [k \in 0 .. n |->
           IF k = 0 THEN [lineLen |-> 0, out |-> <<0>>] ELSE base64Write(w[k - 1], chunks[k])]

\* What the recursive function in base64Lines defines exists.
LEMMA EncodedExists ==
    ASSUME NEW chunks, NEW n \in Nat
    PROVE  \E w : IsEncoded(w, chunks, n)
<1> DEFINE Start == [lineLen |-> 0, out |-> <<0>>]
           X == {k \in Nat : ~ \E w : IsEncoded(w, chunks, k)}
<1>1. SUFFICES ASSUME X # {} PROVE FALSE
  OBVIOUS
<1>2. PICK k \in X : \A j \in X : k =< j
  BY <1>1, LeastNatural
<1>3. k # 0
  <2> SUFFICES ASSUME k = 0 PROVE FALSE
    OBVIOUS
  <2> DEFINE w == [j \in 0 .. 0 |-> Start]
  <2>1. IsEncoded(w, chunks, 0)
    BY DEF IsEncoded
  <2> QED
    BY <2>1
<1>4. PICK w : IsEncoded(w, chunks, k - 1)
  BY <1>2, <1>3
<1> DEFINE longer == [j \in 0 .. k |-> IF j = k THEN base64Write(w[k - 1], chunks[k]) ELSE w[j]]
<1>5. ASSUME NEW j \in 0 .. k
      PROVE  longer[j] = IF j = 0 THEN Start ELSE base64Write(longer[j - 1], chunks[j])
  <2>1. CASE j = 0
    BY <1>3, <1>4, <2>1 DEF IsEncoded
  <2>2. CASE j # 0
    <3>1. longer[j - 1] = w[j - 1]
      BY <2>2
    <3>2. j # k => w[j] = base64Write(w[j - 1], chunks[j])
      BY <1>4, <2>2 DEF IsEncoded
    <3> QED
      BY <2>2, <3>1, <3>2
  <2> QED
    BY <2>1, <2>2
<1>6. IsEncoded(longer, chunks, k)
  <2> HIDE DEF longer
  <2>1. longer = [j \in 0 .. k |-> IF j = 0 THEN Start ELSE base64Write(longer[j - 1], chunks[j])]
    <3>1. longer = [j \in 0 .. k |-> longer[j]]
      BY DEF longer
    <3> QED
      BY <1>5, <3>1
  <2> QED
    BY <2>1 DEF IsEncoded
<1> QED
  BY <1>2, <1>6

\* The rounds of the loop of Write, and what the recursive function in
\* base64Write defines exists.
RoundStart(w, n) == [lineLen |-> w.lineLen, left |-> n, out |-> w.out]
IsFilling(r, w, n, many) ==
    r = [k \in 0 .. many |-> IF k = 0 THEN RoundStart(w, n) ELSE fillLine(r[k - 1])]

LEMMA FillingExists ==
    ASSUME NEW w, NEW n, NEW many \in Nat
    PROVE  \E r : IsFilling(r, w, n, many)
<1> DEFINE X == {k \in Nat : ~ \E r : IsFilling(r, w, n, k)}
           Start == RoundStart(w, n)
<1> HIDE DEF Start
<1>1. SUFFICES ASSUME X # {} PROVE FALSE
  OBVIOUS
<1>2. PICK k \in X : \A j \in X : k =< j
  BY <1>1, LeastNatural
<1>3. k # 0
  <2> SUFFICES ASSUME k = 0 PROVE FALSE
    OBVIOUS
  <2> DEFINE r == [j \in 0 .. 0 |-> Start]
  <2>1. IsFilling(r, w, n, 0)
    BY DEF IsFilling, Start
  <2> QED
    BY <2>1
<1>4. PICK r : IsFilling(r, w, n, k - 1)
  BY <1>2, <1>3
<1> DEFINE longer == [j \in 0 .. k |-> IF j = k THEN fillLine(r[k - 1]) ELSE r[j]]
<1>5. ASSUME NEW j \in 0 .. k
      PROVE  longer[j] = IF j = 0 THEN Start ELSE fillLine(longer[j - 1])
  <2>1. CASE j = 0
    BY <1>3, <1>4, <2>1 DEF IsFilling, Start
  <2>2. CASE j # 0
    <3>1. longer[j - 1] = r[j - 1]
      BY <2>2
    <3>2. j # k => r[j] = fillLine(r[j - 1])
      BY <1>4, <2>2 DEF IsFilling
    <3> QED
      BY <2>2, <3>1, <3>2
  <2> QED
    BY <2>1, <2>2
<1>6. IsFilling(longer, w, n, k)
  <2> HIDE DEF longer
  <2>1. longer = [j \in 0 .. k |-> longer[j]]
    BY DEF longer
  <2>2. longer = [j \in 0 .. k |-> IF j = 0 THEN Start ELSE fillLine(longer[j - 1])]
    BY <1>5, <2>1
  <2> QED
    BY <2>2 DEF IsFilling, Start
<1> QED
  BY <1>2, <1>6

\* How many characters are written.
Written(w) == (Len(w.out) - 1) * maxLineLen + w.lineLen

\* All lines are full but the last, which is not longer.
FullLines(w) ==
    /\ w.out \in Seq(Nat) /\ Len(w.out) > 0
    /\ w.lineLen = w.out[Len(w.out)] /\ w.lineLen =< maxLineLen
    /\ \A k \in 1 .. Len(w.out) - 1 : w.out[k] = maxLineLen

\* What the last line has is put behind what it had.
LEMMA PutIs ==
    ASSUME NEW out \in Seq(Nat), Len(out) > 0, NEW n \in Nat
    PROVE  /\ put(out, n) \in Seq(Nat) /\ Len(put(out, n)) = Len(out)
           /\ \A k \in 1 .. Len(out) - 1 : put(out, n)[k] = out[k]
           /\ put(out, n)[Len(out)] = out[Len(out)] + n
<1>1. /\ DOMAIN out = 1 .. Len(out) /\ Len(out) \in Nat
      /\ \A k \in 1 .. Len(out) : out[k] \in Nat
  OBVIOUS
<1> DEFINE u == put(out, n)
<1>2. u = [k \in 1 .. Len(out) |-> IF k = Len(out) THEN out[Len(out)] + n ELSE out[k]]
  BY <1>1 DEF put
<1> HIDE DEF u
<1>3. PICK L \in Nat : L = Len(out) /\ L > 0
  BY <1>1
<1>7. out[L] + n \in Nat
  <2>1. L \in 1 .. Len(out)
    BY <1>3
  <2>2. out[L] \in Nat
    BY <1>1, <2>1
  <2> QED
    BY <2>2
<1>4. u = [k \in 1 .. L |-> IF k = L THEN out[L] + n ELSE out[k]]
  BY <1>2, <1>3
<1>5. u \in [1 .. L -> Nat]
  BY <1>1, <1>3, <1>4, <1>7
<1>6. u \in Seq(Nat) /\ Len(u) = L
  BY <1>3, <1>4, <1>5
<1> QED
  BY <1>3, <1>4, <1>6 DEF u

\* A round fills the line, if there is more than fits in.
LEMMA LineFilled ==
    ASSUME NEW w, FullLines(w), w.left \in Nat, ~ (w.left + w.lineLen =< maxLineLen)
    PROVE  LET v == fillLine(w) IN
           /\ FullLines(v) /\ v.lineLen = 0
           /\ v.left \in Nat /\ v.left = w.left - (maxLineLen - w.lineLen)
           /\ Written(v) = Written(w) + (maxLineLen - w.lineLen)
<1> DEFINE v == fillLine(w)
           n == maxLineLen - w.lineLen
           u == put(w.out, n)
           L == Len(w.out)
<1>1. maxLineLen \in Nat
  BY LineAssumption
<1>2. /\ w.out \in Seq(Nat) /\ L \in Nat /\ L > 0 /\ w.lineLen = w.out[L] /\ w.lineLen \in Nat
      /\ n \in Nat /\ n + w.lineLen = maxLineLen /\ w.left - n \in Nat
      /\ L = Len(w.out) /\ \A k \in 1 .. L - 1 : w.out[k] = maxLineLen
  <2>1. /\ w.out \in Seq(Nat) /\ Len(w.out) \in Nat /\ Len(w.out) > 0
        /\ w.lineLen = w.out[L] /\ w.lineLen =< maxLineLen
        /\ \A k \in 1 .. L - 1 : w.out[k] = maxLineLen
    BY DEF FullLines
  <2>2. w.lineLen \in Nat
    BY <2>1
  <2>3. PICK l \in Nat : l = w.lineLen /\ l =< maxLineLen
    BY <2>1, <2>2
  <2>4. n \in Nat /\ n + w.lineLen = maxLineLen /\ w.left - n \in Nat
    BY <1>1, <2>3
  <2> HIDE DEF n
  <2> QED
    BY <2>1, <2>2, <2>4
<1> HIDE DEF L
<1>3. v = [lineLen |-> 0, left |-> w.left - n, out |-> Append(u, 0)]
  BY DEF fillLine
<1> HIDE DEF n
<1>4. /\ u \in Seq(Nat) /\ Len(u) = L
      /\ \A k \in 1 .. L - 1 : u[k] = w.out[k]
      /\ u[L] = w.out[L] + n
  BY <1>2, PutIs
<1>5. ASSUME NEW k \in 1 .. L PROVE u[k] = maxLineLen
  <2>1. CASE k = L
    <3>1. u[L] = w.lineLen + n
      BY <1>2, <1>4
    <3> QED
      BY <1>1, <1>2, <2>1, <3>1
  <2>2. CASE k # L
    <3>1. k \in 1 .. L - 1
      BY <1>2, <2>2
    <3> QED
      BY <1>2, <1>4, <3>1
  <2> QED
    BY <2>1, <2>2
<1> HIDE DEF u, v
<1>6. /\ v.out \in Seq(Nat) /\ Len(v.out) = L + 1 /\ v.out[L + 1] = 0
      /\ \A k \in 1 .. L : v.out[k] = maxLineLen
  <2>1. v.out = Append(u, 0)
    BY <1>3
  <2>2. /\ Append(u, 0) \in Seq(Nat) /\ Len(Append(u, 0)) = L + 1 /\ Append(u, 0)[L + 1] = 0
        /\ \A k \in 1 .. L : Append(u, 0)[k] = u[k]
    BY <1>2, <1>4, AppendProperties
  <2> QED
    BY <1>5, <2>1, <2>2
<1>7. FullLines(v) /\ v.lineLen = 0
  BY <1>1, <1>2, <1>3, <1>6 DEF FullLines
<1>8. Written(v) = Written(w) + n
  <2>1. L * maxLineLen = (L - 1) * maxLineLen + maxLineLen
    BY <1>1, <1>2
  <2>2. PICK before \in Nat : before = (L - 1) * maxLineLen
    <3>1. L - 1 \in Nat
      BY <1>2
    <3> QED
      BY <1>1, <3>1
  <2>3. Written(w) = before + w.lineLen
    BY <1>2, <2>2 DEF Written
  <2>4. Written(v) = L * maxLineLen + 0
    <3>1. PICK M \in Nat : M = Len(v.out) - 1 /\ M = L
      BY <1>2, <1>6
    <3>2. Written(v) = M * maxLineLen + v.lineLen
      BY <3>1 DEF Written
    <3> QED
      BY <1>7, <3>1, <3>2
  <2>5. PICK x \in Nat, y \in Nat : x = w.lineLen /\ y = n /\ y + x = maxLineLen
    BY <1>2
  <2>6. Written(v) = before + maxLineLen /\ Written(w) = before + x
    BY <1>1, <2>1, <2>2, <2>3, <2>4, <2>5
  <2> QED
    BY <1>1, <2>2, <2>5, <2>6
<1> QED
  BY <1>2, <1>3, <1>7, <1>8 DEF v, n

\* A chunk fills the line, and as many more as it can, and the rest of it is
\* put into the last: no round but the first takes nothing, so that they are
\* enough.
LEMMA OneMoreChunk ==
    ASSUME NEW w, FullLines(w), NEW n \in Nat
    PROVE  LET v == base64Write(w, n) IN
           FullLines(v) /\ Written(v) = Written(w) + n
<1> DEFINE r == CHOOSE r : IsFilling(r, w, n, n + 1)
           Done(k) == r[k].left + r[k].lineLen =< maxLineLen
           Good(k) == /\ FullLines(r[k]) /\ r[k].left \in Nat
                      /\ Written(r[k]) + r[k].left = Written(w) + n
                      /\ k = 0 \/ Done(k) \/ (r[k].lineLen = 0 /\ r[k].left + k =< n + 1)
           X == {k \in 0 .. n + 1 : ~Good(k)}
           last == r[n + 1]
           v == base64Write(w, n)
<1>1. maxLineLen \in Nat /\ maxLineLen > 0
  BY LineAssumption
<1>2. v = [lineLen |-> last.lineLen + last.left, out |-> put(last.out, last.left)]
  BY DEF base64Write, IsFilling, RoundStart
<1>3. IsFilling(r, w, n, n + 1)
  BY FillingExists
<1> HIDE DEF r, v
<1>4. r[0] = RoundStart(w, n)
  BY <1>3 DEF IsFilling
<1>5. \A k \in 1 .. n + 1 : r[k] = fillLine(r[k - 1])
  BY <1>3 DEF IsFilling
<1>6. Good(0)
  BY <1>4 DEF RoundStart, FullLines, Written
<1>7. ASSUME NEW x, FullLines(x)
      PROVE  Written(x) \in Nat /\ x.lineLen \in Nat /\ Len(x.out) \in Nat
  <2>1. Len(x.out) - 1 \in Nat /\ x.lineLen \in Nat /\ Len(x.out) \in Nat
    BY <1>7 DEF FullLines
  <2>2. (Len(x.out) - 1) * maxLineLen \in Nat
    BY <1>1, <2>1
  <2> QED
    BY <2>1, <2>2 DEF Written
<1>8. ASSUME NEW k \in 1 .. n + 1, Good(k - 1) PROVE Good(k)
  <2>1. r[k] = fillLine(r[k - 1])
    BY <1>5
  <2>2. CASE Done(k - 1)
    <3>1. r[k] = r[k - 1]
      BY <2>1, <2>2 DEF fillLine
    <3> QED
      BY <1>8, <2>2, <3>1
  <2>3. CASE ~Done(k - 1)
    <3> DEFINE p == r[k - 1]
    <3>1. /\ FullLines(p) /\ p.left \in Nat /\ Written(p) + p.left = Written(w) + n
          /\ k = 1 \/ (p.lineLen = 0 /\ p.left + (k - 1) =< n + 1)
      BY <1>8, <2>3
    <3>2. /\ FullLines(r[k]) /\ r[k].lineLen = 0 /\ r[k].left \in Nat
          /\ r[k].left = p.left - (maxLineLen - p.lineLen)
          /\ Written(r[k]) = Written(p) + (maxLineLen - p.lineLen)
      BY <2>1, <2>3, <3>1, LineFilled
    <3>3. /\ Written(p) \in Nat /\ p.lineLen \in Nat /\ p.lineLen =< maxLineLen
          /\ Written(w) \in Nat /\ Written(r[k]) \in Nat
      BY <1>7, <3>1, <3>2 DEF FullLines
    <3>4. k = 1 => p.left = n
      BY <1>4 DEF RoundStart
    <3> HIDE DEF p
    <3>5. Written(r[k]) + r[k].left = Written(w) + n
      BY <1>1, <3>1, <3>2, <3>3
    <3>6. r[k].left + k =< n + 1
      BY <1>1, <3>1, <3>2, <3>3, <3>4
    <3> QED
      BY <3>2, <3>5, <3>6
  <2> QED
    BY <2>2, <2>3
<1>9. Good(n + 1)
  <2> HIDE DEF Good
  <2>1. X = {}
    <3> SUFFICES ASSUME X # {} PROVE FALSE
      OBVIOUS
    <3>1. PICK k \in X : \A j \in X : k =< j
      <4>1. X \in SUBSET Nat
        OBVIOUS
      <4> QED
        BY <4>1, LeastNatural
    <3>2. k # 0 /\ k - 1 \in 0 .. n + 1 /\ Good(k - 1)
      BY <1>6, <3>1
    <3> QED
      BY <1>8, <3>1, <3>2
  <2> QED
    BY <2>1
<1>10. /\ FullLines(last) /\ last.left \in Nat /\ Written(last) + last.left = Written(w) + n
       /\ last.left + last.lineLen =< maxLineLen
  <2>1. r[n + 1].lineLen \in Nat
    BY <1>7, <1>9
  <2> QED
    BY <1>1, <1>9, <2>1
<1> HIDE DEF last, Good
<1> DEFINE L == Len(last.out)
<1>11. /\ v.lineLen = last.lineLen + last.left
       /\ v.out \in Seq(Nat) /\ Len(v.out) = L
       /\ \A k \in 1 .. L - 1 : v.out[k] = last.out[k]
       /\ v.out[L] = last.out[L] + last.left
  BY <1>2, <1>10, PutIs DEF FullLines
<1>12. FullLines(v)
  <2>1. /\ last.lineLen \in Nat /\ L \in Nat /\ L > 0 /\ last.lineLen = last.out[L]
        /\ \A k \in 1 .. L - 1 : last.out[k] = maxLineLen
    BY <1>7, <1>10 DEF FullLines
  <2> HIDE DEF L
  <2>2. v.lineLen = v.out[L] /\ v.lineLen =< maxLineLen
    BY <1>1, <1>10, <1>11, <2>1
  <2>3. \A k \in 1 .. L - 1 : v.out[k] = maxLineLen
    BY <1>11, <2>1
  <2> QED
    BY <1>11, <2>1, <2>2, <2>3 DEF FullLines
<1>13. Written(v) = Written(w) + n
  <2>1. PICK before \in Nat : before = (L - 1) * maxLineLen
    <3>1. L - 1 \in Nat
      BY <1>10 DEF FullLines
    <3> QED
      BY <1>1, <3>1
  <2>2. Written(v) = before + (last.lineLen + last.left) /\ Written(last) = before + last.lineLen
    BY <1>11, <2>1 DEF Written
  <2>3. last.lineLen \in Nat /\ Written(w) \in Nat
    BY <1>7, <1>10
  <2> QED
    BY <1>10, <2>2, <2>3
<1> QED
  BY <1>12, <1>13 DEF v

\* All the chunks are written, in full lines.
LEMMA ChunksWritten ==
    ASSUME NEW chunks \in Seq(Nat)
    PROVE  LET w == base64Lines(chunks) IN
           FullLines(w) /\ Written(w) = RunningTotal(chunks)[Len(chunks)]
<1> DEFINE n == Len(chunks)
           w == CHOOSE w : IsEncoded(w, chunks, n)
           f == [k \in 0 .. n |-> Written(w[k])]
           Good(k) == FullLines(w[k]) /\ Written(w[k]) \in Nat
           X == {k \in 0 .. n : ~ Good(k)}
<1>1. n \in Nat /\ \A k \in 1 .. n : chunks[k] \in Nat
  OBVIOUS
<1>2. base64Lines(chunks) = w[n]
  BY DEF base64Lines, IsEncoded
<1>3. IsEncoded(w, chunks, n)
  BY <1>1, EncodedExists
<1> HIDE DEF n, w
<1>4. w[0] = [lineLen |-> 0, out |-> <<0>>]
  BY <1>1, <1>3 DEF IsEncoded
<1>5. \A k \in 1 .. n : w[k] = base64Write(w[k - 1], chunks[k])
  BY <1>1, <1>3 DEF IsEncoded
<1>6. Good(0) /\ Written(w[0]) = 0
  <2>1. maxLineLen \in Nat
    BY LineAssumption
  <2>2. <<0>> \in Seq(Nat) /\ Len(<<0>>) = 1 /\ <<0>>[1] = 0
    OBVIOUS
  <2>3. (1 - 1) * maxLineLen + 0 = 0
    BY <2>1
  <2> QED
    BY <1>4, <2>1, <2>2, <2>3 DEF FullLines, Written
<1>7. ASSUME NEW k \in 1 .. n, Good(k - 1)
      PROVE  Good(k) /\ Written(w[k]) = Written(w[k - 1]) + chunks[k]
  <2>1. FullLines(w[k]) /\ Written(w[k]) = Written(w[k - 1]) + chunks[k]
    BY <1>1, <1>5, <1>7, OneMoreChunk
  <2>2. Written(w[k]) \in Nat
    BY <1>1, <1>7, <2>1
  <2> QED
    BY <2>1, <2>2
<1> HIDE DEF Good
<1>8. X = {}
  <2> SUFFICES ASSUME X # {} PROVE FALSE
    OBVIOUS
  <2>1. PICK k \in X : \A j \in X : k =< j
    <3>1. X \in SUBSET Nat
      BY <1>1
    <3> QED
      BY <3>1, LeastNatural
  <2>2. k # 0 /\ k - 1 \in 0 .. n /\ Good(k - 1)
    BY <1>1, <1>6, <2>1
  <2> QED
    BY <1>1, <1>7, <2>1, <2>2
<1>9. \A k \in 1 .. n : Written(w[k]) = Written(w[k - 1]) + chunks[k]
  <2> TAKE k \in 1 .. n
  <2>1. k - 1 \in 0 .. n
    BY <1>1
  <2>2. Good(k - 1)
    BY <1>8, <2>1
  <2> QED
    BY <1>7, <2>2
<1>10. Sums(f, chunks)
  <2>1. f \in [0 .. n -> Nat]
    BY <1>8 DEF Good
  <2>2. f[0] = 0
    BY <1>1, <1>6
  <2>3. \A k \in 1 .. n : f[k] = f[k - 1] + chunks[k]
    BY <1>1, <1>9
  <2> HIDE DEF f
  <2> QED
    BY <2>1, <2>2, <2>3 DEF Sums, n
<1>11. f[n] = Written(w[n])
  BY <1>1
<1> HIDE DEF f
<1>12. RunningTotal(chunks)[n] = f[n]
  BY <1>10, TotalIs DEF n
<1>13. FullLines(w[n])
  BY <1>1, <1>8 DEF Good
<1> QED
  BY <1>2, <1>11, <1>12, <1>13 DEF n

-----------------------------------------------------------------------------
(* Header lines.  Sequences in a row stand behind Cat, so that no step has to *)
(* look into them that need not.                                           *)

Cat(s, t) == s \o t

\* Sequences in a row are one.
LEMMA CatSeq ==
    ASSUME NEW s, IsSequence(s), NEW t, IsSequence(t)
    PROVE  IsSequence(Cat(s, t)) /\ Joins(Cat(s, t), s, t)
  BY SequencesInARow DEF Cat, Joins

\* In whatever order they are put together.
LEMMA CatAssoc ==
    ASSUME NEW s, IsSequence(s), NEW t, IsSequence(t), NEW u, IsSequence(u)
    PROVE  Cat(Cat(s, t), u) = Cat(s, Cat(t, u))
<1>1. PICK S, T, U : s \in Seq(S) /\ t \in Seq(T) /\ u \in Seq(U)
  BY DEF IsSequence
<1>2. PICK V : V = S \cup T \cup U
  OBVIOUS
<1>3. s \in Seq(V) /\ t \in Seq(V) /\ u \in Seq(V)
  BY <1>1, <1>2
<1> QED
  BY <1>3, ConcatAssociative DEF Cat

\* With nothing put to it a sequence is what it was.
LEMMA CatNone ==
    ASSUME NEW s, IsSequence(s)
    PROVE  Cat(<< >>, s) = s /\ Cat(s, << >>) = s
<1>1. PICK S : s \in Seq(S)
  BY DEF IsSequence
<1> QED
  BY <1>1, ConcatEmptySeq DEF Cat

\* One more is a sequence of one put to it.
LEMMA CatAppend ==
    ASSUME NEW s, IsSequence(s), NEW x
    PROVE  Append(s, x) = Cat(s, <<x>>) /\ IsSequence(<<x>>)
<1>1. PICK S : s \in Seq(S)
  BY DEF IsSequence
<1>2. PICK V : V = S \cup {x}
  OBVIOUS
<1>3. s \in Seq(V) /\ x \in V
  BY <1>1, <1>2
<1>4. Append(s, x) = s \o <<x>>
  BY <1>3, AppendIsConcat
<1>5. IsSequence(<<x>>)
  BY DEF IsSequence
<1> QED
  BY <1>4, <1>5 DEF Cat

\* What is left of a sequence of characters when the line breaks are taken out,
\* as unfold takes them out.
IsUnfolding(f, s, n) ==
    f = [k \in 0 .. n |->
           IF k = 0 THEN << >>
           ELSE IF s[k] \in {"\r", "\n"} THEN f[k - 1] ELSE Append(f[k - 1], s[k])]

IsBreak(x) == x \in {"\r", "\n"}
Unfolded(before, x) == IF IsBreak(x) THEN before ELSE Append(before, x)

\* That is character after character.
LEMMA UnfoldingIs ==
    ASSUME NEW s, NEW n \in Nat, NEW f, DOMAIN f = 0 .. n, f = [k \in 0 .. n |-> f[k]],
           f[0] = << >>, \A k \in 1 .. n : f[k] = Unfolded(f[k - 1], s[k])
    PROVE  IsUnfolding(f, s, n)
<1>1. f = [k \in 0 .. n |-> IF k = 0 THEN << >> ELSE Unfolded(f[k - 1], s[k])]
  <2>1. ASSUME NEW k \in 0 .. n
        PROVE  f[k] = IF k = 0 THEN << >> ELSE Unfolded(f[k - 1], s[k])
    <3>1. k # 0 => k \in 1 .. n
      OBVIOUS
    <3> QED
      BY <3>1
  <2> QED
    BY <2>1
<1> QED
  BY <1>1 DEF IsUnfolding, Unfolded, IsBreak

\* And it is that, character after character.
LEMMA UnfoldingSteps ==
    ASSUME NEW s, NEW n \in Nat, NEW f, IsUnfolding(f, s, n)
    PROVE  /\ DOMAIN f = 0 .. n /\ f = [k \in 0 .. n |-> f[k]] /\ f[0] = << >>
           /\ \A k \in 1 .. n : f[k] = Unfolded(f[k - 1], s[k])
<1>1. f = [k \in 0 .. n |-> IF k = 0 THEN << >> ELSE Unfolded(f[k - 1], s[k])]
  BY DEF IsUnfolding, Unfolded, IsBreak
<1>2. DOMAIN f = 0 .. n /\ f = [k \in 0 .. n |-> f[k]]
  BY <1>1
<1>3. f[0] = << >>
  BY <1>1
<1>4. ASSUME NEW k \in 1 .. n PROVE f[k] = Unfolded(f[k - 1], s[k])
  BY <1>1
<1> QED
  BY <1>2, <1>3, <1>4

\* The unfolding is there.
LEMMA UnfoldingExists ==
    ASSUME NEW s, NEW n \in Nat
    PROVE  \E f : IsUnfolding(f, s, n)
<1> DEFINE X == {k \in Nat : ~ \E f : IsUnfolding(f, s, k)}
<1>1. SUFFICES ASSUME X # {} PROVE FALSE
  OBVIOUS
<1>2. PICK k \in X : \A j \in X : k =< j
  BY <1>1, LeastNatural
<1>3. k # 0
  <2> SUFFICES ASSUME k = 0 PROVE FALSE
    OBVIOUS
  <2> DEFINE f == [j \in 0 .. 0 |-> << >>]
  <2>1. DOMAIN f = 0 .. 0 /\ f = [j \in 0 .. 0 |-> f[j]] /\ f[0] = << >>
    OBVIOUS
  <2> HIDE DEF f
  <2>3. \A j \in 1 .. 0 : f[j] = Unfolded(f[j - 1], s[j])
    OBVIOUS
  <2>2. IsUnfolding(f, s, 0)
    BY <2>1, <2>3, UnfoldingIs
  <2> QED
    BY <2>2
<1>4. PICK f : IsUnfolding(f, s, k - 1)
  BY <1>2, <1>3
<1> DEFINE longer == [j \in 0 .. k |-> IF j = k THEN Unfolded(f[k - 1], s[k]) ELSE f[j]]
<1>5. /\ f[0] = << >>
      /\ \A j \in 1 .. k - 1 : f[j] = Unfolded(f[j - 1], s[j])
  <2>1. PICK i \in Nat : i = k - 1
    BY <1>2, <1>3
  <2> QED
    BY <1>4, <2>1, UnfoldingSteps
<1>6. /\ DOMAIN longer = 0 .. k /\ longer = [j \in 0 .. k |-> longer[j]]
      /\ longer[0] = << >>
  BY <1>3, <1>5
<1>7. ASSUME NEW j \in 1 .. k PROVE longer[j] = Unfolded(longer[j - 1], s[j])
  <2>1. longer[j - 1] = f[j - 1]
    OBVIOUS
  <2>2. j # k => f[j] = Unfolded(f[j - 1], s[j])
    BY <1>5
  <2> QED
    BY <2>1, <2>2
<1> HIDE DEF longer
<1>8. IsUnfolding(longer, s, k)
  BY <1>6, <1>7, UnfoldingIs
<1> QED
  BY <1>2, <1>8

\* There is only one.
LEMMA UnfoldIs ==
    ASSUME NEW s, IsSequence(s), NEW f, f[0] = << >>,
           \A k \in 1 .. Len(s) : f[k] = Unfolded(f[k - 1], s[k])
    PROVE  unfold(s) = f[Len(s)]
<1> DEFINE n == Len(s)
           g == CHOOSE g : IsUnfolding(g, s, n)
           X == {k \in 0 .. n : g[k] # f[k]}
<1>1. n \in Nat
  BY DEF IsSequence
<1>2. IsUnfolding(g, s, n)
  BY <1>1, UnfoldingExists
<1>3. unfold(s) = g[n]
  BY DEF unfold, IsUnfolding
<1> HIDE DEF n, g
<1>4. g[0] = << >> /\ \A k \in 1 .. n : g[k] = Unfolded(g[k - 1], s[k])
  BY <1>1, <1>2, UnfoldingSteps
<1>5. X = {}
  <2> SUFFICES ASSUME X # {} PROVE FALSE
    OBVIOUS
  <2>1. PICK k \in X : \A j \in X : k =< j
    <3>1. X \in SUBSET Nat
      BY <1>1
    <3> QED
      BY <3>1, LeastNatural
  <2>2. k # 0
    BY <1>4, <2>1
  <2>3. k \in 1 .. n /\ k - 1 \in 0 .. n /\ g[k - 1] = f[k - 1]
    BY <1>1, <2>1, <2>2
  <2>4. f[k] = Unfolded(f[k - 1], s[k])
    BY <2>3 DEF n
  <2> QED
    BY <1>4, <2>1, <2>3, <2>4
<1> QED
  BY <1>1, <1>3, <1>5 DEF n

\* It is a sequence, of what the unfoldings of the beginnings are.
LEMMA UnfoldSeq ==
    ASSUME NEW s, IsSequence(s)
    PROVE  \E f : /\ f[0] = << >> /\ f[Len(s)] = unfold(s)
                  /\ \A k \in 1 .. Len(s) : f[k] = Unfolded(f[k - 1], s[k])
                  /\ \A k \in 0 .. Len(s) : IsSequence(f[k])
<1>1. PICK n \in Nat : n = Len(s)
  BY DEF IsSequence
<1>2. PICK f : IsUnfolding(f, s, n)
  BY UnfoldingExists
<1>3. f[0] = << >> /\ \A k \in 1 .. n : f[k] = Unfolded(f[k - 1], s[k])
  BY <1>2, UnfoldingSteps, ZenonT(40)
<1> DEFINE X == {k \in 0 .. n : ~ IsSequence(f[k])}
<1>4. X = {}
  <2> SUFFICES ASSUME X # {} PROVE FALSE
    OBVIOUS
  <2>1. PICK k \in X : \A j \in X : k =< j
    <3>1. X \in SUBSET Nat
      OBVIOUS
    <3> QED
      BY <3>1, LeastNatural
  <2>2. k # 0
    BY <1>3, <2>1, EmptyIs
  <2>3. k \in 1 .. n /\ k - 1 \in 0 .. n /\ IsSequence(f[k - 1])
    BY <2>1, <2>2
  <2>4. IsSequence(Unfolded(f[k - 1], s[k]))
    BY <2>3, OneMore DEF Unfolded
  <2> QED
    BY <1>3, <2>1, <2>3, <2>4
<1>5. \A k \in 0 .. n : IsSequence(f[k])
  BY <1>4
<1>6. f[n] = unfold(s)
  BY <1>1, <1>3, UnfoldIs
<1> QED
  BY <1>1, <1>3, <1>5, <1>6

\* Two sequences in a row are unfolded one after the other.
LEMMA UnfoldCat ==
    ASSUME NEW s, IsSequence(s), NEW t, IsSequence(t)
    PROVE  /\ unfold(Cat(s, t)) = Cat(unfold(s), unfold(t))
           /\ IsSequence(unfold(s))
<1>1. PICK n \in Nat, m \in Nat : n = Len(s) /\ m = Len(t)
  BY DEF IsSequence
<1>2. PICK f : /\ f[0] = << >> /\ f[n] = unfold(s)
               /\ \A k \in 1 .. n : f[k] = Unfolded(f[k - 1], s[k])
               /\ \A k \in 0 .. n : IsSequence(f[k])
  BY <1>1, UnfoldSeq
<1>3. PICK g : /\ g[0] = << >> /\ g[m] = unfold(t)
               /\ \A k \in 1 .. m : g[k] = Unfolded(g[k - 1], t[k])
               /\ \A k \in 0 .. m : IsSequence(g[k])
  BY <1>1, UnfoldSeq
<1>4. PICK u : u = Cat(s, t)
  OBVIOUS
<1>5. /\ IsSequence(u) /\ Len(u) = n + m
      /\ \A k \in 1 .. n : u[k] = s[k]
      /\ \A k \in 1 .. m : u[n + k] = t[k]
  BY <1>1, <1>4, CatSeq, ConcatIs
<1> DEFINE h == [k \in 0 .. n + m |-> IF k =< n THEN f[k] ELSE Cat(f[n], g[k - n])]
<1>6. \A k \in 0 .. n : h[k] = f[k]
  OBVIOUS
<1>7. \A k \in 0 .. m : h[n + k] = Cat(f[n], g[k])
  <2> TAKE k \in 0 .. m
  <2>1. CASE k = 0
    <3>1. h[n + k] = f[n]
      BY <2>1
    <3> QED
      BY <1>2, <1>3, <2>1, <3>1, CatNone
  <2>2. CASE k # 0
    <3>1. n + k \in 0 .. n + m /\ ~ (n + k =< n) /\ (n + k) - n = k
      BY <2>2
    <3> QED
      BY <3>1
  <2> QED
    BY <2>1, <2>2
<1> HIDE DEF h
<1>8. ASSUME NEW k \in 1 .. m
      PROVE  h[n + k] = Unfolded(h[n + k - 1], u[n + k])
  <2>1. PICK j \in 0 .. m : j = k - 1 /\ n + k - 1 = n + j
    OBVIOUS
  <2>2. h[n + k - 1] = Cat(f[n], g[j]) /\ h[n + k] = Cat(f[n], g[k])
    BY <1>7, <2>1
  <2>3. g[k] = Unfolded(g[j], t[k]) /\ IsSequence(g[j]) /\ IsSequence(f[n]) /\ u[n + k] = t[k]
    BY <1>2, <1>3, <1>5, <2>1
  <2>4. CASE IsBreak(t[k])
    BY <2>2, <2>3, <2>4 DEF Unfolded
  <2>5. CASE ~IsBreak(t[k])
    <3>1. g[k] = Cat(g[j], <<t[k]>>) /\ IsSequence(<<t[k]>>)
      BY <2>3, <2>5, CatAppend DEF Unfolded
    <3>2. Cat(f[n], g[k]) = Cat(Cat(f[n], g[j]), <<t[k]>>)
      BY <2>3, <3>1, CatAssoc
    <3>3. Unfolded(Cat(f[n], g[j]), t[k]) = Cat(Cat(f[n], g[j]), <<t[k]>>)
      BY <2>3, <2>5, CatSeq, CatAppend DEF Unfolded
    <3> QED
      BY <2>2, <2>3, <3>2, <3>3
  <2> QED
    BY <2>4, <2>5
<1>9. ASSUME NEW k \in 1 .. n + m
      PROVE  h[k] = Unfolded(h[k - 1], u[k])
  <2>1. CASE k =< n
    <3>1. k \in 1 .. n /\ k \in 0 .. n /\ k - 1 \in 0 .. n
      BY <2>1
    <3> QED
      BY <1>2, <1>5, <1>6, <3>1
  <2>2. CASE ~ (k =< n)
    <3>1. PICK j \in 1 .. m : j = k - n /\ k = n + j
      BY <2>2
    <3> QED
      BY <1>8, <3>1
  <2> QED
    BY <2>1, <2>2
<1>10. h[0] = << >>
  BY <1>2, <1>6
<1>11. unfold(u) = h[n + m]
  BY <1>5, <1>9, <1>10, UnfoldIs
<1>12. h[n + m] = Cat(f[n], g[m])
  BY <1>7
<1>13. IsSequence(f[n])
  BY <1>2
<1> QED
  BY <1>2, <1>3, <1>4, <1>11, <1>12, <1>13

\* Tuples of one and of two.
LEMMA TuplesAre ==
    /\ \A x : IsSequence(<<x>>) /\ Len(<<x>>) = 1 /\ <<x>>[1] = x
    /\ \A x, y : /\ IsSequence(<<x, y>>) /\ Len(<<x, y>>) = 2
                 /\ <<x, y>>[1] = x /\ <<x, y>>[2] = y
  BY DEF IsSequence

\* A line break is nothing, another character is itself.
LEMMA UnfoldOne ==
    ASSUME NEW x
    PROVE  unfold(<<x>>) = IF IsBreak(x) THEN << >> ELSE <<x>>
<1>1. PICK s : s = <<x>> /\ IsSequence(s) /\ Len(s) = 1 /\ s[1] = x
  BY TuplesAre
<1>2. PICK a : a = Unfolded(<< >>, x)
  OBVIOUS
<1> DEFINE f == [k \in 0 .. 1 |-> IF k = 1 THEN a ELSE << >>]
<1>3. f[0] = << >> /\ f[1] = a
  OBVIOUS
<1> HIDE DEF f
<1>4. \A k \in 1 .. Len(s) : f[k] = Unfolded(f[k - 1], s[k])
  BY <1>1, <1>2, <1>3
<1>5. unfold(s) = f[1]
  BY <1>1, <1>3, <1>4, UnfoldIs
<1>6. Append(<< >>, x) = <<x>>
  OBVIOUS
<1> QED
  BY <1>1, <1>2, <1>3, <1>5, <1>6 DEF Unfolded

\* Two characters in a row.
LEMMA CatPair ==
    ASSUME NEW x, NEW y
    PROVE  Cat(<<x>>, <<y>>) = <<x, y>>
<1>1. PICK a, b, t : a = <<x>> /\ b = <<y>> /\ t = <<x, y>>
  OBVIOUS
<1>2. PICK S : S = {x, y}
  OBVIOUS
<1>3. a \in Seq(S) /\ Len(a) = 1 /\ a[1] = x
  BY <1>1, <1>2
<1>4. b \in Seq(S) /\ Len(b) = 1 /\ b[1] = y
  BY <1>1, <1>2
<1>5. t \in Seq(S) /\ Len(t) = 2 /\ t[1] = x /\ t[2] = y
  BY <1>1, <1>2
<1>6. PICK u : u = a \o b
  OBVIOUS
<1>7. /\ u \in Seq(S) /\ Len(u) = 2
      /\ \A i \in 1 .. 2 : u[i] = IF i <= 1 THEN x ELSE b[i - 1]
  BY <1>3, <1>4, <1>6, ConcatProperties
<1>8. u[1] = x /\ u[2] = y
  BY <1>4, <1>7
<1>9. u = t
  <2>1. \A i \in 1 .. Len(u) : u[i] = t[i]
    BY <1>5, <1>7, <1>8
  <2> QED
    BY <1>5, <1>7, <2>1, SeqEqual
<1> QED
  BY <1>1, <1>6, <1>9 DEF Cat

\* Three of them.
LEMMA CatTriple ==
    ASSUME NEW x, NEW y, NEW z
    PROVE  Cat(<<x, y>>, <<z>>) = <<x, y, z>>
<1>1. PICK S : S = {x, y, z}
  OBVIOUS
<1>2. PICK a, t : a = <<x, y>> /\ t = <<x, y, z>>
  OBVIOUS
<1>3. a \in Seq(S) /\ Len(a) = 2 /\ a[1] = x /\ a[2] = y
  BY <1>1, <1>2
<1>4. t \in Seq(S) /\ Len(t) = 3 /\ t[1] = x /\ t[2] = y /\ t[3] = z
  BY <1>1, <1>2
<1>5. PICK u : u = Append(a, z)
  OBVIOUS
<1>6. u \in Seq(S) /\ Len(u) = 3 /\ u[3] = z /\ \A i \in 1 .. 2 : u[i] = a[i]
  <2>1. z \in S
    BY <1>1
  <2>2. a \in Seq(S)
    BY <1>3
  <2>3. /\ Append(a, z) \in Seq(S) /\ Len(Append(a, z)) = Len(a) + 1
        /\ Append(a, z)[Len(a) + 1] = z
        /\ \A i \in 1 .. Len(a) : Append(a, z)[i] = a[i]
    BY <2>1, <2>2, AppendProperties
  <2> QED
    BY <1>3, <1>5, <2>3
<1>7. \A i \in 1 .. Len(u) : u[i] = t[i]
  BY <1>3, <1>4, <1>6
<1>8. u = t
  BY <1>4, <1>6, <1>7, SeqEqual
<1>9. IsSequence(a)
  BY <1>2, TuplesAre
<1>10. Append(a, z) = Cat(a, <<z>>)
  BY <1>9, CatAppend
<1> QED
  BY <1>2, <1>5, <1>8, <1>10

\* What is put between the values, and a break with the space behind it, which
\* is a space.
LEMMA UnfoldTexts ==
    /\ IsSequence(<< >>) /\ unfold(<< >>) = << >>
    /\ IsSequence(<<",">>) /\ unfold(<<",">>) = <<",">>
    /\ IsSequence(<<" ">>) /\ unfold(<<" ">>) = <<" ">>
    /\ unfold(<<"\n">>) = << >>
    /\ IsSequence(<<"\r", "\n", " ">>) /\ unfold(<<"\r", "\n", " ">>) = <<" ">>
<1>1. IsBreak("\r") /\ IsBreak("\n") /\ ~IsBreak(" ") /\ ~IsBreak(",")
  BY DEF IsBreak
<1>2. /\ unfold(<<",">>) = <<",">> /\ unfold(<<" ">>) = <<" ">>
      /\ unfold(<<"\r">>) = << >> /\ unfold(<<"\n">>) = << >>
  BY <1>1, UnfoldOne
<1>3. IsSequence(<< >>) /\ unfold(<< >>) = << >>
  <2>1. PICK e : e = << >>
    OBVIOUS
  <2>2. IsSequence(e) /\ Len(e) = 0
    BY <2>1, EmptyIs
  <2> DEFINE f == [k \in 0 .. 0 |-> e]
  <2>3. f[0] = e /\ \A k \in 1 .. Len(e) : f[k] = Unfolded(f[k - 1], e[k])
    BY <2>2
  <2> HIDE DEF f
  <2>4. unfold(e) = f[0]
    BY <2>1, <2>2, <2>3, UnfoldIs
  <2> QED
    BY <2>1, <2>2, <2>3, <2>4
<1>4. PICK r, n, b : r = <<"\r">> /\ n = <<"\n">> /\ b = <<" ">>
  OBVIOUS
<1>5. IsSequence(r) /\ IsSequence(n) /\ IsSequence(b) /\ IsSequence(<<",">>)
  BY <1>4, TuplesAre
<1>6. <<"\r", "\n", " ">> = Cat(Cat(r, n), b)
  BY <1>4, CatPair, CatTriple
<1>7. /\ IsSequence(Cat(r, n)) /\ unfold(Cat(r, n)) = Cat(unfold(r), unfold(n))
      /\ IsSequence(Cat(Cat(r, n), b)) /\ unfold(Cat(Cat(r, n), b)) = Cat(unfold(Cat(r, n)), unfold(b))
  BY <1>5, CatSeq, UnfoldCat
<1>8. unfold(Cat(Cat(r, n), b)) = b
  <2>1. PICK e : e = << >> /\ IsSequence(e)
    BY <1>3
  <2>2. unfold(r) = e /\ unfold(n) = e /\ unfold(b) = b
    BY <1>2, <1>4, <2>1
  <2>3. Cat(e, e) = e /\ Cat(e, b) = b
    BY <1>5, <2>1, CatNone
  <2> QED
    BY <1>7, <2>2, <2>3
<1> QED
  BY <1>2, <1>3, <1>4, <1>5, <1>6, <1>7, <1>8

\* A text is what is before a place, what is there and what is behind it.
LEMMA CutAt ==
    ASSUME NEW s, IsSequence(s), NEW i \in 1 .. Len(s)
    PROVE  LET a == SubSeq(s, 1, i - 1)  b == SubSeq(s, i + 1, Len(s)) IN
           /\ IsSequence(a) /\ IsSequence(b)
           /\ SubSeq(s, 1, i) = Cat(a, <<s[i]>>) /\ Cat(SubSeq(s, 1, i), b) = s
           /\ Len(b) = Len(s) - i /\ \A k \in 1 .. Len(s) - i : b[k] = s[i + k]
<1>1. PICK S : s \in Seq(S)
  BY DEF IsSequence
<1>2. PICK n \in Nat : n = Len(s)
  BY <1>1
<1> DEFINE a == SubSeq(s, 1, i - 1)
           b == SubSeq(s, i + 1, n)
<1>3. i \in 1 .. n /\ \A k \in 1 .. n : s[k] \in S
  BY <1>1, <1>2
<1>4. a \in Seq(S)
  <2>1. \A k \in 1 .. i - 1 : s[k] \in S
    BY <1>2, <1>3
  <2> QED
    BY <1>3, <2>1, SubSeqProperties
<1>5. b \in Seq(S) /\ Len(b) = n - i /\ \A k \in 1 .. n - i : b[k] = s[i + k]
  <2>1. \A k \in i + 1 .. n : s[k] \in S
    BY <1>3
  <2>2. PICK j \in Int : j = i + 1
    BY <1>3
  <2>3. /\ SubSeq(s, j, n) \in Seq(S)
        /\ Len(SubSeq(s, j, n)) = IF j <= n THEN n - j + 1 ELSE 0
        /\ \A k \in 1 .. n - j + 1 : SubSeq(s, j, n)[k] = s[j + k - 1]
    BY <1>2, <2>1, <2>2, SubSeqProperties
  <2>4. /\ b \in Seq(S)
        /\ Len(b) = IF j <= n THEN n - j + 1 ELSE 0
        /\ \A k \in 1 .. n - j + 1 : b[k] = s[j + k - 1]
    BY <2>2, <2>3
  <2> HIDE DEF a, b
  <2>5. Len(b) = n - i
    BY <1>2, <1>3, <2>2, <2>4
  <2> QED
    BY <1>2, <1>3, <2>2, <2>4, <2>5
<1>6. IsSequence(a) /\ IsSequence(b)
  <2> HIDE DEF a, b
  <2>1. IsSequence(a)
    BY <1>4 DEF IsSequence
  <2>2. IsSequence(b)
    BY <1>5 DEF IsSequence
  <2> QED
    BY <2>1, <2>2
<1>7. SubSeq(s, 1, i) = Cat(a, <<s[i]>>)
  BY <1>1, <1>2, SubSeqRecursiveSecond DEF Cat
<1>8. Cat(SubSeq(s, 1, i), b) = SubSeq(s, 1, n)
  BY <1>1, <1>2, <1>3, ConcatAdjacentSubSeq DEF Cat
<1>9. SubSeq(s, 1, n) = s
  BY <1>1, <1>2, SubSeqFull
<1> QED
  BY <1>2, <1>5, <1>6, <1>7, <1>8, <1>9

\* Among numbers up to n there is a greatest.
LEMMA GreatestNumber ==
    ASSUME NEW n \in Nat, NEW X \in SUBSET (1 .. n), X # {}
    PROVE  \E i \in X : \A j \in X : j =< i
<1> DEFINE Y == {k \in Nat : n - k \in X}
<1>1. PICK x \in X : TRUE
  OBVIOUS
<1>2. n - x \in Y
  <2>1. n - x \in Nat /\ n - (n - x) = x
    OBVIOUS
  <2> QED
    BY <2>1
<1>3. PICK m \in Y : \A k \in Y : m =< k
  BY <1>2, LeastNatural
<1>4. PICK i \in X : i = n - m
  BY <1>3
<1>5. ASSUME NEW j \in X PROVE j =< i
  <2>1. n - j \in Nat /\ n - (n - j) = j
    OBVIOUS
  <2>2. n - j \in Y
    BY <2>1
  <2>3. m =< n - j
    BY <1>3, <2>2
  <2> QED
    BY <1>3, <1>4, <2>3
<1> QED
  BY <1>5

\* Of the places that are looked for there is a first and a last.
LEMMA FoundAt ==
    ASSUME NEW s, IsSequence(s), NEW i \in Int, NEW j \in Int, NEW chars, At(s, i, j, chars) # {}
    PROVE  LET X == At(s, i, j, chars) IN
           /\ \A k \in X : k \in 1 .. Len(s) /\ s[k] \in chars /\ i =< k /\ k =< j
           /\ Min(X) \in X /\ \A k \in X : Min(X) =< k
           /\ Max(X) \in X /\ \A k \in X : k =< Max(X)
<1> DEFINE X == At(s, i, j, chars)
<1>1. PICK n \in Nat : n = Len(s) /\ DOMAIN s = 1 .. n
  BY DEF IsSequence
<1>2. \A k \in X : k \in 1 .. n /\ s[k] \in chars /\ i =< k /\ k =< j
  BY <1>1 DEF At
<1>3. X # {}
  OBVIOUS
<1> HIDE DEF X
<1>4. X \in SUBSET (1 .. n) /\ X \in SUBSET Nat
  BY <1>2
<1>5. \E k \in X : \A l \in X : k =< l
  BY <1>3, <1>4, LeastNatural
<1>6. \E k \in X : \A l \in X : l =< k
  BY <1>3, <1>4, GreatestNumber
<1>7. Min(X) \in X /\ \A k \in X : Min(X) =< k
  BY <1>5 DEF Min
<1>8. Max(X) \in X /\ \A k \in X : k =< Max(X)
  BY <1>4, <1>6 DEF Max
<1> QED
  BY <1>1, <1>2, <1>7, <1>8 DEF X

\* A line is broken at a space or a newline of it, or not at all.
LEMMA BreakIsThere ==
    ASSUME NEW s, IsSequence(s), NEW left \in Int
    PROVE  LET i == breakAt(s, left) IN
           i = 0 \/ (i \in 1 .. Len(s) /\ s[i] \in {" ", "\n"})
<1> DEFINE newline == At(s, 1, left, {"\n"})
           space   == At(s, 1, left, {" "})
           behind  == At(s, maxLineLen, Len(s), {" ", "\n"})
<1>1. breakAt(s, left) \in {0} \cup (IF newline = {} THEN {} ELSE {Min(newline)})
                               \cup (IF space = {} THEN {} ELSE {Max(space)})
                               \cup (IF behind = {} THEN {} ELSE {Min(behind)})
  BY DEF breakAt
<1>2. newline # {} => Min(newline) \in 1 .. Len(s) /\ s[Min(newline)] \in {"\n"}
  BY FoundAt
<1>3. space # {} => Max(space) \in 1 .. Len(s) /\ s[Max(space)] \in {" "}
  <2>1. PICK C : C = {" "}
    OBVIOUS
  <2>2. At(s, 1, left, C) # {} => LET i == Max(At(s, 1, left, C)) IN i \in 1 .. Len(s) /\ s[i] \in C
    BY FoundAt
  <2> QED
    BY <2>1, <2>2
<1>4. behind # {} => Min(behind) \in 1 .. Len(s) /\ s[Min(behind)] \in {" ", "\n"}
  <2>1. Len(s) \in Int /\ maxLineLen \in Int
    BY LineAssumption DEF IsSequence
  <2> QED
    BY <2>1, FoundAt
<1> HIDE DEF newline, space, behind
<1> QED
  BY <1>1, <1>2, <1>3, <1>4

\* That what is written and what is still to be written are, without the line
\* breaks, s together.
SoFar(out, rest, s) ==
    IsSequence(out) /\ IsSequence(rest) /\ Cat(unfold(out), unfold(rest)) = unfold(s)

\* A line that is written.
LEMMA LineWritten ==
    ASSUME NEW s, IsSequence(s), NEW left \in Int
    PROVE  LET l == writeLine(s, left) IN SoFar(l.out, l.rest, s)
<1>1. PICK i : i = breakAt(s, left)
  OBVIOUS
<1>2. PICK l : l = writeLine(s, left)
  OBVIOUS
<1>3. CASE i = 0
  <2>1. l.out = s /\ l.rest = << >>
    BY <1>1, <1>2, <1>3 DEF writeLine, brokenAt
  <2>2. Cat(unfold(s), << >>) = unfold(s)
    BY UnfoldCat, CatNone
  <2> QED
    BY <1>2, <2>1, <2>2, UnfoldTexts DEF SoFar
<1>4. CASE i # 0
  <2>1. i \in 1 .. Len(s) /\ s[i] \in {" ", "\n"}
    BY <1>1, <1>4, BreakIsThere
  <2>2. PICK a, b, c : a = SubSeq(s, 1, i - 1) /\ b = SubSeq(s, i + 1, Len(s)) /\ c = SubSeq(s, 1, i)
    OBVIOUS
  <2>3. IsSequence(a) /\ IsSequence(b) /\ c = Cat(a, <<s[i]>>) /\ Cat(c, b) = s
    BY <2>1, <2>2, CutAt
  <2>4. PICK x : x = <<s[i]>> /\ IsSequence(x)
    BY TuplesAre
  <2>5. PICK y : y = (IF s[i] = "\n" THEN x ELSE <<"\r", "\n", " ">>) /\ IsSequence(y)
    BY <2>4, UnfoldTexts
  <2>6. l.out = Cat(a, y) /\ l.rest = b
    BY <1>1, <1>2, <1>4, <2>2, <2>3, <2>4, <2>5 DEF writeLine, brokenAt, Cat
  <2>7. unfold(y) = unfold(x)
    BY <2>1, <2>4, <2>5, UnfoldTexts
  <2>8. /\ IsSequence(l.out) /\ unfold(l.out) = Cat(unfold(a), unfold(y))
        /\ IsSequence(c) /\ unfold(c) = Cat(unfold(a), unfold(x))
    BY <2>3, <2>4, <2>5, <2>6, CatSeq, UnfoldCat
  <2>9. unfold(s) = Cat(unfold(c), unfold(b))
    BY <2>3, <2>8, UnfoldCat
  <2> QED
    BY <1>2, <2>3, <2>6, <2>7, <2>8, <2>9 DEF SoFar
<1> QED
  BY <1>3, <1>4

\* One more line of a value.
LEMMA OneMoreLine ==
    ASSUME NEW w, NEW s, SoFar(w.out, w.rest, s), w.left \in Int
    PROVE  LET v == foldOnce(w) IN SoFar(v.out, v.rest, s) /\ v.left \in Int
<1>1. CASE Len(w.rest) =< w.left
  BY <1>1 DEF foldOnce
<1>2. CASE ~ (Len(w.rest) =< w.left)
  <2>1. PICK l : l = writeLine(w.rest, w.left)
    OBVIOUS
  <2>2. PICK v : v = foldOnce(w)
    OBVIOUS
  <2>3. v.out = Cat(w.out, l.out) /\ v.rest = l.rest /\ v.left = maxLineLen - 1
    BY <1>2, <2>1, <2>2 DEF foldOnce, Cat
  <2>4. IsSequence(w.out) /\ IsSequence(w.rest) /\ Cat(unfold(w.out), unfold(w.rest)) = unfold(s)
    BY DEF SoFar
  <2>5. IsSequence(l.out) /\ IsSequence(l.rest) /\ Cat(unfold(l.out), unfold(l.rest)) = unfold(w.rest)
    BY <2>1, <2>4, LineWritten DEF SoFar
  <2>6. /\ IsSequence(v.out) /\ unfold(v.out) = Cat(unfold(w.out), unfold(l.out))
        /\ IsSequence(unfold(w.out)) /\ IsSequence(unfold(l.out)) /\ IsSequence(unfold(l.rest))
    BY <2>3, <2>4, <2>5, CatSeq, UnfoldCat
  <2>7. Cat(unfold(v.out), unfold(l.rest)) = Cat(unfold(w.out), Cat(unfold(l.out), unfold(l.rest)))
    BY <2>6, CatAssoc
  <2>8. v.left \in Int
    BY <2>3, LineAssumption
  <2> QED
    BY <2>2, <2>3, <2>4, <2>5, <2>6, <2>7, <2>8 DEF SoFar
<1> QED
  BY <1>1, <1>2

\* What fits as it is gets no break but those it has, at the first of which
\* the line ends.
LEMMA LineAsItIs ==
    ASSUME NEW s, IsSequence(s), NEW left \in Nat, left < Len(s), FitsAsItIs(s, left)
    PROVE  LET l == writeLine(s, left) IN
           /\ IsSequence(l.out) /\ IsSequence(l.rest) /\ Cat(l.out, l.rest) = s
           /\ FitsAsItIs(l.rest, maxLineLen - 1)
<1>1. PICK n \in Nat : n = Len(s) /\ DOMAIN s = 1 .. n /\ n > 0
  BY DEF IsSequence
<1> DEFINE newline == At(s, 1, left, {"\n"})
           Ends(k) == s[k] = "\n"
<1>2. newline # {}
  <2> DEFINE X == {k \in 1 .. n : Ends(k)}
  <2> HIDE DEF Ends
  <2>1. X # {}
    <3> SUFFICES ASSUME X = {} PROVE FALSE
      OBVIOUS
    <3>1. \A k \in 1 .. n - 1 : s[k] # "\n"
      BY DEF Ends
    <3>2. n =< left
      BY <1>1, <3>1 DEF FitsAsItIs
    <3> QED
      BY <1>1, <3>2
  <2>2. PICK k \in X : \A j \in X : k =< j
    <3>1. X \in SUBSET Nat
      OBVIOUS
    <3> QED
      BY <2>1, <3>1, LeastNatural
  <2>3. \A j \in 1 .. k - 1 : s[j] # "\n"
    BY <1>1, <2>2 DEF Ends
  <2>4. k =< left
    BY <1>1, <2>3 DEF FitsAsItIs
  <2>5. k \in newline
    BY <1>1, <2>2, <2>4 DEF At, Ends
  <2> QED
    BY <2>5
<1>3. PICK i : i = Min(newline)
  OBVIOUS
<1>4. i \in 1 .. n /\ s[i] = "\n"
  BY <1>1, <1>2, <1>3, FoundAt
<1>5. breakAt(s, left) = i
  BY <1>2, <1>3 DEF breakAt
<1>6. PICK b, c : b = SubSeq(s, i + 1, Len(s)) /\ c = SubSeq(s, 1, i)
  OBVIOUS
<1>7. writeLine(s, left) = [out |-> c, rest |-> b]
  BY <1>4, <1>5, <1>6 DEF writeLine, brokenAt
<1>8. /\ IsSequence(b) /\ Cat(c, b) = s /\ Len(b) = n - i
      /\ \A k \in 1 .. n - i : b[k] = s[i + k]
      /\ \E a : IsSequence(a) /\ c = Cat(a, <<s[i]>>)
  BY <1>1, <1>4, <1>6, CutAt
<1>9. IsSequence(c)
  BY <1>8, TuplesAre, CatSeq
<1>10. DOMAIN b = 1 .. n - i
  BY <1>8 DEF IsSequence
<1>11. ASSUME NEW j \in 1 .. n - i, NEW k \in 1 .. n - i, j =< k,
              \A m \in j .. k - 1 : b[m] # "\n"
       PROVE  k - j + 1 =< maxLineLen - 1
  <2>1. i + j \in 1 .. n /\ i + k \in 1 .. n /\ i + j =< i + k
    BY <1>4, <1>11
  <2>2. ASSUME NEW m \in i + j .. i + k - 1 PROVE s[m] # "\n"
    <3>1. PICK o \in j .. k - 1 : o = m - i /\ m = i + o
      BY <1>4, <1>11
    <3>2. o \in 1 .. n - i
      BY <1>4, <1>11
    <3> QED
      BY <1>8, <1>11, <3>1, <3>2
  <2>3. PICK p \in 1 .. n, q \in 1 .. n : p = i + j /\ q = i + k /\ p =< q
    BY <2>1
  <2>4. ASSUME NEW m \in p .. q - 1 PROVE s[m] # "\n"
    <3>1. m \in i + j .. i + k - 1
      BY <1>4, <1>11, <2>3
    <3> QED
      BY <2>2, <3>1
  <2>5. q - p + 1 =< maxLineLen - 1
    BY <1>1, <2>3, <2>4 DEF FitsAsItIs
  <2> QED
    BY <1>4, <1>11, <2>3, <2>5, LineAssumption
<1>12. ASSUME NEW j \in 1 .. n - i, \A m \in 1 .. j - 1 : b[m] # "\n"
       PROVE  j =< maxLineLen - 1
  <2>1. 1 \in 1 .. n - i /\ 1 =< j
    BY <1>4, <1>12
  <2>2. j - 1 + 1 =< maxLineLen - 1
    BY <1>11, <1>12, <2>1
  <2> QED
    BY <1>12, <2>2, LineAssumption
<1>13. FitsAsItIs(b, maxLineLen - 1)
  BY <1>10, <1>11, <1>12 DEF FitsAsItIs
<1> QED
  BY <1>7, <1>8, <1>9, <1>13

\* What is written of a value after each of n lines.
IsFolding(w, s, left, n) ==
    w = [k \in 0 .. n |->
           IF k = 0 THEN [out |-> << >>, rest |-> s, left |-> left] ELSE foldOnce(w[k - 1])]

\* What the recursive function in fold defines exists.
LEMMA FoldingExists ==
    ASSUME NEW s, NEW left, NEW n \in Nat
    PROVE  \E w : IsFolding(w, s, left, n)
<1> DEFINE Start == [out |-> << >>, rest |-> s, left |-> left]
           X == {k \in Nat : ~ \E w : IsFolding(w, s, left, k)}
<1>1. SUFFICES ASSUME X # {} PROVE FALSE
  OBVIOUS
<1>2. PICK k \in X : \A j \in X : k =< j
  BY <1>1, LeastNatural
<1>3. k # 0
  <2> SUFFICES ASSUME k = 0 PROVE FALSE
    OBVIOUS
  <2> DEFINE w == [j \in 0 .. 0 |-> Start]
  <2>1. IsFolding(w, s, left, 0)
    BY DEF IsFolding
  <2> QED
    BY <2>1
<1>4. PICK w : IsFolding(w, s, left, k - 1)
  BY <1>2, <1>3
<1> DEFINE longer == [j \in 0 .. k |-> IF j = k THEN foldOnce(w[k - 1]) ELSE w[j]]
<1>5. ASSUME NEW j \in 0 .. k
      PROVE  longer[j] = IF j = 0 THEN Start ELSE foldOnce(longer[j - 1])
  <2>1. CASE j = 0
    BY <1>3, <1>4, <2>1 DEF IsFolding
  <2>2. CASE j # 0
    <3>1. longer[j - 1] = w[j - 1]
      BY <2>2
    <3>2. j # k => w[j] = foldOnce(w[j - 1])
      BY <1>4, <2>2 DEF IsFolding
    <3> QED
      BY <2>2, <3>1, <3>2
  <2> QED
    BY <2>1, <2>2
<1>6. IsFolding(longer, s, left, k)
  <2> HIDE DEF longer
  <2>1. longer = [j \in 0 .. k |-> IF j = 0 THEN Start ELSE foldOnce(longer[j - 1])]
    <3>1. longer = [j \in 0 .. k |-> longer[j]]
      BY DEF longer
    <3> QED
      BY <1>5, <3>1
  <2> QED
    BY <2>1 DEF IsFolding
<1> QED
  BY <1>2, <1>6

\* A value that is folded is the same without the breaks, and the same with
\* them if it fits as it is.
LEMMA FoldKeeps ==
    ASSUME NEW s, IsSequence(s), NEW left \in Int
    PROVE  LET f == fold(s, left) IN
           /\ IsSequence(f.out) /\ unfold(f.out) = unfold(s) /\ f.left \in Int
           /\ left > 0 /\ FitsAsItIs(s, left) => f.out = s
<1> DEFINE n == Len(s) + 1
           w == CHOOSE w : IsFolding(w, s, left, n)
           Same(k) == /\ Cat(w[k].out, w[k].rest) = s
                      /\ w[k].left > 0 /\ FitsAsItIs(w[k].rest, w[k].left)
           Good(k) == /\ SoFar(w[k].out, w[k].rest, s) /\ w[k].left \in Int
                      /\ left > 0 /\ FitsAsItIs(s, left) => Same(k)
           X == {k \in 0 .. n : ~ Good(k)}
<1>1. n \in Nat
  BY SMTT(30) DEF IsSequence
<1>2. /\ fold(s, left).out = Cat(w[n].out, w[n].rest)
      /\ fold(s, left).left = leftBehind(w[n].rest, w[n].left)
  BY DEF fold, IsFolding, Cat
<1>3. IsFolding(w, s, left, n)
  BY <1>1, FoldingExists
<1> HIDE DEF n, w
<1>4. w[0] = [out |-> << >>, rest |-> s, left |-> left]
  BY <1>1, <1>3 DEF IsFolding
<1>5. \A k \in 1 .. n : w[k] = foldOnce(w[k - 1])
  BY <1>1, <1>3 DEF IsFolding
<1>6. Good(0)
  <2>1. IsSequence(<< >>) /\ unfold(<< >>) = << >>
    BY UnfoldTexts
  <2>2. Cat(<< >>, s) = s /\ Cat(<< >>, unfold(s)) = unfold(s)
    BY UnfoldCat, CatNone
  <2> QED
    BY <1>4, <2>1, <2>2 DEF SoFar
<1>7. ASSUME NEW k \in 1 .. n, Good(k - 1)
      PROVE  Good(k)
  <2>1. PICK v : v = w[k - 1] /\ w[k] = foldOnce(v)
    BY <1>5
  <2>2. SoFar(v.out, v.rest, s) /\ v.left \in Int
    BY <1>7, <2>1
  <2>3. SoFar(w[k].out, w[k].rest, s) /\ w[k].left \in Int
    BY <2>1, <2>2, OneMoreLine
  <2>4. ASSUME left > 0, FitsAsItIs(s, left) PROVE Same(k)
    <3>1. Cat(v.out, v.rest) = s /\ v.left > 0 /\ FitsAsItIs(v.rest, v.left)
      BY <1>7, <2>1, <2>4
    <3>2. IsSequence(v.out) /\ IsSequence(v.rest) /\ Len(v.rest) \in Nat
      BY <2>2 DEF SoFar, IsSequence
    <3>3. CASE Len(v.rest) =< v.left
      <4>1. w[k] = v
        BY <2>1, <3>3 DEF foldOnce
      <4> QED
        BY <3>1, <4>1
    <3>4. CASE ~ (Len(v.rest) =< v.left)
      <4>1. PICK l : l = writeLine(v.rest, v.left)
        OBVIOUS
      <4>2. w[k].out = Cat(v.out, l.out) /\ w[k].rest = l.rest /\ w[k].left = maxLineLen - 1
        <5>1. PICK u : u = foldOnce(v)
          OBVIOUS
        <5>2. u.out = Cat(v.out, l.out) /\ u.rest = l.rest /\ u.left = maxLineLen - 1
          BY <3>4, <4>1, <5>1 DEF foldOnce, Cat
        <5> QED
          BY <2>1, <5>1, <5>2
      <4>3. PICK c \in Nat : c = v.left /\ c < Len(v.rest)
        BY <2>2, <3>1, <3>2, <3>4
      <4>4. /\ IsSequence(l.out) /\ IsSequence(l.rest) /\ Cat(l.out, l.rest) = v.rest
            /\ FitsAsItIs(l.rest, maxLineLen - 1)
        BY <3>1, <3>2, <4>1, <4>3, LineAsItIs
      <4>5. Cat(Cat(v.out, l.out), l.rest) = s
        BY <3>1, <3>2, <4>4, CatAssoc
      <4>6. maxLineLen - 1 > 0
        BY LineAssumption
      <4> QED
        BY <4>2, <4>4, <4>5, <4>6
    <3> QED
      BY <3>3, <3>4
  <2> HIDE DEF Same
  <2> QED
    BY <2>3, <2>4
<1> HIDE DEF Good
<1>8. X = {}
  <2> SUFFICES ASSUME X # {} PROVE FALSE
    OBVIOUS
  <2>1. PICK k \in X : \A j \in X : k =< j
    <3>1. X \in SUBSET Nat
      BY <1>1
    <3> QED
      BY <3>1, LeastNatural
  <2>2. k # 0 /\ k - 1 \in 0 .. n /\ Good(k - 1)
    BY <1>1, <1>6, <2>1
  <2> QED
    BY <1>1, <1>7, <2>1, <2>2
<1>9. Good(n)
  BY <1>1, <1>8
<1>10. PICK o, r : o = w[n].out /\ r = w[n].rest
  OBVIOUS
<1>11. SoFar(o, r, s) /\ w[n].left \in Int
  BY <1>9, <1>10 DEF Good
<1>12. IsSequence(Cat(o, r)) /\ unfold(Cat(o, r)) = unfold(s)
  BY <1>11, CatSeq, UnfoldCat DEF SoFar
<1>13. leftBehind(r, w[n].left) \in Int
  <2>1. IsSequence(r) /\ Len(r) \in Nat
    BY <1>11, SMTT(30) DEF SoFar, IsSequence
  <2> DEFINE newlines == At(r, 1, Len(r), {"\n"})
  <2>2. newlines # {} => Max(newlines) \in 1 .. Len(r)
    BY <2>1, FoundAt
  <2>3. leftBehind(r, w[n].left) = IF newlines = {} THEN w[n].left - Len(r)
                                   ELSE maxLineLen - 1 - (Len(r) - Max(newlines))
    BY DEF leftBehind
  <2> HIDE DEF newlines
  <2> QED
    BY <1>11, <2>1, <2>2, <2>3, LineAssumption
<1>14. left > 0 /\ FitsAsItIs(s, left) => Cat(o, r) = s
  BY <1>9, <1>10 DEF Good
<1> QED
  BY <1>2, <1>10, <1>12, <1>13, <1>14

\* One more value.
LEMMA OneMoreValue ==
    ASSUME NEW w, IsSequence(w.out), w.left \in Int,
           NEW s, IsSequence(s), NEW i \in Nat
    PROVE  LET v == writeValue(w, i, s)  before == unfold(w.out)  t == unfold(s) IN
           /\ IsSequence(v.out) /\ v.left \in Int
           /\ i = 1 => unfold(v.out) \in {Cat(before, t), Cat(Cat(before, <<" ">>), t)}
           /\ i # 1 => unfold(v.out) = Cat(Cat(before, <<",", " ">>), t)
<1> DEFINE newLine == w.left < 1
           comma == IF i = 1 THEN << >> ELSE <<",">>
           space == IF newLine THEN <<"\r", "\n", " ">> ELSE IF i = 1 THEN << >> ELSE <<" ">>
           left  == IF newLine THEN maxLineLen - 1 ELSE IF i = 1 THEN w.left ELSE w.left - 2
<1>1. PICK v : v = writeValue(w, i, s)
  OBVIOUS
<1>2. PICK f : f = fold(s, left)
  OBVIOUS
<1>3. v.out = Cat(Cat(Cat(w.out, comma), space), f.out) /\ v.left = f.left
  BY <1>1, <1>2 DEF writeValue, Cat
<1>4. left \in Int
  BY LineAssumption
<1>5. /\ IsSequence(comma) /\ IsSequence(space)
      /\ unfold(comma) = IF i = 1 THEN << >> ELSE <<",">>
      /\ unfold(space) = IF i = 1 /\ ~newLine THEN << >> ELSE <<" ">>
  BY UnfoldTexts
<1> HIDE DEF left
<1>6. IsSequence(f.out) /\ unfold(f.out) = unfold(s) /\ f.left \in Int
  BY <1>2, <1>4, FoldKeeps
<1> HIDE DEF comma, space
<1>7. PICK before : before = unfold(w.out) /\ IsSequence(before)
  BY UnfoldCat
<1>8. /\ IsSequence(Cat(w.out, comma)) /\ unfold(Cat(w.out, comma)) = Cat(before, unfold(comma))
  BY <1>5, <1>7, CatSeq, UnfoldCat
<1>9. /\ IsSequence(Cat(Cat(w.out, comma), space))
      /\ unfold(Cat(Cat(w.out, comma), space)) = Cat(Cat(before, unfold(comma)), unfold(space))
  BY <1>5, <1>8, CatSeq, UnfoldCat
<1>10. IsSequence(v.out) /\ unfold(v.out) = Cat(Cat(Cat(before, unfold(comma)), unfold(space)), unfold(s))
  BY <1>3, <1>6, <1>9, CatSeq, UnfoldCat
<1>11. CASE i = 1
  <2>1. Cat(before, unfold(comma)) = before /\ Cat(before, << >>) = before
    BY <1>5, <1>7, <1>11, CatNone
  <2>2. unfold(space) = << >> \/ unfold(space) = <<" ">>
    BY <1>5
  <2> QED
    BY <1>1, <1>3, <1>6, <1>7, <1>10, <1>11, <2>1, <2>2
<1>12. CASE i # 1
  <2>1. unfold(comma) = <<",">> /\ unfold(space) = <<" ">>
    BY <1>5, <1>12
  <2>2. PICK c, b : c = <<",">> /\ b = <<" ">>
    OBVIOUS
  <2>3. IsSequence(c) /\ IsSequence(b)
    BY <2>2, TuplesAre
  <2>4. Cat(Cat(before, c), b) = Cat(before, Cat(c, b))
    BY <1>7, <2>3, CatAssoc
  <2>5. Cat(c, b) = <<",", " ">>
    BY <2>2, CatPair
  <2>6. unfold(v.out) = Cat(Cat(before, <<",", " ">>), unfold(s))
    BY <1>10, <2>1, <2>2, <2>4, <2>5
  <2> QED
    BY <1>1, <1>3, <1>6, <1>7, <1>10, <1>12, <2>6
<1> QED
  BY <1>11, <1>12

\* What is written of a field after each of n values.
IsField(w, keyLen, values, n) ==
    w = [i \in 0 .. n |->
           IF i = 0 THEN [out |-> << >>, left |-> maxLineLen - keyLen - 2]
           ELSE writeValue(w[i - 1], i, values[i])]

\* What the recursive function in writeHeader defines exists.
LEMMA FieldExists ==
    ASSUME NEW keyLen, NEW values, NEW n \in Nat
    PROVE  \E w : IsField(w, keyLen, values, n)
<1> DEFINE Start == [out |-> << >>, left |-> maxLineLen - keyLen - 2]
           X == {k \in Nat : ~ \E w : IsField(w, keyLen, values, k)}
<1>1. SUFFICES ASSUME X # {} PROVE FALSE
  OBVIOUS
<1>2. PICK k \in X : \A j \in X : k =< j
  BY <1>1, LeastNatural
<1>3. k # 0
  <2> SUFFICES ASSUME k = 0 PROVE FALSE
    OBVIOUS
  <2> DEFINE w == [j \in 0 .. 0 |-> Start]
  <2>1. IsField(w, keyLen, values, 0)
    BY DEF IsField
  <2> QED
    BY <2>1
<1>4. PICK w : IsField(w, keyLen, values, k - 1)
  BY <1>2, <1>3
<1> DEFINE longer == [j \in 0 .. k |-> IF j = k THEN writeValue(w[k - 1], k, values[k]) ELSE w[j]]
<1>5. ASSUME NEW j \in 0 .. k
      PROVE  longer[j] = IF j = 0 THEN Start ELSE writeValue(longer[j - 1], j, values[j])
  <2>1. CASE j = 0
    BY <1>3, <1>4, <2>1 DEF IsField
  <2>2. CASE j # 0
    <3>1. longer[j - 1] = w[j - 1]
      BY <2>2
    <3>2. j # k => w[j] = writeValue(w[j - 1], j, values[j])
      BY <1>4, <2>2 DEF IsField
    <3> QED
      BY <2>2, <3>1, <3>2
  <2> QED
    BY <2>1, <2>2
<1>6. IsField(longer, keyLen, values, k)
  <2> HIDE DEF longer
  <2>1. longer = [j \in 0 .. k |->
                    IF j = 0 THEN Start ELSE writeValue(longer[j - 1], j, values[j])]
    <3>1. longer = [j \in 0 .. k |-> longer[j]]
      BY DEF longer
    <3> QED
      BY <1>5, <3>1
  <2> QED
    BY <2>1 DEF IsField
<1> QED
  BY <1>2, <1>6

\* The values in one, with commas between them, as whole puts them.
IsWhole(f, values, n) ==
    f = [k \in 0 .. n |->
           IF k = 0 THEN << >>
           ELSE f[k - 1] \o (IF k = 1 THEN << >> ELSE <<",", " ">>) \o values[k]]

Joined(before, k, value) ==
    before \o (IF k = 1 THEN << >> ELSE <<",", " ">>) \o value

\* It exists.
LEMMA WholeExists ==
    ASSUME NEW values, NEW n \in Nat
    PROVE  \E f : IsWhole(f, values, n)
<1> DEFINE X == {k \in Nat : ~ \E f : IsWhole(f, values, k)}
<1>1. SUFFICES ASSUME X # {} PROVE FALSE
  OBVIOUS
<1>2. PICK k \in X : \A j \in X : k =< j
  BY <1>1, LeastNatural
<1>3. k # 0
  <2> SUFFICES ASSUME k = 0 PROVE FALSE
    OBVIOUS
  <2> DEFINE f == [j \in 0 .. 0 |-> << >>]
  <2>1. f = [j \in 0 .. 0 |-> IF j = 0 THEN << >> ELSE Joined(f[j - 1], j, values[j])]
    OBVIOUS
  <2> HIDE DEF f
  <2>2. IsWhole(f, values, 0)
    BY <2>1 DEF IsWhole, Joined
  <2> QED
    BY <2>2
<1>4. PICK f : IsWhole(f, values, k - 1)
  BY <1>2, <1>3
<1>5. f = [j \in 0 .. k - 1 |-> IF j = 0 THEN << >> ELSE Joined(f[j - 1], j, values[j])]
  BY <1>4 DEF IsWhole, Joined
<1> DEFINE longer == [j \in 0 .. k |-> IF j = k THEN Joined(f[k - 1], k, values[k]) ELSE f[j]]
<1>6. ASSUME NEW j \in 0 .. k
      PROVE  longer[j] = IF j = 0 THEN << >> ELSE Joined(longer[j - 1], j, values[j])
  <2>1. CASE j = 0
    BY <1>3, <1>5, <2>1
  <2>2. CASE j # 0
    <3>1. longer[j - 1] = f[j - 1]
      BY <2>2
    <3>2. j # k => f[j] = Joined(f[j - 1], j, values[j])
      BY <1>5, <2>2
    <3> QED
      BY <2>2, <3>1, <3>2
  <2> QED
    BY <2>1, <2>2
<1>7. IsWhole(longer, values, k)
  <2>1. longer = [j \in 0 .. k |-> longer[j]]
    OBVIOUS
  <2> HIDE DEF longer
  <2>2. longer = [j \in 0 .. k |-> IF j = 0 THEN << >> ELSE Joined(longer[j - 1], j, values[j])]
    BY <1>6, <2>1
  <2> QED
    BY <2>2 DEF IsWhole, Joined
<1> QED
  BY <1>2, <1>7

\* The first value stands by itself, the others behind a comma and a space.
LEMMA JoinedIs ==
    ASSUME NEW before, NEW s, IsSequence(s)
    PROVE  /\ Joined(<< >>, 1, s) = s
           /\ \A k : k # 1 => Joined(before, k, s) = Cat(Cat(before, <<",", " ">>), s)
<1>1. PICK e : e = << >>
  OBVIOUS
<1>2. IsSequence(e)
  BY <1>1, EmptyIs
<1>3. Cat(Cat(e, e), s) = s
  BY <1>1, <1>2, CatNone
<1>4. Joined(e, 1, s) = Cat(Cat(e, e), s)
  BY <1>1 DEF Joined, Cat
<1>5. \A k : k # 1 => Joined(before, k, s) = Cat(Cat(before, <<",", " ">>), s)
  BY DEF Joined, Cat
<1> QED
  BY <1>1, <1>3, <1>4, <1>5

\* Four sequences in a row.
LEMMA CatFour ==
    ASSUME NEW b, IsSequence(b), NEW g, IsSequence(g), NEW c, IsSequence(c), NEW s, IsSequence(s)
    PROVE  Cat(Cat(Cat(b, g), c), s) = Cat(b, Cat(Cat(g, c), s))
<1>1. Cat(Cat(b, g), c) = Cat(b, Cat(g, c))
  BY CatAssoc
<1>2. IsSequence(Cat(g, c))
  BY CatSeq
<1>3. Cat(Cat(b, Cat(g, c)), s) = Cat(b, Cat(Cat(g, c), s))
  BY <1>2, CatAssoc
<1> QED
  BY <1>1, <1>3

\* What is written of a header is the values, but for the breaks and a space
\* before the first value.
LEMMA HeaderKeeps ==
    ASSUME NEW keyLen \in Nat, NEW values \in Seq(Seq(STRING))
    PROVE  LET out == writeHeader(keyLen, values)  joint == unfold(whole(values)) IN
           /\ IsSequence(out)
           /\ unfold(out) \in {joint, Cat(<<" ">>, joint)}
<1> DEFINE n == Len(values)
           w == CHOOSE w : IsField(w, keyLen, values, n)
           f == CHOOSE f : IsWhole(f, values, n)
           Good(k) == /\ IsSequence(w[k].out) /\ w[k].left \in Int /\ IsSequence(f[k])
                      /\ unfold(w[k].out) \in {unfold(f[k]), Cat(<<" ">>, unfold(f[k]))}
           X == {k \in 0 .. n : ~ Good(k)}
<1>1. n \in Nat
  OBVIOUS
<1>2. \A k \in 1 .. n : IsSequence(values[k])
  <2> TAKE k \in 1 .. n
  <2>1. PICK S, s : s = values[k] /\ s \in Seq(S)
    OBVIOUS
  <2>2. IsSequence(s)
    BY <2>1 DEF IsSequence
  <2> QED
    BY <2>1, <2>2
<1>3. writeHeader(keyLen, values) = w[n].out /\ whole(values) = f[n]
  BY DEF writeHeader, IsField, whole, IsWhole
<1>4. IsField(w, keyLen, values, n)
  BY <1>1, FieldExists
<1>5. IsWhole(f, values, n)
  BY <1>1, WholeExists
<1> HIDE DEF n, w, f
<1>6. w[0] = [out |-> << >>, left |-> maxLineLen - keyLen - 2]
  BY <1>1, <1>4 DEF IsField
<1>7. \A k \in 1 .. n : w[k] = writeValue(w[k - 1], k, values[k])
  BY <1>1, <1>4 DEF IsField
<1>8. f[0] = << >> /\ \A k \in 1 .. n : f[k] = Joined(f[k - 1], k, values[k])
  <2>1. f = [j \in 0 .. n |-> IF j = 0 THEN << >> ELSE Joined(f[j - 1], j, values[j])]
    BY <1>5 DEF IsWhole, Joined
  <2> QED
    BY <1>1, <2>1
<1>9. /\ IsSequence(w[0].out) /\ w[0].left \in Int /\ unfold(w[0].out) = << >>
      /\ IsSequence(f[0]) /\ unfold(f[0]) = << >>
  <2>1. maxLineLen - keyLen - 2 \in Int
    BY LineAssumption
  <2>2. PICK e : e = << >> /\ IsSequence(e) /\ unfold(e) = e
    BY UnfoldTexts
  <2>3. w[0].out = e /\ w[0].left \in Int /\ f[0] = e
    BY <1>6, <1>8, <2>1, <2>2
  <2> QED
    BY <2>2, <2>3
<1>10. Good(0)
  BY <1>9
<1>11. ASSUME NEW k \in 1 .. n, Good(k - 1)
       PROVE  Good(k)
  <2>1. PICK s, t : s = values[k] /\ IsSequence(s) /\ t = unfold(s) /\ IsSequence(t)
    BY <1>2, UnfoldCat
  <2>2. PICK v, before : v = w[k - 1] /\ before = unfold(v.out)
    OBVIOUS
  <2>3. PICK g, h : g = f[k - 1] /\ IsSequence(g) /\ h = unfold(g) /\ IsSequence(h)
    BY <1>11, UnfoldCat
  <2>4. /\ IsSequence(v.out) /\ v.left \in Int /\ IsSequence(before)
        /\ before \in {h, Cat(<<" ">>, h)}
    BY <1>11, <2>2, <2>3, UnfoldCat
  <2>5. /\ IsSequence(w[k].out) /\ w[k].left \in Int
        /\ k = 1 => unfold(w[k].out) \in {Cat(before, t), Cat(Cat(before, <<" ">>), t)}
        /\ k # 1 => unfold(w[k].out) = Cat(Cat(before, <<",", " ">>), t)
    <3>1. w[k] = writeValue(v, k, s)
      BY <1>7, <2>1, <2>2
    <3>2. k \in Nat
      BY <1>1
    <3>3. PICK u : u = writeValue(v, k, s)
      OBVIOUS
    <3>4. /\ IsSequence(u.out) /\ u.left \in Int
          /\ k = 1 => unfold(u.out) \in {Cat(before, t), Cat(Cat(before, <<" ">>), t)}
          /\ k # 1 => unfold(u.out) = Cat(Cat(before, <<",", " ">>), t)
      BY <2>1, <2>2, <2>4, <3>2, <3>3, OneMoreValue
    <3> QED
      BY <3>1, <3>3, <3>4
  <2>6. CASE k = 1
    <3>1. PICK b : b = <<" ">> /\ IsSequence(b)
      BY TuplesAre
    <3>2. f[k] = s
      <4>1. f[k] = Joined(<< >>, 1, s)
        BY <1>8, <2>1, <2>6
      <4> QED
        BY <2>1, <4>1, JoinedIs
    <3>3. before = << >>
      BY <1>9, <2>2, <2>6
    <3>4. Cat(before, t) = t /\ Cat(Cat(before, b), t) = Cat(b, t)
      BY <2>1, <3>1, <3>3, CatNone
    <3> QED
      BY <2>1, <2>5, <2>6, <3>1, <3>2, <3>4
  <2>7. CASE k # 1
    <3>1. PICK b, c : b = <<" ">> /\ IsSequence(b) /\ c = <<",", " ">> /\ IsSequence(c)
      BY TuplesAre
    <3>2. f[k] = Cat(Cat(g, c), s)
      <4>1. f[k] = Joined(g, k, s)
        BY <1>8, <2>1, <2>3
      <4>2. Joined(g, k, s) = Cat(Cat(g, <<",", " ">>), s)
        BY <2>1, <2>7, JoinedIs
      <4> QED
        BY <3>1, <4>1, <4>2
    <3>3. IsSequence(f[k]) /\ unfold(f[k]) = Cat(Cat(h, c), t)
      <4>1. unfold(c) = c
        <5>1. PICK x, y : x = <<",">> /\ y = <<" ">>
          OBVIOUS
        <5>2. IsSequence(x) /\ IsSequence(y) /\ unfold(x) = x /\ unfold(y) = y
          BY <5>1, UnfoldTexts
        <5>3. c = Cat(x, y)
          BY <3>1, <5>1, CatPair
        <5> QED
          BY <5>2, <5>3, UnfoldCat
      <4>2. IsSequence(Cat(g, c)) /\ unfold(Cat(g, c)) = Cat(h, c)
        BY <2>3, <3>1, <4>1, CatSeq, UnfoldCat
      <4>3. PICK x : x = Cat(g, c) /\ IsSequence(x) /\ unfold(x) = Cat(h, c)
        BY <4>2
      <4>4. IsSequence(Cat(x, s)) /\ unfold(Cat(x, s)) = Cat(unfold(x), t)
        BY <2>1, <4>3, CatSeq, UnfoldCat
      <4> QED
        BY <3>2, <4>3, <4>4
    <3>4. Cat(Cat(Cat(b, h), c), t) = Cat(b, Cat(Cat(h, c), t))
      <4>1. IsSequence(b) /\ IsSequence(h) /\ IsSequence(c) /\ IsSequence(t)
        BY <2>1, <2>3, <3>1
      <4> QED
        BY <4>1, CatFour
    <3>5. unfold(w[k].out) = Cat(Cat(before, c), t) /\ (before = h \/ before = Cat(b, h))
      BY <2>4, <2>5, <2>7, <3>1
    <3>6. unfold(w[k].out) \in {unfold(f[k]), Cat(b, unfold(f[k]))}
      BY <3>3, <3>4, <3>5
    <3> QED
      BY <2>5, <3>1, <3>3, <3>6
  <2> QED
    BY <2>6, <2>7
<1> HIDE DEF Good
<1>12. X = {}
  <2> SUFFICES ASSUME X # {} PROVE FALSE
    OBVIOUS
  <2>1. PICK k \in X : \A j \in X : k =< j
    <3>1. X \in SUBSET Nat
      BY <1>1
    <3> QED
      BY <3>1, LeastNatural
  <2>2. k # 0 /\ k - 1 \in 0 .. n /\ Good(k - 1)
    BY <1>1, <1>10, <2>1
  <2> QED
    BY <1>1, <1>11, <2>1, <2>2
<1>13. Good(n)
  BY <1>1, <1>12, SMTT(30)
<1> QED
  BY <1>3, <1>13 DEF Good

\* A single value that fits as it is is written as it is.
LEMMA HeaderAsItIs ==
    ASSUME NEW keyLen \in Nat, NEW values \in Seq(Seq(STRING)), Len(values) = 1,
           maxLineLen - keyLen - 2 > 0, FitsAsItIs(values[1], maxLineLen - keyLen - 2)
    PROVE  writeHeader(keyLen, values) = values[1]
<1> DEFINE w == CHOOSE w : IsField(w, keyLen, values, Len(values))
<1>1. writeHeader(keyLen, values) = w[Len(values)].out
  BY DEF writeHeader, IsField
<1>2. IsField(w, keyLen, values, Len(values))
  BY FieldExists
<1> HIDE DEF w
<1>3. IsField(w, keyLen, values, 1) /\ writeHeader(keyLen, values) = w[1].out
  BY <1>1, <1>2
<1>4. PICK left \in Int : left = maxLineLen - keyLen - 2 /\ left > 0
  BY LineAssumption
<1>5. PICK s : s = values[1] /\ IsSequence(s) /\ FitsAsItIs(s, left)
  <2>1. PICK s : s = values[1] /\ s \in Seq(STRING)
    OBVIOUS
  <2>2. IsSequence(s)
    BY <2>1 DEF IsSequence
  <2> QED
    BY <1>4, <2>1, <2>2
<1>6. PICK e : e = << >> /\ IsSequence(e)
  BY EmptyIs
<1>7. PICK v : v = [out |-> e, left |-> left]
  OBVIOUS
<1>8. w[1] = writeValue(v, 1, s)
  <2>1. w[0] = v /\ w[1] = writeValue(w[1 - 1], 1, values[1])
    BY <1>3, <1>4, <1>6, <1>7 DEF IsField
  <2> QED
    BY <1>5, <2>1
<1>9. PICK f : f = fold(s, left)
  OBVIOUS
<1>10. w[1].out = Cat(Cat(Cat(e, e), e), f.out)
  <2>1. v.out = e /\ v.left = left /\ ~(left < 1)
    BY <1>4, <1>7
  <2>2. PICK u : u = writeValue(v, 1, s)
    OBVIOUS
  <2>3. u.out = Cat(Cat(Cat(v.out, << >>), << >>), f.out)
    BY <1>9, <2>1, <2>2 DEF writeValue, Cat
  <2> QED
    BY <1>6, <1>8, <2>1, <2>2, <2>3
<1>11. f.out = s
  BY <1>4, <1>5, <1>9, FoldKeeps
<1>12. Cat(Cat(Cat(e, e), e), s) = s
  BY <1>5, <1>6, CatNone
<1> QED
  BY <1>3, <1>5, <1>10, <1>11, <1>12

\* Base64 is in full lines that have all the characters, and a header without
\* its line breaks is its values without theirs, but for a space before them,
\* whatever the values, with line breaks or without; one that has the line
\* breaks it needs is written as it is (writer.go:163-170, 198-272, 327-341).
THEOREM LinesKeepAll == Spec => []LinesKeepText
<1>1. Honest => LinesKeepText
  <2> SUFFICES ASSUME Honest PROVE LinesKeepText
    OBVIOUS
  <2>1. ASSUME Asked("base64")
        PROVE  LET w    == answer[1]
                   last == Len(w.out)
                   sum[k \in 0 .. Len(question.chunks)] ==
                     IF k = 0 THEN 0 ELSE sum[k - 1] + question.chunks[k]
               IN  /\ \A k \in 1 .. last - 1 : w.out[k] = maxLineLen
                   /\ w.out[last] =< maxLineLen
                   /\ (last - 1) * maxLineLen + w.out[last] = sum[Len(question.chunks)]
    <3>1. /\ question.kind = "base64" /\ answer[1] = base64Lines(question.chunks)
          /\ question.chunks \in Seq(Nat)
      BY <2>1, QuestionsAssumption DEF Asked, Honest, Answer
    <3>2. PICK c, w : c = question.chunks /\ w = base64Lines(c) /\ answer[1] = w /\ c \in Seq(Nat)
      BY <3>1
    <3>3. FullLines(w) /\ Written(w) = RunningTotal(c)[Len(c)]
      BY <3>2, ChunksWritten
    <3> QED
      BY <3>2, <3>3 DEF FullLines, Written, RunningTotal
  <2>2. ASSUME Asked("header")
        PROVE  LET joint == unfold(whole(question.values))
                   first == maxLineLen - question.keyLen - 2
               IN  /\ unfold(answer[1]) \in {joint, <<" ">> \o joint}
                   /\ Len(question.values) = 1 /\ first > 0
                        /\ FitsAsItIs(question.values[1], first) =>
                        answer[1] = question.values[1]
    <3>1. /\ question.kind = "header"
          /\ answer[1] = writeHeader(question.keyLen, question.values)
          /\ question.keyLen \in Nat /\ question.values \in Seq(Seq(STRING))
      BY <2>2, QuestionsAssumption DEF Asked, Honest, Answer
    <3>2. unfold(answer[1]) \in {unfold(whole(question.values)),
                                 <<" ">> \o unfold(whole(question.values))}
      BY <3>1, HeaderKeeps DEF Cat
    <3>3. ASSUME Len(question.values) = 1, maxLineLen - question.keyLen - 2 > 0,
                 FitsAsItIs(question.values[1], maxLineLen - question.keyLen - 2)
          PROVE  answer[1] = question.values[1]
      BY <3>1, <3>3, HeaderAsItIs
    <3> QED
      BY <3>2, <3>3
  <2> QED
    BY <2>1, <2>2 DEF LinesKeepText
<1> QED
  BY <1>1, AnswersHonestly, PTL

-----------------------------------------------------------------------------
(* Addresses.                                                              *)

\* That as many addresses are in the list as are counted.
Tallies(v) == IsSequence(v.list) /\ v.n = Len(v.list)
Counted(a) == a.ok => Tallies(a.val)

\* None, and one.
LEMMA FewTally ==
    /\ Tallies([n |-> 0, list |-> << >>])
    /\ \A at, name, spec : Counted(One(at, name, spec))
    /\ \A at : Counted(Fails(at))
<1>1. Tallies([n |-> 0, list |-> << >>])
  BY EmptyIs DEF Tallies
<1>2. ASSUME NEW at, NEW name, NEW spec
      PROVE  Counted(One(at, name, spec))
  <2>1. PICK x : x = [Name |-> name, Address |-> spec]
    OBVIOUS
  <2>2. IsSequence(<<x>>) /\ Len(<<x>>) = 1
    BY TuplesAre
  <2>3. One(at, name, spec).val = [n |-> 1, list |-> <<x>>]
    BY <2>1 DEF One, Ok
  <2> QED
    BY <2>2, <2>3 DEF Counted, Tallies
<1>3. \A at : Counted(Fails(at))
  BY DEF Counted, Fails
<1> QED
  BY <1>1, <1>2, <1>3

\* Those of two lists in one.
LEMMA JoinedTally ==
    ASSUME NEW v, Tallies(v), NEW w, Tallies(w)
    PROVE  Tallies(joined(v, w))
<1>1. PICK u : u = v.list \o w.list /\ Joins(u, v.list, w.list)
  BY DEF Joins
<1>2. IsSequence(u) /\ Len(u) = Len(v.list) + Len(w.list)
  BY <1>1, ConcatIs DEF Tallies
<1>3. PICK j : j = joined(v, w)
  OBVIOUS
<1>4. j.n = v.n + w.n /\ j.list = u
  BY <1>1, <1>3 DEF joined
<1>5. v.n = Len(v.list) /\ w.n = Len(w.list)
  BY DEF Tallies
<1> QED
  BY <1>2, <1>3, <1>4, <1>5 DEF Tallies

\* An addr-spec with a comment behind it, and one in angles.
LEMMA SpecsCounted ==
    /\ \A s, spec, i : Counted(namedBehind(s, spec, i))
    /\ \A s, i, name : Counted(angleAddr(s, i, name))
<1>1. ASSUME NEW s, NEW spec, NEW i
      PROVE  Counted(namedBehind(s, spec, i))
  <2>1. PICK c : c = consumeDisplayNameComment(s, i)
    OBVIOUS
  <2>2. CASE ~peek(s, i, "(")
    BY <2>2, FewTally DEF namedBehind
  <2>3. CASE peek(s, i, "(") /\ ~c.ok
    BY <2>1, <2>3 DEF namedBehind, Then, IfOk, Counted
  <2>4. CASE peek(s, i, "(") /\ c.ok
    BY <2>1, <2>4, FewTally DEF namedBehind, Then, IfOk
  <2> QED
    BY <2>2, <2>3, <2>4
<1>2. ASSUME NEW s, NEW i, NEW name
      PROVE  Counted(angleAddr(s, i, name))
  <2>1. PICK a : a = consumeAddrSpec(s, i + 1)
    OBVIOUS
  <2>2. CASE ~peek(s, i, "<")
    BY <2>2, FewTally DEF angleAddr
  <2>3. CASE peek(s, i, "<") /\ ~a.ok
    BY <2>1, <2>3 DEF angleAddr, Then, IfOk, Counted
  <2>4. CASE peek(s, i, "<") /\ a.ok
    BY <2>1, <2>4, FewTally DEF angleAddr, Then, IfOk
  <2> QED
    BY <2>2, <2>3, <2>4
<1> QED
  BY <1>1, <1>2

\* A member of a group.
LEMMA MemberCounted ==
    ASSUME NEW s, NEW i
    PROVE  Counted(memberAndCFWS(s, i))
<1>1. PICK a : a = parseMember(s, i)
  OBVIOUS
<1>2. Counted(a)
  <2>1. PICK b : b = skipSpace(s, i)
    OBVIOUS
  <2>2. PICK spec, name : spec = consumeAddrSpec(s, b) /\ name = displayName(s, b)
    OBVIOUS
  <2>3. PICK j : j = skipSpace(s, name.at)
    OBVIOUS
  <2>4. a = IF empty(s, b) THEN Fails(b)
            ELSE IF spec.ok THEN namedBehind(s, spec, skipSpace(s, spec.at))
            ELSE IF ~name.ok THEN name
            ELSE IF peek(s, j, ":") THEN Fails(j + 1)
            ELSE angleAddr(s, j, name.val)
    BY <1>1, <2>1, <2>2, <2>3 DEF parseMember, AddressOr, IfOk, Then
  <2>5. ~name.ok => Counted(name)
    BY DEF Counted
  <2> QED
    BY <2>4, <2>5, FewTally, SpecsCounted
<1>3. PICK c : c = skipCFWS(s, a.at)
  OBVIOUS
<1>4. memberAndCFWS(s, i) = IF ~a.ok THEN a ELSE IF ~c.ok THEN c ELSE Ok(c.at, a.val)
  BY <1>1, <1>3 DEF memberAndCFWS, Then, IfOk
<1>5. PICK m : m = memberAndCFWS(s, i)
  OBVIOUS
<1>6. CASE a.ok /\ c.ok
  <2>1. m.val = a.val
    BY <1>4, <1>5, <1>6 DEF Ok
  <2> QED
    BY <1>2, <1>5, <1>6, <2>1 DEF Counted
<1>7. CASE ~(a.ok /\ c.ok)
  BY <1>4, <1>7 DEF Counted
<1> QED
  BY <1>6, <1>7

\* What is there of a group after each of n rounds.
IsGrouping(g, s, b, n) ==
    g = [k \in 0 .. n |->
           IF k = 0 THEN MoreOf(Ok(b, [n |-> 0, list |-> << >>])) ELSE oneMember(s, g[k - 1])]

\* What the recursive function in consumeGroupList defines exists.
LEMMA GroupingExists ==
    ASSUME NEW s, NEW b, NEW n \in Nat
    PROVE  \E g : IsGrouping(g, s, b, n)
<1> DEFINE Start == MoreOf(Ok(b, [n |-> 0, list |-> << >>]))
           X == {k \in Nat : ~ \E g : IsGrouping(g, s, b, k)}
<1>1. SUFFICES ASSUME X # {} PROVE FALSE
  OBVIOUS
<1>2. PICK k \in X : \A j \in X : k =< j
  BY <1>1, LeastNatural
<1>3. k # 0
  <2> SUFFICES ASSUME k = 0 PROVE FALSE
    OBVIOUS
  <2> DEFINE g == [j \in 0 .. 0 |-> Start]
  <2>1. IsGrouping(g, s, b, 0)
    BY DEF IsGrouping
  <2> QED
    BY <2>1
<1>4. PICK g : IsGrouping(g, s, b, k - 1)
  BY <1>2, <1>3
<1> DEFINE longer == [j \in 0 .. k |-> IF j = k THEN oneMember(s, g[k - 1]) ELSE g[j]]
<1>5. ASSUME NEW j \in 0 .. k
      PROVE  longer[j] = IF j = 0 THEN Start ELSE oneMember(s, longer[j - 1])
  <2>1. CASE j = 0
    BY <1>3, <1>4, <2>1 DEF IsGrouping
  <2>2. CASE j # 0
    <3>1. longer[j - 1] = g[j - 1]
      BY <2>2
    <3>2. j # k => g[j] = oneMember(s, g[j - 1])
      BY <1>4, <2>2 DEF IsGrouping
    <3> QED
      BY <2>2, <3>1, <3>2
  <2> QED
    BY <2>1, <2>2
<1>6. IsGrouping(longer, s, b, k)
  <2> HIDE DEF longer
  <2>1. longer = [j \in 0 .. k |-> IF j = 0 THEN Start ELSE oneMember(s, longer[j - 1])]
    <3>1. longer = [j \in 0 .. k |-> longer[j]]
      BY DEF longer
    <3> QED
      BY <1>5, <3>1
  <2> QED
    BY <2>1 DEF IsGrouping
<1> QED
  BY <1>2, <1>6

\* That is so after every round, where the group has not failed.
LEMMA RoundCounted ==
    ASSUME NEW s, NEW g, Counted(g.group), g.more => g.group.ok
    PROVE  LET h == oneMember(s, g) IN Counted(h.group) /\ (h.more => h.group.ok)
<1>1. PICK a, h : a = memberAndCFWS(s, g.group.at) /\ h = oneMember(s, g)
  OBVIOUS
<1>2. PICK total : total = joined(g.group.val, a.val)
  OBVIOUS
<1>3. CASE ~g.more
  <2>1. h = g
    BY <1>1, <1>3 DEF oneMember
  <2> QED
    BY <1>1, <1>3, <2>1
<1>4. CASE g.more /\ ~a.ok
  <2>1. h = [more |-> FALSE, group |-> a]
    BY <1>1, <1>4 DEF oneMember, afterMember, EndedAs
  <2> QED
    BY <1>1, <1>4, <2>1 DEF Counted
<1>5. CASE g.more /\ a.ok
  <2>1. Tallies(total)
    <3>1. Tallies(g.group.val)
      BY <1>5 DEF Counted
    <3>2. Tallies(a.val)
      BY <1>1, <1>5, MemberCounted DEF Counted
    <3> QED
      BY <1>2, <3>1, <3>2, JoinedTally
  <2>2. PICK x, y : x = Ok(skipCFWS(s, a.at + 1).at, total) /\ y = Ok(a.at + 1, total)
    OBVIOUS
  <2>3. h \in {[more |-> FALSE, group |-> x], [more |-> TRUE, group |-> y],
               [more |-> FALSE, group |-> Fails(a.at)]}
    BY <1>1, <1>2, <1>5, <2>2 DEF oneMember, afterMember, EndedAs, MoreOf
  <2>4. x.val = total /\ y.val = total /\ y.ok
    BY <2>2 DEF Ok
  <2>5. Counted(x) /\ Counted(y) /\ Counted(Fails(a.at))
    BY <2>1, <2>4, FewTally DEF Counted
  <2> QED
    BY <1>1, <2>3, <2>4, <2>5
<1> QED
  BY <1>3, <1>4, <1>5

\* A group.
LEMMA GroupCounted ==
    ASSUME NEW s, IsSequence(s), NEW i
    PROVE  Counted(consumeGroupList(s, i))
<1> DEFINE n == Len(s) + 1
           b == skipSpace(s, i)
           g == CHOOSE g : IsGrouping(g, s, b, n)
           Good(k) == Counted(g[k].group) /\ (g[k].more => g[k].group.ok)
           X == {k \in 0 .. n : ~ Good(k)}
<1>1. n \in Nat
  BY DEF IsSequence
<1>2. consumeGroupList(s, i) =
        IF peek(s, b, ";") THEN Ok(skipCFWS(s, b + 1).at, [n |-> 0, list |-> << >>])
        ELSE g[n].group
  BY DEF consumeGroupList, IsGrouping
<1>3. IsGrouping(g, s, b, n)
  BY <1>1, GroupingExists
<1> HIDE DEF n, b, g
<1>4. g[0] = MoreOf(Ok(b, [n |-> 0, list |-> << >>]))
  BY <1>1, <1>3 DEF IsGrouping
<1>5. \A k \in 1 .. n : g[k] = oneMember(s, g[k - 1])
  BY <1>1, <1>3 DEF IsGrouping
<1>6. \A at : Counted(Ok(at, [n |-> 0, list |-> << >>]))
  BY FewTally DEF Counted, Ok
<1>7. Good(0)
  BY <1>4, <1>6 DEF MoreOf, Ok
<1>8. ASSUME NEW k \in 1 .. n, Good(k - 1)
      PROVE  Good(k)
  BY <1>5, <1>8, RoundCounted
<1> HIDE DEF Good
<1>9. X = {}
  <2> SUFFICES ASSUME X # {} PROVE FALSE
    OBVIOUS
  <2>1. PICK k \in X : \A j \in X : k =< j
    <3>1. X \in SUBSET Nat
      BY <1>1
    <3> QED
      BY <3>1, LeastNatural
  <2>2. k # 0 /\ k - 1 \in 0 .. n /\ Good(k - 1)
    BY <1>1, <1>7, <2>1
  <2> QED
    BY <1>1, <1>8, <2>1, <2>2
<1>10. Counted(g[n].group)
  BY <1>1, <1>9 DEF Good
<1> QED
  BY <1>2, <1>6, <1>10

\* A whole text.
LEMMA WholeCounted ==
    ASSUME NEW s, IsSequence(s)
    PROVE  Counted(wholeText(s))
<1>1. PICK a, c : a = parseAddress(s, 1) /\ c = skipCFWS(s, a.at)
  OBVIOUS
<1>2. Counted(a)
  <2>1. PICK b : b = skipSpace(s, 1)
    OBVIOUS
  <2>2. PICK spec, name : spec = consumeAddrSpec(s, b) /\ name = displayName(s, b)
    OBVIOUS
  <2>3. PICK j : j = skipSpace(s, name.at)
    OBVIOUS
  <2>4. a = IF empty(s, b) THEN Fails(b)
            ELSE IF spec.ok THEN namedBehind(s, spec, skipSpace(s, spec.at))
            ELSE IF ~name.ok THEN name
            ELSE IF peek(s, j, ":") THEN consumeGroupList(s, j + 1)
            ELSE angleAddr(s, j, name.val)
    BY <1>1, <2>1, <2>2, <2>3 DEF parseAddress, AddressOr, IfOk, Then
  <2>5. ~name.ok => Counted(name)
    BY DEF Counted
  <2> QED
    BY <2>4, <2>5, FewTally, SpecsCounted, GroupCounted
<1>3. PICK w : w = wholeText(s)
  OBVIOUS
<1>4. w = IF ~a.ok THEN a ELSE IF ~c.ok THEN c ELSE IF empty(s, c.at) THEN a ELSE Fails(c.at)
  BY <1>1, <1>3 DEF wholeText, Then, IfOk
<1> QED
  BY <1>2, <1>3, <1>4, FewTally DEF Counted

\* Whether a text verifies as one address and whether it parses as one is the
\* same, although the one counts and the other collects (address.go:271-324).
THEOREM VerifyIsParse == Spec => []VerifyAgrees
<1>1. Honest => VerifyAgrees
  <2> SUFFICES ASSUME Honest, Asked("address")
               PROVE  answer[1].verified <=> answer[1].one.ok
    BY DEF VerifyAgrees
  <2>1. PICK s : s = question.text /\ IsSequence(s)
    BY QuestionsAssumption DEF Honest, Asked
  <2>2. answer[1].verified = verifySingleAddress(s) /\ answer[1].one = parseSingleAddress(s)
    BY <2>1 DEF Honest, Asked, Answer
  <2>3. PICK a : a = wholeText(s) /\ Counted(a)
    BY <2>1, WholeCounted
  <2>4. verifySingleAddress(s) = IF a.ok THEN a.val.n = 1 ELSE FALSE
    BY <2>3 DEF verifySingleAddress, IfOk
  <2>5. parseSingleAddress(s) =
          IF a.ok THEN IF Len(a.val.list) = 1 THEN Ok(a.at, a.val.list[1]) ELSE Fails(a.at)
          ELSE a
    BY <2>3 DEF parseSingleAddress, Then, IfOk
  <2>6. CASE ~a.ok
    BY <2>2, <2>4, <2>5, <2>6
  <2>7. CASE a.ok
    <3>1. a.val.n = Len(a.val.list)
      BY <2>3, <2>7 DEF Counted, Tallies
    <3>2. parseSingleAddress(s).ok <=> Len(a.val.list) = 1
      BY <2>5, <2>7 DEF Ok, Fails
    <3> QED
      BY <2>2, <2>4, <2>7, <3>1, <3>2
  <2> QED
    BY <2>6, <2>7
<1> QED
  BY <1>1, AnswersHonestly, PTL
=============================================================================

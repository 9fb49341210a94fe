----------------------------- MODULE Algorithms -----------------------------
(***************************************************************************)
(* The pure functions of the program against what they are for: Split and  *)
(* NewMergedOptions of the batcher package, how emailtemplate merges its   *)
(* data and renders a message, the address parser, and how the SMTP driver *)
(* prepares, writes and sends messages, given what the server answers.  A  *)
(* behaviour asks one question of one of them and has its answer.          *)
(***************************************************************************)
EXTENDS BatchOptions, TemplateRender, MimeMessage, SmtpSend
LOCAL INSTANCE SequencesExt

CONSTANTS Questions,  \* the questions, records with a field kind
          Counts      \* the numbers of items and of handlers that limits are tried on

IsSequence(s) == s \in Seq({s[k] : k \in DOMAIN s})

\* What a question is about: numbers and options for the batcher package, a
\* text for the address parser, sequences of messages, of addresses and files
\* in a message, of header values and of chunks for the SMTP driver.
ASSUME QuestionsAssumption ==
    \A q \in Questions :
        /\ q.kind = "split" => q.n \in Nat /\ q.opts \in Options
        /\ q.kind = "merge" => q.opts \in Options /\ q.other \in Options
        /\ q.kind = "smtp"  => IsSequence(q.msgs)
        /\ q.kind = "address" => IsSequence(q.text)
        /\ q.kind = "mime"  => \A m \in {q.before, q.msg} :
                                  /\ IsSequence(m.To) /\ IsSequence(m.Cc) /\ IsSequence(m.ReplyTo)
                                  /\ IsSequence(m.Attachments)
        /\ q.kind = "header" => q.keyLen \in Nat /\ q.values \in Seq(Seq(STRING))
        /\ q.kind = "base64" => q.chunks \in Seq(Nat)

ASSUME CountsAssumption == Counts \subseteq Nat

VARIABLES question,
          answer     \* << >>, then the answer alone

Init == question \in Questions /\ answer = << >>

\* What became of a message that was prepared: it was written, or not.
Used(m, sent, options) == IF m.ok /\ sent THEN withOptions(m, options) ELSE m

\* A message that was used before, to send something or in vain, and given
\* back to the pool.
Pooled(before, sent, options) ==
    reset(Used(prepare(newMessage, before), sent, options))

\* A message that was prepared, what is sent of it and what is written then.
Prepared(m, options) ==
    [prepared |-> m, sent |-> withOptions(m, options),
     written |-> IF m.ok THEN WriteTo(withOptions(m, options)).out ELSE << >>]

Answer(q) ==
    CASE q.kind = "split"  -> Split(q.n, q.opts)
      [] q.kind = "merge"  -> NewMergedOptions(q.opts, q.other)
      [] q.kind = "data"   -> renderData(q.general, q.template, q.version, q.message)
      [] q.kind = "render" -> Execute(q.version, q.in)
      [] q.kind = "address" -> [one |-> parseSingleAddress(q.text), list |-> parseAddressList(q.text),
                                verified |-> verifySingleAddress(q.text)]
      [] q.kind = "smtp"   -> SendBatch(q.msgs)
      [] q.kind = "mime"   ->
           Prepared(prepare(Pooled(q.before, q.sent, q.options), q.msg), q.options)
      [] q.kind = "header" -> writeHeader(q.keyLen, q.values)
      [] q.kind = "base64" -> base64Lines(q.chunks)

Ask ==
    /\ answer = << >>
    /\ answer' = <<Answer(question)>>
    /\ UNCHANGED question

Answered == answer # << >> /\ UNCHANGED <<question, answer>>

Next == Ask \/ Answered
Spec == Init /\ [][Next]_<<question, answer>>

Asked(kind) == question.kind = kind /\ answer # << >>
-----------------------------------------------------------------------------
\* Split asks for no more than it was given, in at most MaxHandlers batches of
\* MaxBatchSize or less and MinBatchSize or more (unless that is above the
\* maximum), and leaves over only what no further batch may hold
\* (batcher.go:37-61).
SplitWithinLimits ==
    Asked("split") =>
        LET o     == newOptionsWithDefaults(question.opts)
            sizes == answer[1]
            sum[k \in 0 .. Len(sizes)] == IF k = 0 THEN 0 ELSE sum[k - 1] + sizes[k]
            rest  == question.n - sum[Len(sizes)]
        IN  /\ rest >= 0
            /\ Len(sizes) =< o.MaxHandlers
            /\ \A k \in 1 .. Len(sizes) :
                 /\ o.MaxBatchSize > 0 => sizes[k] =< o.MaxBatchSize
                 /\ sizes[k] >= o.MinBatchSize \/ sizes[k] = o.MaxBatchSize
            /\ rest > 0 => rest < o.MinBatchSize \/ Len(sizes) = o.MaxHandlers

\* Whether a batch of k items is within o, whose zeros are no limits.
Allows(o, k) ==
    /\ o.MinBatchSize =< k
    /\ o.MaxBatchSize > 0 => k =< o.MaxBatchSize

\* The merged options allow the batches that both allow, and no others, and
\* as many handlers as the stricter one (batcher.go:116-141).
MergedAllowsBoth ==
    Asked("merge") =>
        LET o == question.opts  p == question.other  m == answer[1] IN
        /\ \A k \in Counts : Allows(m, k) <=> Allows(o, k) /\ Allows(p, k)
        /\ \A h \in Counts :
             (m.MaxHandlers > 0 => h =< m.MaxHandlers)
               <=> /\ o.MaxHandlers > 0 => h =< o.MaxHandlers
                   /\ p.MaxHandlers > 0 => h =< p.MaxHandlers

\* A sub-template sees the data of the message, where that has none of a key
\* the default of its version, then of its template, then the general data
\* (template.go:201-203, 221-223).
DataLayers ==
    Asked("data") =>
        LET layers == <<question.message, question.version,
                        question.template, question.general>>
            data   == answer[1]
        IN  /\ DOMAIN data = UNION {DOMAIN layers[j] : j \in 1 .. 4}
            /\ \A k \in DOMAIN data :
                 \E j \in 1 .. 4 :
                    /\ k \in DOMAIN layers[j] /\ data[k] = layers[j][k]
                    /\ \A i \in 1 .. j - 1 : k \notin DOMAIN layers[i]

\* A text passes the verification of a single address exactly if it parses as
\* one, groups included; the two count what they found in different ways
\* (address.go:271-324).
VerifyAgrees ==
    Asked("address") => (answer[1].verified <=> answer[1].one.ok)

\* Writing an address that was parsed, with whatever quotes its name and local
\* part need, and parsing that gives the same address; so does a list of
\* addresses joined by commas, and, where the local part needs no quotes, the
\* form in which a header has it (address.go:81-138, 202-291,
\* message.go:123-151).
AddressRoundTrip ==
    Asked("address") =>
        LET one == answer[1].one  list == answer[1].list IN
        /\ one.ok => parseSingleAddress(AddressString(one.val)).val = one.val
        /\ one.ok /\ ~quoteLocal(LocalPart(one.val)) =>
             parseSingleAddress(formatAddress(newMessage, one.val)).val = one.val
        /\ list.ok =>
             LET whole == FlattenSeq([k \in DOMAIN list.val |->
                           AddressString(list.val[k]) \o <<",", " ">>])
             IN  list.val # << >> => parseAddressList(whole).val = list.val

\* A message goes to all of its recipients or to none, and the event that a
\* subscriber receives of it says which: sent only if the server took it for
\* all, a bounce, with those that refused, only if for none.  Without an event
\* it was not sent, or nobody knows, or the event could not be published, and
\* only the last message of a batch that failed is without one
\* (smtp_sender.go:47-149, message_sender.go:54-62, 181-217).
AllOrNobody ==
    Asked("smtp") =>
        \A k \in DOMAIN answer[1] :
            LET o == answer[1][k]  m == question.msgs[k]
                refused == {j \in DOMAIN m.to : Refused(m.script.rcpt[m.to[j]])}
            IN  /\ o.event.Type = "send" => o.taken = "yes" /\ refused = {}
                /\ o.event.Type = "bounce" =>
                     /\ o.taken = "no" /\ refused # {}
                     /\ DOMAIN o.event.recipients = refused
                     /\ \A j \in refused : o.event.recipients[j].Email = m.to[j]
                /\ o.event.Type = "none" =>
                     /\ o.taken = "yes" => m.script.publish # "ok"
                     /\ k = Len(answer[1])
                /\ o.taken # "no" => refused = {}
                /\ Len(answer[1]) < Len(question.msgs) =>
                     answer[1][Len(answer[1])].event.Type = "none"

\* The connection goes back to the pool between two transactions, whatever
\* the server answered, as long as it can be reset: only a message that could
\* not be written leaves it in the middle of its data
\* (smtp_sender.go:58-62, 96, 115, 124, 134-141).
ConnectionReusable ==
    Asked("smtp") =>
        \A k \in DOMAIN answer[1] :
            LET o == answer[1][k]  script == question.msgs[k].script IN
            script.reset = "ok" /\ ~o.panics /\ script.mail # "eof" =>
                o.at = "idle" \/ (o.at = "data" /\ script.write = "error")

\* A message from the pool is prepared as a new one, or as one that is new but
\* for the charset and the encoding of the last message sent: these show, in
\* the encoded words of the header and in the parts, and nothing else, no
\* recipient, file or header (message.go:51-100, 206-211, 274-326,
\* smtp_sender.go:128-132).
PooledLikeNew ==
    Asked("mime") =>
        \E new \in {newMessage, withOptions(newMessage, question.options)} :
            answer[1].prepared = prepare(new, question.msg)

\* The positions of the events of a kind.
Are(out, e) == {k \in DOMAIN out : out[k].event = e}

\* The events of a kind are those of all the names, once each and in their order.
AllOf(out, e, names) ==
    \E p \in 0 .. Len(out) :
        /\ Are(out, e) = p + 1 .. p + Len(names)
        /\ \A j \in DOMAIN names : out[p + j].of = names[j]

\* An event is within a multipart, or in it and in no other one that is in it.
Inside(stack, type)     == \E d \in DOMAIN stack : stack[d] = type
DirectlyIn(stack, type) == stack # << >> /\ stack[Len(stack)] = type

\* A multipart that is opened or closed is opened once and closed once, and
\* what is inside stands between that.
Nested(out, type) ==
    LET Of(e) == {k \in Are(out, e) : out[k].of = type}
    IN  Of("open") \cup Of("close") # {} =>
          \E first, last \in DOMAIN out :
             /\ Of("open") = {first} /\ Of("close") = {last}
             /\ \A k \in DOMAIN out : Inside(out[k].in, type) <=> k \in first + 1 .. last

\* out is one entity with all that m has.
OneEntity(out, m) ==
    LET Top == {k \in DOMAIN out : out[k].event # "close" /\ out[k].in = << >>}
        Multiparts == {"mixed", "related", "alternative"}
    IN  /\ \A k \in Are(out, "open") \cup Are(out, "close") : out[k].of \in Multiparts
        /\ \A type \in Multiparts : Nested(out, type)
        /\ (\E k \in DOMAIN out : Top = {k})
           \/ (m.parts = << >> /\ Len(m.attachments) = 1 /\ m.embedded # << >>)
        /\ AllOf(out, "body", Bodies(m.parts, m.charset))
        /\ AllOf(out, "inline", Filenames(m.embedded))
        /\ AllOf(out, "attachment", Filenames(m.attachments))
        /\ m.parts # << >> =>
             /\ \A k \in Are(out, "attachment") : out[k].in = <<"mixed">>
             /\ \A k \in Are(out, "inline") : DirectlyIn(out[k].in, "related")
             /\ Len(m.parts) > 1 =>
                  \A k \in Are(out, "body") : DirectlyIn(out[k].in, "alternative")

\* What is written is one MIME entity: one thing at the top, every multipart
\* opened and closed once, around all that is in it; the bodies, the files to show and the
\* attachments are all there, in their order; the bodies are the alternatives
\* of each other, files that the body shows are related to it, and attachments
\* are beside them (writer.go:73-190).  Except where one attachment comes with
\* files to show and no body: it is written behind them, at the top.
WellNested ==
    Asked("mime") /\ answer[1].written # << >> =>
        OneEntity(answer[1].written, answer[1].sent)

\* A text without its line breaks.
unfold(s) ==
    LET u[k \in 0 .. Len(s)] ==
          IF k = 0 THEN << >>
          ELSE IF s[k] \in {"\r", "\n"} THEN u[k - 1] ELSE Append(u[k - 1], s[k])
    IN  u[Len(s)]

\* The values of a field, in one.
whole(values) ==
    LET w[k \in 0 .. Len(values)] ==
          IF k = 0 THEN << >>
          ELSE w[k - 1] \o (IF k = 1 THEN << >> ELSE <<",", " ">>) \o values[k]
    IN  w[Len(values)]

\* The first of the lines of s fits into so many characters, and all of them
\* into a line.
FitsAsItIs(s, first) ==
    LET InALine(i, j) == \A k \in i .. j - 1 : s[k] # "\n" IN
    /\ \A j \in DOMAIN s : InALine(1, j) => j =< first
    /\ \A i, j \in DOMAIN s : i =< j /\ InALine(i, j) => j - i + 1 =< maxLineLen - 1

\* Base64 comes in full lines and a last one within the limit, with nothing
\* lost.  A header field says the same when the line breaks are taken out, of
\* it and of its values, behind at most a space; and a value that has the
\* line breaks it needs, as the Content-Type of a multipart has, gets no others
\* (writer.go:163-170, 198-272, 327-341).
LinesKeepText ==
    /\ Asked("base64") =>
         LET w    == answer[1]
             last == Len(w.out)
             chunksTo[k \in 0 .. Len(question.chunks)] ==
               IF k = 0 THEN 0 ELSE chunksTo[k - 1] + question.chunks[k]
         IN  /\ \A k \in 1 .. last - 1 : w.out[k] = maxLineLen
             /\ w.out[last] =< maxLineLen
             /\ (last - 1) * maxLineLen + w.out[last] = chunksTo[Len(question.chunks)]
    /\ Asked("header") =>
         LET joint == unfold(whole(question.values))
             first == maxLineLen - question.keyLen - 2
         IN  /\ unfold(answer[1]) \in {joint, <<" ">> \o joint}
             /\ Len(question.values) = 1 /\ first > 0 /\ FitsAsItIs(question.values[1], first) =>
                  answer[1] = question.values[1]

(* What the comments say beyond that.                                      *)

\* "Bcc is a list of the blind carbon copy email recipients"
\* (driver/templated_message.go:44): those the caller gave are recipients of
\* the message.
BccKept ==
    Asked("render") /\ answer[1].ok =>
        \A k \in 1 .. Len(question.in.Bcc) : question.in.Bcc[k] # Empty =>
            \E j \in 1 .. Len(answer[1].msg.Bcc) :
                answer[1].msg.Bcc[j] = question.in.Bcc[k]

\* "BounceTypeTransient indicates a transient bounce", "BounceTypePermanent
\* indicates a permanent bounce" (driver/delivery_subscription.go:109-112):
\* the event of a message that all its recipients refuse for a soft reason is
\* of the first type, for a hard one of the second.
BounceTypeTold ==
    Asked("smtp") =>
        \A k \in DOMAIN answer[1] :
            LET rcpt == question.msgs[k].script.rcpt
                bounced == {r \in DOMAIN rcpt : Refused(rcpt[r])}
                Each(type) == \A r \in bounced : bounceStatusMap(status(rcpt[r])).Type = type
            IN  answer[1][k].event.Type = "bounce" =>
                    /\ Each(softBounce) => answer[1][k].event.bounceType = Transient
                    /\ Each(hardBounce) => answer[1][k].event.bounceType = Permanent

\* "Encoding determines the Content-Transfer-Encoding of the message body"
\* (smtpemail/urls.go:172).
BodyAsAsked ==
    Asked("mime") =>
        \A k \in DOMAIN answer[1].sent.parts :
            answer[1].sent.parts[k].encoding = question.options.Encoding

\* "The headers will still be encoded using quoted-printable encoding"
\* (smtpemail/urls.go:152-153): their encoded words name an encoding that
\* there is.
HeadersReadable ==
    Asked("mime") =>
        LET header == answer[1].sent.header IN
        \A field \in DOMAIN header : \A k \in DOMAIN header[field] :
            header[field][k] = "=?" => header[field][k + 3] \in {"q", "b"}

\* "So the plain text part should be added before the HTML part"
\* (smtpemail/message.go:185).
PlainBeforeHtml ==
    Asked("mime") =>
        LET parts == answer[1].sent.parts IN
        \A j, k \in DOMAIN parts :
            parts[j].contentType = "text/plain" /\ parts[k].contentType = "text/html" => j < k
=============================================================================

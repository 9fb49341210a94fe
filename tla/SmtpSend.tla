------------------------------ MODULE SmtpSend ------------------------------
(***************************************************************************)
(* A batch sent by the SMTP driver of src/email/smtpemail: the dialogue of *)
(* each message with the server, the classification of what it refuses,    *)
(* the delivery event that is published and what a subscriber gets of it.  *)
(*                                                                         *)
(* What the server and the network answer to one message is its script:    *)
(*   mail, dial   MAIL FROM: "ok", "eof", "error"; then dialling again     *)
(*   rcpt         for each recipient a record whose kind is "ok", "io"     *)
(*                (the connection fails) or "refused", with a code and     *)
(*                the words of a text                                      *)
(*   data, write, close, reset, publish   "ok" or "error"; close may also  *)
(*                be "lost": the answer to the whole message is not heard  *)
(* The sender is one that has a connection.  The pool that would hand it   *)
(* out, and the dialler, whose client is always nil, are not modelled: at  *)
(* this commit nothing gets past them.                                     *)
(***************************************************************************)
EXTENDS Integers, Sequences
LOCAL INSTANCE SequencesExt
LOCAL INSTANCE FiniteSetsExt

-----------------------------------------------------------------------------
(* Reasons: a code <<"450">>, an enhanced code <<"5", ".", "1", ".", "1">>,*)
(* or bounceCodeNotFound.                                                  *)

hardBounce == 1
softBounce == 2

bounceCodeNotFound == << >>
Enhanced(class, subject, detail) == <<class, ".", subject, ".", detail>>

softCodes == {<<"421">>, <<"450">>, <<"451">>, <<"452">>}
hardCodes == {<<"500">>, <<"501">>, <<"502">>, <<"503">>, <<"504">>,
              <<"550">>, <<"551">>, <<"552">>, <<"553">>, <<"554">>}
softEnhanced ==
    {Enhanced("5", "2", d) : d \in {"0", "1", "2"}}
      \cup {Enhanced("5", "3", "1"), Enhanced("5", "4", "5"), Enhanced("5", "5", "3")}

\* The details from 0 on that are known of each subject of class 5.
Digits == <<"0", "1", "2", "3", "4", "5", "6", "7", "8", "9">>
LastDetail == [s \in {"0", "1", "2", "3", "4", "5", "6", "7"} |->
    CASE s = "0" -> 0 [] s = "1" -> 8 [] s \in {"2", "3"} -> 4
      [] s \in {"4", "7"} -> 7 [] s \in {"5", "6"} -> 5]
enhancedCodes ==
    {Enhanced("9", "1", "1")}
      \cup UNION {{Enhanced("5", s, Digits[k]) : k \in 1 .. LastDetail[s] + 1}
                  : s \in DOMAIN LastDetail}

\* A reason the map does not know has type 0 and is not specific.
bounceStatusMap(reason) ==
    [Specific |-> reason \in enhancedCodes,
     Type |-> IF reason \in softCodes \cup softEnhanced THEN softBounce
              ELSE IF reason \in hardCodes \cup enhancedCodes THEN hardBounce ELSE 0]

compare(r, o) ==
    LET self == bounceStatusMap(r).Specific  other == bounceStatusMap(o).Specific IN
    IF r = bounceCodeNotFound /\ o = bounceCodeNotFound THEN "bothNotFound"
    ELSE IF self = other THEN "equal"
    ELSE IF self THEN "moreSpecific" ELSE "lessSpecific"

\* The numbers and dots a text begins with, behind spaces, if that is a number.
extractMsgBounceReason(text) ==
    LET Word(c)  == c \notin {" ", "."} /\ \E k \in DOMAIN Digits : c = Digits[k]
        start    == SelectInSeq(text, LAMBDA c : c # " ")
        end      == CHOOSE e \in start .. Len(text) + 1 :
                      /\ \A k \in start .. e - 1 : text[k] = "." \/ Word(text[k])
                      /\ e > Len(text) \/ ~(text[e] = "." \/ Word(text[e]))
    IN  IF start = 0 \/ ~Word(text[start]) THEN bounceCodeNotFound
        ELSE SubSeq(text, start, end - 1)

-----------------------------------------------------------------------------
(* One message: sendMessage.                                               *)

Refused(reply) == reply.kind = "refused"

status(reply) ==
    LET cs == <<reply.code>>  sc == extractMsgBounceReason(reply.text) IN
    IF compare(cs, sc) = "lessSpecific" THEN sc ELSE cs

NoEvent == [Type |-> "none", bounceType |-> 0, recipients |-> << >>]
SendEvent == [NoEvent EXCEPT !.Type = "send"]

\* Where the recipients are that the server refuses.
refusedIn(to, rcpt) == {k \in DOMAIN to : Refused(rcpt[to[k]])}

\* The largest of the types of the refusals, as a driver.BounceType; and the
\* recipients that were refused, a list in their order among those of the
\* message: each stands here under the place it has there.
BounceEvent(to, rcpt) ==
    LET refused == refusedIn(to, rcpt) IN
    [Type       |-> "bounce",
     bounceType |-> Max({bounceStatusMap(status(rcpt[to[k]])).Type : k \in refused}),
     recipients |-> [k \in refused |-> [Email |-> to[k], Status |-> status(rcpt[to[k]])]]]

\* taken: whether the server has taken the message, for the recipients it
\* accepted; at: where the connection stands, "idle" between transactions.  A
\* message that could not be written stays open, and what there is of it is
\* taken if the next command on the connection ends it.
Outcome(event, ok, taken, at) ==
    [event |-> event, ok |-> ok, taken |-> taken, at |-> at, panics |-> FALSE]
Failed(at) == Outcome(NoEvent, FALSE, "no", at)

\* As it would be without a Reset.
ResetForgotten(script, at) == at

\* Where a Reset leaves the connection.
Reset(script, at) == IF script.reset = "ok" THEN "idle" ELSE at

\* An end of file is answered by dialling again, up to three times; the nil
\* client that gives panics in the next Mail.
redial(script) ==
    IF script.dial = "ok" THEN [Failed("none") EXCEPT !.panics = TRUE] ELSE Failed("none")

\* As it would be if the others were sent the message.
HasBouncedOnlyAll(to, rcpt) == refusedIn(to, rcpt) = DOMAIN to

HasBounced(to, rcpt) == refusedIn(to, rcpt) # {}

sendMessage(to, script) ==
    LET broken  == {k \in DOMAIN to : script.rcpt[to[k]].kind = "io"}
    IN  IF script.mail = "eof" THEN redial(script)
        ELSE IF script.mail = "error" THEN Failed(Reset(script, "mail"))
        ELSE IF broken # {} THEN Failed(Reset(script, "mail"))
        ELSE IF HasBounced(to, script.rcpt)
        THEN IF script.reset = "ok"
             THEN Outcome(BounceEvent(to, script.rcpt), TRUE, "no", "idle")
             ELSE Failed("mail")
        ELSE IF script.data = "error" THEN Failed(Reset(script, "mail"))
        ELSE IF script.write = "error" THEN Outcome(NoEvent, FALSE, "perhaps", "data")
        ELSE IF script.close = "ok" THEN Outcome(SendEvent, TRUE, "yes", "idle")
        ELSE Outcome(NoEvent, FALSE, IF script.close = "lost" THEN "perhaps" ELSE "no",
                     Reset(script, "data"))

-----------------------------------------------------------------------------
(* The event, to the topic and back.  A protocol type 0 is unspecified.    *)

driverEventTypeToPb(t) ==
    IF t \in {"delivered", "bounce", "delayed", "send", "fromFailure", "renderingFailure"}
    THEN t ELSE "unspecified"

protoEventTypeToDriver(t) ==
    IF t \in {"delivered", "bounce", "renderingFailure", "send", "delayed"} THEN t ELSE "none"

Transient == 1
Permanent == 2

driverBounceTypeToPb(b) ==
    CASE b = Permanent -> "permanent" [] b = Transient -> "transient" [] OTHER -> "unspecified"
protoBounceTypeToDriver(b) ==
    CASE b = "permanent" -> Permanent [] b = "transient" -> Transient [] OTHER -> 0

\* sendToTopic; the bounce is there only if it is one.
published(e) ==
    [Type |-> driverEventTypeToPb(e.Type),
     bounce |-> IF e.Type # "bounce" THEN << >>
                ELSE <<[type |-> driverBounceTypeToPb(e.bounceType),
                        recipients |-> e.recipients]>>]

\* What ReceiveBatch of the subscription makes of it.
received(p) ==
    [Type |-> protoEventTypeToDriver(p.Type),
     bounceType |-> IF p.bounce = << >> THEN 0 ELSE protoBounceTypeToDriver(p.bounce[1].type),
     recipients |-> IF p.bounce = << >> THEN << >> ELSE p.bounce[1].recipients]

-----------------------------------------------------------------------------
(* The batch.                                                              *)

\* send: the event of a message that was dealt with is published, an error of
\* which is the error of the message.
send(to, script) ==
    LET o == sendMessage(to, script) IN
    [o EXCEPT !.ok = @ /\ script.publish = "ok",
              !.event = IF o.ok /\ script.publish = "ok" THEN received(published(@)) ELSE NoEvent]

\* SendBatch, a loop over the messages that ends at the first error (so does
\* that of SendTemplatedMessageBatch, behind the templates): the outcomes of
\* those it got to.
SendBatch(msgs) ==
    LET outcomes == [k \in DOMAIN msgs |-> send(msgs[k].to, msgs[k].script)]
        failed   == SelectInSeq(outcomes, LAMBDA o : ~o.ok)
    IN  IF failed = 0 THEN outcomes ELSE SubSeq(outcomes, 1, failed)
=============================================================================

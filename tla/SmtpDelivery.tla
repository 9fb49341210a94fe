---------------------------- MODULE SmtpDelivery ----------------------------
(***************************************************************************)
(* email.DeliverySubscription on top of one of two drivers: one that       *)
(* promises no more than the interface does ("any"), and the one of        *)
(* smtpemail/delivery_subscription.go, which receives from a pubsub topic  *)
(* under a deadline of 200 ms of its own ("smtp").                         *)
(*                                                                         *)
(* The smtp ReceiveBatch takes one message after the other, however many   *)
(* were asked for, and acknowledges each before it unmarshals it; nothing  *)
(* can give an acknowledged message back.  Its errors are never retryable. *)
(***************************************************************************)
EXTENDS DeliverySubscription

VARIABLES
    driver, \* the driver of the subscription: "any" or "smtp"
    acked   \* what each running ReceiveBatch has acknowledged: its out

deliveryVars == <<vars, driver, acked>>

DeliveryInit ==
    /\ Init
    /\ driver \in {"any", "smtp"}
    /\ acked = [k \in Pieces |-> << >>]

Receiving(k) ==
    /\ driver = "smtp"
    /\ fetch = "asking" /\ k \in DOMAIN piece /\ piece[k] = "running"

\* Receive, Ack, and the body unmarshals.
SmtpReceives(k) ==
    /\ Receiving(k) /\ server # << >>
    /\ server' = Tail(server)
    /\ acked' = [acked EXCEPT ![k] = Append(@, Head(server))]
    /\ UNCHANGED <<subVars, fetchVars, rc, result, shut, history, driver>>

\* The call of piece k ends with error e, or "nil".  got also collects what a
\* failed call had acknowledged: like everything in got it is dropped when
\* the fetch ends with the error.
SmtpReturns(k, e, out) ==
    /\ piece' = [piece EXCEPT ![k] = IF e = "nil" THEN "ok" ELSE "failed"]
    /\ got' = got \o out
    /\ gotErr' = IF gotErr = "nil" THEN e ELSE gotErr
    /\ acked' = [acked EXCEPT ![k] = << >>]
    /\ UNCHANGED <<subVars, fetch, want, asks, rc, result, shut, history, driver>>

\* Receive and Ack, but the body does not unmarshal.
SmtpUnmarshalFails(k) ==
    /\ Receiving(k) /\ server # << >>
    /\ server' = Tail(server)
    /\ SmtpReturns(k, "fatal", Append(acked[k], Head(server)))

\* The deadline, or a cancellation, is seen at the top of the loop.
SmtpDone(k) ==
    /\ Receiving(k)
    /\ SmtpReturns(k, "nil", acked[k])
    /\ UNCHANGED server

\* A mutant of SmtpReceiveFails: the error is swallowed, and with it what was
\* acknowledged.
SmtpReceiveFailsSilently(k, e) ==
    /\ Receiving(k)
    /\ e = "canceled" => cancelled \/ gotErr # "nil"
    /\ SmtpReturns(k, "nil", << >>)
    /\ UNCHANGED server

\* Receive fails: the deadline passes on an idle topic, the topic is broken or
\* shut down by Close, or the call is cancelled.
SmtpReceiveFails(k, e) ==
    /\ Receiving(k)
    /\ e = "canceled" => cancelled \/ gotErr # "nil"
    /\ SmtpReturns(k, e, acked[k])
    /\ UNCHANGED server

SmtpEnds(k) ==
    \/ SmtpUnmarshalFails(k)
    \/ SmtpDone(k)
    \/ \E e \in {"fatal", "canceled"} : SmtpReceiveFails(k, e)

AnyAnswers(k) == driver = "any" /\ k \in DOMAIN piece /\ PieceAnswers(k)

DeliveryNext ==
    \/ SubscriptionStep /\ UNCHANGED <<driver, acked>>
    \/ \E k \in Pieces : AnyAnswers(k) /\ UNCHANGED <<driver, acked>>
    \/ \E k \in Pieces : SmtpReceives(k) \/ SmtpEnds(k)

DeliverySpec == DeliveryInit /\ [][DeliveryNext]_deliveryVars

\* As Fairness says of any driver.  A call of the smtp driver ends, by its
\* deadline at the latest, and pubsub does not hold messages back for ever.
DeliveryFairness ==
    /\ StepFairness
    /\ \A k \in Pieces : WF_vars(AnyAnswers(k))
    /\ SF_vars(driver = "any" /\ \E k \in DOMAIN piece, n \in 1 .. Len(server) : PieceReceives(k, n))
    /\ \A k \in Pieces : WF_deliveryVars(SmtpEnds(k))
    /\ SF_deliveryVars(\E k \in Pieces : SmtpReceives(k))

FairDeliverySpec == DeliverySpec /\ DeliveryFairness
-----------------------------------------------------------------------------
\* The types of the subscription, and of its driver: each piece of a fetch has
\* the messages that its call has acknowledged (smtpemail/
\* delivery_subscription.go:38-58).
DeliveryTypeOK ==
    /\ TypeOK
    /\ driver \in {"any", "smtp"} /\ acked \in [Pieces -> Seq(Messages)]

\* The messages a running ReceiveBatch holds.
InFlight == UNION {Elements(acked[k]) : k \in Pieces}

\* What the smtp driver has acknowledged, and nobody else will ever see, is
\* held by its call, handed on to the fetch, appended to q, or dropped by a
\* fetch that failed; and in that case the subscription is in a permanent
\* error: no event just vanishes (smtpemail/delivery_subscription.go:45-58,
\* 87, 118; delivery_subscription.go:285-291, 353-371).
NothingLostInSilence ==
    /\ Messages = Elements(server) \cup InFlight \cup Elements(got)
                    \cup Elements(arrived) \cup lost
    /\ Len(server) + Cardinality(InFlight) + Len(got) + Len(arrived)
         + Cardinality(lost) = Cardinality(Messages)
    /\ lost # {} => err # "nil"
=============================================================================

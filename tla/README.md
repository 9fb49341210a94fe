# A TLA+ verification of the blocky-cloud email package

`src/email` is a Go package in the style of the Go CDK: portable types
(`Sender`, `TemplatedSender`, `DeliverySubscription`) own the concurrency, and
drivers (`smtpemail`, `blockyemail`, `logemail`) do the I/O behind small
interfaces.  The modules here are translated from that code.  TLC checks them on
small instances, with the drivers of SMTP and of the blocky service where they
compile into something that runs.  The TLA+ proof system proves, for any number of
calls and any options, every safety invariant of the batcher, of the sender with
its driver, of the delivery subscription with its driver and of the template
store; that the batcher implements its contract; and what the pure functions
answer, whatever they are asked (all but that writing an address and parsing it
gives it back, which TLC checks).

    tlc -workers 2 -config MCBatcher.cfg MCBatcher      # a run
    tlapm BatcherProofs.tla                             # proofs, one module at a time

Run names below are those of `PROJECT.json`, which also maps every definition to
the lines it stands for, lists the hazards at their lines, and gives for each
property a mutant of the code that violates it.

## 1. Inventory

How the parts call each other:

    caller --Send--> Sender / TemplatedSender --Add--> batcher --SendBatch--> driver
    caller --Execute--> emailtemplate.ParsedTemplates --message--> Sender (smtp)
    caller --Receive--> DeliverySubscription --ReceiveBatch--> driver --> pub/sub topic

| component | state it keeps | operations | what is hard | what makes it correct |
|---|---|---|---|---|
| `email/batcher` (batcher.go) | `pending`, `nHandlers`, `shutdown` under `mu`; a `WaitGroup`; a channel of capacity 1 per item | `New`, `Add`, `AddNoWait`, `nextBatch`, `callHandler`, `Shutdown`, `Split`, `NewMergedOptions` | goroutines that start, take more work and exit while items arrive; callers that give up; Shutdown in between | order, nothing skipped or doubled, every answer reaches its caller, no full batch stranded, limits kept, Shutdown returns with nothing running |
| `email.Sender`, `email.TemplatedSender` (message_sender.go, templated_sender.go) | `mu`, `err`, `closed`, a cancellable context, the batcher, the driver | `Send`, `Shutdown`, `As`, `ErrorAs` | a lock held over a blocking call, a Shutdown with a deadline, a second Shutdown | sends are serialised, the driver is closed once and after its last call, everybody returns |
| `email.DeliverySubscription` (delivery_subscription.go) | `q`, `err`, `waitc`, `runningBatchSize`, throughput counters under `mu`; a background context | `Receive`, `getNextBatch` (a goroutine, an errgroup of `ReceiveBatch` calls), `updateBatchSize`, `Shutdown` | concurrent receivers, one shared prefetch, permanent errors, Shutdown during a fetch | each event to one receiver, in order, none lost without an error, nobody waits without a fetch, the error is permanent |
| `email/emailtemplate`, the store (template.go) | a map of templates under an `RWMutex` | `Execute`, `Get`, `GetVersion`, `Add`, `AddVersion`, `UpsertVersion`, `ReplaceData` | a recursive read lock; several versions parsed in one call | what is executed is current; a failed call changes nothing; only an upsert replaces |
| `email/emailtemplate`, rendering (template.go) | none | `mergeData`, `ParsedTemplateVersion.Execute` | defaults per field, one layer of data over another | the innermost layer wins, recipients are kept |
| `email/smtpemail` senders (message_sender.go, templated_sender.go, smtp_sender.go, dialer.go, login_auth.go) | a channel of idle connections, a dialer | `SendBatch`, `Close`, `get`, `dial` | a batch of which only some were sent; a connection given back in the middle of a message | each message sent at most once per Send, connections reusable |
| `email/smtpemail` delivery subscription | a pub/sub subscription | `ReceiveBatch`, `Close` | acknowledges before it unmarshals; a 200 ms deadline that is an error | no acknowledged event vanishes without an error |
| `email/smtpemail` bounces (bouncespy.go) | none | classification of status codes | priority among several codes, three enumerations of types | the most specific reason wins, the type survives the way to the subscriber |
| `email/smtpemail` writer (message.go, writer.go, mime.go) | a pool of messages, a stack of multiparts | `prepare`, `reset`, `WriteTo` | what is left in a pooled message; which multiparts are open | nothing of the last message shows, the parts nest as one MIME entity, breaking lines loses nothing |
| `email/smtpemail` URLs (urls.go) | none | parsing options | - | - |
| `email/blockyemail` (blocky.go) | an RPC client; the position of each file | `SendBatch`, upload of attachments in chunks, callbacks | a failure after some uploads; a file read before | a nil Send was sent, with its attachments (whole, if nothing else reads their files), callbacks once and around it |
| `email/logemail` | none | `SendBatch` logs | - | - |
| `email` address parser (address.go) | none | `Parse`, `ParseList`, `VerifyFormat`, `VerifyListFormat`, `String` | groups, comments, quoting | verifying agrees with parsing, writing and parsing give the address back |
| `email` composers, mux (message.go, templated_message.go, attachment.go, urls.go) | one struct each | setters, a registry | - | - |
| `email` address validator | none: the code is commented out | - | - | - |
| `bcerrors` | none | wrapping and codes | context errors are not wrapped | - |
| `email/driver` | interfaces | - | the contract of `Close` | no call after Close |

## 2. Modules

| module | models | role |
|---|---|---|
| `BatchOptions` | option defaults, `NewMergedOptions`, `Split` | operators, used by three modules |
| `BatchContract` | what the batcher promises, without locks or goroutines | abstract specification |
| `Batcher` | batcher.go | EXTENDS `BatchOptions`; INSTANCE of `BatchContract` |
| `BatcherProofs` | theorems about `Batcher`: counters, order, sizes, Shutdown | EXTENDS `Batcher` |
| `BatcherAnswers` | theorems about `Batcher`: items and their answers | EXTENDS `BatcherProofs` |
| `ContractProofs` | `Batcher` implements `BatchContract` | EXTENDS `BatcherAnswers` |
| `CommonLemmas` | least numbers; what `Split` answers | EXTENDS `BatchOptions`; used by three modules of proofs |
| `Sender` | message_sender.go and templated_sender.go | EXTENDS `Batcher`: the two run together |
| `BlockySender` | blocky.go as the driver of `Sender`, or any driver | EXTENDS `Sender` |
| `SenderProofs` | theorems about `Sender` and `BlockySender` | EXTENDS `BlockySender`, `BatcherAnswers` |
| `DeliverySubscription` | delivery_subscription.go | EXTENDS `BatchOptions` |
| `SmtpDelivery` | smtpemail/delivery_subscription.go as its driver, or any driver | EXTENDS `DeliverySubscription` |
| `SubscriptionProofs` | theorems about `DeliverySubscription` and `SmtpDelivery` | EXTENDS `SmtpDelivery`, `CommonLemmas` |
| `Templates` | the store of template.go and Go's `RWMutex` | |
| `TemplatesProofs` | theorems about `Templates` | EXTENDS `Templates`, `CommonLemmas` |
| `TemplateRender` | `mergeData`, `ParsedTemplateVersion.Execute` | operators |
| `AddressParser` | address.go | operators |
| `MimeMessage` | smtpemail/message.go, mime.go and writer.go | EXTENDS `AddressParser` |
| `SmtpSend` | smtp_sender.go, the batch and events of message_sender.go, bouncespy.go | operators |
| `Algorithms` | the pure functions, one question per behaviour | EXTENDS `BatchOptions`, `TemplateRender`, `MimeMessage`, `SmtpSend` |
| `AlgorithmsProofs` | theorems about all of them but one | EXTENDS `Algorithms`, `CommonLemmas` |
| `MC...` | constants for TLC | one per specification |

Operators named "a mutant of ..." in a comment are wrong variants of the
definition that follows them.  Nothing in the specifications uses them; they are
substituted to see that a property notices.

### Batcher

`pending`, `nHandlers`, `shutdown`, `wg` are the fields of `BatcherG`.  A critical
section of `b.mu` is one step: `AddNoWait` is `Refuse` or `Accept` (with the
start of a handler), the end of an iteration of `callHandler` takes the next batch
or gives up its slot, and `wg.Done` is a step of its own, for it comes after the
unlock.  The handler's call, and each send on a waiter's channel, lie outside the
lock and are separate steps.  A handler goroutine is named by the item whose
`AddNoWait` started it.  `Add` then waits for its channel or its context, and
leaves its item behind in the second case.  `byteSizeFn` stays "nil": `New` takes
the function as a parameter and never stores it.

`BatchContract` has a line, a set of running batches, an outcome for each item and
an answer for each caller.  The refinement mapping takes a batch as running from
the moment it is taken until the handler has answered.  It needs the history
variable `verdict`, since a handler reports to its items one by one after the
contract's single `Finish`.

### Sender

`Send` checks its context, takes `p.mu`, and holds it until `Batcher.Add` has
returned.  `Shutdown` locks, marks the sender closed, starts the batcher's
`Shutdown` in a goroutine, waits for it or for its context, cancels the context
of the driver calls and closes the driver.  A second `Shutdown` returns from
inside the lock, without `Unlock` (message_sender.go:131-133): `ShutLock` then
leaves `mu` with that call, and every later `locking` call waits for good.
`p.err` is never assigned in the code, so its check is not a branch here.

### BlockySender

The handler of the batcher is `driver.SendBatch`.  `BlockySender` opens it up: with
the driver "any" a `SendBatch` answers as it likes, in one step, as in `Sender`; with
"blocky" it is a walk through the messages of its batch (`at`), one step per call
to the service, a file or a callback, each of which can fail and end the
batch (`CallFails`).  A file is a reader with one position, whoever reads it:
`position` outlives a failed batch, and messages may share a file.  An attachment is
therefore sure to be whole only if no other, of the same message or of another,
has its file (`Unshared`): one that comes second is uploaded from where the first
stopped, which may be the end.  A reader may
report the end with its last bytes or after them; the code uploads an empty chunk
in the second case, which changes nothing.  `OpenGRPCMailingSender` gives no
batcher options, so that this driver only occurs with the defaults.

### DeliverySubscription

Each iteration of the loop of `Receive` is one step (`LoopError`, `LoopTake` or
`LoopWait`), with the start of a fetch in it (`Prefetch`) when the queue is
predicted to run out.  The fetch goroutine cuts the wanted number with the same
`Split` as in the code, asks for each piece in its own concurrent call, and puts
its result under the lock in `FetchEnd`.  The provider answers with any number of
events up to what was asked, or fails.  `Shutdown` is three steps, since the
lock is free between the flag, `cancel` and `Close`.

`runningBatchSize` is a float driven by measured throughput.  The model keeps it
in quarters on a grid `Sizes` and lets it move anywhere that the caps allow (at
least 3/4 of the old size, at most twice it).

### SmtpDelivery

With the driver "any" a call of `ReceiveBatch` is one step of `DeliverySubscription`.
With "smtp" it is a loop over a topic: `SmtpReceives` takes and acknowledges one
message, which from then on only the call has (`acked`); it ends with what it has
when it sees its deadline at the top of the loop (`SmtpDone`), and with an error,
and nothing, when a body does not unmarshal or the deadline passes inside
`Receive`.  The number asked for is ignored, as in the code.  Whether a body unmarshals
is free.  `NothingLostInSilence` counts every event: it is with the provider,
held by a call, on its way, in the queue or handed out, or dropped together with a
permanent error.

### Templates

`sync.RWMutex` is modelled by its two documented facts: a waiting writer keeps
new readers out, and waits for the readers inside.  `Execute` takes the read lock
and `findVersion` takes it again.  A write is atomic once it is inside, since
nothing else runs.

### Algorithms

A behaviour picks one question from `Questions` and answers it; the properties
compare the answer with a definition of what it is for.

* `AddressParser`: the parser cuts its text from the front; here each consumer takes
  the position it starts at and answers where it stops and what it found.  `After`
  and the choice of an end replace the loops over characters, and `Then` the early
  returns on an error: a consumer runs on what the one before it left.  The loop of
  `consumeGroupList` is a sequence of rounds (`oneMember`), each of which adds what it
  found to the total.
* `SmtpSend`: what the server answers to one message is a `script`, one answer per
  command; `sendMessage` follows the code through it and answers the event, whether
  the server took the message, and where it leaves the connection.  The list of the
  refused recipients is a function on their places among those of the message, since
  only who they are is asked.  The event then
  goes through the protocol's enumerations to the topic and back (`published`,
  `received`).
* `MimeMessage`: `prepare` on a message from the pool, and `WriteTo` as a sequence of
  events (a multipart opened or closed, a body, a file inline or attached), each with
  the multiparts open then.  `charset` and `encoding` are fields of the message:
  `sendMessage` sets them when it writes it (`withOptions`), `reset` leaves them, and the
  next `prepare` uses them, for the encoded words of the header (`encodeString`,
  `formatAddress`) and for its parts.  One letter stands for all characters beyond ASCII,
  which make a text an encoded word; `hEncoder`, the letter of most of these words, is the
  byte 0, since nothing assigns it.  `writeHeader` writes value after value (`writeValue`)
  and breaks each into lines (`fold`, `writeLine`), at the line breaks that the value has
  itself, as the Content-Type of every multipart does, or at spaces.  The base64 writer
  is its loop (`fillLine`), over lengths.

## 3. Runs

Passing runs:

| run | instance | shows |
|---|---|---|
| `batcher` | 3 Adds (one may give up), a Shutdown, 4 sets of options | the safety invariants; every Add returns when MinBatchSize is 1; Shutdown returns; every step is a step of the contract |
| `sender` | 2 Sends, 2 Shutdowns (one with a deadline), 4 sets of options; any driver, and blocky with a shared file of one chunk and one of two | sends are serialised; a nil Shutdown has drained the batcher; the driver is closed once; everybody returns unless a second Shutdown kept the lock; callbacks come once and around the sending; a nil Send was sent with its attachments, whole if nothing else reads their files |
| `subscription` | 3 Receives (one may give up), a Shutdown, 3 events, 4 sets of options; any driver and smtp | each event is handed out once and in order, none is lost without an error (acknowledged ones included), a waiting Receive has a fetch, all wake and return |
| `templates` | 1 Execute, 1 GetVersion, 3 writers with 2-3 choices each, 2 versions | Execute runs the current version; failed calls leave nothing; only an upsert replaces; all return but for the deadlock of the findings |
| `algorithms` | up to 6 items, limits up to 3; all layers of two keys; short lists of recipients; addresses put together of three tokens, or of a name, a local part, a domain and what follows; all scripts of a server for two recipients; messages with every mix of bodies and files, with names and subjects beyond ASCII, on a pooled message that was sent, or prepared in vain, before; headers of up to 8 characters, spaces and line breaks among them, on lines of 5 | Split, merging of options, layers of template data; verifying agrees with parsing and writing with both; a message goes to everybody or nobody and its event says which; the connection stays usable; a pooled message is as new but for the charset and encoding of the last one sent; the parts nest; lines lose nothing |

Runs that end in a counterexample, to what a comment says of the code:

| run | code | comment or doc it departs from |
|---|---|---|
| `batcher_shutdown_doc` | `Shutdown` waits for handler goroutines only; items short of `MinBatchSize` are neither sent nor refused and their Adds stay blocked | "Shutdown waits for all active calls to Add to finish" (batcher.go:277) |
| `sender_lock_doc` | a second `Shutdown` returns with `p.mu` locked (message_sender.go:131), and every later `Send` waits for good | "Send uses the mailing provider to send the input message" (message_sender.go:85) |
| `sender_close_doc` | `Shutdown` with a done context closes the driver while handlers are still to call it | "Once closed is called, there will be no method calls to the Sender ..." (driver/message.go:27) |
| `subscription_min_batch_doc` | with a `MinBatchSize` above the wanted number `Split` gives no piece; fetch after fetch asks for nothing, and no `Receive` returns though there are messages | "blocking and polling if none are available" (delivery_subscription.go:230) |
| `subscription_error_doc` | a fetch that ends after Shutdown overwrites `s.err` | "Receive will return the same error from then on" (delivery_subscription.go:239) |
| `templates_execute_doc` | a writer between the two read locks of `Execute` deadlocks with it | "Execute executes the template and returns a message" (template.go:40) |
| `bounce_type_doc` | hard and soft (1 and 2) are cast to a type where 1 is transient and 2 permanent | "BounceTypePermanent indicates a permanent bounce" (driver/delivery_subscription.go:111) |

These disagreements come out of one line of code each, or are near relatives of one
above; their configurations give a counterexample when TLC is run on them:

| configuration, property | code | comment or doc it departs from |
|---|---|---|
| `MCBatcherBytes.cfg`, `BatchByteSizeBounded` | `New` drops `byteSizeFn` (batcher.go:153), so the byte limit never applies | "Maximum bytesize of a batch" (batcher.go:96) |
| `MCSenderFlush.cfg`, `ShutdownFlushes` | with a `MinBatchSize` of 2 a `Send` waits inside `p.mu` for another one, and `Shutdown` waits for the lock (message_sender.go:130) | "Shutdown flushes pending messages and disconnects the Sender" (message_sender.go:127) |
| `MCSenderAfterSend.cfg`, `AfterSendMeansSent` | `AfterSend` is called when the service has taken the message (blocky.go:94-104), though its `Send` may return that its context is done (batcher.go:168) | "If Send returns an error, AfterSend will not be called" (driver/message.go:79) |
| `MCAlgorithmsBcc.cfg`, `BccKept` | the loop that builds `Bcc` goes over `in.Cc` (template.go:383) | "Bcc is a list of the blind carbon copy email recipients" (driver/templated_message.go:44) |
| `MCAlgorithmsEncoding.cfg`, `BodyAsAsked` | parts take the encoding of the message when it is prepared (message.go:210), before `sendMessage` sets it: that of the last message sent, or the default | "Encoding determines the Content-Transfer-Encoding of the message body" (smtpemail/urls.go:172) |
| `MCAlgorithmsWords.cfg`, `HeadersReadable` | `hEncoder` is never assigned, so that encoded words name the byte 0 as their encoding (message.go:39, 98) | "The headers will still be encoded using quoted-printable encoding" (smtpemail/urls.go:152) |
| `MCAlgorithmsPlainFirst.cfg`, `PlainBeforeHtml` | `prepare` adds the text behind the HTML (message.go:298-306) | "So the plain text part should be added before the HTML part" (message.go:185) |

### Bounds, and why they are enough

* `Items`: three Adds. One handler can be busy, one item can wait and one arrive;
  with two handlers a third item finds both slots taken.  A batch of two with one
  left over needs three.  The Sender has two, because `p.mu` lets one in at a time.
* `UserOptions` (`MCBatcher`): defaults; two handlers of single items; a minimum
  that the last item can miss together with a byte limit; a minimum above the
  maximum.
* `Impatient`, `ShortOfTime`: the calls whose context can be done; one of each, so
  that patient and impatient calls are seen side by side.
* `Receivers`, `Events`: three of each; with the pieces of a fetch cut in two, a
  fetch can come back with more, as many, or fewer events than there are waiters.
* `Sizes`: 1, 1 1/2 and 2 messages, enough for a growth, a shrink, and a wanted
  number above one; `MaxPieces` bounds the pieces of a fetch, and is the two that the
  option sets allow (`SubscriptionAssumption`: no option set allows more handlers).
* `TwoAtATime` (`MCSubscription`): with the smtp driver, whose calls take many small
  steps, the third Receive starts when the others are done; two are enough for one to
  empty the queue that woke the other.
* `files`, `fileSize`, `Hooked` (`MCSender`): one file shared by both messages, so that
  the second reads what the first has left; one of two chunks, so that an upload can
  fail half way; one message with callbacks and one without.
* `maxEmailDomainLength`, `maxEmailLocalLength` (4) and `maxLineLen` (5) are 255, 64 and
  76 in the code: small, so that texts of a few characters reach and pass them.
* `Writes` (`MCTemplates`): each writer picks among calls chosen to collide:
  the same name twice, the same version from AddVersion and UpsertVersion, and
  versions that do not parse alone or after one that does.
* `Questions`: every combination of the small numbers, around each limit; `Counts`, the
  numbers of items and handlers on which merged options are compared: 0 to 4, around
  limits up to 3.

A counter that could grow (`closes`, `wg`) is bounded by the number of calls.
No run uses symmetry, as most check liveness.

### Fairness

A goroutine that can run does (weak fairness of its own steps), a lock that is free
is taken by one who wants it, and a handler or a driver call returns: the code sets
no bound of its own there.  Nobody is obliged to call anything, or to be done
with a context.  `DeliverySubscription` has one strong assumption: while the
provider has events it does not answer every fetch with none; without it
`Receive` polls for ever, by design.  `BlockyFairness` is the same as for any
driver, step by step: a call to the service, a file or a callback returns.  The
calls of the smtp subscription end by their own deadline (`DeliveryFairness`).  `Templates` has weak fairness for each call,
which is what Go's `RWMutex` gives by alternating between writers and waiting
readers.

Deadlock is checked in every passing run; `Finished` (or `AllQuiet` for the
Sender) names the states in which the program may stop, and each of them is one
where every call has returned or is one of the known blocked ones.

## 4. Proofs

What is proved holds for every value of the constants that satisfies the named
assumptions: any number of calls, items, receivers, events, files and templates, and
any options.  The assumptions say what the constants are (finite sets of calls,
options that are natural numbers, sequences of files and events) and keep names
apart.  TLC evaluates each of them in the run of its module.

### The batcher

Assumptions: `ItemsAssumption` (the calls are a finite set), `ByteSizeAssumption` and
`OptionsAssumption` (the options are natural numbers).

| theorem | module | statement |
|---|---|---|
| `TypeCorrect` | `BatcherProofs` | `Spec => []TypeOK`; in particular `nHandlers` and `wg` never go below zero |
| `HandlersAreCounted` | `BatcherProofs` | the two counters count exactly the goroutines in the phases they stand for |
| `NoLostWakeup` | `BatcherProofs` | a full batch is pending only while every slot is taken |
| `FirstInFirstOut` | `BatcherProofs` | items are taken in the order of acceptance, each once |
| `ShutdownIsQuiet` | `BatcherProofs` | after Shutdown no handler runs and no full batch is pending |
| `BatchesFit` | `BatcherProofs` | every batch given to the handler is within the options |
| `HeldByOne` | `BatcherAnswers` | an item is in one batch, once, and its channel is empty while it is there |
| `NoAnswerLost` | `BatcherAnswers` | the verdict of an item's own handler reaches its Add, or waits in its channel |
| `KeepsContract` | `ContractProofs` | the batcher implements `BatchContract` |

These are all the safety properties of the `batcher` run.

The invariant `IInv` that carries the first five is the type invariant, the
counters, the stranding condition and the order, strengthened with two facts:
`FreshCalls` (a call that has not started has left no trace, so that its
goroutine's name is free and its item new), and `StopInOrder` (the flag is set
before Shutdown waits, and `wg` stays zero once it has been seen to be).  Without
the first, neither the counting nor "each once" survives an `AddNoWait`.  Without
the second, "stop is returned" says nothing about goroutines.

The lemmas go from the data upwards: `BatchLength` computes what the loop of
`nextBatch` takes, `BatchTaken` that it is a prefix and the remainder the rest,
`CountMove` how the cardinality of a set of goroutines changes when one of them
changes its phase, `TakeInOrder` that a take keeps the order; then there is one
lemma for `AddNoWait`, one for the end of a batch, one for moves inside the
handler, and `NextIInv` puts them together, one step for each action.
`BatchesFit` is inductive on its own, given the types.

`HeldByOne` and `NoAnswerLost` need a second invariant, `AnswerInv`, on top of
`IInv`.  It follows an item from pending to the verdict: a goroutine that starts
or ends holds nothing (`IdleHandsEmpty`, else a new batch would overwrite an old
one), batches are disjoint and their items come from `taken` (`HeldOnce`,
`HeldTaken`), an item that is pending or held has an empty channel and a caller
who has not been answered (`Unanswered`), and what is still to be reported of a
batch already has its verdict (`VerdictKnown`).  The crux is `TakeMoves`: what is
taken from pending was in no batch before, because `accepted` is `taken` followed by
`pending` and has no repetition (`ConcatApart`).

`KeepsContract` maps each step under both invariants and one more,
`OutcomeKnown`: what a caller was told, or finds in its channel, is the outcome
that the mapping computes from `verdict`.  There is a lemma for each action; a handler's
reports and `wg.Done` are stutters.  `RoomToRun` is the counting step: a goroutine
that takes a batch leaves the contract with fewer than `MaxHandlers` running,
which follows from `HandlersCounted` and the fact that different goroutines hold
different batches.

### The sender

Assumptions: those of the batcher, `StoppersAssumption` (calls of Shutdown are finitely
many and not calls of Send, and no call is named "free"), `FilesAssumption` (each
attachment is a file with a size).

| theorem (in `SenderProofs`) | statement |
|---|---|
| `SenderUsesBatcher` | `SenderSpec => Spec`: the batcher under a sender is a batcher, so that every theorem above holds there |
| `SenderTypeCorrect` | the types of the sender |
| `OneSendAtATime` | one Send at a time is inside the batcher; other items there were left behind |
| `NilShutdownDrained` | after a nil Shutdown no `SendBatch` runs or is to come |
| `ClosesOnce` | the driver is closed once at most, after its context was cancelled |
| `BlockyIsSender` | `BlockySpec => SenderSpec`: a sender with the blocky driver is a sender with some driver |
| `CallbacksInOrder` | the calls made for a message are the first few of BeforeSend, SendMessage, AfterSend |
| `NilSendIsSent` | a nil Send was accepted, with its callbacks called and every attachment uploaded, whole where its file is its own |

`SenderInv` has the lock (`LockHeld`: `mu` is held by the Send that is adding, or for
good by a second Shutdown), `AddInsideSend`, which ties the batcher's callers to the
lock, `OneCloses` (there is one call of Shutdown that got past the lock and gave it
back; it alone cancels and closes) and `NilSeen`.  `OneSendAtATime` then follows with
`AnswerInv`: an item that is held has a caller who waits or left.

The driver's part is `ServiceInv`.  It says where each `SendBatch` is (`InBatch`), and
of the messages of its batch that those before that place are `Sent`, the one at it
`Current` and those behind it `Untouched` (`MessagesInOrder`), as are all that were not
handed over yet (`UntouchedBefore`).  That a batch stays apart from what other
`SendBatch` calls do needs `AnswerInv`, since the batches are disjoint, and
`Unshared` files, since the position of a file belongs to whoever reads it.
`SentIfOk` and `Judged` carry what was sent over to what the Send is told.
`OthersKept` is the lemma that keeps the steps small: a step of one `SendBatch`
touches its message, its chunks and its files, and nothing that the
invariant says of another message.

### The delivery subscription

Assumption: `SubscriptionAssumption` (finitely many calls; the events are different and
not errors; sizes are not zero; no options allow more handlers than `MaxPieces`).

| theorem (in `SubscriptionProofs`) | statement |
|---|---|
| `SubscriptionTypeCorrect` | the types of the subscription and of its driver (`DeliveryTypeOK`) |
| `NobodyWaitsAlone` | a Receive waits only while a fetch runs that will wake it |
| `HandsOutEachOnce` | each event goes to one Receive at most, in the order in which it was queued |
| `LosesNothingSilently` | every event is with the provider, held by a call, on its way, queued or handed out, unless an error was set |

All four are about `DeliverySpec`, the subscription with either driver.
`SubscriptionInv` is the types, `FetchInv` (`waitc` is set exactly while there is a
fetch), `OnTheWay` (messages are in a fetch only while it asks, and held only by a call
that runs), `Apart` (no message is in two places), `Whole` (each is in one, or lost
with an error) and `HandedOut` (what arrived is what was handed out, then the queue).
`NothingLostInSilence` adds up cardinalities; `PlacesSum` does, from `Apart` and
`Whole`.  That the pieces of a fetch are numbers is `SplitType` of `CommonLemmas`.

### The template store

Assumption: `TemplatesAssumption` (finitely many calls, of one kind each; what
AddVersion and UpsertVersion get is one version).

| theorem (in `TemplatesProofs`) | statement |
|---|---|
| `LocksBalanced` | a reader holds just the read locks of the place it is at, and only the announced writer is inside |
| `ExecuteRunsCurrent` | what `Execute` runs is the current version until it returns |
| `StoreTypeCorrect` | the types |
| `AddsWholeOrNothing` | a template in the store is all of one Add that succeeded, then versions added later; all of them parse |
| `OnlyUpserts` | only an UpsertVersion changes what a version contains, and no version goes away |

`LockInv` counts the read locks by where each call is; with it, an `Execute` that
is executing holds one lock and `Apply` is not possible
(`ExecutingKeepsWritersOut`), and every other step leaves `templates` alone.
`StoreInv` is the types and what the writers asked for.  `IndexOfLeast` says what the
search for a version answers, and `Written` what a call writes, for the three calls
at once.

### The pure functions

Assumptions: `QuestionsAssumption` (the questions to the batcher package are about
numbers and options; a batch of messages, the text of an address, the addresses and the
attachments of a message are sequences; the values of a header are texts, its name and
the chunks of base64 have a length), `CountsAssumption`, and
`LineAssumption` (a line has room for more than three characters).

| theorem (in `AlgorithmsProofs`) | statement |
|---|---|
| `SplitKeepsLimits` | `Split`, for any number of items and any options |
| `MergeKeepsBoth` | the merged options allow what both allow, for all natural limits and counts |
| `InnermostLayerWins` | the layers of template data, for any layers |
| `ConnectionComesBack` | the connection is between two transactions after any message of any batch, if it can be reset |
| `AllGetItOrNone` | a message goes to all recipients or to none, and its event says which, for any batch and any script of the server |
| `PooledAsNew` | a message from the pool, whatever it was before, is prepared as a new one, or as one that is new but for the charset and the encoding of the last message sent |
| `WritesOneEntity` | what is written of a message, with any bodies and files, is one MIME entity with everything in it once and where it belongs |
| `LinesKeepAll` | a header without its line breaks is its values without theirs, behind a space at most, and a value that fits as it is stays as it is; base64 comes in full lines and loses nothing; for any values, chunks and line length |
| `VerifyIsParse` | a text passes the verification of an address exactly if it parses as one |

`Split` is a loop, written as a recursive function.  tlapm has no induction to offer
here, but a set of natural numbers that is not empty has a least element
(`LeastNatural`, from the well-foundedness of strict subsets), and a counterexample to
an invariant of the loop would have a least round: `LoopExists`, `LoopFits` and
`SplitFits` in `CommonLemmas` argue this way, as do `TotalIs` for the sum in the property
and `SendBatchInOrder` for the first message of a batch that fails.

`PooledAsNew` follows what one message is through `prepare`: `Sound` says of what kind
each of its fields is, and `Kept` that a setter changes only those that are its own
(`PutHeaderKeeps`, `SetAddressHeaderKeeps`, where the parser stays closed, and
`SetAddressHeadersKeep`, the loop, by the first header after which it fails;
`SetBodiesKeep`, `AddAttachmentsKeep`, `PrepareKeeps`).  So whatever was prepared, and
sent or not, `reset` leaves of it nothing but its sender and recipients, the charset and
the encoding (`ResetIsLike`), and these last two are those of a new message, or of the
options it was sent with (`PooledIs`).  `prepare` first sets sender and recipients
(`Begun`, `Fresh`), from where both messages are the same one.  Without the reset of the
attachments this fails.

`WritesOneEntity` first computes the layout of what `WriteTo` writes (`WrittenAs`): which
multiparts are opened, then the bodies, the files shown inline and the attached ones,
with the closing of each multipart between them.  The loops over bodies and files are
unfolded by the least file that is not where it should be.  `LayoutIsEntity` then reads
off that every leaf is in the multiparts that its kind asks for and that these nest.

`LinesKeepAll` has two halves.  For base64 the invariant of the writer is that all lines
but the one being filled are full and that they add up to the chunks written; a round
of the loop takes a full line (`LineFilled`), `OneMoreChunk` follows the rounds of a
`Write` to the one that has nothing left to fill, and `ChunksWritten` carries it to the
last chunk.  For headers, `unfold` takes the line breaks out.  It goes through a
concatenation (`UnfoldTexts`), so that the rounds of `fold` can be followed with:
what has been written, and the rest that has not, unfold to what the value does.
`BreakIsThere` says that the place found is a space or a newline of the text, `LineWritten`
is one line, `OneMoreLine` a round, `FoldKeeps` a value, and `HeaderKeeps` puts the
values of a field together.  That the rounds are enough follows from each taking a
character.  `HeaderAsItIs` is the invariant that a value which fits as it is stays so:
each round ends at the next newline of its own (`LineAsItIs`), and never at a space.

`VerifyIsParse` does not look at how texts are read.  Whatever is parsed is `Counted`: if
it is all right, the number returned is the length of the list (`Tallies`).  One
mailbox tallies, a round of a group adds a member to both (`RoundCounted`), and so
does the group after its last round (`GroupCounted`) and the whole text
(`WholeCounted`).  The consumers of words and comments stay closed definitions.

### Only model-checked

* Liveness: `EveryAddReturns`, `ShutdownCompletes`, `SendsReturn`, `ShutdownsReturn`,
  `ShutdownWakesReceivers`, `ReceivesReturn`, `CallsReturn`.  They rest on fairness, and so
  on ENABLED, which the prover does not reason about.
* `AddressRoundTrip`: unlike `VerifyAgrees` it depends on what the consumers compute on a
  text, character by character.  `consumeComment` and `consumePhrase` are recursive
  functions of two arguments, which tlapm does not support, and an induction
  over texts would have to be carried through each consumer.

A correction came from a proof.  `NilMeansSent` used to promise whole attachments for
every file that no other message has; that is not preserved when one message has the
same file twice, and the second copy is indeed uploaded empty (`Unshared`).

## 5. Not modelled

* The pool and the dialler of the smtp senders: `newSenderPool` keeps neither its
  context nor the cancel function and `dial` returns a nil client and a nil error, so
  that the first send, and `Close`, end in a nil dereference.  `SmtpSend` starts
  behind them, with a connection.  Redialling gives the same nil client (`redial`).
* RFC 2047 words when they are read, and where the library cuts a long one when it is
  written; what quoted-printable and base64 make of a text; the wording of errors.
* `ReplaceData`: `p.root` is nil in every `ParsedTemplates`, and it is the first
  thing dereferenced.  For the same reason the versions' own locks are left out.
* The connect variant of `blockyemail`: nothing constructs it.  A chunk size of zero,
  which it does not replace by the default, would make it read for ever.
* `analyzeLine`, `parseStatus` and the descriptions of bouncespy.go: not called.
* The composers, the mux, `logemail` and the URL openers: setters and switches over
  strings, without steps that could interleave.
* The address validator: commented out.

### Observations

Met while translating, not checked by a run:

* blocky.go and smtpemail/urls.go do not compile as they stand: addresses are strings
  in `driver.Message` and have no `String` method, and urls.go imports another module
  path.  `BlockySender` takes `to.String()` for what it was meant to be.
* `messageWriter.err` is overwritten by each later part: an attachment that breaks off
  is sent as if it were whole unless it is the last (writer.go:180, 297-303).
* A message without a body, with one attachment and files to show, is written as two
  things at the top level; `WellNested` makes the exception.
* "To" and "Cc" headers keep the last recipient only (message.go:282-294); MAIL FROM and
  RCPT get the texts as given, names included.
* The charset of the encoded words in a header is that of the message which the pool had
  before, "UTF-8" for a new one (message.go:70, 98, smtp_sender.go:128).
* A local part that needs quotes gets none in a header (message.go:123-126).
* A header value that is folded already, with a continuation line of more than 75
  characters and no space but the one it starts with, is broken at that space
  (writer.go:247-253): an empty line comes out, which ends the header.  `LinesKeepText`
  says what a reader who takes the breaks out sees, so that this passes it.
* A failed `WriteTo` leaves the connection in the middle of DATA, without Reset or Close
  (smtp_sender.go:134): the next command ends the data, and the server may take what
  there is of the message.  `ConnectionReusable` makes the exception.
* The second `Shutdown` of a sender returns nil at once, whether or not the first is done.
* An idle topic is a permanent error after 200 ms (smtpemail/delivery_subscription.go:39,
  118), while the interface says "blocks until a bounce event is received or the
  context is canceled" (driver/delivery_subscription.go:72).
* The event for a failure of the sender's address is published but comes back as
  no type at all (smtpemail/delivery_subscription.go:122-137).
* A comment behind the ";" of a group need not be closed (address.go:432-434).
* `ParseDialerURL` stores the user name and password only when they are empty
  (dialer.go:50-57); `encoding=binary` and `maxhandlers` of the URL have no effect.

## 6. Plan

Done, in this order: `BatchOptions`, `Batcher`, `BatchContract`, `Sender`,
`DeliverySubscription`, `Templates`, `TemplateRender`, `Algorithms`,
`BatcherProofs`, `BatcherAnswers`, `TemplatesProofs`; then `AddressParser`,
`SmtpSend`, `MimeMessage`, `BlockySender`, `SmtpDelivery`.

What is left to model is listed above; none of it has steps of its own.

Done since: `ContractProofs`; `CommonLemmas`; `SenderProofs`, `SubscriptionProofs`,
`AlgorithmsProofs` and the rest of `TemplatesProofs`; last, in `AlgorithmsProofs`, the
nesting of parts, the breaking of lines and the agreement of verifying and parsing.

Left to prove: `AddressRoundTrip`.  Its first half, that what is accepted has a local
part and a domain of the right characters and lengths, needs the positions that each
consumer stops at; its second, that such an address is read back from what
`AddressString` writes, needs `consumeQuotedString` and `consumeAtom` on a text that
holds it at some position.

---------------------------- MODULE BlockySender ----------------------------
(***************************************************************************)
(* email.Sender on top of a driver: any driver at all, which answers every *)
(* SendBatch as it likes, or gRPCSender of src/email/blockyemail/blocky.go,*)
(* whose SendBatch uploads the attachments of a message chunk by chunk,    *)
(* sends the message and calls its callbacks, and ends at the first error. *)
(*                                                                         *)
(* The service, the files and the callbacks are external: each call can    *)
(* fail, as it does when the context of the batch is cancelled.  A file is *)
(* a reader with one position; messages that share a file (the same        *)
(* message sent again, after its first Send gave up) share the position.   *)
(***************************************************************************)
EXTENDS Sender

CONSTANTS files,     \* the files attached to each message, a sequence
          fileSize,  \* the size of each file, in chunks
          Hooked     \* the messages with BeforeSend and AfterSend

ASSUME FilesAssumption ==
    /\ Hooked \subseteq Items
    /\ files \in [Items -> Seq(DOMAIN fileSize)]
    /\ \A f \in DOMAIN fileSize : fileSize[f] \in Nat

VARIABLES
    driver,    \* "any" or "blocky"
    at,        \* where each SendBatch is: its phase, in message m of its batch
    chunks,    \* the chunks it has read of the attachment it uploads
    position   \* of each file: the chunks read so far

\* History: what was uploaded for each message, an attachment after the other,
\* and the calls made for it.
VARIABLES uploads, calls

blockyVars == <<driver, at, chunks, position, uploads, calls>>
everything == <<allVars, blockyVars>>

Idle == [phase |-> "idle", m |-> 0]
Uploading == {"upload", "read", "closeAndRecv"}
BlockyPhases == Uploading \cup {"beforeSend", "sendMessage", "afterSend"}

\* OpenGRPCMailingSender gives the batcher no options.
BlockyInit ==
    /\ SenderInit
    /\ driver \in {"any"} \cup IF opts = newOptionsWithDefaults(NoOptions) THEN {"blocky"} ELSE {}
    /\ at = [g \in Items |-> Idle] /\ chunks = [g \in Items |-> << >>]
    /\ position = [f \in DOMAIN fileSize |-> 0]
    /\ uploads = [i \in Items |-> << >>] /\ calls = [i \in Items |-> << >>]
-----------------------------------------------------------------------------
(* The message SendBatch is at, and the attachment.                        *)

message(g) == batch[g][at[g].m]
attachment(g) == files[message(g)][Len(uploads[message(g)]) + 1]
Inside(g, phase) == pc[g] = "calling" /\ driver = "blocky" /\ at[g].phase = phase

\* What to do next for message i, the m-th, n of whose files are uploaded.
Begins(i, m, n) ==
    [phase |-> IF n < Len(files[i]) THEN "upload"
               ELSE IF i \in Hooked THEN "beforeSend" ELSE "sendMessage",
     m |-> m]

GoTo(g, phase) == at' = [at EXCEPT ![g].phase = phase]
Stay == UNCHANGED allVars
Log(g, call) == calls' = [calls EXCEPT ![message(g)] = Append(@, call)]

\* SendBatch returns err.
Return(g, v) == HandlerReturns(g, v) /\ at' = [at EXCEPT ![g] = Idle] /\ UNCHANGED senderVars

\* The end of the loop body: the next message or, behind the last, nil.
NextMessage(g) ==
    LET m == at[g].m + 1 IN
    IF m > Len(batch[g]) THEN Return(g, "ok")
    ELSE at' = [at EXCEPT ![g] = Begins(batch[g][m], m, 0)] /\ Stay

\* The batcher calls the handler, SendBatch.
BlockyCall(g) ==
    /\ CallHandler(g)
    /\ at' = IF driver = "any" THEN at
             ELSE [at EXCEPT ![g] = Begins(Head(batch[g]), 1, 0)]
    /\ UNCHANGED <<senderVars, driver, chunks, position, uploads, calls>>
-----------------------------------------------------------------------------
(* uploadAttachment.                                                       *)

\* The stream is opened and the header sent.
UploadAttachment(g) ==
    /\ Inside(g, "upload")
    /\ GoTo(g, "read") /\ Stay
    /\ chunks' = [chunks EXCEPT ![g] = << >>]
    /\ UNCHANGED <<driver, position, uploads, calls>>

\* A mutant of ReadChunk: a chunk that was read is the last one.
ReadOneChunk(g) ==
    /\ Inside(g, "read")
    /\ LET f == attachment(g)  left == fileSize[f] - position[f] IN
       /\ position' = [position EXCEPT ![f] = IF left = 0 THEN @ ELSE @ + 1]
       /\ chunks' = [chunks EXCEPT ![g] = IF left = 0 THEN @ ELSE Append(@, position[f] + 1)]
       /\ GoTo(g, "closeAndRecv")
    /\ Stay /\ UNCHANGED <<driver, uploads, calls>>

\* Read and Send of one chunk.  A reader may tell the end with its last bytes
\* or after them.
ReadChunk(g) ==
    /\ Inside(g, "read")
    /\ LET f == attachment(g)  left == fileSize[f] - position[f] IN
       \E eof \in IF left = 0 THEN {TRUE} ELSE {FALSE, left = 1} :
         /\ position' = [position EXCEPT ![f] = IF left = 0 THEN @ ELSE @ + 1]
         /\ chunks' = [chunks EXCEPT ![g] = IF left = 0 THEN @ ELSE Append(@, position[f] + 1)]
         /\ GoTo(g, IF eof THEN "closeAndRecv" ELSE "read")
    /\ Stay /\ UNCHANGED <<driver, uploads, calls>>

\* The service has it, with the size that was read.
CloseAndRecv(g) ==
    /\ Inside(g, "closeAndRecv")
    /\ uploads' = [uploads EXCEPT ![message(g)] = Append(@, chunks[g])]
    /\ at' = [at EXCEPT ![g] = Begins(message(g), @.m, Len(uploads[message(g)]) + 1)]
    /\ chunks' = [chunks EXCEPT ![g] = << >>]
    /\ Stay /\ UNCHANGED <<driver, position, calls>>
-----------------------------------------------------------------------------
(* SendBatch.                                                              *)

\* BeforeSend returns nil.
BeforeSend(g) ==
    /\ Inside(g, "beforeSend")
    /\ Log(g, "before") /\ GoTo(g, "sendMessage") /\ Stay
    /\ UNCHANGED <<driver, chunks, position, uploads>>

\* A mutant of SendMessage: its error is looked at after AfterSend.
SendMessageUnchecked(g) ==
    /\ Inside(g, "sendMessage")
    /\ IF message(g) \in Hooked THEN GoTo(g, "afterSend") /\ Stay ELSE NextMessage(g)
    /\ \/ Log(g, "sent")
       \/ UNCHANGED calls
    /\ UNCHANGED <<driver, chunks, position, uploads>>

\* The service accepts the message.
SendMessage(g) ==
    /\ Inside(g, "sendMessage")
    /\ Log(g, "sent")
    /\ IF message(g) \in Hooked THEN GoTo(g, "afterSend") /\ Stay ELSE NextMessage(g)
    /\ UNCHANGED <<driver, chunks, position, uploads>>

\* AfterSend returns nil.
AfterSend(g) ==
    /\ Inside(g, "afterSend")
    /\ Log(g, "after") /\ NextMessage(g)
    /\ UNCHANGED <<driver, chunks, position, uploads>>

\* Any call of SendBatch returns an error, and SendBatch does; a callback was
\* called all the same.
CallFails(g) ==
    /\ \E phase \in BlockyPhases : Inside(g, phase)
    /\ Return(g, "failed")
    /\ CASE at[g].phase = "beforeSend" -> Log(g, "before")
         [] at[g].phase = "afterSend"  -> Log(g, "after")
         [] OTHER -> UNCHANGED calls
    /\ chunks' = [chunks EXCEPT ![g] = << >>]
    /\ UNCHANGED <<driver, position, uploads>>

SendBatchStep(g) ==
    \/ UploadAttachment(g) \/ ReadChunk(g) \/ CloseAndRecv(g)
    \/ BeforeSend(g) \/ SendMessage(g) \/ AfterSend(g)
    \/ CallFails(g)

\* Close of the gRPC driver does nothing and returns nil.
BlockyClose(s) ==
    /\ ShutClose(s)
    /\ driver = "blocky" => ret'[s] # "closeErr"
    /\ UNCHANGED blockyVars
-----------------------------------------------------------------------------
BlockyGoroutine(g) ==
    \/ BlockyCall(g)
    \/ SendBatchStep(g)
    \/ driver = "any" /\ (\E v \in Verdicts : HandlerReturns(g, v)) /\ UNCHANGED <<senderVars, blockyVars>>
    \/ (Report(g) \/ TakeNext(g) \/ WgDone(g)) /\ UNCHANGED <<senderVars, blockyVars>>

BlockyNext ==
    \/ \E g \in Items : BlockyGoroutine(g)
    \/ \E s \in Stoppers : BlockyClose(s)
    \/ /\ \/ \E i \in Items : SendCheck(i) \/ SendAdd(i) \/ SendReturn(i)
          \/ \E s \in Stoppers : ShutCall(s) \/ ShutLock(s) \/ ShutSelect(s)
          \/ StopBatcher
          \/ AllQuiet
       /\ UNCHANGED blockyVars

\* As SenderFairness; every call to the service, a file or a callback returns.
BlockyFairness ==
    /\ \A i \in Items :
         /\ WF_everything(BlockyGoroutine(i))
         /\ WF_everything(SendAdd(i) /\ UNCHANGED blockyVars)
         /\ WF_everything(SendReturn(i) /\ errc[i] # "empty" /\ UNCHANGED blockyVars)
    /\ \A s \in Stoppers :
         /\ WF_everything(ShutLock(s) /\ UNCHANGED blockyVars)
         /\ WF_everything(BlockyClose(s))
         /\ WF_everything(ShutSelect(s) /\ stop = "returned" /\ UNCHANGED blockyVars)
    /\ WF_everything(StopBatcher /\ UNCHANGED blockyVars)

BlockySpec     == BlockyInit /\ [][BlockyNext]_everything
FairBlockySpec == BlockySpec /\ BlockyFairness
-----------------------------------------------------------------------------
\* Whatever becomes of a batch, its Sends and the Shutdowns, BeforeSend is
\* called at most once, before the service has the message, the service gets
\* it at most once, and AfterSend is called at most once, after the service
\* took it (driver/message.go:69-80, blocky.go:76-104).
CallbacksAround ==
    \A i \in Items :
        LET all == IF i \in Hooked THEN <<"before", "sent", "after">> ELSE <<"sent">> IN
        \E n \in 0 .. Len(all) : calls[i] = SubSeq(all, 1, n)

\* The k-th attachment of message i has a file that no other attachment has.
Unshared(i, k) ==
    \A j \in Items : \A l \in DOMAIN files[j] :
        files[j][l] = files[i][k] => j = i /\ l = k

Whole(f) == [n \in 1 .. fileSize[f] |-> n]

\* A Send that returns nil had its message accepted, with every attachment
\* uploaded and the callbacks called; and an attachment that shares its file
\* with no other is whole (blocky.go:63-107, 173-234).
NilMeansSent ==
    \A i \in Items : driver = "blocky" /\ add[i] = "ok" =>
        /\ \E k \in DOMAIN calls[i] : calls[i][k] = "sent"
        /\ i \in Hooked => calls[i][Len(calls[i])] = "after"
        /\ Len(uploads[i]) = Len(files[i])
        /\ \A k \in DOMAIN files[i] : Unshared(i, k) => uploads[i][k] = Whole(files[i][k])

\* "If Send returns an error, AfterSend will not be called"
\* (driver/message.go:79): not if it returns that its context is done.
AfterSendMeansSent ==
    \A i \in Items : add[i] = "ctx" => \A k \in DOMAIN calls[i] : calls[i][k] # "after"
=============================================================================

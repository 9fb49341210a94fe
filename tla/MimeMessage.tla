---------------------------- MODULE MimeMessage ----------------------------
(***************************************************************************)
(* The message of src/email/smtpemail: how it is prepared from a           *)
(* driver.Message (message.go) and written as MIME (writer.go).  Header    *)
(* values and addresses are texts as in AddressParser, with one character  *)
(* that stands for all beyond ASCII; a body or an attachment is a name.    *)
(***************************************************************************)
EXTENDS AddressParser
LOCAL INSTANCE SequencesExt
LOCAL INSTANCE TLC

CONSTANTS maxLineLen  \* 76

ASSUME LineAssumption == maxLineLen \in Nat /\ maxLineLen > 3

-----------------------------------------------------------------------------
(* prepare.                                                                *)

QuotedPrintable == "quoted-printable"
newMessage ==
    [ok |-> TRUE, from |-> << >>, to |-> << >>, header |-> << >>, parts |-> << >>,
     attachments |-> << >>, embedded |-> << >>, charset |-> "UTF-8",
     encoding |-> QuotedPrintable]

resetKeepsFiles(m) == [m EXCEPT !.ok = TRUE, !.header = << >>, !.parts = << >>]

\* The charset and the encoding stay as they are.
reset(m) == [m EXCEPT !.ok = TRUE, !.header = << >>, !.parts = << >>,
                      !.attachments = << >>, !.embedded = << >>]

\* What sendMessage makes of the message when it writes it.
withOptions(m, opts) ==
    [m EXCEPT !.charset = IF opts.Charset = "" THEN "utf-8" ELSE opts.Charset,
              !.encoding = opts.Encoding]

BeyondASCII == "a character beyond ASCII"
needsEncoding(s) == \E k \in DOMAIN s : s[k] \in {BeyondASCII, "\r", "\n"}

\* An encoded word; the library cuts a long one into several.
EncodedWord(charset, letter, s) ==
    <<"=?", charset, "?", letter, "?">> \o s \o <<"?=">>

\* Nothing sets m.hEncoder, so that the letter of its words is the byte 0.
hEncoder == "NUL"
bEncoding == "b"

encodeString(m, value) ==
    IF needsEncoding(value) THEN EncodedWord(m.charset, hEncoder, value) ELSE value

putHeader(m, field, value) == [m EXCEPT !.header = (field :> value) @@ @]
setHeader(m, field, value) == putHeader(m, field, encodeString(m, value))

hasSpecials(s) ==
    \E k \in DOMAIN s : s[k] \in {"(", ")", "<", ">", "[", "]", ":", ";", "@", "\\", ",", ".", "\""}

\* A name as a quoted string, if it is ASCII, or as an encoded word.
displayed(m, name) ==
    IF needsEncoding(name)
    THEN IF hasSpecials(name) THEN EncodedWord(m.charset, bEncoding, name) ELSE encodeString(m, name)
    ELSE <<"\"">>
           \o FlattenSeq([k \in DOMAIN name |->
                IF name[k] \in {"\\", "\""} THEN <<"\\", name[k]>> ELSE <<name[k]>>])
           \o <<"\"">>

formatAddress(m, a) ==
    IF a.Name = << >> THEN a.Address
    ELSE displayed(m, a.Name) \o <<" ", "<">> \o a.Address \o <<">">>

\* The first address that does not parse ends prepare; ok tells.
setAddressHeader(m, field, addr) ==
    IF ~m.ok THEN m
    ELSE IfOk(parseSingleAddress(addr), LAMBDA a : putHeader(m, field, formatAddress(m, a.val)),
              [m EXCEPT !.ok = FALSE])

\* Addresses, each with the field it is for, one after the other.
addressFields(field, addrs) == [k \in DOMAIN addrs |-> [field |-> field, addr |-> addrs[k]]]

setAddressHeaders(m, headers) ==
    LET set[k \in 0 .. Len(headers)] ==
          IF k = 0 THEN m
          ELSE setAddressHeader(set[k - 1], headers[k].field, headers[k].addr)
    IN  set[Len(headers)]

newPart(m, contentType) == [contentType |-> contentType, encoding |-> m.encoding]
setBody(m, contentType) == [m EXCEPT !.parts = <<newPart(m, contentType)>>]
addAlternative(m, contentType) == [m EXCEPT !.parts = Append(@, newPart(m, contentType))]

setBodies(m, msg) ==
    LET html == IF msg.HtmlBody THEN setBody(m, "text/html") ELSE m
    IN  IF ~msg.TextBody THEN html
        ELSE IF msg.HtmlBody THEN addAlternative(html, "text/plain") ELSE setBody(m, "text/plain")

\* appendFile, by embed for those that are inline, by attach for the others.
appended(atts, inline) ==
    LET files[k \in 0 .. Len(atts)] ==
          IF k = 0 THEN << >>
          ELSE IF atts[k].Inline = inline THEN Append(files[k - 1], atts[k]) ELSE files[k - 1]
    IN  files[Len(atts)]

addAttachments(m, atts) ==
    [m EXCEPT !.embedded    = @ \o appended(atts, TRUE),
              !.attachments = @ \o appended(atts, FALSE)]

getRecipients(msg) == msg.To \o msg.Cc \o msg.Bcc

\* The rest of prepare, once the addresses of From, To and Cc are set.
filled(m, msg) ==
    addAttachments(setBodies(setHeader(m, "Subject", msg.Subject), msg), msg.Attachments)
withMessageID(m, msg) ==
    IF m.ok /\ msg.MessageID # << >> THEN setHeader(m, "Message-ID", msg.MessageID) ELSE m
addressed(m, msg) ==
    IF ~m.ok THEN m
    ELSE withMessageID(setAddressHeaders(filled(m, msg), addressFields("Reply-To", msg.ReplyTo)), msg)

prepare(m, msg) ==
    addressed(setAddressHeaders([m EXCEPT !.from = msg.From, !.to = getRecipients(msg)],
                addressFields("From", <<msg.From>>)
                  \o addressFields("To", msg.To) \o addressFields("Cc", msg.Cc)),
              msg)

-----------------------------------------------------------------------------
(* WriteTo.  What is written is a sequence of events: a multipart opened or*)
(* closed, and the leaves, which are bodies or files with a disposition,   *)
(* each with the types of the multiparts that are open then.  A leaf whose *)
(* data cannot be read sets err; creating the next part, or writing it,    *)
(* sets it anew.                                                           *)

hasMixedPartByCount(m) == Len(m.attachments) > 1

hasMixedPart(m) ==
    (m.parts # << >> /\ m.attachments # << >>) \/ Len(m.attachments) > 1
hasRelatedPart(m) ==
    (m.parts # << >> /\ m.embedded # << >>) \/ Len(m.embedded) > 1
hasAlternativePart(m) == Len(m.parts) > 1

Event(e, of, s) == [event |-> e, of |-> of, in |-> s.open]

openMultipart(s, type) ==
    [open |-> Append(s.open, type), err |-> s.err /\ s.open = << >>,
     out |-> Append(s.out, Event("open", type, s))]

closeMultipart(s) ==
    IF s.open = << >> THEN s
    ELSE [open |-> SubSeq(s.open, 1, Len(s.open) - 1), err |-> s.err,
          out |-> Append(s.out, Event("close", s.open[Len(s.open)], s))]

\* writeHeaders and writeBody, leaf after leaf; lastFails tells of the last.
writeLeaves(s, as, names, lastFails) ==
    [open |-> s.open, err |-> IF names = << >> THEN s.err ELSE lastFails,
     out |-> s.out \o [k \in DOMAIN names |-> Event(as, names[k], s)]]

\* The steps between If(open) and its close are within the multipart.
Within(has, type, s, Steps(_)) ==
    IF has THEN closeMultipart(Steps(openMultipart(s, type))) ELSE Steps(s)

\* The Content-Type of a body, with its charset, and how it is encoded.
Body(part, charset) ==
    [contentType |-> part.contentType, charset |-> charset, encoding |-> part.encoding]

Bodies(parts, charset) == [k \in DOMAIN parts |-> Body(parts[k], charset)]
Filenames(files)       == [k \in DOMAIN files |-> files[k].Filename]

writeParts(m, s) == writeLeaves(s, "body", Bodies(m.parts, m.charset), FALSE)
addFiles(files, isAttachment, s) ==
    writeLeaves(s, IF isAttachment THEN "attachment" ELSE "inline", Filenames(files),
                files[Len(files)].fails)

writeMessage(m, s) ==
    LET alternative(t) == Within(hasAlternativePart(m), "alternative", t,
                                 LAMBDA u : writeParts(m, u))
        related(t)     == Within(hasRelatedPart(m), "related", t,
                                 LAMBDA u : addFiles(m.embedded, FALSE, alternative(u)))
    IN  Within(hasMixedPart(m), "mixed", s, LAMBDA u : addFiles(m.attachments, TRUE, related(u)))

WriteTo(m) == writeMessage(m, [open |-> << >>, err |-> FALSE, out |-> << >>])

-----------------------------------------------------------------------------
(* Lines.                                                                  *)

\* base64LineWriter: lineLen, and out, the lengths of the lines that were
\* written, the last of which is not finished.
put(out, n) == [out EXCEPT ![Len(out)] = @ + n]

\* A round of the loop of Write, left being len(p).
fillLine(w) ==
    IF w.left + w.lineLen =< maxLineLen THEN w
    ELSE LET n == maxLineLen - w.lineLen
         IN  [lineLen |-> 0, left |-> w.left - n, out |-> Append(put(w.out, n), 0)]

\* Every round but the first takes at least a character.
base64Write(w, n) ==
    LET r[k \in 0 .. n + 1] ==
          IF k = 0 THEN [lineLen |-> w.lineLen, left |-> n, out |-> w.out] ELSE fillLine(r[k - 1])
        last == r[n + 1]
    IN  [lineLen |-> last.lineLen + last.left, out |-> put(last.out, last.left)]

base64Lines(chunks) ==
    LET w[k \in 0 .. Len(chunks)] ==
          IF k = 0 THEN [lineLen |-> 0, out |-> <<0>>] ELSE base64Write(w[k - 1], chunks[k])
    IN  w[Len(chunks)]

\* The positions of s from i to j that have one of the characters.
At(s, i, j, chars) == {k \in i .. j : k \in DOMAIN s /\ s[k] \in chars}

\* Where writeLine ends the line: at the newline that is within charsLeft, or
\* the last space there, or else the first of both that is behind the limit.
breakAt(s, charsLeft) ==
    LET newline == At(s, 1, charsLeft, {"\n"})
        space   == At(s, 1, charsLeft, {" "})
        behind  == At(s, maxLineLen, Len(s), {" ", "\n"})
    IN  IF newline # {} THEN Min(newline)
        ELSE IF space # {} THEN Max(space)
        ELSE IF behind # {} THEN Min(behind) ELSE 0

\* A newline of s is written; a space makes place for a new line.
brokenAt(s, i) ==
    IF i = 0 THEN [out |-> s, rest |-> << >>]
    ELSE [out  |-> IF s[i] = "\n" THEN SubSeq(s, 1, i)
                   ELSE SubSeq(s, 1, i - 1) \o <<"\r", "\n", " ">>,
          rest |-> SubSeq(s, i + 1, Len(s))]

\* As it would be without a look at the newlines of s.
writeLineAtSpaces(s, charsLeft) ==
    brokenAt(s, LET space == At(s, 1, charsLeft, {" "}) IN IF space = {} THEN 0 ELSE Max(space))

writeLine(s, charsLeft) == brokenAt(s, breakAt(s, charsLeft))

\* Lines of s are written until the rest of it fits; a break takes a space or
\* a newline of it, so that there are no more rounds than characters, and one.
foldOnce(w) ==
    IF Len(w.rest) =< w.left THEN w
    ELSE LET l == writeLine(w.rest, w.left)
         IN  [out |-> w.out \o l.out, rest |-> l.rest, left |-> maxLineLen - 1]

\* What is left of the line that ends with s.
leftBehind(s, left) ==
    LET newlines == At(s, 1, Len(s), {"\n"}) IN
    IF newlines = {} THEN left - Len(s) ELSE maxLineLen - 1 - (Len(s) - Max(newlines))

fold(s, charsLeft) ==
    LET w[k \in 0 .. Len(s) + 1] ==
          IF k = 0 THEN [out |-> << >>, rest |-> s, left |-> charsLeft] ELSE foldOnce(w[k - 1])
        last == w[Len(s) + 1]
    IN  [out |-> last.out \o last.rest, left |-> leftBehind(last.rest, last.left)]

\* The i-th value of a field, with what separates it from the one before.
writeValue(w, i, s) ==
    LET newLine == w.left < 1
        comma   == IF i = 1 THEN << >> ELSE <<",">>
        space   == IF newLine THEN <<"\r", "\n", " ">> ELSE IF i = 1 THEN << >> ELSE <<" ">>
        left    == IF newLine THEN maxLineLen - 1 ELSE IF i = 1 THEN w.left ELSE w.left - 2
        f       == fold(s, left)
    IN  [out |-> w.out \o comma \o space \o f.out, left |-> f.left]

\* What follows the name of a field, of keyLen characters, and ": ".
writeHeader(keyLen, values) ==
    LET w[i \in 0 .. Len(values)] ==
          IF i = 0 THEN [out |-> << >>, left |-> maxLineLen - keyLen - 2]
          ELSE writeValue(w[i - 1], i, values[i])
    IN  w[Len(values)].out
=============================================================================

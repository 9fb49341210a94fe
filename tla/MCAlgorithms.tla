---------------------------- MODULE MCAlgorithms ----------------------------
(* Numbers up to 6, limits up to 3, two keys of data, lists of at most two  *)
(* addresses; texts of a few tokens; batches of up to two messages.         *)
EXTENDS Algorithms

MCOptions ==
    [MaxHandlers : 0 .. 3, MinBatchSize : 0 .. 3, MaxBatchSize : 0 .. 3,
     MaxBatchByteSize : {0}]

SmallOptions ==
    [MaxHandlers : {0, 2, 3}, MinBatchSize : 0 .. 2, MaxBatchSize : 0 .. 2,
     MaxBatchByteSize : {0}]

\* The maps from some of two keys, whose values tell the layer.
Layers(layer) == UNION {[D -> {layer}] : D \in SUBSET {"from", "subject"}}

Lists(first) ==
    {<< >>, <<Given(first)>>, <<Empty>>, <<Given(first), Empty>>, <<Empty, Given(first)>>}

MCVersions ==
    [subs : {{"from", "subj", "html"}, SubTemplates}, blank : {{}, {"cc"}},
     fails : {{}, {"bcc"}}]

MCMessages ==
    [From : {Empty, Given(0)}, To : Lists(1), Cc : Lists(3), Bcc : Lists(5),
     Subject : {Empty}, HtmlBody : {Given(8)}, TextBody : {Given(9)}]

\* Texts of up to three tokens, and mailboxes put together of a name, an
\* addr-spec with something around it, and what may follow.
Tokens == {<<"a">>, <<".">>, <<"@">>, <<" ">>, <<"\"">>, <<"\\">>, <<"<">>, <<">">>,
           <<"(">>, <<")">>, <<",">>, <<":">>, <<";">>, <<"a", "@", "b">>}

Names  == {<< >>, <<"a", " ", "b">>, <<"\"", "\\", "\"", " ", "\"">>, <<"\"", "\"", ":">>, <<"a", ":">>,
           <<"\"", "\\", "\\", "\"", ".">>}
Locals == {<<"a">>, <<"a", ".", "b">>, <<"\"", "a", ".", "\"">>, <<"\"", " ", "@", "\"">>,
           <<"\"", "\\", "\"", "\"">>, <<"a", "a", "a", "a", "a">>, <<"\"", "\"">>}
Domains == {<<"b">>, <<"b", ".", "b">>, <<".", "b">>, <<"b", "b", "b", "b", "b">>}
Afters == {<< >>, <<"(", " ", "c", " ", " ", "\\", ")", ")">>, <<",", "(">>, <<" ", ",", "c", "@", "d">>, <<";">>,
           <<" ", ",", " ", "c", "@", "d", "(", "e", ")", ";", "(">>, <<",", "c", "<", "c", "@", "d", ">", ";">>}

MCTexts ==
    {s \o t \o u : s \in Tokens, t \in Tokens, u \in Tokens \cup {<< >>}}
      \cup {n \o <<"<">> \o l \o <<"@">> \o d \o <<">">> \o a :
               n \in Names, l \in Locals, d \in Domains, a \in Afters}
      \cup {n \o l \o <<"@">> \o d \o a : n \in Names, l \in Locals, d \in Domains, a \in Afters}

\* The server: five answers to a recipient, any failure of the rest.
Accepts  == [kind |-> "ok"]
Replies  == {Accepts, [kind |-> "io"],
             [kind |-> "refused", code |-> "550", text |-> <<"5", ".", "1", ".", "1", " ", "unknown">>],
             [kind |-> "refused", code |-> "550", text |-> <<" ", "5", ".", "2", ".", "2">>],
             [kind |-> "refused", code |-> "450", text |-> <<"try", " ", "5">>],
             [kind |-> "refused", code |-> "555", text |-> << >>]}
Answers(good) == {good, "error"}
Scripts(replies, publishes) ==
    [mail : {"ok", "eof", "error"}, dial : Answers("ok"), rcpt : [{"r1", "r2"} -> replies],
     data : Answers("ok"), write : Answers("ok"), close : {"ok", "error", "lost"},
     reset : Answers("ok"), publish : publishes]
Simple == [mail |-> "ok", dial |-> "ok", rcpt |-> [r \in {"r1", "r2"} |-> Accepts],
           data |-> "ok", write |-> "ok", close |-> "ok", reset |-> "ok", publish |-> "ok"]
To(scripts) == [to : {<<"r1", "r2">>}, script : scripts]

MCBatches ==
    {<<m>> : m \in To(Scripts(Replies, {"ok"}))}
      \cup {<<m, n>> : m \in To({[Simple EXCEPT !.publish = p, !.data = d, !.rcpt["r2"] = r] :
                                   p \in Answers("ok"), d \in Answers("ok"), r \in Replies}),
                       n \in To({Simple})}

\* Messages to be written: with or without each kind of part, addresses of
\* which some do not parse.
Good == <<"a", "@", "b">>
Named == <<"\"", "\\", "\"", "\"", "<", "a", "@", "b", ">">>
Bad  == <<"a", "@">>
File(name, inline) == [Filename |-> name, Inline |-> inline, fails |-> FALSE]
Files == {<< >>, <<File("f1", TRUE)>>, <<File("f1", FALSE)>>,
          <<File("f1", FALSE), File("f2", TRUE)>>,
          <<File("f1", TRUE), File("f2", FALSE), File("f3", TRUE), File("f4", FALSE)>>}
Beyond    == <<BeyondASCII, "<", "a", "@", "b", ">">>
BeyondDot == <<"\"", ".", BeyondASCII, "\"", "<", "a", "@", "b", ">">>

MimeMessages(froms, tos, ccs, replies) ==
    [From : froms, To : tos, Cc : ccs, Bcc : {<<Good>>}, Subject : {<<"s">>, <<"s", BeyondASCII>>},
     HtmlBody : BOOLEAN, TextBody : BOOLEAN, Attachments : Files, ReplyTo : replies,
     MessageID : {<< >>}]
Befores ==
    [From : {Good}, To : {<<Good>>}, Cc : {<<Beyond>>}, Bcc : {<< >>}, Subject : {<<"s">>},
     HtmlBody : {TRUE}, TextBody : {TRUE},
     Attachments : {<<File("g1", TRUE), File("g2", FALSE)>>}, ReplyTo : {<<Good>>, <<Bad>>},
     MessageID : {<<"i">>}]

\* The options of a sender: those that are not set, and others.
SenderOptions ==
    {[Charset |-> "", Encoding |-> "base64"], [Charset |-> "latin1", Encoding |-> "8bit"]}

MCMimeQuestions ==
    [kind : {"mime"}, before : Befores, sent : BOOLEAN, options : SenderOptions,
     msg : MimeMessages({Good, Named, Bad}, {<<BeyondDot, Good>>, <<Named, Bad>>},
                        {<< >>, <<Beyond>>}, {<< >>, <<Bad>>})]

\* Header values of "a" and " ", and line breaks; and values as openMultipart
\* has them, of parts that are short or long.
Values(chars, n) == UNION {[1 .. k -> chars] : k \in 0 .. n}
InTwoLines(v, w) == v \o <<"\r", "\n", " ">> \o w

MCQuestions ==
    [kind : {"split"}, n : 0 .. 6, opts : MCOptions]
      \cup [kind : {"merge"}, opts : SmallOptions, other : SmallOptions]
      \cup [kind : {"data"}, general : Layers("general"), template : Layers("template"),
            version : Layers("version"), message : Layers("message")]
      \cup [kind : {"address"}, text : MCTexts]
      \cup [kind : {"smtp"}, msgs : MCBatches]
      \cup MCMimeQuestions
      \cup [kind : {"header"}, keyLen : 1 .. 4, values : {<<v>> : v \in Values({"a", " "}, 8)}]
      \cup [kind : {"header"}, keyLen : {1, 2}, values : {<<v>> : v \in Values({"a", " ", "\n"}, 6)}]
      \cup [kind : {"header"}, keyLen : {1, 2},
            values : {<<InTwoLines(v, w)>> : v \in Values({"a"}, 3), w \in Values({"a", " "}, 4)}]
      \cup [kind : {"header"}, keyLen : {1},
            values : {<<v, w>> : v \in Values({"a", "\n"}, 4), w \in Values({"a", " "}, 5)}]
      \cup [kind : {"base64"}, chunks : UNION {[1 .. k -> 0 .. 11] : k \in 1 .. 3}]
      \cup [kind : {"render"}, version : MCVersions, in : MCMessages]
=============================================================================

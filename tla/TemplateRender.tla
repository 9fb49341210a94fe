--------------------------- MODULE TemplateRender ---------------------------
(***************************************************************************)
(* How a parsed template version makes a message out of a templated one    *)
(* (ParsedTemplateVersion.Execute and mergeData, emailtemplate/template.go).*)
(*                                                                         *)
(* The data of a template is a function from the keys it has; a nil map    *)
(* has none.  An address or a text is [by, n]: given by the caller (its    *)
(* n-th), or rendered by a sub-template, for the recipient of index n.     *)
(***************************************************************************)
EXTENDS Integers, Sequences

\* A mutant of mergeData: base wins.
mergeDataBase(base, override) ==
    [k \in DOMAIN base \cup DOMAIN override |->
        IF k \in DOMAIN base THEN base[k] ELSE override[k]]

mergeData(base, override) ==
    [k \in DOMAIN base \cup DOMAIN override |->
        IF k \in DOMAIN override THEN override[k] ELSE base[k]]

\* Add merges the data of a template into the general one, parse that of a
\* version into this, and Execute that of the message.
templateData(general, template) == mergeData(general, template)
versionData(template, version)  == mergeData(template, version)
renderData(general, template, version, message) ==
    mergeData(versionData(templateData(general, template), version), message)
-----------------------------------------------------------------------------
Empty    == [by |-> "", n |-> 0]            \* the empty string
Given(n) == [by |-> "caller", n |-> n]

NoIndex == 0 - 1                            \* no '_index' in the data

\* The sub-templates that Lookup may find.
SubTemplates == {"from", "to", "cc", "bcc", "subj", "html", "text"}

\* A version is [subs, blank, fails]: the sub-templates it defines, those of
\* them that render to nothing and those whose execution fails.
Rendered(v, sub, idx) == IF sub \in v.blank THEN Empty ELSE [by |-> sub, n |-> idx]

\* The one address of an empty list, if it is not empty.
Default(v, sub) ==
    IF sub \in v.subs /\ Rendered(v, sub, NoIndex) # Empty
    THEN <<Rendered(v, sub, NoIndex)>> ELSE << >>

\* The empty addresses of list, and all of them.
Blanks(list) == {k \in 1 .. Len(list) : list[k] = Empty}
All(list)    == 1 .. Len(list)

\* Every address of list at a place in K is rendered with its index.
Replaced(v, sub, list, K) ==
    [k \in 1 .. Len(list) |->
        IF sub \in v.subs /\ k \in K THEN Rendered(v, sub, k - 1) ELSE list[k]]

\* For To the one rendered address is kept even if it is empty.
toList(v, in) ==
    IF in.To = << >> /\ "to" \in v.subs THEN <<Rendered(v, "to", NoIndex)>>
    ELSE Replaced(v, "to", in.To, Blanks(in.To))

\* For Cc a sub-template replaces the addresses that are given too.
ccList(v, in) ==
    IF in.Cc = << >> THEN Default(v, "cc") ELSE Replaced(v, "cc", in.Cc, All(in.Cc))

\* The loop for Bcc goes over in.Cc.
bccList(v, in) ==
    (IF in.Bcc = << >> THEN Default(v, "bcc") ELSE << >>)
        \o Replaced(v, "bcc", in.Cc, Blanks(in.Cc))

\* The sub-templates that are executed; if one of them fails, so does Execute.
executed(v, in) ==
    v.subs \cap
      ({"cc", "subj", "html", "text"}
         \cup (IF in.From = Empty THEN {"from"} ELSE {})
         \cup (IF in.To = << >> \/ Blanks(in.To) # {} THEN {"to"} ELSE {})
         \cup (IF in.Bcc = << >> \/ Blanks(in.Cc) # {} THEN {"bcc"} ELSE {}))

text(v, sub, given) == IF sub \in v.subs THEN Rendered(v, sub, NoIndex) ELSE given

\* The attachments and the callbacks of the message are left out.
Execute(v, in) ==
    [ok  |-> executed(v, in) \cap v.fails = {},
     msg |-> [From |-> IF in.From = Empty THEN text(v, "from", Empty) ELSE in.From,
              To   |-> toList(v, in), Cc |-> ccList(v, in), Bcc |-> bccList(v, in),
              Subject  |-> text(v, "subj", in.Subject),
              HtmlBody |-> text(v, "html", in.HtmlBody),
              TextBody |-> text(v, "text", in.TextBody)]]
=============================================================================

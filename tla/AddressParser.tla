--------------------------- MODULE AddressParser ---------------------------
(***************************************************************************)
(* The address parser of src/email/address.go.  A text is a sequence of    *)
(* one-character strings, each printable ASCII but "=", a space, or one    *)
(* that stands for a character beyond ASCII, which the parser takes as it  *)
(* takes a letter.  RFC 2047 words (decodeRFC2047Word returns a text       *)
(* without "=" unchanged) and those that String makes of a name beyond     *)
(* ASCII are left out.                                                     *)
(*                                                                         *)
(* Where the code cuts its text p.s from the front, a consumer here is     *)
(* given the position i it starts at and answers the position it stops at: *)
(* [ok, at, val], val being what it returns.  An error is ok = FALSE; its  *)
(* wording is left out.                                                    *)
(***************************************************************************)
EXTENDS Integers, Sequences
LOCAL INSTANCE SequencesExt

CONSTANTS maxEmailDomainLength, maxEmailLocalLength

ASSUME LengthAssumption ==
    maxEmailDomainLength \in Nat /\ maxEmailLocalLength \in Nat

maxEmailLength == maxEmailDomainLength + maxEmailLocalLength + 1

Ok(at, val) == [ok |-> TRUE, at |-> at, val |-> val]
Fails(at)   == [ok |-> FALSE, at |-> at, val |-> << >>]

\* One consumer after another; an error of the first is that of both, or
\* something else is tried.
IfOk(a, Rest(_), otherwise) == IF a.ok THEN Rest(a) ELSE otherwise
Then(a, Rest(_)) == IfOk(a, Rest, a)

Space == {" ", "\t"}
isVchar(c) == c \notin Space
isQtext(c) == isVchar(c) /\ c \notin {"\\", "\""}

Specials == {"(", ")", "[", "]", ";", "@", "\\", ","}
isAtext(c, permissive) ==
    /\ isVchar(c) /\ c \notin {"<", ">", "\"", ":"}
    /\ c \in Specials => permissive

-----------------------------------------------------------------------------
(* Positions.                                                              *)

Positions(s) == 1 .. Len(s) + 1
empty(s, i)  == i > Len(s)
peek(s, i, c) == ~empty(s, i) /\ s[i] = c

\* The first position from i on whose character is not of the class.
After(s, i, Class(_)) ==
    CHOOSE j \in i .. Len(s) + 1 :
        /\ \A k \in i .. j - 1 : Class(s[k])
        /\ empty(s, j) \/ ~Class(s[j])

skipSpace(s, i) == After(s, i, LAMBDA c : c \in Space)

-----------------------------------------------------------------------------
(* Comments and words.                                                     *)

\* From behind the '('; a backslash takes the next character with it, unless
\* it is the last one.
consumeComment(s, i) ==
    LET from[j \in Positions(s), depth \in 0 .. Len(s) + 1] ==
          IF depth = 0 THEN Ok(j, << >>)
          ELSE IF empty(s, j) THEN Fails(j)
          ELSE LET escaped == s[j] = "\\" /\ j < Len(s)
                   k == IF escaped THEN j + 1 ELSE j
                   d == CASE ~escaped /\ s[j] = "(" -> depth + 1
                          [] ~escaped /\ s[j] = ")" -> depth - 1
                          [] OTHER -> depth
               IN  Then(from[k + 1, d], LAMBDA rest :
                     IF d > 0 THEN Ok(rest.at, <<s[k]>> \o rest.val) ELSE rest)
    IN  from[i, 1]

skipCFWS(s, i) ==
    LET skip[j \in Positions(s)] ==
          IF ~peek(s, j, "(") THEN Ok(j, << >>)
          ELSE Then(consumeComment(s, j + 1), LAMBDA c : skip[skipSpace(s, c.at)])
    IN  skip[skipSpace(s, i)]

\* The words of a comment, one space between them.
words(c) ==
    LET keep == {k \in DOMAIN c :
                   \/ c[k] \notin Space
                   \/ /\ k > 1 /\ c[k - 1] \notin Space
                      /\ \E j \in k .. Len(c) : c[j] \notin Space}
        idx  == SetToSortSeq(keep, LAMBDA a, b : a < b)
    IN  [k \in DOMAIN idx |-> IF c[idx[k]] \in Space THEN " " ELSE c[idx[k]]]

consumeDisplayNameComment(s, i) ==
    Then(consumeComment(s, i + 1), LAMBDA c : Ok(c.at, words(c.val)))

\* From the opening quote on.
consumeQuotedString(s, i) ==
    LET from[j \in Positions(s)] ==
          IF empty(s, j) THEN Fails(i)
          ELSE IF s[j] = "\"" THEN Ok(j + 1, << >>)
          ELSE LET k == IF s[j] = "\\" THEN j + 1 ELSE j
               IN  IF empty(s, k) THEN Fails(i)
                   ELSE Then(from[k + 1], LAMBDA rest : Ok(rest.at, <<s[k]>> \o rest.val))
    IN  from[i + 1]

\* consumeAtom(true, permissive); the first characters are taken off p.s
\* even where the dots are then refused.
consumeAtom(s, i, permissive) ==
    LET j    == After(s, i, LAMBDA c : isAtext(c, permissive))
        atom == SubSeq(s, i, j - 1)
        dots == \/ atom[1] = "." \/ atom[Len(atom)] = "."
                \/ \E k \in 1 .. Len(atom) - 1 : atom[k] = "." /\ atom[k + 1] = "."
    IN  IF j = i THEN Fails(i)
        ELSE IF ~permissive /\ dots THEN Fails(j)
        ELSE Ok(j, atom)

\* Words joined by a space, until one fails; the error counts only if it is
\* the first.
consumePhrase(s, i) ==
    LET word(j) == IF s[j] = "\"" THEN consumeQuotedString(s, j)
                   ELSE consumeAtom(s, j, TRUE)
        after(w, rest, first) ==
          Ok(rest.at, (IF first THEN << >> ELSE <<" ">>) \o w.val \o rest.val)
        wordOrEnd(w, first) == IF w.ok \/ first THEN w ELSE Ok(w.at, << >>)
        from[j \in Positions(s), first \in BOOLEAN] ==
          LET k == skipSpace(s, j) IN
          IF empty(s, k) THEN Ok(k, << >>)
          ELSE IfOk(word(k), LAMBDA w : after(w, from[w.at, FALSE], first),
                    wordOrEnd(word(k), first))
    IN  from[i, TRUE]

-----------------------------------------------------------------------------
(* Addresses: records [Name, Address].                                     *)

localPart(s, i) ==
    IF empty(s, i) THEN Fails(i)
    ELSE IF s[i] # "\"" THEN consumeAtom(s, i, FALSE)
    ELSE Then(consumeQuotedString(s, i), LAMBDA q :
           IF q.val = << >> THEN Fails(q.at) ELSE q)

\* From the '@' on.
domainPart(s, i) ==
    LET j == skipSpace(s, i + 1) IN
    IF peek(s, i, "@") /\ ~empty(s, j) THEN consumeAtom(s, j, FALSE) ELSE Fails(i)

withinLengths(local, domain) ==
    /\ Len(domain) =< maxEmailDomainLength
    /\ Len(local) =< maxEmailLocalLength
    /\ Len(local) + 1 + Len(domain) =< maxEmailLength

\* An addr-spec that fails gives back what it has read.
consumeAddrSpec(s, i) ==
    IfOk(localPart(s, skipSpace(s, i)), LAMBDA local :
        IfOk(domainPart(s, local.at), LAMBDA domain :
            IF withinLengths(local.val, domain.val)
            THEN Ok(domain.at, local.val \o <<"@">> \o domain.val) ELSE Fails(i),
          Fails(i)),
      Fails(i))

\* What parseAddress answers: the number it returns, and what it appends to
\* the list if it is given one.
One(at, name, spec) ==
    Ok(at, [n |-> 1, list |-> <<[Name |-> name, Address |-> spec]>>])

\* What stands before '<' or, in a group, before ':'.
displayName(s, i) == IF s[i] = "<" THEN Ok(i, << >>) ELSE consumePhrase(s, i)

angleAddr(s, i, name) ==
    IF ~peek(s, i, "<") THEN Fails(i)
    ELSE Then(consumeAddrSpec(s, i + 1), LAMBDA spec :
           IF peek(s, spec.at, ">") THEN One(spec.at + 1, name, spec.val) ELSE Fails(spec.at))

\* A comment behind an addr-spec is its name.
namedBehind(s, spec, i) ==
    IF ~peek(s, i, "(") THEN One(i, << >>, spec.val)
    ELSE Then(consumeDisplayNameComment(s, i), LAMBDA c : One(c.at, c.val, spec.val))

\* parseAddress, with what is done at the ':' of a group.
AddressOr(s, i, Group(_)) ==
    IF empty(s, i) THEN Fails(i)
    ELSE IfOk(consumeAddrSpec(s, i),
           LAMBDA spec : namedBehind(s, spec, skipSpace(s, spec.at)),
           Then(displayName(s, i), LAMBDA name :
             LET j == skipSpace(s, name.at) IN
             IF peek(s, j, ":") THEN Group(j + 1) ELSE angleAddr(s, j, name.val)))

\* A member of a group, which is no group (handleGroup is false).
parseMember(s, i) == AddressOr(s, skipSpace(s, i), Fails)

\* As it would be if n were assigned to the total, not added.
joinedKeepsLast(total, member) == [member EXCEPT !.list = total.list \o @]

joined(total, member) ==
    [n |-> total.n + member.n, list |-> total.list \o member.list]

\* A member with the comments behind it.
memberAndCFWS(s, i) ==
    Then(parseMember(s, i), LAMBDA a : Then(skipCFWS(s, a.at), LAMBDA c : Ok(c.at, a.val)))

\* A round of the loop of consumeGroupList, after which there are more or the
\* group has ended.  Whether the comment behind the ';' is well formed is not
\* looked at.
MoreOf(a)  == [more |-> TRUE, group |-> a]
EndedAs(a) == [more |-> FALSE, group |-> a]

afterMember(s, total, a) ==
    IF ~a.ok THEN EndedAs(a)
    ELSE IF peek(s, a.at, ";")
         THEN EndedAs(Ok(skipCFWS(s, a.at + 1).at, joined(total, a.val)))
    ELSE IF peek(s, a.at, ",") THEN MoreOf(Ok(a.at + 1, joined(total, a.val)))
    ELSE EndedAs(Fails(a.at))

oneMember(s, g) ==
    IF g.more THEN afterMember(s, g.group.val, memberAndCFWS(s, g.group.at)) ELSE g

\* From behind the ':'; every round but the last takes a comma.
consumeGroupList(s, i) ==
    LET b    == skipSpace(s, i)
        none == [n |-> 0, list |-> << >>]
        g[k \in 0 .. Len(s) + 1] ==
          IF k = 0 THEN MoreOf(Ok(b, none)) ELSE oneMember(s, g[k - 1])
    IN  IF peek(s, b, ";") THEN Ok(skipCFWS(s, b + 1).at, none) ELSE g[Len(s) + 1].group

parseAddress(s, i) == AddressOr(s, skipSpace(s, i), LAMBDA g : consumeGroupList(s, g))

\* The whole text is one address or group, in the end.
wholeText(s) ==
    Then(parseAddress(s, 1), LAMBDA a :
      Then(skipCFWS(s, a.at), LAMBDA c : IF empty(s, c.at) THEN a ELSE Fails(c.at)))

parseSingleAddress(s) ==
    Then(wholeText(s), LAMBDA a :
      IF Len(a.val.list) = 1 THEN Ok(a.at, a.val.list[1]) ELSE Fails(a.at))

verifySingleAddress(s) ==
    IfOk(wholeText(s), LAMBDA a : a.val.n = 1, FALSE)

\* Lists, with empty entries between their commas; verifyAddressList is the
\* same loop without a list.
parseAddressList(s) ==
    LET from[j \in Positions(s)] ==
          LET k == skipSpace(s, j) IN
          IF peek(s, k, ",") THEN from[k + 1]
          ELSE Then(parseAddress(s, k), LAMBDA a :
                 Then(skipCFWS(s, a.at), LAMBDA c :
                   LET next == After(s, c.at, LAMBDA d : d = "," \/ d \in Space) IN
                   IF empty(s, c.at) THEN Ok(c.at, a.val.list)
                   ELSE IF s[c.at] # "," THEN Fails(c.at)
                   ELSE IF empty(s, next) THEN Ok(next, a.val.list)
                   ELSE Then(from[next], LAMBDA rest : Ok(rest.at, a.val.list \o rest.val))))
    IN  from[1]

-----------------------------------------------------------------------------
(* Address.String.                                                         *)

\* As it would be without escapes.
quoteStringPlain(s) == <<"\"">> \o s \o <<"\"">>

quoteString(s) ==
    <<"\"">>
      \o FlattenSeq([k \in DOMAIN s |->
                       IF isQtext(s[k]) \/ s[k] \in Space THEN <<s[k]>> ELSE <<"\\", s[k]>>])
      \o <<"\"">>

\* A dot stands unquoted behind something that is no dot, and not at the end.
quoteLocal(local) ==
    \E k \in DOMAIN local :
        /\ ~(local[k] # "." /\ isAtext(local[k], FALSE))
        /\ ~(local[k] = "." /\ k > 1 /\ local[k - 1] # "." /\ k < Len(local))

LastAt(a) == SelectLastInSeq(a.Address, LAMBDA c : c = "@")
LocalPart(a) == IF LastAt(a) = 0 THEN a.Address ELSE SubSeq(a.Address, 1, LastAt(a) - 1)

AddressString(a) ==
    LET at     == LastAt(a)
        local  == LocalPart(a)
        domain == IF at = 0 THEN << >> ELSE SubSeq(a.Address, at + 1, Len(a.Address))
        angled == <<"<">> \o (IF quoteLocal(local) THEN quoteString(local) ELSE local)
                    \o <<"@">> \o domain \o <<">">>
    IN  IF a.Name = << >> THEN angled ELSE quoteString(a.Name) \o <<" ">> \o angled
=============================================================================

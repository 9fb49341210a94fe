----------------------------- MODULE Templates -----------------------------
(***************************************************************************)
(* emailtemplate.ParsedTemplates (email/emailtemplate/template.go): the    *)
(* parsed templates that concurrent calls of Execute, Get and GetVersion   *)
(* read and that Add, AddVersion and UpsertVersion change, under the       *)
(* sync.RWMutex p.mu.                                                      *)
(*                                                                         *)
(* The mutex is the one of Go: a writer announces itself, which keeps new  *)
(* readers out, and then waits for those inside.  Execute takes the read   *)
(* lock, and findVersion takes it once more.                               *)
(*                                                                         *)
(* A parsed version is never changed, so that its content is one value; a  *)
(* Content of Broken does not parse.  The locks of the versions are only   *)
(* ever taken for writing by ReplaceData, which fails at once on p.root,   *)
(* nil: they are left out.                                                 *)
(***************************************************************************)
EXTENDS Integers, Sequences, FiniteSets

CONSTANTS Names, Versions,  \* the names of templates, and of their versions
          Contents,         \* what a version may contain
          Broken,           \* the contents that do not parse
          Executes,         \* the calls of Execute
          Lookups,          \* the calls of Get and GetVersion
          Writers,          \* the calls of Add, AddVersion and UpsertVersion
          Writes            \* what each writer may be asked to write

Readers == Executes \cup Lookups
Calls   == Readers \cup Writers

Version == [version : Versions, content : Contents]
Write   == [op : {"Add", "AddVersion", "UpsertVersion"}, name : Names,
            versions : Seq(Version)]

ASSUME TemplatesAssumption ==
    /\ IsFiniteSet(Calls)
    /\ Executes \cap Lookups = {} /\ Readers \cap Writers = {}
    /\ "none" \notin Calls \cup Contents
    /\ Broken \subseteq Contents
    /\ \A c \in Writers : \A w \in Writes[c] :
         /\ w \in Write
         /\ w.op # "Add" => Len(w.versions) = 1

VARIABLES
    templates,  \* p.templates: from the names that are there to their versions
    writer,     \* the writer that has announced itself, or "none"
    rlocks,     \* how often each reader holds the read lock
    pc,         \* each call: see Phases
    name, version, \* what each reader asks for
    write,      \* what each writer asks for
    found,      \* the content that findVersion gave each reader, or "none"
    ret         \* what each writer returned: "none" before, "ok" or "error"

vars == <<templates, writer, rlocks, pc, name, version, write, found, ret>>

\* Execute goes from "locking" to "holding", inside the outer read lock, to
\* "searching", inside both, and to "executing" with what it found.
Phases == {"idle", "locking", "holding", "searching", "executing", "announced",
           "returned"}

\* new(ParsedTemplates).
Init ==
    /\ templates = << >>
    /\ writer = "none"
    /\ rlocks = [c \in Readers |-> 0]
    /\ pc = [c \in Calls |-> "idle"]
    /\ name \in [Readers -> Names] /\ version \in [Readers -> Versions]
    /\ write \in {f \in [Writers -> UNION {Writes[c] : c \in Writers}] :
                    \A c \in Writers : f[c] \in Writes[c]}
    /\ found = [c \in Readers |-> "none"]
    /\ ret = [c \in Writers |-> "none"]

asked == <<name, version, write>>

\* Where t has version v, first: an Add may bring one twice.
IndexOf(t, v) ==
    IF \E k \in 1 .. Len(t) : t[k].version = v
    THEN CHOOSE k \in 1 .. Len(t) :
            t[k].version = v /\ \A j \in 1 .. k - 1 : t[j].version # v
    ELSE 0

\* The content of version v of template n, or "none".
Content(n, v) ==
    IF n \notin DOMAIN templates \/ IndexOf(templates[n], v) = 0 THEN "none"
    ELSE templates[n][IndexOf(templates[n], v)].content

Call(c) ==
    /\ pc[c] = "idle"
    /\ pc' = [pc EXCEPT ![c] = "locking"]
    /\ UNCHANGED <<templates, writer, rlocks, asked, found, ret>>
-----------------------------------------------------------------------------
(* The readers.                                                            *)

\* RLock waits while there is a writer, announced or inside.
RLock(c, from, to) ==
    /\ pc[c] = from /\ writer = "none"
    /\ rlocks' = [rlocks EXCEPT ![c] = @ + 1]
    /\ pc' = [pc EXCEPT ![c] = to]
    /\ UNCHANGED <<templates, writer, asked, found, ret>>

ExecuteLock(c) == c \in Executes /\ RLock(c, "locking", "holding")

\* The RLock of findVersion: for Execute the second one, for Get and
\* GetVersion the only one.
FindLock(c) ==
    \/ c \in Executes /\ RLock(c, "holding", "searching")
    \/ c \in Lookups  /\ RLock(c, "locking", "searching")

\* Mutants of Find: Execute gives up its own read lock as well; and it keeps
\* it when there is no such version.
FindUnlocksAll(c) ==
    /\ pc[c] = "searching"
    /\ found' = [found EXCEPT ![c] = Content(name[c], version[c])]
    /\ rlocks' = [rlocks EXCEPT ![c] = 0]
    /\ pc' = [pc EXCEPT ![c] = IF c \in Executes /\ found'[c] # "none"
                               THEN "executing" ELSE "returned"]
    /\ UNCHANGED <<templates, writer, asked, ret>>

FindKeepsLock(c) ==
    /\ pc[c] = "searching"
    /\ found' = [found EXCEPT ![c] = Content(name[c], version[c])]
    /\ rlocks' = [rlocks EXCEPT ![c] = @ - 1]
    /\ pc' = [pc EXCEPT ![c] = IF c \in Executes /\ found'[c] # "none"
                               THEN "executing" ELSE "returned"]
    /\ UNCHANGED <<templates, writer, asked, ret>>

\* findVersion looks up and unlocks.  A version that is not there ends Execute
\* too, with its deferred RUnlock.
Find(c) ==
    /\ pc[c] = "searching"
    /\ found' = [found EXCEPT ![c] = Content(name[c], version[c])]
    /\ IF c \in Executes /\ found'[c] # "none"
       THEN /\ pc' = [pc EXCEPT ![c] = "executing"]
            /\ rlocks' = [rlocks EXCEPT ![c] = @ - 1]
       ELSE /\ pc' = [pc EXCEPT ![c] = "returned"]
            /\ rlocks' = [rlocks EXCEPT ![c] = 0]
    /\ UNCHANGED <<templates, writer, asked, ret>>

\* A mutant of ExecuteReturns: the unlock of findVersion is made once more.
ExecuteUnlocksTwice(c) ==
    /\ pc[c] = "executing"
    /\ pc' = [pc EXCEPT ![c] = "returned"]
    /\ rlocks' = [rlocks EXCEPT ![c] = @ - 2]
    /\ UNCHANGED <<templates, writer, asked, found, ret>>

\* The version's Execute, and the deferred RUnlock.
ExecuteReturns(c) ==
    /\ pc[c] = "executing"
    /\ pc' = [pc EXCEPT ![c] = "returned"]
    /\ rlocks' = [rlocks EXCEPT ![c] = 0]
    /\ UNCHANGED <<templates, writer, asked, found, ret>>
-----------------------------------------------------------------------------
(* The writers.                                                            *)

Announce(c) ==
    /\ c \in Writers /\ pc[c] = "locking" /\ writer = "none"
    /\ writer' = c
    /\ pc' = [pc EXCEPT ![c] = "announced"]
    /\ UNCHANGED <<templates, rlocks, asked, found, ret>>

Parses(vs) == \A k \in 1 .. Len(vs) : vs[k].content \notin Broken

With(n, vs) ==
    [m \in DOMAIN templates \cup {n} |-> IF m = n THEN vs ELSE templates[m]]

\* Mutants of Add: the name is not looked up; and the versions before one that
\* does not parse are stored.
AddOverwrites(n, vs) ==
    IF Parses(vs) THEN templates' = With(n, vs) ELSE UNCHANGED templates

AddStoresEach(n, vs) ==
    IF n \in DOMAIN templates THEN UNCHANGED templates
    ELSE templates' = With(n, SelectSeq(vs, LAMBDA v : v.content \notin Broken))

\* Each of the three leaves everything alone if it returns an error.
Add(n, vs) ==
    IF n \notin DOMAIN templates /\ Parses(vs)
    THEN templates' = With(n, vs)
    ELSE UNCHANGED templates

AddVersion(n, vs) ==
    IF /\ n \in DOMAIN templates
       /\ IndexOf(templates[n], vs[1].version) = 0
       /\ Parses(vs)
    THEN templates' = With(n, templates[n] \o vs)
    ELSE UNCHANGED templates

UpsertVersion(n, vs) ==
    LET t == templates[n]
        k == IndexOf(t, vs[1].version)
    IN  IF n \in DOMAIN templates /\ Parses(vs)
        THEN templates' = With(n, IF k = 0 THEN t \o vs ELSE [t EXCEPT ![k] = vs[1]])
        ELSE UNCHANGED templates

\* What the three return: an error is what they leave alone.
Succeeds(w) ==
    /\ Parses(w.versions)
    /\ CASE w.op = "Add"           -> w.name \notin DOMAIN templates
         [] w.op = "AddVersion"    -> /\ w.name \in DOMAIN templates
                                      /\ IndexOf(templates[w.name], w.versions[1].version) = 0
         [] w.op = "UpsertVersion" -> w.name \in DOMAIN templates

\* No reader is left: the whole of the call, to its deferred Unlock, is one step.
Apply(c) ==
    /\ pc[c] = "announced" /\ \A r \in Readers : rlocks[r] = 0
    /\ LET w == write[c] IN
       /\ \/ w.op = "Add"           /\ Add(w.name, w.versions)
          \/ w.op = "AddVersion"    /\ AddVersion(w.name, w.versions)
          \/ w.op = "UpsertVersion" /\ UpsertVersion(w.name, w.versions)
       /\ ret' = [ret EXCEPT ![c] = IF Succeeds(w) THEN "ok" ELSE "error"]
    /\ writer' = "none"
    /\ pc' = [pc EXCEPT ![c] = "returned"]
    /\ UNCHANGED <<rlocks, asked, found>>
-----------------------------------------------------------------------------
\* An Execute inside its own read lock waits for the second one behind a
\* writer, and the writer for that Execute.
Stuck == writer # "none" /\ \E c \in Executes : pc[c] = "holding"

Finished ==
    /\ Stuck \/ \A c \in Calls : pc[c] = "returned"
    /\ UNCHANGED vars

ReaderStep(c) == ExecuteLock(c) \/ FindLock(c) \/ Find(c) \/ ExecuteReturns(c)
WriterStep(c) == Announce(c) \/ Apply(c)

Next ==
    \/ \E c \in Calls : Call(c)
    \/ \E c \in Readers : ReaderStep(c)
    \/ \E c \in Writers : WriterStep(c)
    \/ Finished

Spec == Init /\ [][Next]_vars

\* A call that can go on does: the mutex passes from writers to the readers
\* that wait and back, and a template's execution ends.
Fairness ==
    /\ \A c \in Readers : WF_vars(ReaderStep(c))
    /\ \A c \in Writers : WF_vars(WriterStep(c))

FairSpec == Spec /\ Fairness
-----------------------------------------------------------------------------
TypeOK ==
    /\ DOMAIN templates \subseteq Names
    /\ \A n \in DOMAIN templates : templates[n] \in Seq(Version)
    /\ writer \in {"none"} \cup Writers
    /\ rlocks \in [Readers -> 0 .. 2]
    /\ pc \in [Calls -> Phases]
    /\ name \in [Readers -> Names] /\ version \in [Readers -> Versions]
    /\ write \in [Writers -> Write]
    /\ found \in [Readers -> {"none"} \cup Contents]
    /\ ret \in [Writers -> {"none", "ok", "error"}]
-----------------------------------------------------------------------------
(* Safety.                                                                 *)

\* For as long as Execute runs the version it found, that version is the
\* current one: no Upsert comes between the lookup and the end of the
\* execution (template.go:42-49).
ExecutesCurrent ==
    \A c \in Executes : pc[c] = "executing" => found[c] = Content(name[c], version[c])

\* A call that returns an error has left nothing behind: a template that is
\* there is there with all versions of the Add that made it, then versions
\* that it did not have, and all of them parse (template.go:66-79, 130-142).
AllOrNothing ==
    \A n \in DOMAIN templates :
        LET t == templates[n] IN
        /\ Parses(t)
        /\ \E c \in Writers :
             LET vs == write[c].versions IN
             /\ write[c].op = "Add" /\ write[c].name = n /\ ret[c] = "ok"
             /\ Len(t) >= Len(vs)
             /\ \A k \in 1 .. Len(vs) : t[k].version = vs[k].version
             /\ \A k \in Len(vs) + 1 .. Len(t) : IndexOf(t, t[k].version) = k

\* What a version contains is only ever changed by an UpsertVersion of it that
\* returns without an error: never by Add or AddVersion, and it never goes
\* away (template.go:61-63, 130-134).
OnlyUpsertReplaces ==
    [][\A n \in Names, v \in Versions :
         Content(n, v) # "none" /\ Content(n, v)' # Content(n, v) =>
            \E c \in Writers :
                /\ ret[c] = "none" /\ ret'[c] = "ok"
                /\ write[c].op = "UpsertVersion" /\ write[c].name = n
                /\ write[c].versions[1] = [version |-> v, content |-> Content(n, v)']]_vars

(* Liveness.                                                               *)

\* Every call returns, unless an Execute and a writer have come to wait for
\* each other (template.go:42-45, 102).
CallsReturn == \A c \in Calls : pc[c] = "locking" ~> pc[c] = "returned" \/ Stuck

(* What the comments say beyond that.                                      *)

\* "Execute executes the template and returns a message" (template.go:40).
EveryExecuteReturns == \A c \in Executes : pc[c] = "locking" ~> pc[c] = "returned"
=============================================================================

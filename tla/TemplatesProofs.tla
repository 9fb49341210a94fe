-------------------------- MODULE TemplatesProofs --------------------------
(***************************************************************************)
(* Proofs about Templates.tla, for any calls, templates and versions.      *)
(***************************************************************************)
EXTENDS Templates, CommonLemmas

-----------------------------------------------------------------------------
(* The inductive invariant.                                                *)

\* The types of what the locks are made of.
LockTypes ==
    /\ writer \in {"none"} \cup Writers
    /\ rlocks \in [Readers -> Nat]
    /\ pc \in [Calls -> Phases]
    /\ name \in [Readers -> Names] /\ version \in [Readers -> Versions]
    /\ found = [c \in Readers |-> found[c]]

\* How often a reader holds the read lock, by where it is: an Execute once or
\* twice, a lookup once.
LocksHeld(c) ==
    IF pc[c] = "searching" THEN IF c \in Executes THEN 2 ELSE 1
    ELSE IF pc[c] \in {"holding", "executing"} THEN 1 ELSE 0

ReadersCounted == \A c \in Readers : rlocks[c] = LocksHeld(c)

\* A call is only where its kind may be, and the writer that has announced
\* itself is the one that p.mu knows of.
InPlace ==
    /\ \A c \in Readers : pc[c] # "announced"
    /\ \A c \in Writers : pc[c] = "announced" => writer = c

LockInv == LockTypes /\ ReadersCounted /\ InPlace

\* Before any call the lock is free and nothing is being executed.
LEMMA InitInv == Init => LockInv /\ ExecutesCurrent
  BY TemplatesAssumption
     DEF Init, LockInv, LockTypes, ReadersCounted, LocksHeld, InPlace,
         ExecutesCurrent, Phases, Calls, Readers

\* With a read lock held, no writer can get to its changes.
LEMMA ExecutingKeepsWritersOut ==
    ASSUME LockInv, NEW c \in Executes, pc[c] = "executing", NEW w \in Writers
    PROVE  ~ Apply(w)
<1>1. c \in Readers /\ rlocks[c] = 1
  BY DEF LockInv, ReadersCounted, LocksHeld, Readers
<1> QED
  BY <1>1 DEF Apply
-----------------------------------------------------------------------------
(* Each step.                                                              *)

\* Every step keeps the count of the read locks (template.go:42-45, 102-103).
LEMMA LockStep == LockInv /\ [Next]_vars => LockInv'
<1> SUFFICES ASSUME LockInv, [Next]_vars
             PROVE  LockInv'
  OBVIOUS
<1> USE DEF LockInv, asked
<1>0. /\ LockTypes /\ ReadersCounted /\ InPlace
      /\ Readers \subseteq Calls /\ Writers \subseteq Calls
      /\ Executes \subseteq Readers /\ Lookups \subseteq Readers
      /\ Executes \cap Lookups = {} /\ Readers \cap Writers = {}
      /\ Readers = Executes \cup Lookups
  BY TemplatesAssumption DEF Readers, Calls
<1>1. ASSUME NEW c \in Calls, Call(c)
      PROVE  LockInv'
  <2>1. LockTypes'
    BY <1>0, <1>1 DEF Call, LockTypes, Phases
  <2>2. ReadersCounted' /\ InPlace'
    BY <1>0, <1>1 DEF Call, LockTypes, ReadersCounted, LocksHeld, InPlace
  <2> QED
    BY <2>1, <2>2
<1>2. ASSUME NEW c \in Readers, ExecuteLock(c) \/ FindLock(c)
      PROVE  LockInv'
  <2>1. \/ c \in Executes /\ RLock(c, "locking", "holding")
        \/ c \in Executes /\ RLock(c, "holding", "searching")
        \/ c \in Lookups /\ RLock(c, "locking", "searching")
    BY <1>2 DEF ExecuteLock, FindLock
  <2>2. LockTypes'
    BY <1>0, <2>1 DEF RLock, LockTypes, Phases
  <2>3. ReadersCounted'
    BY <1>0, <2>1 DEF RLock, LockTypes, ReadersCounted, LocksHeld
  <2>4. InPlace'
    BY <1>0, <2>1 DEF RLock, LockTypes, InPlace
  <2> QED
    BY <2>2, <2>3, <2>4
<1>3. ASSUME NEW c \in Readers, Find(c)
      PROVE  LockInv'
  <2>1. /\ found' = [found EXCEPT ![c] = Content(name[c], version[c])]
        /\ \/ /\ c \in Executes /\ pc' = [pc EXCEPT ![c] = "executing"]
              /\ rlocks' = [rlocks EXCEPT ![c] = @ - 1]
           \/ /\ pc' = [pc EXCEPT ![c] = "returned"]
              /\ rlocks' = [rlocks EXCEPT ![c] = 0]
        /\ pc[c] = "searching" /\ UNCHANGED <<writer, name, version>>
    BY <1>3 DEF Find
  <2>2. rlocks[c] = IF c \in Executes THEN 2 ELSE 1
    BY <1>0, <2>1 DEF ReadersCounted, LocksHeld
  <2>3. LockTypes'
    BY <1>0, <2>1, <2>2 DEF LockTypes, Phases
  <2>4. ReadersCounted' /\ InPlace'
    BY <1>0, <2>1, <2>2 DEF LockTypes, ReadersCounted, LocksHeld, InPlace
  <2> QED
    BY <2>3, <2>4
<1>4. ASSUME NEW c \in Readers, ExecuteReturns(c)
      PROVE  LockInv'
  <2>1. LockTypes'
    BY <1>0, <1>4 DEF ExecuteReturns, LockTypes, Phases
  <2>2. ReadersCounted' /\ InPlace'
    BY <1>0, <1>4 DEF ExecuteReturns, LockTypes, ReadersCounted, LocksHeld, InPlace
  <2> QED
    BY <2>1, <2>2
<1>5. ASSUME NEW c \in Writers, Announce(c)
      PROVE  LockInv'
  <2>1. LockTypes'
    BY <1>0, <1>5 DEF Announce, LockTypes, Phases
  <2>2. ReadersCounted' /\ InPlace'
    BY <1>0, <1>5, TemplatesAssumption
       DEF Announce, LockTypes, ReadersCounted, LocksHeld, InPlace
  <2> QED
    BY <2>1, <2>2
<1>6. ASSUME NEW c \in Writers, Apply(c)
      PROVE  LockInv'
  <2>1. /\ pc[c] = "announced" /\ pc' = [pc EXCEPT ![c] = "returned"]
        /\ writer' = "none" /\ UNCHANGED <<rlocks, name, version, found>>
    BY <1>6 DEF Apply
  <2>2. LockTypes'
    BY <1>0, <2>1 DEF LockTypes, Phases
  <2>3. ReadersCounted' /\ InPlace'
    BY <1>0, <2>1 DEF LockTypes, ReadersCounted, LocksHeld, InPlace
  <2> QED
    BY <2>2, <2>3
<1>7. ASSUME UNCHANGED vars
      PROVE  LockInv'
  BY <1>0, <1>7 DEF vars, LockTypes, ReadersCounted, LocksHeld, InPlace
<1> QED
  BY <1>1, <1>2, <1>3, <1>4, <1>5, <1>6, <1>7
     DEF Next, ReaderStep, WriterStep, Finished

\* What Execute found stays what is there: reading the store does not change
\* it, and who would change it does not get in.
LEMMA CurrentStep == LockInv /\ ExecutesCurrent /\ [Next]_vars => ExecutesCurrent'
<1> SUFFICES ASSUME LockInv, ExecutesCurrent, [Next]_vars,
                    NEW d \in Executes, pc'[d] = "executing"
             PROVE  found'[d] = Content(name[d], version[d])' /\ UNCHANGED <<name, version>>
  BY DEF ExecutesCurrent
<1> USE DEF asked
<1>0. /\ LockTypes /\ d \in Readers /\ d \notin Writers
      /\ Readers \subseteq Calls /\ Writers \subseteq Calls
  BY TemplatesAssumption DEF LockInv, Readers, Calls
<1>1. UNCHANGED <<name, version>>
  BY DEF Next, Call, ReaderStep, WriterStep, ExecuteLock, FindLock, RLock, Find,
     ExecuteReturns, Announce, Apply, Finished, vars
<1>2. ASSUME UNCHANGED templates, UNCHANGED <<pc, found>>
      PROVE  found'[d] = Content(name[d], version[d])'
  BY <1>1, <1>2 DEF ExecutesCurrent, Content
<1>3. ASSUME NEW c \in Calls, UNCHANGED <<templates, found>>,
             NEW x \in Phases \ {"executing"}, pc' = [pc EXCEPT ![c] = x]
      PROVE  found'[d] = Content(name[d], version[d])'
  <2>1. pc[d] = "executing"
    BY <1>0, <1>3 DEF LockTypes
  <2> QED
    BY <1>1, <1>3, <2>1 DEF ExecutesCurrent, Content
<1>4. ASSUME NEW c \in Readers, Find(c)
      PROVE  found'[d] = Content(name[d], version[d])'
  <2>1. /\ UNCHANGED templates
        /\ found' = [found EXCEPT ![c] = Content(name[c], version[c])]
        /\ \A e \in Readers \ {c} : pc'[e] = pc[e]
    BY <1>0, <1>4 DEF Find, LockTypes
  <2>2. Content(name[d], version[d])' = Content(name[d], version[d])
    BY <1>1, <2>1 DEF Content
  <2>3. CASE d = c
    BY <1>0, <2>1, <2>2, <2>3 DEF LockTypes
  <2>4. CASE d # c
    BY <1>0, <2>1, <2>2, <2>4 DEF LockTypes, ExecutesCurrent
  <2> QED
    BY <2>3, <2>4
<1>5. ASSUME NEW c \in Writers, Apply(c)
      PROVE  FALSE
  <2>1. pc[d] = "executing"
    BY <1>0, <1>5 DEF Apply, LockTypes
  <2> QED
    BY <1>5, <2>1, ExecutingKeepsWritersOut
<1>6. ASSUME NEW c \in Calls, Call(c)
      PROVE  found'[d] = Content(name[d], version[d])'
  BY <1>3, <1>6 DEF Call, Phases
<1>7. ASSUME NEW c \in Readers, ExecuteLock(c) \/ FindLock(c) \/ ExecuteReturns(c)
      PROVE  found'[d] = Content(name[d], version[d])'
  BY <1>0, <1>3, <1>7 DEF ExecuteLock, FindLock, RLock, ExecuteReturns, Phases
<1>8. ASSUME NEW c \in Writers, Announce(c)
      PROVE  found'[d] = Content(name[d], version[d])'
  BY <1>0, <1>3, <1>8 DEF Announce, Phases
<1>9. ASSUME UNCHANGED vars
      PROVE  found'[d] = Content(name[d], version[d])'
  BY <1>2, <1>9 DEF vars
<1> QED
  BY <1>1, <1>4, <1>5, <1>6, <1>7, <1>8, <1>9
     DEF Next, ReaderStep, WriterStep, Finished
-----------------------------------------------------------------------------
(* IndexOf.                                                                *)

\* IndexOf is the least index with the version, and 0 if there is none: among
\* the indexes that there are one is the least (template.go:161-167).
LEMMA IndexOfLeast ==
    ASSUME NEW t \in Seq(Version), NEW v
    PROVE  /\ IndexOf(t, v) \in 0 .. Len(t)
           /\ IndexOf(t, v) = 0 => \A k \in 1 .. Len(t) : t[k].version # v
           /\ IndexOf(t, v) # 0 => /\ t[IndexOf(t, v)].version = v
                                   /\ \A j \in 1 .. IndexOf(t, v) - 1 : t[j].version # v
<1> DEFINE X == {k \in 1 .. Len(t) : t[k].version = v}
           Least(k) == t[k].version = v /\ \A j \in 1 .. k - 1 : t[j].version # v
<1>1. Len(t) \in Nat
  OBVIOUS
<1>2. CASE X = {}
  <2>1. \A k \in 1 .. Len(t) : t[k].version # v
    BY <1>2
  <2>2. IndexOf(t, v) = 0
    BY <2>1 DEF IndexOf
  <2> QED
    BY <1>1, <2>1, <2>2
<1>3. CASE X # {}
  <2>1. PICK m \in X : \A k \in X : m =< k
    <3>1. X \in SUBSET Nat
      BY <1>1
    <3> HIDE DEF X
    <3> QED
      BY <1>3, <3>1, LeastNatural
  <2>2. m \in 1 .. Len(t) /\ Least(m)
    BY <1>1, <2>1
  <2>3. IndexOf(t, v) = CHOOSE k \in 1 .. Len(t) : Least(k)
    BY <2>2 DEF IndexOf
  <2>4. IndexOf(t, v) \in 1 .. Len(t) /\ Least(IndexOf(t, v))
    <3> HIDE DEF Least
    <3> QED
      BY <2>2, <2>3
  <2> QED
    BY <1>1, <2>4
<1> QED
  BY <1>2, <1>3

\* Nothing else is.
LEMMA IndexOfIs ==
    ASSUME NEW t \in Seq(Version), NEW k \in 1 .. Len(t),
           \A j \in 1 .. k - 1 : t[j].version # t[k].version
    PROVE  IndexOf(t, t[k].version) = k
<1>1. /\ Len(t) \in Nat
      /\ IndexOf(t, t[k].version) \in 0 .. Len(t)
      /\ IndexOf(t, t[k].version) # 0
  BY IndexOfLeast
<1>2. ~ (k < IndexOf(t, t[k].version)) /\ ~ (IndexOf(t, t[k].version) < k)
  BY <1>1, IndexOfLeast
<1> QED
  BY <1>1, <1>2

\* It looks at the versions alone: a template with the same versions at its
\* beginning has each of them at the same index.
LEMMA IndexOfSame ==
    ASSUME NEW t \in Seq(Version), NEW u \in Seq(Version), NEW v,
           Len(t) =< Len(u), \A k \in 1 .. Len(t) : u[k].version = t[k].version,
           IndexOf(t, v) # 0
    PROVE  IndexOf(u, v) = IndexOf(t, v)
<1> DEFINE k == IndexOf(t, v)
<1>1. /\ Len(t) \in Nat /\ Len(u) \in Nat
      /\ k \in 1 .. Len(t) /\ t[k].version = v
      /\ \A j \in 1 .. k - 1 : t[j].version # v
  BY IndexOfLeast
<1>2. /\ k \in 1 .. Len(u) /\ u[k].version = v
      /\ \A j \in 1 .. k - 1 : u[j].version # u[k].version
  BY <1>1
<1> QED
  BY <1>2, IndexOfIs

\* With one version replaced a template is a template.
LEMMA ReplacedType ==
    ASSUME NEW t \in Seq(Version), NEW k \in 1 .. Len(t), NEW v \in Version
    PROVE  [t EXCEPT ![k] = v] \in Seq(Version) /\ Len([t EXCEPT ![k] = v]) = Len(t)
  OBVIOUS

\* What findVersion answers is a content, or "none".
LEMMA ContentType ==
    ASSUME DOMAIN templates \subseteq Names,
           \A n \in DOMAIN templates : templates[n] \in Seq(Version),
           NEW n, NEW v
    PROVE  Content(n, v) \in {"none"} \cup Contents
<1>1. CASE n \notin DOMAIN templates \/ IndexOf(templates[n], v) = 0
  BY <1>1 DEF Content
<1>2. CASE n \in DOMAIN templates /\ IndexOf(templates[n], v) # 0
  <2>1. templates[n] \in Seq(Version) /\ IndexOf(templates[n], v) \in 1 .. Len(templates[n])
    BY <1>2, IndexOfLeast
  <2>2. templates[n][IndexOf(templates[n], v)] \in Version
    BY <2>1
  <2> QED
    BY <1>2, <2>2 DEF Content, Version
<1> QED
  BY <1>1, <1>2
-----------------------------------------------------------------------------
(* The store.                                                              *)

\* What a writer writes is what it may be asked to, and it has returned
\* nothing before it returns.
WritersAsked ==
    /\ \A c \in Writers : write[c] \in Writes[c]
    /\ \A c \in Writers : pc[c] # "returned" => ret[c] = "none"

StoreInv == TypeOK /\ WritersAsked

\* The store is empty at first, and nobody has returned.
LEMMA InitStoreInv == Init => StoreInv /\ AllOrNothing
<1> SUFFICES ASSUME Init
             PROVE  StoreInv /\ AllOrNothing
  OBVIOUS
<1>1. /\ Readers \subseteq Calls /\ Writers \subseteq Calls
      /\ DOMAIN templates = {}
  BY DEF Init, Readers, Calls
<1>2. \A c \in Writers : write[c] \in Writes[c] /\ write[c] \in Write
  BY TemplatesAssumption DEF Init
<1>3. write \in [Writers -> Write]
  BY <1>2 DEF Init
<1>4. TypeOK
  BY <1>1, <1>3 DEF Init, TypeOK, Phases
<1>5. WritersAsked
  BY <1>1, <1>2 DEF Init, WritersAsked
<1> QED
  BY <1>1, <1>4, <1>5 DEF StoreInv, AllOrNothing

\* What a writer that is done has made of the template it was asked about,
\* from t: the versions of an Add, t with one more version, or t with one
\* replaced (template.go:75-79, 140-142, 161-176).
Written(w, u) ==
    \/ /\ w.op = "Add" /\ w.name \notin DOMAIN templates
       /\ u = w.versions
    \/ /\ w.op # "Add" /\ w.name \in DOMAIN templates
       /\ IndexOf(templates[w.name], w.versions[1].version) = 0
       /\ u = templates[w.name] \o w.versions
    \/ /\ w.op = "UpsertVersion" /\ w.name \in DOMAIN templates
       /\ IndexOf(templates[w.name], w.versions[1].version) # 0
       /\ u = [templates[w.name] EXCEPT
                 ![IndexOf(templates[w.name], w.versions[1].version)] = w.versions[1]]

\* A call that succeeds has written its versions, all of which parse; one that
\* fails has left the store alone.
LEMMA ApplyWrites ==
    ASSUME StoreInv, NEW c \in Writers, Apply(c)
    PROVE  \/ UNCHANGED templates /\ ret' = [ret EXCEPT ![c] = "error"]
           \/ /\ ret' = [ret EXCEPT ![c] = "ok"] /\ Parses(write[c].versions)
              /\ \E u \in Seq(Version) :
                   /\ templates' = With(write[c].name, u)
                   /\ Written(write[c], u)
<1> DEFINE w == write[c]
           n == w.name
           t == templates[n]
           k == IndexOf(t, w.versions[1].version)
<1>1. /\ w \in Write /\ (w.op # "Add" => Len(w.versions) = 1)
      /\ w.versions \in Seq(Version) /\ n \in Names
      /\ n \in DOMAIN templates => t \in Seq(Version)
  BY TemplatesAssumption DEF StoreInv, WritersAsked, TypeOK, Write
<1>2. ASSUME w.op = "Add", Add(n, w.versions)
      PROVE  \/ UNCHANGED templates /\ ~ Succeeds(w)
             \/ Succeeds(w) /\ templates' = With(n, w.versions) /\ Written(w, w.versions)
  <2>1. Succeeds(w) <=> Parses(w.versions) /\ n \notin DOMAIN templates
    BY <1>2, Zenon DEF Succeeds
  <2> QED
    BY <1>2, <2>1 DEF Add, Written
<1>3. ASSUME w.op = "AddVersion", AddVersion(n, w.versions)
      PROVE  \/ UNCHANGED templates /\ ~ Succeeds(w)
             \/ /\ Succeeds(w) /\ templates' = With(n, t \o w.versions)
                /\ Written(w, t \o w.versions) /\ t \o w.versions \in Seq(Version)
  <2>1. Succeeds(w) <=> Parses(w.versions) /\ n \in DOMAIN templates /\ k = 0
    BY <1>3 DEF Succeeds
  <2> QED
    BY <1>1, <1>3, <2>1 DEF AddVersion, Written
<1>4. ASSUME w.op = "UpsertVersion", UpsertVersion(n, w.versions)
      PROVE  \/ UNCHANGED templates /\ ~ Succeeds(w)
             \/ /\ Succeeds(w)
                /\ \E u \in Seq(Version) : templates' = With(n, u) /\ Written(w, u)
  <2>0. IF n \in DOMAIN templates /\ Parses(w.versions)
        THEN templates' = With(n, IF k = 0 THEN t \o w.versions ELSE [t EXCEPT ![k] = w.versions[1]])
        ELSE UNCHANGED templates
    BY <1>4 DEF UpsertVersion
  <2>1. Succeeds(w) <=> Parses(w.versions) /\ n \in DOMAIN templates
    BY <1>4 DEF Succeeds
  <2>2. CASE ~ Succeeds(w)
    BY <2>0, <2>1, <2>2
  <2>3. CASE Succeeds(w) /\ k = 0
    <3>1. t \o w.versions \in Seq(Version)
      BY <1>1, <2>1, <2>3
    <3>2. Written(w, t \o w.versions) /\ templates' = With(n, t \o w.versions)
      BY <1>4, <2>0, <2>1, <2>3 DEF Written
    <3> QED
      BY <2>3, <3>1, <3>2
  <2>4. CASE Succeeds(w) /\ k # 0
    <3>1. t \in Seq(Version) /\ w.versions[1] \in Version
      BY <1>1, <1>4, <2>1, <2>4
    <3>2. k \in 1 .. Len(t)
      BY <2>4, <3>1, IndexOfLeast
    <3>3. [t EXCEPT ![k] = w.versions[1]] \in Seq(Version)
      BY <3>1, <3>2, ReplacedType
    <3> QED
      BY <1>4, <2>0, <2>1, <2>4, <3>3 DEF Written
  <2> QED
    BY <2>2, <2>3, <2>4
<1>5. ret' = [ret EXCEPT ![c] = IF Succeeds(w) THEN "ok" ELSE "error"]
  BY DEF Apply
<1>6. /\ Succeeds(w) => Parses(w.versions)
      /\ w.op \in {"Add", "AddVersion", "UpsertVersion"}
  BY <1>1 DEF Succeeds, Write
<1>7. \/ w.op = "Add" /\ Add(n, w.versions)
      \/ w.op = "AddVersion" /\ AddVersion(n, w.versions)
      \/ w.op = "UpsertVersion" /\ UpsertVersion(n, w.versions)
  BY DEF Apply
<1> HIDE DEF w, n, t, k
<1> QED
  BY <1>1, <1>2, <1>3, <1>4, <1>5, <1>6, <1>7 DEF w, n

\* Only a writer inside the lock changes the store.
LEMMA OnlyApplyWrites ==
    ASSUME [Next]_vars
    PROVE  (\E c \in Writers : Apply(c)) \/ UNCHANGED <<templates, write, ret>>
  BY DEF Next, ReaderStep, WriterStep, Call, ExecuteLock, FindLock, RLock, Find,
         ExecuteReturns, Announce, Finished, asked, vars

\* Every variable keeps its type. The bound on the read locks is that of
\* LocksHeld; the template an Apply makes is one by ApplyWrites.
LEMMA StoreStep == LockInv /\ LockInv' /\ StoreInv /\ [Next]_vars => StoreInv'
<1> SUFFICES ASSUME LockInv, LockInv', StoreInv, [Next]_vars
             PROVE  StoreInv'
  OBVIOUS
<1>1. /\ Readers \subseteq Calls /\ Writers \subseteq Calls
      /\ TypeOK /\ WritersAsked
  BY DEF StoreInv, Readers, Calls
<1>2. writer' \in {"none"} \cup Writers /\ pc' \in [Calls -> Phases]
  BY DEF LockInv, LockTypes
<1>3. rlocks' \in [Readers -> 0 .. 2]
  <2>1. \A c \in Readers : LocksHeld(c)' \in 0 .. 2
    BY DEF LocksHeld
  <2> QED
    BY <2>1 DEF LockInv, LockTypes, ReadersCounted
<1>4. UNCHANGED asked
  BY DEF Next, ReaderStep, WriterStep, Call, ExecuteLock, FindLock, RLock, Find,
         ExecuteReturns, Announce, Apply, Finished, vars, asked
<1>5. found' \in [Readers -> {"none"} \cup Contents]
  <2>1. \/ \E c \in Readers : found' = [found EXCEPT ![c] = Content(name[c], version[c])]
        \/ found' = found
    BY DEF Next, ReaderStep, WriterStep, Call, ExecuteLock, FindLock, RLock, Find,
           ExecuteReturns, Announce, Apply, Finished, vars
  <2>2. \A n, v : Content(n, v) \in {"none"} \cup Contents
    BY <1>1, ContentType DEF TypeOK
  <2> QED
    BY <1>1, <2>1, <2>2 DEF TypeOK
<1>6. ASSUME NEW c \in Writers, Apply(c)
      PROVE  /\ DOMAIN templates' \subseteq Names
             /\ \A n \in DOMAIN templates' : templates'[n] \in Seq(Version)
             /\ ret' \in [Writers -> {"none", "ok", "error"}]
             /\ \A d \in Writers : pc'[d] # "returned" => ret'[d] = "none"
  <2>1. write[c].name \in Names
    BY <1>1 DEF TypeOK, Write
  <2>2. pc' = [pc EXCEPT ![c] = "returned"]
    BY <1>6 DEF Apply
  <2>3. CASE UNCHANGED templates /\ ret' = [ret EXCEPT ![c] = "error"]
    BY <1>1, <2>2, <2>3 DEF TypeOK, WritersAsked
  <2>4. CASE /\ ret' = [ret EXCEPT ![c] = "ok"]
             /\ \E u \in Seq(Version) : templates' = With(write[c].name, u)
    <3>1. PICK u \in Seq(Version) : templates' = With(write[c].name, u)
      BY <2>4
    <3>2. /\ DOMAIN templates' = DOMAIN templates \cup {write[c].name}
          /\ \A n \in DOMAIN templates' :
               templates'[n] = IF n = write[c].name THEN u ELSE templates[n]
      BY <3>1 DEF With
    <3>3. /\ DOMAIN templates' \subseteq Names
          /\ \A n \in DOMAIN templates' : templates'[n] \in Seq(Version)
      BY <1>1, <2>1, <3>2 DEF TypeOK
    <3> QED
      BY <1>1, <2>2, <2>4, <3>3 DEF TypeOK, WritersAsked
  <2> QED
    BY <1>6, <2>3, <2>4, ApplyWrites
<1>7. CASE UNCHANGED <<templates, write, ret>>
  <2>1. \A c \in Writers : pc'[c] # "returned" => pc[c] # "returned"
    BY <1>1 DEF TypeOK, Next, ReaderStep, WriterStep, Call, ExecuteLock, FindLock, RLock,
                Find, ExecuteReturns, Announce, Apply, Finished, vars
  <2> QED
    BY <1>1, <1>2, <1>3, <1>4, <1>5, <1>7, <2>1 DEF StoreInv, TypeOK, WritersAsked, asked
<1> QED
  BY <1>1, <1>2, <1>3, <1>4, <1>5, <1>6, <1>7, OnlyApplyWrites
     DEF StoreInv, TypeOK, WritersAsked, asked
-----------------------------------------------------------------------------
(* What is in the store.                                                   *)

\* A sequence with one more element at its end.
LEMMA OneMore ==
    ASSUME NEW S, NEW t \in Seq(S), NEW vs \in Seq(S), Len(vs) = 1
    PROVE  /\ Len(t \o vs) = Len(t) + 1 /\ (t \o vs)[Len(t) + 1] = vs[1]
           /\ \A k \in 1 .. Len(t) : (t \o vs)[k] = t[k]
<1>1. Len(t) \in Nat
  OBVIOUS
<1>2. Len(t \o vs) = Len(t) + 1
  BY <1>1, ConcatProperties
<1>3. Len(t) + 1 \in 1 .. Len(t) + Len(vs) /\ Len(t) + 1 - Len(t) = 1 /\ ~ (Len(t) + 1 =< Len(t))
  BY <1>1
<1> DEFINE u == t \o vs
<1>4. \A k \in 1 .. Len(t) + Len(vs) : u[k] = IF k =< Len(t) THEN t[k] ELSE vs[k - Len(t)]
  BY ConcatProperties
<1>5. u[Len(t) + 1] = vs[1]
  <2> HIDE DEF u
  <2> QED
    BY <1>3, <1>4
<1> QED
  BY <1>1, <1>2, <1>4, <1>5

\* What Written says of the versions before: none goes away or moves, and only
\* an UpsertVersion changes what one of them contains (template.go:140-142,
\* 161-176).
LEMMA WrittenKeeps ==
    ASSUME NEW w \in Write, w.op # "Add" => Len(w.versions) = 1,
           w.name \in DOMAIN templates, templates[w.name] \in Seq(Version),
           NEW u \in Seq(Version), Written(w, u)
    PROVE  /\ w.op # "Add" /\ Len(templates[w.name]) =< Len(u)
           /\ \A k \in 1 .. Len(templates[w.name]) :
                /\ u[k].version = templates[w.name][k].version
                /\ \/ u[k] = templates[w.name][k]
                   \/ w.op = "UpsertVersion" /\ u[k] = w.versions[1]
           /\ \A k \in Len(templates[w.name]) + 1 .. Len(u) :
                /\ u[k] = w.versions[1]
                /\ \A j \in 1 .. k - 1 : u[j].version # u[k].version
<1> DEFINE t == templates[w.name]
           vs == w.versions
           v == w.versions[1]
           at == IndexOf(t, v.version)
<1>1. /\ w.versions \in Seq(Version) /\ t \in Seq(Version) /\ Len(t) \in Nat
      /\ w.op # "Add" /\ Len(w.versions) = 1 /\ v \in Version
      /\ vs \in Seq(Version) /\ Len(vs) = 1 /\ vs[1] = v
  BY DEF Write, Written
<1>2. CASE at = 0 /\ u = t \o vs
  <2>1. /\ Len(u) = Len(t) + 1 /\ u[Len(t) + 1] = v
        /\ \A k \in 1 .. Len(t) : u[k] = t[k]
    <3> HIDE DEF t, vs, v, at
    <3> QED
      BY <1>1, <1>2, OneMore
  <2>2. \A k \in 1 .. Len(t) : u[k].version # v.version
    <3>1. \A k \in 1 .. Len(t) : t[k].version # v.version
      BY <1>1, <1>2, IndexOfLeast
    <3> HIDE DEF t, vs, v, at
    <3> QED
      BY <2>1, <3>1
  <2> HIDE DEF t, v, at
  <2>3. \A k \in Len(t) + 1 .. Len(u) : k = Len(t) + 1
    BY <1>1, <2>1
  <2>4. Len(t) + 1 - 1 = Len(t) /\ Len(t) =< Len(u)
    BY <1>1, <2>1
  <2> QED
    BY <1>1, <2>1, <2>2, <2>3, <2>4 DEF t, v
<1>3. CASE w.op = "UpsertVersion" /\ at # 0 /\ u = [t EXCEPT ![at] = v]
  <2>1. at \in 1 .. Len(t) /\ t[at].version = v.version
    BY <1>1, <1>3, IndexOfLeast
  <2> HIDE DEF t, v, at
  <2>2. Len(u) = Len(t) /\ \A k \in 1 .. Len(t) : u[k] = IF k = at THEN v ELSE t[k]
    BY <1>1, <1>3, <2>1
  <2>3. Len(t) + 1 .. Len(u) = {}
    BY <1>1, <2>2
  <2> QED
    BY <1>1, <1>3, <2>1, <2>2, <2>3 DEF t, v
<1> QED
  BY <1>2, <1>3 DEF Written

\* t is template n as call w, which returned r, has made it: an Add, with
\* versions behind its own that it did not have.
MadeBy(w, r, n, t) ==
    /\ w.op = "Add" /\ w.name = n /\ r = "ok"
    /\ Len(t) >= Len(w.versions)
    /\ \A k \in 1 .. Len(w.versions) : t[k].version = w.versions[k].version
    /\ \A k \in Len(w.versions) + 1 .. Len(t) : IndexOf(t, t[k].version) = k

\* An Add makes its template, and the other calls leave it the template of
\* the Add that made it, all of it parsed (template.go:66-79, 130-142, 161-176).
LEMMA WrittenWhole ==
    ASSUME NEW w \in Write, w.op # "Add" => Len(w.versions) = 1, Parses(w.versions),
           NEW u \in Seq(Version), Written(w, u), NEW r, r = "ok",
           w.name \in DOMAIN templates => /\ templates[w.name] \in Seq(Version)
                                          /\ Parses(templates[w.name])
    PROVE  /\ Parses(u)
           /\ \/ MadeBy(w, r, w.name, u)
              \/ /\ w.name \in DOMAIN templates
                 /\ \A v \in Write : \A q :
                      MadeBy(v, q, w.name, templates[w.name]) => MadeBy(v, q, w.name, u)
<1>1. w.versions \in Seq(Version) /\ Len(w.versions) \in Nat
  BY DEF Write
<1>2. CASE w.op = "Add" /\ u = w.versions
  BY <1>1, <1>2 DEF MadeBy
<1>3. CASE w.op # "Add" /\ w.name \in DOMAIN templates
  <2> DEFINE t == templates[w.name]
  <2>1. t \in Seq(Version) /\ Len(t) \in Nat /\ Len(u) \in Nat
    BY <1>3
  <2>2. /\ Len(t) =< Len(u)
        /\ \A k \in 1 .. Len(t) : /\ u[k].version = t[k].version
                                  /\ u[k] = t[k] \/ u[k] = w.versions[1]
        /\ \A k \in Len(t) + 1 .. Len(u) :
             /\ u[k] = w.versions[1]
             /\ \A j \in 1 .. k - 1 : u[j].version # u[k].version
    BY <1>3, WrittenKeeps
  <2>3. w.versions[1].content \notin Broken /\ Parses(t)
    BY <1>1, <1>3 DEF Parses
  <2> HIDE DEF t
  <2>4. Parses(u)
    <3>1. \A k \in 1 .. Len(u) : k \in 1 .. Len(t) \/ k \in Len(t) + 1 .. Len(u)
      BY <2>1
    <3> QED
      BY <2>2, <2>3, <3>1 DEF Parses
  <2>5. ASSUME NEW v \in Write, NEW q, MadeBy(v, q, w.name, t)
        PROVE  MadeBy(v, q, w.name, u)
    <3>1. Len(v.versions) \in Nat /\ Len(t) >= Len(v.versions)
      BY <2>5 DEF Write, MadeBy
    <3>2. ASSUME NEW k \in Len(v.versions) + 1 .. Len(u)
          PROVE  IndexOf(u, u[k].version) = k
      <4>1. CASE k \in 1 .. Len(t)
        <5>1. k \in Len(v.versions) + 1 .. Len(t) /\ k # 0
          BY <3>1, <4>1
        <5>2. IndexOf(t, t[k].version) = k
          BY <2>5, <5>1 DEF MadeBy
        <5> QED
          BY <2>1, <2>2, <4>1, <5>1, <5>2, IndexOfSame
      <4>2. CASE k \in Len(t) + 1 .. Len(u)
        <5>1. k \in 1 .. Len(u)
          BY <2>1, <4>2
        <5> QED
          BY <2>2, <4>2, <5>1, IndexOfIs
      <4> QED
        BY <2>1, <3>1, <4>1, <4>2
    <3>3. \A k \in 1 .. Len(v.versions) : u[k].version = v.versions[k].version
      <4>1. \A k \in 1 .. Len(v.versions) : k \in 1 .. Len(t)
        BY <2>1, <3>1
      <4> QED
        BY <2>2, <2>5, <4>1 DEF MadeBy
    <3>4. Len(u) >= Len(v.versions)
      BY <2>1, <2>2, <3>1
    <3> QED
      BY <2>5, <3>2, <3>3, <3>4 DEF MadeBy
  <2> QED
    BY <1>3, <2>4, <2>5 DEF t
<1> QED
  BY <1>2, <1>3 DEF Written

\* Writes keep the store whole: what an Add has brought stays there, what
\* comes later is not there yet, and nothing that does not parse gets in
\* (template.go:61-79, 130-142, 153-176).
LEMMA WholeStep == StoreInv /\ AllOrNothing /\ [Next]_vars => AllOrNothing'
<1> SUFFICES ASSUME StoreInv, AllOrNothing, [Next]_vars
             PROVE  AllOrNothing'
  OBVIOUS
<1>1. /\ \A n \in DOMAIN templates :
           /\ Parses(templates[n])
           /\ \E d \in Writers : MadeBy(write[d], ret[d], n, templates[n])
      /\ (\A n \in DOMAIN templates' :
           /\ Parses(templates'[n])
           /\ \E d \in Writers : MadeBy(write'[d], ret'[d], n, templates'[n])) => AllOrNothing'
  BY DEF AllOrNothing, MadeBy
<1>2. ASSUME NEW c \in Writers, Apply(c)
      PROVE  AllOrNothing'
  <2> DEFINE w == write[c]
  <2>1. /\ \A d \in Writers : write[d] \in Write
        /\ w \in Write /\ (w.op # "Add" => Len(w.versions) = 1)
        /\ \A n \in DOMAIN templates : templates[n] \in Seq(Version)
        /\ write' = write /\ ret[c] = "none" /\ ret \in [Writers -> {"none", "ok", "error"}]
    BY <1>2, TemplatesAssumption DEF StoreInv, WritersAsked, TypeOK, Apply, asked
  <2> HIDE DEF w
  <2>2. CASE UNCHANGED templates /\ ret' = [ret EXCEPT ![c] = "error"]
    <3>1. \A d \in Writers : \A n, t :
            MadeBy(write[d], ret[d], n, t) => MadeBy(write'[d], ret'[d], n, t)
      BY <2>1, <2>2 DEF MadeBy
    <3> QED
      BY <1>1, <2>2, <3>1
  <2>3. CASE /\ ret' = [ret EXCEPT ![c] = "ok"] /\ Parses(w.versions)
             /\ \E u \in Seq(Version) : templates' = With(w.name, u) /\ Written(w, u)
    <3>1. \A d \in Writers : \A n, t :
            MadeBy(write[d], ret[d], n, t) => MadeBy(write'[d], ret'[d], n, t)
      BY <2>1, <2>3 DEF MadeBy
    <3>2. PICK u \in Seq(Version) : templates' = With(w.name, u) /\ Written(w, u)
      BY <2>3
    <3>3. /\ DOMAIN templates' = DOMAIN templates \cup {w.name}
          /\ \A n \in DOMAIN templates' :
               templates'[n] = IF n = w.name THEN u ELSE templates[n]
      BY <3>2 DEF With
    <3>4. /\ Parses(u)
          /\ \/ MadeBy(w, "ok", w.name, u)
             \/ /\ w.name \in DOMAIN templates
                /\ \A v \in Write : \A q :
                      MadeBy(v, q, w.name, templates[w.name]) =>
                        MadeBy(v, q, w.name, u)
      BY <1>1, <2>1, <2>3, <3>2, WrittenWhole
    <3>5. \E d \in Writers : MadeBy(write'[d], ret'[d], w.name, u)
      <4>1. ret'[c] = "ok" /\ write'[c] = w
        BY <2>1, <2>3 DEF w
      <4> QED
        BY <1>1, <2>1, <3>1, <3>4, <4>1
    <3> QED
      BY <1>1, <3>1, <3>3, <3>4, <3>5
  <2> QED
    BY <1>2, <2>2, <2>3, ApplyWrites DEF w
<1>3. CASE UNCHANGED <<templates, write, ret>>
  BY <1>1, <1>3
<1> QED
  BY <1>2, <1>3, OnlyApplyWrites

\* What OnlyUpsertReplaces says of one version of one template.
ReplacedByUpsert(n, v) ==
    Content(n, v) # "none" /\ Content(n, v)' # Content(n, v) =>
        \E c \in Writers :
            /\ ret[c] = "none" /\ ret'[c] = "ok"
            /\ write[c].op = "UpsertVersion" /\ write[c].name = n
            /\ write[c].versions[1] = [version |-> v, content |-> Content(n, v)']

\* A version that is there keeps its index, so that what is read there changes
\* only when an Upsert writes just there (template.go:61-63, 130-134, 161-176).
LEMMA ReplaceStep ==
    ASSUME StoreInv, [Next]_vars, NEW n \in Names, NEW v \in Versions
    PROVE  ReplacedByUpsert(n, v)
<1>1. ASSUME UNCHANGED templates
      PROVE  ReplacedByUpsert(n, v)
  BY <1>1 DEF ReplacedByUpsert, Content
<1>2. ASSUME NEW c \in Writers, Apply(c), ret' = [ret EXCEPT ![c] = "ok"],
             NEW u \in Seq(Version), templates' = With(write[c].name, u),
             Written(write[c], u), Content(n, v) # "none"
      PROVE  ReplacedByUpsert(n, v)
  <2> DEFINE w == write[c]
             t == templates[n]
             k == IndexOf(t, v)
  <2>1. /\ w \in Write /\ (w.op # "Add" => Len(w.versions) = 1)
        /\ w.versions \in Seq(Version)
        /\ ret[c] = "none" /\ ret'[c] = "ok"
    BY <1>2, TemplatesAssumption DEF StoreInv, WritersAsked, TypeOK, Apply, Write
  <2>2. /\ n \in DOMAIN templates /\ k # 0 /\ Content(n, v) = t[k].content
        /\ t \in Seq(Version)
    BY <1>2 DEF Content, StoreInv, TypeOK
  <2>3. /\ n \in DOMAIN templates'
        /\ templates'[n] = IF n = w.name THEN u ELSE t
    BY <1>2, <2>2 DEF With
  <2>4. CASE n # w.name
    BY <2>2, <2>3, <2>4 DEF ReplacedByUpsert, Content
  <2>5. CASE n = w.name
    <3>1. /\ Len(t) =< Len(u)
          /\ \A j \in 1 .. Len(t) : /\ u[j].version = t[j].version
                                    /\ \/ u[j] = t[j]
                                       \/ w.op = "UpsertVersion" /\ u[j] = w.versions[1]
      BY <1>2, <2>1, <2>2, <2>5, WrittenKeeps
    <3>2. k \in 1 .. Len(t) /\ t[k].version = v
      BY <2>2, IndexOfLeast
    <3>3. IndexOf(u, v) = k
      BY <2>2, <3>1, IndexOfSame
    <3>4. Content(n, v)' = u[k].content
      BY <2>2, <2>3, <2>5, <3>3 DEF Content
    <3>5. CASE u[k] = t[k]
      BY <2>2, <3>4, <3>5 DEF ReplacedByUpsert
    <3>6. CASE w.op = "UpsertVersion" /\ u[k] = w.versions[1]
      <4>1. w.versions[1] \in Version
        BY <2>1, <3>6
      <4>2. w.versions[1] = [version |-> v, content |-> u[k].content]
        BY <3>1, <3>2, <3>6, <4>1 DEF Version
      <4> QED
        BY <2>1, <2>5, <3>4, <3>6, <4>2 DEF ReplacedByUpsert
    <3> QED
      BY <3>1, <3>2, <3>5, <3>6
  <2> QED
    BY <2>4, <2>5
<1>3. Content(n, v) = "none" => ReplacedByUpsert(n, v)
  BY DEF ReplacedByUpsert
<1> QED
  BY <1>1, <1>2, <1>3, ApplyWrites, OnlyApplyWrites
-----------------------------------------------------------------------------
(* Results.                                                                *)

\* The read locks are what the calls that are inside hold, at most two each,
\* so that RUnlock never unlocks what is not locked; and a writer that has
\* announced itself is the only one (template.go:42-45, 54-55, 102-103).
THEOREM LocksBalanced == Spec => []LockInv
<1> QED
  BY InitInv, LockStep, PTL DEF Spec

\* No write comes between the lookup of a version and the end of its
\* execution, for any number of calls of each kind (template.go:42-49).
THEOREM ExecuteRunsCurrent == Spec => []ExecutesCurrent
<1> QED
  BY InitInv, LockStep, CurrentStep, PTL DEF Spec

\* The invariants together.
LEMMA StoreInvariant == Spec => [](LockInv /\ StoreInv /\ AllOrNothing)
<1> QED
  BY InitInv, LockStep, InitStoreInv, StoreStep, WholeStep, PTL DEF Spec

\* The templates are sequences of versions whatever is written, and no reader
\* holds the lock more than twice (template.go:41-179).
THEOREM StoreTypeCorrect == Spec => []TypeOK
<1> QED
  BY StoreInvariant, PTL DEF StoreInv

\* A template in the store is the whole of the Add that made it, followed by
\* versions that were not there, and all of them parse: a call that fails
\* leaves nothing behind, even half way (template.go:66-79, 130-142).
THEOREM AddsWholeOrNothing == Spec => []AllOrNothing
<1> QED
  BY StoreInvariant, PTL

\* A version that is there stays, and what it contains is changed by an
\* UpsertVersion of it that succeeds and by nothing else, for any calls of the
\* three (template.go:61-63, 130-134, 161-176).
THEOREM OnlyUpserts == Spec => OnlyUpsertReplaces
<1>1. StoreInv /\ [Next]_vars =>
        [\A n \in Names, v \in Versions : ReplacedByUpsert(n, v)]_vars
  BY ReplaceStep
<1>2. OnlyUpsertReplaces <=> [][\A n \in Names, v \in Versions : ReplacedByUpsert(n, v)]_vars
  BY DEF OnlyUpsertReplaces, ReplacedByUpsert
<1> QED
  BY <1>1, <1>2, StoreInvariant, PTL DEF Spec
=============================================================================

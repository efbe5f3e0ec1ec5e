---------------------------- MODULE EngineProofs ----------------------------
(***************************************************************************)
(* What the engine promises of its data, for any keys, seats and calls: of *)
(* two puts that expect one etag and both succeed, each began before the   *)
(* other ended; an episode that was digested is told by the summaries that *)
(* lead on; the active focuses of a seat never all wait for one another;   *)
(* what a database was told to keep is there, whatever fails in between;   *)
(* imported documents have ids of their own and their links lead back.     *)
(***************************************************************************)
EXTENDS ExternalState, Memory, Focuses, Migration, Stores, FiniteSetTheorems, SequenceTheorems, WellFoundedInduction, TLAPS

----------------------------------------------------------------------------
(* ExternalState: one winner of an etag *)

Contents == Text \cup {NoText}
PutCall == [at : {"put"}, key : ObjectKey, text : Text, expected : Contents \cup {AnyEtag}, began : Nat]
DeleteCall == [at : {"delete"}, key : ObjectKey]
Winner == [key : ObjectKey, expected : Contents, began : Nat, ended : Nat]

ObjectTypeOK ==
    /\ object \in [ObjectKey -> Contents]
    /\ call \in [ObjectClient -> PutCall \cup DeleteCall \cup {NoCall}]
    /\ clock \in Nat
    /\ etags \subseteq [key : ObjectKey, etag : Contents, at : Nat]
    /\ won \subseteq Winner

\* x was given to the object of k at a step from a on, before b.
GivenAgain(k, x, a, b) == \E g \in etags : g.key = k /\ g.etag = x /\ a <= g.at /\ g.at < b

\* After an answered put the object has an etag that the put or a later write gave it.
Since == \A w \in won : w.ended <= clock /\ GivenAgain(w.key, object[w.key], w.ended, clock + 1)

\* A put that expects what an earlier one expected began after it was given again.
Expecting ==
    \A c \in ObjectClient : call[c].at = "put" =>
       /\ call[c].began <= clock
       /\ \A w \in won : w.key = call[c].key /\ w.expected = call[c].expected /\ w.ended < call[c].began
                           => GivenAgain(w.key, w.expected, w.ended, call[c].began)

Began == \A w \in won : w.began <= clock

ObjectInv == ObjectTypeOK /\ Since /\ Expecting /\ Began /\ WinnersOverlap

LEMMA CallsAre ==
    /\ NoCall.at \notin {"put", "delete"}
    /\ \A x \in PutCall : x.at = "put"
    /\ \A x \in DeleteCall : x.at = "delete"
  BY DEF NoCall, PutCall, DeleteCall

\* What is given stays given.
LEMMA GivenStays ==
    ASSUME etags \subseteq etags', NEW k, NEW x, NEW m, NEW n, GivenAgain(k, x, m, n)
    PROVE  \E g \in etags' : g.key = k /\ g.etag = x /\ m <= g.at /\ g.at < n
  BY DEF GivenAgain

\* A call that begins; a put expects what the object has.
LEMMA BeginStep ==
  ASSUME ObjectInv, NEW c \in ObjectClient, NEW x \in PutCall \cup DeleteCall, Begins(c, x),
         x.at = "put" => x.began = clock + 1 /\ x.expected \in {AnyEtag, object[x.key]}
  PROVE  ObjectInv'
<1>1. /\ call' = [call EXCEPT ![c] = x] /\ clock' = clock + 1
      /\ object' = object /\ etags' = etags /\ won' = won
  BY DEF Begins
<1>2. /\ call'[c] = x /\ \A d \in ObjectClient \ {c} : call'[d] = call[d]
      /\ ObjectTypeOK' /\ clock \in Nat
  BY <1>1 DEF ObjectInv, ObjectTypeOK
<1>3. \A w \in won : w.key \in ObjectKey /\ w.expected # AnyEtag /\ w.ended \in Nat
  BY TextAssumption DEF ObjectInv, ObjectTypeOK, Winner, Contents
<1>4. \A g \in etags : g.at \in Nat
  BY DEF ObjectInv, ObjectTypeOK
<1>5. ASSUME NEW w \in won
      PROVE  w.ended <= clock /\ GivenAgain(w.key, object[w.key], w.ended, clock + 1)
  BY DEF ObjectInv, Since
<1>6. Since'
  <2>1. ASSUME NEW w \in won
        PROVE  w.ended <= clock' /\ GivenAgain(w.key, object[w.key], w.ended, clock + 2)
    BY <1>1, <1>2, <1>3, <1>4, <1>5 DEF GivenAgain
  <2> QED BY <1>1, <1>2, <2>1 DEF Since, GivenAgain
<1>7. Expecting'
  <2>1. ASSUME NEW d \in ObjectClient \ {c}, call[d].at = "put"
        PROVE  /\ call[d].began <= clock + 1
               /\ \A w \in won : w.key = call[d].key /\ w.expected = call[d].expected /\ w.ended < call[d].began
                                   => GivenAgain(w.key, w.expected, w.ended, call[d].began)
    <3>1. call[d] \in PutCall
      BY <2>1, CallsAre DEF ObjectInv, ObjectTypeOK
    <3>2. call[d].began \in Nat
      BY <3>1 DEF PutCall
    <3> QED BY <1>2, <2>1, <3>2 DEF ObjectInv, Expecting
  <2>2. ASSUME x.at = "put", NEW w \in won, w.key = x.key, w.expected = x.expected
        PROVE  GivenAgain(w.key, w.expected, w.ended, x.began)
    <3>1. w.expected = object[w.key]
      BY <1>3, <2>2
    <3> QED BY <1>5, <2>2, <3>1
  <2>3. x.at = "put" => x.began <= clock + 1
    BY <1>2
  <2> QED BY <1>1, <1>2, <2>1, <2>2, <2>3 DEF Expecting, GivenAgain
<1>8. WinnersOverlap'
  BY <1>1 DEF ObjectInv, WinnersOverlap
<1>9. Began'
  <2>1. \A w \in won : w.began \in Nat /\ w.began <= clock
    BY DEF ObjectInv, Began, ObjectTypeOK, Winner
  <2> QED BY <1>1, <1>2, <2>1 DEF Began
<1> QED BY <1>2, <1>6, <1>7, <1>8, <1>9 DEF ObjectInv

\* A write: the object has what was just given, and no call began after it.
LEMMA GiveStep ==
  ASSUME ObjectInv, NEW c \in ObjectClient, NEW t \in Contents, Gives(c, t), call[c].key \in ObjectKey,
         \/ won' = won
         \/ \E w \in Winner : /\ won' = won \cup {w} /\ w.key = call[c].key /\ w.expected = call[c].expected
                              /\ w.began = call[c].began /\ w.ended = clock' /\ call[c].at = "put"
  PROVE  ObjectInv'
<1> DEFINE k == call[c].key  g == [key |-> k, etag |-> t, at |-> clock']
<1>1. /\ call' = [call EXCEPT ![c] = NoCall] /\ clock' = clock + 1 /\ clock \in Nat
      /\ object' = [object EXCEPT ![k] = t] /\ etags' = etags \cup {g}
  BY DEF Gives, ObjectInv, ObjectTypeOK
<1>2. g.key = k /\ g.etag = t /\ g.at = clock + 1 /\ g \in [key : ObjectKey, etag : Contents, at : Nat]
  BY <1>1
<1> HIDE DEF g
<1>3. /\ object'[k] = t /\ object' \in [ObjectKey -> Contents]
      /\ \A i \in ObjectKey \ {k} : object'[i] = object[i]
  BY <1>1 DEF ObjectInv, ObjectTypeOK
<1>4. /\ call'[c] = NoCall /\ \A d \in ObjectClient \ {c} : call'[d] = call[d]
      /\ call' \in [ObjectClient -> PutCall \cup DeleteCall \cup {NoCall}]
  BY <1>1 DEF ObjectInv, ObjectTypeOK
<1>5. ObjectTypeOK'
  BY <1>1, <1>2, <1>3, <1>4 DEF ObjectInv, ObjectTypeOK
<1>6. \A w \in won' : w \in Winner /\ w.key \in ObjectKey /\ w.ended \in Nat /\ w.began \in Nat
  BY <1>5 DEF ObjectTypeOK, Winner
<1>7. \A h \in etags : h.at \in Nat
  BY DEF ObjectInv, ObjectTypeOK
<1>8. ASSUME NEW w \in won'
      PROVE  w.ended <= clock + 1 /\ (w \in won => w.ended <= clock) /\ (w \notin won => w.ended = clock + 1)
  BY <1>1, <1>6 DEF ObjectInv, Since
<1>9. Since'
  <2>1. ASSUME NEW w \in won'
        PROVE  \E h \in etags' : h.key = w.key /\ h.etag = object'[w.key] /\ w.ended <= h.at /\ h.at < clock + 2
    <3>1. CASE w.key = k
      BY <1>1, <1>2, <1>3, <1>6, <1>8, <3>1
    <3>2. CASE w.key # k
      <4>1. w \in won
        BY <3>2
      <4>2. object'[w.key] = object[w.key]
        BY <1>3, <1>6, <3>2
      <4>3. GivenAgain(w.key, object[w.key], w.ended, clock + 1)
        BY <4>1 DEF ObjectInv, Since
      <4> QED BY <1>1, <1>7, <4>2, <4>3 DEF GivenAgain
    <3> QED BY <3>1, <3>2
  <2> QED BY <1>1, <1>8, <2>1 DEF Since, GivenAgain
<1>10. ASSUME NEW d \in ObjectClient, call[d].at = "put"
       PROVE  /\ call[d].began \in Nat /\ call[d].began <= clock
              /\ \A w \in won' : w.key = call[d].key /\ w.expected = call[d].expected /\ w.ended < call[d].began
                    => \E h \in etags' : h.key = w.key /\ h.etag = w.expected /\ w.ended <= h.at /\ h.at < call[d].began
  <2>1. call[d] \in PutCall /\ call[d].began <= clock
    BY <1>10, CallsAre DEF ObjectInv, ObjectTypeOK, Expecting
  <2>2. call[d].began \in Nat
    BY <2>1 DEF PutCall
  <2>3. ASSUME NEW w \in won', w.key = call[d].key, w.expected = call[d].expected, w.ended < call[d].began
        PROVE  \E h \in etags' : h.key = w.key /\ h.etag = w.expected /\ w.ended <= h.at /\ h.at < call[d].began
    <3>1. w \in won
      BY <1>1, <1>8, <2>1, <2>2, <2>3
    <3>2. GivenAgain(w.key, w.expected, w.ended, call[d].began)
      BY <1>10, <2>3, <3>1 DEF ObjectInv, Expecting
    <3> QED BY <1>1, <3>2 DEF GivenAgain
  <2> QED BY <2>1, <2>2, <2>3
<1>11. Expecting'
  <2>1. \A d \in ObjectClient : call'[d].at = "put" => call'[d] = call[d] /\ call[d].at = "put"
    BY <1>4, CallsAre
  <2>2. ASSUME NEW d \in ObjectClient, call[d].at = "put" PROVE call[d].began <= clock'
    BY <1>1, <1>10, <2>2
  <2> QED BY <1>10, <2>1, <2>2 DEF Expecting, GivenAgain
<1>12. WinnersOverlap'
  <2>1. ASSUME NEW p \in won', NEW q \in won', p.key = q.key, p.expected = q.expected, p.ended < q.began
        PROVE  \E h \in etags' : h.key = p.key /\ h.etag = p.expected /\ p.ended <= h.at /\ h.at < q.began
    <3>1. CASE q \in won
      <4>1. CASE p \in won
        <5>1. \E h \in etags : h.key = p.key /\ h.etag = p.expected /\ p.ended <= h.at /\ h.at < q.began
          BY <2>1, <3>1, <4>1 DEF ObjectInv, WinnersOverlap
        <5> QED BY <1>1, <5>1
      <4>2. CASE p \notin won
        <5>1. p.ended = clock + 1
          BY <1>8, <4>2
        <5>2. q.began <= clock
          BY <3>1 DEF Began, ObjectInv
        <5> QED BY <1>1, <1>6, <2>1, <5>1, <5>2
      <4> QED BY <4>1, <4>2
    <3>2. CASE q \notin won
      <4>1. q.key = call[c].key /\ q.expected = call[c].expected /\ q.began = call[c].began /\ call[c].at = "put"
        BY <3>2
      <4> QED BY <1>10, <2>1, <4>1
    <3> QED BY <3>1, <3>2
  <2> QED BY <2>1 DEF WinnersOverlap
<1>13. Began'
  BY <1>1, <1>6, <1>10 DEF Began, ObjectInv
<1> QED BY <1>5, <1>9, <1>11, <1>12, <1>13 DEF ObjectInv

\* Of two puts that expect one etag and are both answered with success, the second
\* began before the first ended, or that etag was given again in between
\* (state_put, server.rs:3455-3500).
THEOREM WinnersMeet == ObjectSpec => []WinnersOverlap
<1>1. ObjectInit => ObjectInv
  <2> SUFFICES ASSUME ObjectInit PROVE ObjectInv
    OBVIOUS
  <2>1. ObjectTypeOK /\ won = {} /\ \A c \in ObjectClient : call[c] = NoCall
    BY DEF ObjectInit, ObjectTypeOK, Contents
  <2> QED BY <2>1, CallsAre DEF ObjectInv, Since, Expecting, WinnersOverlap, Began
<1>2. ObjectInv /\ [ObjectNext]_objectVars => ObjectInv'
  <2> SUFFICES ASSUME ObjectInv, [ObjectNext]_objectVars PROVE ObjectInv'
    OBVIOUS
  <2>1. CASE UNCHANGED objectVars
    BY <2>1 DEF objectVars, ObjectInv, ObjectTypeOK, Since, Expecting, WinnersOverlap, GivenAgain, Began
  <2>2. ASSUME NEW c \in ObjectClient, NEW k \in ObjectKey, NEW x \in Text \cup {NoText, AnyEtag},
               NEW t \in Text, StatePut(c, k, t, x)
        PROVE  ObjectInv'
    <3> DEFINE p == [at |-> "put", key |-> k, text |-> t, expected |-> x, began |-> clock + 1]
    <3>1. p \in PutCall /\ p.began = clock + 1 /\ p.key = k /\ p.expected = x
      BY DEF PutCall, Contents, ObjectInv, ObjectTypeOK
    <3>2. Begins(c, p) /\ x \in {AnyEtag, object[k]}
      BY <2>2 DEF StatePut, Matches
    <3> HIDE DEF p
    <3> QED BY <3>1, <3>2, BeginStep
  <2>3. ASSUME NEW c \in ObjectClient, NEW k \in ObjectKey, NEW x, StateDelete(c, k, x) PROVE ObjectInv'
    <3> DEFINE p == [at |-> "delete", key |-> k]
    <3>1. p \in DeleteCall /\ p.at # "put" /\ Begins(c, p)
      BY <2>3 DEF DeleteCall, StateDelete
    <3> HIDE DEF p
    <3> QED BY <3>1, BeginStep
  <2>4. ASSUME NEW c \in ObjectClient, StateWritten(c) PROVE ObjectInv'
    <3>1. call[c].at = "put" /\ call[c] \in PutCall /\ clock' \in Nat
      BY <2>4, CallsAre DEF StateWritten, Gives, ObjectInv, ObjectTypeOK
    <3>2. /\ call[c].key \in ObjectKey /\ call[c].text \in Contents /\ call[c].began \in Nat
          /\ call[c].expected \in Contents \cup {AnyEtag}
      BY <3>1 DEF PutCall, Contents
    <3>3. Gives(c, call[c].text)
      BY <2>4 DEF StateWritten
    <3>4. CASE call[c].expected = AnyEtag
      <4>1. won' = won
        BY <2>4, <3>4 DEF StateWritten
      <4> QED BY <3>2, <3>3, <4>1, GiveStep
    <3>5. CASE call[c].expected # AnyEtag
      <4> DEFINE w == [key |-> call[c].key, expected |-> call[c].expected,
                       began |-> call[c].began, ended |-> clock']
      <4>1. /\ w \in Winner /\ won' = won \cup {w} /\ w.key = call[c].key /\ w.expected = call[c].expected
            /\ w.began = call[c].began /\ w.ended = clock'
        BY <2>4, <3>1, <3>2, <3>5 DEF StateWritten, Winner
      <4> HIDE DEF w
      <4> QED BY <3>1, <3>2, <3>3, <4>1, GiveStep
    <3> QED BY <3>4, <3>5
  <2>5. ASSUME NEW c \in ObjectClient, StatePurged(c) PROVE ObjectInv'
    <3>1. call[c].at = "delete" /\ call[c] \in DeleteCall /\ Gives(c, NoText) /\ won' = won
      BY <2>5, CallsAre DEF StatePurged, ObjectInv, ObjectTypeOK
    <3>2. call[c].key \in ObjectKey /\ NoText \in Contents
      BY <3>1 DEF DeleteCall, Contents
    <3> QED BY <3>1, <3>2, GiveStep
  <2> QED BY <2>1, <2>2, <2>3, <2>4, <2>5 DEF ObjectNext
<1>3. ObjectInv => WinnersOverlap
  BY DEF ObjectInv
<1> QED
  BY <1>1, <1>2, <1>3, PTL DEF ObjectSpec

\* A set of numbers that has one has a least one.
LEMMA Least == ASSUME NEW S \in SUBSET Nat, S # {} PROVE \E n \in S : \A m \in S : n <= m
<1> DEFINE R == {ss \in Nat \X Nat : ss[1] < ss[2]}
<1>1. R = OpToRel(<, Nat)
  BY DEF OpToRel
<1>2. IsWellFoundedOn(R, Nat)
  BY <1>1, NatLessThanWellFounded
<1>3. \A m, n \in Nat : m < n => <<m, n>> \in R
  OBVIOUS
<1> HIDE DEF R
<1>4. PICK n \in S : \A m \in S : ~(<<m, n>> \in R)
  BY <1>2, WFMin
<1>5. \A m \in S : ~(m < n)
  BY <1>3, <1>4
<1> QED BY <1>5

----------------------------------------------------------------------------
(* Memory *)

Pages == [day : Nat, age : Nat, used : BOOLEAN, harvested : BOOLEAN, of : SUBSET Nat]

\* What d is of, a document of a higher level is of as well; the summary of its day
\* is there, when d is an event.
Carried(d) ==
    /\ \E e \in Docs : MemLevel(d) < MemLevel(e) /\ diary[d].of \subseteq diary[e].of
    /\ MemLevel(d) = 1 => <<2, diary[d].day>> \in Docs

\* In a vault a daily summary is of all the events of its day, which is over.
DayEvents(n) == {d \in Events : diary[d].day = n}
DayTold(d) == d[2] < today /\ diary[d].of = EventsOf(DayEvents(d[2]))
DaysTold == sizes.lenient \/ \A d \in Docs : MemLevel(d) = 2 => DayTold(d)

\* Digests enough for a merge may come.
Reaches == sizes.lenient /\ sizes.month <= sizes.last + 1

DiaryInv ==
    /\ sizes \in MemSettings /\ today \in 0..sizes.last
    /\ IsFiniteSet(Docs) /\ Docs \subseteq (1..4) \X Nat /\ diary \in [Docs -> Pages]
    /\ Events = {<<1, i>> : i \in 1..Cardinality(Events)} /\ Cardinality(Events) <= sizes.events
    /\ DaysTold
    /\ \A d \in Docs : /\ diary[d].day <= today
                       /\ MemLevel(d) = 3 => d[2] \in 0..sizes.last
                       /\ MemLevel(d) = 4 => d = Insights /\ Reaches
                       /\ diary[d].used => Carried(d)

\* What each runner is at.
FromOK(r) == run[r].from \in SUBSET Docs /\ \A d \in run[r].from : MemLevel(d) = run[r].level
MergeOK(r) ==
    run[r].level = 3 => /\ Reaches
                        /\ run[r].known => Insights \in Docs /\ diary[Insights].of \subseteq run[r].old
DayOK(r) ==
    /\ run[r].level < 3 => ~run[r].known /\ run[r].old = {}
    /\ run[r].level = 1 => \A d \in run[r].from : diary[d].day = run[r].day
Whole(r) == run[r].from = DayEvents(run[r].day)
ListOK(r) ==
    sizes.lenient \/ /\ run[r].level = 1 /\ run[r].day < today
                     /\ <<2, run[r].day>> \in Docs \/ Whole(r)
TodoOK(r) == run[r].todo \in SUBSET Docs /\ (run[r].level > 0 => \A d \in run[r].todo : Carried(d))
CopyOK(r) ==
    /\ run[r].doc \in Docs /\ run[r].copy \in Pages
    /\ run[r].copy.of = diary[run[r].doc].of /\ run[r].copy.day <= today
    /\ MemLevel(run[r].doc) = 1 => run[r].copy.day = diary[run[r].doc].day
    /\ (run[r].level > 0 \/ run[r].copy.used) => Carried(run[r].doc)

Asking == [ at : {"insights", "ask", "write", "put"}, level : 1..3, from : SUBSET Docs, day : 0..today,
            known : BOOLEAN, old : SUBSET Nat ]

RunOK(r) ==
    \/ run[r] = Rest
    \/ run[r].at \in {"extract", "facts", "store", "embed", "harvested"} /\ "at" \in DOMAIN run[r]
    \/ run[r].at = "find" /\ run[r].level \in 1..3
    \/ run[r].at = "insights" /\ run[r] \in Asking /\ FromOK(r) /\ run[r].level = 3 /\ Reaches
    \/ /\ run[r].at \in {"ask", "write"} /\ run[r] \in Asking
       /\ FromOK(r) /\ MergeOK(r) /\ DayOK(r) /\ ListOK(r)
    \/ /\ run[r].at = "put" /\ run[r] \in Asking /\ ~sizes.lenient
       /\ FromOK(r) /\ MergeOK(r) /\ DayOK(r) /\ ListOK(r) /\ Whole(r)
    \/ run[r].at = "select" /\ run[r].level \in 1..3 /\ FromOK(r) /\ \A d \in run[r].from : Carried(d)
    \/ run[r].at = "mark" /\ run[r].level \in 0..3 /\ TodoOK(r)
    \/ run[r].at = "patch" /\ run[r].level \in 0..3 /\ TodoOK(r) /\ CopyOK(r)

MemInv ==
    /\ DiaryInv /\ run = [r \in MemRunner |-> run[r]]
    /\ \A r \in MemRunner : RunOK(r) /\ (run[r] # Rest => r \in sizes.runners)

LEMMA SizesType ==
    ASSUME DiaryInv
    PROVE  /\ sizes.last \in Nat /\ sizes.month \in Nat /\ sizes.week \in Nat /\ sizes.runners \subseteq MemRunner
           /\ today \in Nat /\ Cardinality(Docs) \in Nat /\ Cardinality(Events) \in Nat /\ IsFiniteSet(Events)
           /\ sizes.events \in Nat /\ sizes.lists \in Nat /\ (sizes.lenient \/ sizes.events <= sizes.lists)
<1>1. sizes \in MemSetting
  BY MemoryAssumption DEF DiaryInv
<1>2. Events \in SUBSET Docs
  BY DEF Events
<1>3. IsFiniteSet(Events)
  BY <1>2, FS_Subset DEF DiaryInv
<1> QED BY <1>1, <1>3, FS_CardinalityType, DaysAreListed DEF DiaryInv, MemSetting

\* Documents stay, and are of what they were of; only insights come to be of more.
\* An event keeps its day, and a new one is of today.
Grows ==
    /\ Docs \subseteq Docs' /\ today' \in Nat /\ today <= today' /\ sizes' = sizes
    /\ \A d \in Docs : diary[d].of \subseteq diary'[d].of
    /\ \A d \in Docs : MemLevel(d) < 4 => diary'[d].of = diary[d].of
    /\ \A d \in Docs : MemLevel(d) = 1 => diary'[d].day = diary[d].day
    /\ \A d \in Docs' \ Docs : MemLevel(d) = 1 => diary'[d].day = today

Same == Grows /\ \A d \in Docs : diary'[d].of = diary[d].of

LEMMA DayStays ==
    ASSUME DiaryInv, Grows, NEW n \in Nat, n < today
    PROVE  DayEvents(n)' = DayEvents(n) /\ EventsOf(DayEvents(n))' = EventsOf(DayEvents(n))
<1>1. today \in Nat
  BY SizesType
<1>2. DayEvents(n)' = DayEvents(n)
  BY <1>1 DEF DayEvents, Events, Grows, MemLevel
<1>3. \A d \in DayEvents(n) : diary'[d].of = diary[d].of
  BY DEF DayEvents, Events, Grows
<1> QED BY <1>2, <1>3 DEF EventsOf

LEMMA CarriedStays ==
    ASSUME DiaryInv, Grows, NEW d \in Docs, Carried(d) PROVE Carried(d)'
<1>1. PICK e \in Docs : MemLevel(d) < MemLevel(e) /\ diary[d].of \subseteq diary[e].of
  BY DEF Carried
<1>2. MemLevel(d) \in 1..4 /\ MemLevel(e) \in 1..4
  BY DEF DiaryInv, MemLevel
<1>3. diary'[d].of = diary[d].of /\ diary[e].of \subseteq diary'[e].of /\ e \in Docs'
  BY <1>1, <1>2 DEF Grows
<1>4. MemLevel(d) = 1 => <<2, diary'[d].day>> \in Docs'
  BY DEF Carried, Grows
<1> QED BY <1>1, <1>3, <1>4 DEF Carried, MemLevel

LEMMA DaysToldStay ==
    ASSUME DiaryInv, Grows, NEW d \in Docs, MemLevel(d) = 2, ~sizes.lenient PROVE DayTold(d)'
<1>1. DayTold(d) /\ d[2] \in Nat /\ today \in Nat /\ today' \in Nat /\ today <= today'
  BY SizesType DEF DiaryInv, DaysTold, Grows
<1>2. diary'[d].of = diary[d].of
  BY DEF Grows
<1>3. EventsOf(DayEvents(d[2]))' = EventsOf(DayEvents(d[2]))
  BY <1>1, DayStays DEF DayTold
<1> QED BY <1>1, <1>2, <1>3 DEF DayTold

LEMMA RunStays ==
    ASSUME DiaryInv, Grows, NEW r \in MemRunner, run'[r] = run[r], RunOK(r), Same \/ run[r] = Rest
    PROVE  RunOK(r)'
<1>1. CASE run[r] = Rest
  BY <1>1 DEF RunOK, Rest
<1>2. CASE run[r] # Rest
  <2>1. Same /\ (Reaches => Reaches') /\ Docs \subseteq Docs' /\ today <= today' /\ today' \in Nat /\ today \in Nat
    BY <1>2, SizesType DEF Same, Grows, Reaches
  <2>2. ASSUME FromOK(r) PROVE FromOK(r)'
    BY <2>1, <2>2 DEF FromOK, MemLevel
  <2>3. ASSUME run[r] \in Asking PROVE run'[r] \in Asking'
    BY <2>1, <2>3 DEF Asking
  <2>4. ASSUME MergeOK(r) PROVE MergeOK(r)'
    BY <2>1, <2>4 DEF MergeOK, Same, Insights
  <2>5. ASSUME TodoOK(r) PROVE TodoOK(r)'
    BY <2>1, <2>5, CarriedStays DEF TodoOK
  <2>6. ASSUME CopyOK(r) PROVE CopyOK(r)'
    <3>1. run[r].copy.day \in Nat
      BY <2>6 DEF CopyOK, Pages
    <3>2. (run[r].level > 0 \/ run[r].copy.used) => Carried(run[r].doc)'
      BY <2>6, CarriedStays DEF CopyOK
    <3>3. /\ run'[r].doc \in Docs' /\ run'[r].copy \in Pages
          /\ run'[r].copy.of = diary'[run[r].doc].of /\ run'[r].copy.day <= today'
      BY <2>1, <2>6, <3>1 DEF CopyOK, Same
    <3>4. MemLevel(run[r].doc) = 1 => run[r].copy.day = diary'[run[r].doc].day
      BY <2>1, <2>6 DEF CopyOK, Same, Grows
    <3> QED BY <3>2, <3>3, <3>4 DEF CopyOK, Carried, MemLevel
  <2>8. ASSUME FromOK(r), DayOK(r) PROVE DayOK(r)'
    <3>1. run[r].level = 1 => \A d \in run[r].from : diary'[d].day = diary[d].day
      BY <2>1, <2>8 DEF FromOK, Same, Grows
    <3> QED BY <2>8, <3>1 DEF DayOK
  <2>9. ASSUME run[r] \in Asking, ListOK(r) PROVE ListOK(r)' /\ (~sizes.lenient /\ Whole(r) => Whole(r)')
    <3>1. sizes' = sizes /\ run[r].day \in Nat
      BY <2>1, <2>9 DEF Asking, Same, Grows
    <3>2. CASE sizes.lenient
      BY <3>1, <3>2 DEF ListOK
    <3>3. CASE ~sizes.lenient
      <4>1. run[r].level = 1 /\ run[r].day < today /\ (<<2, run[r].day>> \in Docs \/ Whole(r))
        BY <2>9, <3>3 DEF ListOK
      <4>2. DayEvents(run[r].day)' = DayEvents(run[r].day)
        <5>1. PICK n : n = run[r].day
          OBVIOUS
        <5>2. DayEvents(n)' = DayEvents(n)
          BY <2>1, <3>1, <4>1, <5>1, DayStays DEF Same
        <5>3. n = run'[r].day
          BY <5>1
        <5> QED BY <5>1, <5>2, <5>3 DEF DayEvents
      <4>3. Whole(r) => Whole(r)'
        BY <4>2 DEF Whole
      <4>4. run'[r].day < today'
        BY <2>1, <3>1, <4>1
      <4> QED BY <2>1, <3>1, <4>1, <4>3, <4>4 DEF ListOK
    <3> QED BY <3>2, <3>3
  <2>7. ASSUME FromOK(r), \A d \in run[r].from : Carried(d) PROVE \A d \in run'[r].from : Carried(d)'
    BY <2>7, CarriedStays DEF FromOK
  <2>10. sizes' = sizes
    BY <2>1 DEF Same, Grows
  <2> QED BY <1>2, <2>1, <2>2, <2>3, <2>4, <2>5, <2>6, <2>7, <2>8, <2>9, <2>10 DEF RunOK
<1> QED BY <1>1, <1>2

\* A step of a runner that writes no document.
LEMMA RunnerKeeps ==
    ASSUME MemInv, NEW r \in sizes.runners, NEW s, Steps(r, s), RunOK(r)', DiaryInv', Grows,
           Same \/ Reaches
    PROVE  MemInv'
<1>1. r \in MemRunner /\ sizes.runners \subseteq MemRunner /\ sizes \in MemSettings
  BY SizesType DEF MemInv, DiaryInv
<1>2. run' = [q \in MemRunner |-> run'[q]] /\ \A q \in MemRunner \ {r} : run'[q] = run[q]
  BY <1>1 DEF Steps, MemInv
<1>3. ASSUME NEW q \in MemRunner \ {r}, ~Same PROVE run[q] = Rest
  <2>1. sizes.lenient /\ ~(sizes.last + 1 < sizes.month)
    BY <1>3, SizesType DEF Reaches, MemInv
  <2>2. \E x \in MemRunner : sizes.runners \subseteq {x}
    BY <1>1, <2>1, MergesAlone
  <2> QED BY <2>2 DEF MemInv
<1>4. \A q \in MemRunner \ {r} : RunOK(q)'
  BY <1>2, <1>3, RunStays DEF MemInv
<1>5. sizes' = sizes
  BY DEF Grows
<1> QED BY <1>1, <1>2, <1>4, <1>5 DEF MemInv

LEMMA QuietKeeps ==
    ASSUME MemInv, NEW r \in sizes.runners, NEW s, Steps(r, s), RunOK(r)',
           UNCHANGED <<sizes, today, diary>>
    PROVE  MemInv'
<1>1. Grows /\ Same
  BY SizesType DEF Grows, Same, Docs, MemInv
<1>2. DiaryInv'
  BY DEF MemInv, DiaryInv, Docs, Events, Carried, Reaches, DaysTold, DayTold, DayEvents, EventsOf
<1> QED BY <1>1, <1>2, RunnerKeeps

LEMMA RunnerIs ==
    ASSUME MemInv, NEW r \in sizes.runners, NEW s, Steps(r, s)
    PROVE  r \in MemRunner /\ run'[r] = s /\ RunOK(r)
  BY SizesType DEF MemInv, Steps

----------------------------------------------------------------------------
(* Steps that only read *)

LEMMA FirstDayIs ==
    ASSUME MemInv, NEW S \in SUBSET Docs, S # {} PROVE FirstDay(S) \in 0..today
<1> DEFINE D == {diary[d].day : d \in S}
<1>1. \A d \in S : diary[d].day \in 0..today
  BY SizesType DEF MemInv, DiaryInv, Pages
<1>2. D \in SUBSET Nat /\ D # {} /\ \A n \in D : n \in 0..today
  BY <1>1
<1> HIDE DEF D
<1>3. \E n \in D : \A m \in D : n <= m
  BY <1>2, Least
<1>4. \E n \in {diary[d].day : d \in S} : \A d \in S : n <= diary[d].day
  BY <1>3 DEF D
<1>5. FirstDay(S) \in {diary[d].day : d \in S}
  BY <1>4 DEF FirstDay
<1> QED BY <1>2, <1>5 DEF D

\* A store that finds no digest without the flag merges nothing; in one that does,
\* there is at most one digest to each day.
LEMMA DigestsReach == ASSUME MemInv, Sources(3) # {} PROVE Reaches
<1> SUFFICES ASSUME ~Reaches PROVE FALSE
  OBVIOUS
<1>1. Sources(3) = IF Cardinality(Found(3)) < sizes.month THEN {} ELSE Oldest(Found(3), sizes.month)
  BY DEF Sources
<1>2. Found(3) # {} /\ ~(Cardinality(Found(3)) < sizes.month)
  BY <1>1 DEF Oldest
<1>3. sizes.lenient /\ Found(3) = Unused(3)
  BY <1>2 DEF Found
<1>4. sizes.last \in Nat /\ sizes.month \in Nat /\ IsFiniteSet(Docs) /\ Docs \subseteq (1..4) \X Nat
  BY SizesType DEF MemInv, DiaryInv
<1>5. Unused(3) \subseteq {3} \X (0..sizes.last)
  BY <1>4 DEF Unused, MemLevel, MemInv, DiaryInv
<1> DEFINE L == 0..sizes.last
<1>6. IsFiniteSet(L) /\ Cardinality(L) = sizes.last + 1
  <2> DEFINE m == sizes.last
  <2>0. 0 \in Int /\ m \in Int
    BY <1>4
  <2> HIDE DEF m
  <2>1. IsFiniteSet(0..m) /\ Cardinality(0..m) = IF 0 > m THEN 0 ELSE m - 0 + 1
    BY <2>0, FS_Interval
  <2> USE DEF m
  <2> QED BY <1>4, <2>1
<1>7. IsFiniteSet({3}) /\ Cardinality({3}) = 1
  BY FS_Singleton
<1> HIDE DEF L
<1>8. IsFiniteSet({3} \X L) /\ Cardinality({3} \X L) = 1 * (sizes.last + 1)
  BY <1>6, <1>7, FS_Product
<1>9. Unused(3) \in SUBSET ({3} \X L)
  BY <1>5 DEF L
<1>10. Cardinality(Unused(3)) <= Cardinality({3} \X L) /\ Cardinality(Unused(3)) \in Nat
  BY <1>8, <1>9, FS_Subset, FS_CardinalityType
<1> QED BY <1>2, <1>3, <1>4, <1>8, <1>10 DEF Reaches

LEMMA SourcesAre ==
    ASSUME MemInv, NEW n \in 1..3
    PROVE  Sources(n) \in SUBSET Docs /\ \A d \in Sources(n) : MemLevel(d) = n
<1>1. n = 1 => Sources(n) \subseteq Unused(1)
  BY DEF Sources, Oldest
<1>2. n = 2 => Sources(n) \subseteq Unused(2)
  BY DEF Sources, Found, Oldest
<1>3. n = 3 => Sources(n) \subseteq Unused(3)
  BY DEF Sources, Found, Oldest
<1> QED BY <1>1, <1>2, <1>3 DEF Unused

\* The events of a compression are of yesterday.
LEMMA DayIs ==
    ASSUME MemInv, Sources(1) # {}
    PROVE  /\ FirstDay(Sources(1)) < today
           /\ \A d \in Sources(1) : diary[d].day = FirstDay(Sources(1))
<1>1. today \in Nat /\ \A d \in Docs : diary[d].day \in Nat
  BY SizesType DEF MemInv, DiaryInv, Pages
<1>2. Sources(1) \subseteq Docs /\ \A d \in Sources(1) : diary[d].day + 1 = today
  BY DEF Sources, Oldest, Unused
<1> DEFINE S == Sources(1)
<1>3. PICK x \in S : TRUE
  OBVIOUS
<1> HIDE DEF S
<1>4. {diary[d].day : d \in S} = {diary[x].day} /\ today \in Nat /\ diary[x].day + 1 = today /\ diary[x].day \in Nat
  BY <1>1, <1>2, <1>3 DEF S
<1>5. FirstDay(S) = diary[x].day
  BY <1>3, <1>4 DEF FirstDay
<1> QED BY <1>1, <1>2, <1>3, <1>4, <1>5 DEF S

\* In a vault they are all events of that day, unless it has its summary.
LEMMA DayIsWhole ==
    ASSUME MemInv, Sources(1) # {}, ~sizes.lenient
    PROVE  \/ <<2, FirstDay(Sources(1))>> \in Docs
           \/ Sources(1) = DayEvents(FirstDay(Sources(1)))
<1> DEFINE n == FirstDay(Sources(1))
<1> SUFFICES ASSUME <<2, n>> \notin Docs PROVE Sources(1) = DayEvents(n)
  OBVIOUS
<1>1. /\ today \in Nat /\ IsFiniteSet(Events) /\ Cardinality(Events) \in Nat
      /\ Cardinality(Events) <= sizes.lists /\ sizes.lists \in Nat
  BY SizesType DEF MemInv, DiaryInv
<1>2. \A d \in Sources(1) : diary[d].day = n /\ d \in Events /\ diary[d].day + 1 = today
  <2>1. \A d \in Sources(1) : diary[d].day = n
    BY DayIs
  <2>2. \A d \in Sources(1) : d \in Events /\ diary[d].day + 1 = today
    BY DEF Sources, Oldest, Unused, Events
  <2> QED BY <2>1, <2>2
<1>3. n + 1 = today
  BY <1>2
<1> HIDE DEF n
<1>4. ASSUME NEW d \in DayEvents(n) PROVE d \in Sources(1)
  <2>1. d \in Docs /\ MemLevel(d) = 1 /\ diary[d].day = n /\ d \in Events
    BY <1>4 DEF DayEvents, Events
  <2>2. ~diary[d].used
    BY <2>1 DEF MemInv, DiaryInv, Carried
  <2>3. d \in Unused(1)
    BY <2>1, <2>2 DEF Unused
  <2> DEFINE O == Older(Unused(1), d)
  <2>4. O \in SUBSET (Events \ {d})
    <3>1. \A y \in O : y \in Docs /\ MemLevel(y) = 1 /\ diary[y].age < diary[d].age
      BY DEF Older, Unused
    <3>2. diary[d].age \in Nat
      BY <2>1 DEF MemInv, DiaryInv, Pages
    <3> QED BY <3>1, <3>2 DEF Events
  <2> HIDE DEF O
  <2>5. /\ IsFiniteSet(Events \ {d}) /\ Cardinality(Events \ {d}) = Cardinality(Events) - 1
    BY <1>1, <2>1, FS_RemoveElement
  <2>6. Cardinality(O) <= Cardinality(Events) - 1 /\ Cardinality(O) \in Nat
    BY <2>4, <2>5, FS_Subset, FS_CardinalityType
  <2>7. Cardinality(O) < sizes.lists
    BY <1>1, <2>6
  <2> QED BY <1>3, <2>1, <2>3, <2>7 DEF Sources, Oldest, O
<1>5. Sources(1) \subseteq DayEvents(n)
  BY <1>2 DEF DayEvents
<1> QED BY <1>4, <1>5

\* A vault finds no summaries.
LEMMA FindsNothing ==
    ASSUME MemInv, ~sizes.lenient, NEW n \in {2, 3} PROVE Sources(n) = {}
  BY DEF Sources, Found, Oldest

LEMMA FindKeeps == ASSUME MemInv, NEW r \in sizes.runners, Find(r) PROVE MemInv'
<1> DEFINE lv == run[r].level
           S == Sources(lv)
           s == IF S = {} THEN NextLevel(lv)
                ELSE [at |-> IF lv = 3 THEN "insights" ELSE "ask", level |-> lv, from |-> S,
                      day |-> FirstDay(S), known |-> FALSE, old |-> {}]
<1>1. run[r].at = "find" /\ Steps(r, s) /\ UNCHANGED <<sizes, today, diary>>
  BY DEF Find
<1>2. run'[r] = s /\ RunOK(r)
  <2> HIDE DEF s
  <2> QED BY <1>1, RunnerIs
<1>3. lv \in 1..3
  BY <1>1, <1>2 DEF RunOK, Rest, Asking
<1>4. S \in SUBSET Docs /\ \A d \in S : MemLevel(d) = lv
  BY <1>3, SourcesAre
<1>5. CASE S = {}
  BY <1>1, <1>2, <1>3, <1>5, QuietKeeps DEF RunOK, NextLevel, Rest
<1>6. CASE S # {}
  <2>1. FirstDay(S) \in 0..today /\ (lv = 3 => Reaches)
    BY <1>4, <1>6, FirstDayIs, DigestsReach
  <2>3. lv = 1 => \A d \in S : diary[d].day = FirstDay(S)
    BY <1>6, DayIs
  <2>4. sizes.lenient \/ /\ lv = 1 /\ FirstDay(S) < today
                         /\ <<2, FirstDay(S)>> \in Docs \/ S = DayEvents(FirstDay(S))
    <3>1. ~sizes.lenient => lv = 1
      BY <1>3, <1>6, FindsNothing
    <3> QED BY <1>6, <3>1, DayIs, DayIsWhole
  <2>2. RunOK(r)'
    <3> HIDE DEF lv, S
    <3>1. /\ s \in Asking /\ s.at = (IF lv = 3 THEN "insights" ELSE "ask") /\ s.from = S /\ s.level = lv
          /\ s.known = FALSE /\ s.old = {} /\ s.day = FirstDay(S)
      BY <1>3, <1>4, <1>6, <2>1 DEF Asking
    <3> HIDE DEF s
    <3>2. FromOK(r)' /\ Asking' = Asking /\ Reaches' = Reaches
      BY <1>1, <1>2, <1>4, <3>1 DEF FromOK, Docs, Asking, Reaches
    <3>3. lv < 3 => MergeOK(r)'
      BY <1>2, <3>1 DEF MergeOK
    <3>4. DayOK(r)'
      BY <1>1, <1>2, <2>3, <3>1 DEF DayOK
    <3>5. ListOK(r)'
      BY <1>1, <1>2, <2>4, <3>1 DEF ListOK, Whole, DayEvents, Events, Docs
    <3> QED BY <1>2, <1>3, <2>1, <3>1, <3>2, <3>3, <3>4, <3>5 DEF RunOK
  <2> HIDE DEF s
  <2> QED BY <1>1, <2>2, QuietKeeps
<1> QED BY <1>5, <1>6

LEMMA FindInsightsKeeps == ASSUME MemInv, NEW r \in sizes.runners, FindInsights(r) PROVE MemInv'
<1> DEFINE known == Insights \in Oldest(Docs, sizes.looks)
           old == IF known THEN diary[Insights].of ELSE {}
           s == [run[r] EXCEPT !.at = "ask", !.known = known, !.old = old]
<1>1. run[r].at = "insights" /\ Steps(r, s) /\ UNCHANGED <<sizes, today, diary>>
  BY DEF FindInsights
<1>2. run'[r] = s /\ RunOK(r)
  <2> HIDE DEF s
  <2> QED BY <1>1, RunnerIs
<1>3. run[r] \in Asking /\ FromOK(r) /\ run[r].level = 3 /\ Reaches
  BY <1>1, <1>2 DEF RunOK, Rest
<1>4. known \in BOOLEAN /\ old \in SUBSET Nat /\ (known => Insights \in Docs /\ old = diary[Insights].of)
  BY DEF MemInv, DiaryInv, Pages, Oldest
<1>40. s = [run[r] EXCEPT !.at = "ask", !.known = known, !.old = old]
  OBVIOUS
<1> HIDE DEF s, known, old
<1>5. /\ s \in Asking /\ s.at = "ask" /\ s.from = run[r].from /\ s.level = 3
      /\ s.known = known /\ s.old = old
  BY <1>3, <1>4, <1>40 DEF Asking
<1>6. Asking' = Asking /\ Reaches' = Reaches /\ Docs' = Docs
  BY <1>1 DEF Asking, Reaches, Docs
<1>7. RunOK(r)'
  <2>1. FromOK(r)'
    BY <1>2, <1>3, <1>5, <1>6 DEF FromOK
  <2>2. MergeOK(r)'
    BY <1>1, <1>2, <1>3, <1>4, <1>5, <1>6 DEF MergeOK
  <2>3. DayOK(r)' /\ ListOK(r)'
    BY <1>1, <1>2, <1>3, <1>5 DEF DayOK, ListOK, Reaches
  <2> QED BY <1>2, <1>5, <1>6, <2>1, <2>2, <2>3 DEF RunOK
<1> QED BY <1>1, <1>7, QuietKeeps

LEMMA ReadsKeep ==
    ASSUME MemInv, NEW r \in sizes.runners,
           \/ BeginCompress(r) \/ Summarise(r) \/ Select(r) \/ BeginConsolidate(r) \/ Extract(r)
           \/ TakeFact(r) \/ StoreFact(r) \/ EmbedFact(r) \/ SelectHarvested(r) \/ Marked(r)
    PROVE  MemInv'
<1>0. r \in MemRunner /\ RunOK(r)
  BY SizesType DEF MemInv
<1>1. CASE BeginCompress(r)
  <2>1. Steps(r, [at |-> "find", level |-> 1]) /\ UNCHANGED <<sizes, today, diary>>
    BY <1>1 DEF BeginCompress
  <2> QED BY <2>1, RunnerIs, QuietKeeps DEF RunOK
<1>2. CASE Summarise(r)
  <2>1. run[r].at = "ask" /\ UNCHANGED <<sizes, today, diary>>
    BY <1>2 DEF Summarise
  <2>2. run[r] \in Asking /\ FromOK(r) /\ MergeOK(r) /\ DayOK(r) /\ ListOK(r)
    BY <1>0, <2>1 DEF RunOK, Rest
  <2>3. CASE Steps(r, [run[r] EXCEPT !.at = "write"])
    <3> DEFINE s == [run[r] EXCEPT !.at = "write"]
    <3>1. /\ s \in Asking /\ s.at = "write" /\ s.from = run[r].from /\ s.level = run[r].level
          /\ s.known = run[r].known /\ s.old = run[r].old /\ s.day = run[r].day
      BY <2>2 DEF Asking
    <3>2. Steps(r, s)
      BY <2>3
    <3> HIDE DEF s
    <3>3. run'[r] = s
      BY <3>2, RunnerIs
    <3>4. Asking' = Asking /\ Reaches' = Reaches /\ Docs' = Docs
      BY <2>1 DEF Asking, Reaches, Docs
    <3>5. RunOK(r)'
      <4>1. FromOK(r)' /\ MergeOK(r)'
        BY <2>1, <2>2, <3>1, <3>3, <3>4 DEF FromOK, MergeOK
      <4>2. DayOK(r)'
        BY <2>1, <2>2, <3>1, <3>3 DEF DayOK
      <4>3. ListOK(r)'
        BY <2>1, <2>2, <3>1, <3>3, <3>4 DEF ListOK, Whole, DayEvents, Events
      <4> QED BY <3>1, <3>3, <3>4, <2>2, <4>1, <4>2, <4>3 DEF RunOK
    <3> QED BY <2>1, <3>2, <3>5, QuietKeeps
  <2>4. CASE Steps(r, NextLevel(run[r].level))
    <3>1. run[r].level \in 1..3
      BY <2>2 DEF Asking
    <3>2. run'[r] = NextLevel(run[r].level)
      BY <2>4, RunnerIs
    <3>3. RunOK(r)'
      BY <3>1, <3>2 DEF RunOK, NextLevel
    <3> QED BY <2>1, <2>4, <3>3, QuietKeeps
  <2> QED BY <1>2, <2>3, <2>4 DEF Summarise
<1>3. CASE Select(r)
  <2> DEFINE s == [at |-> "mark", level |-> run[r].level, todo |-> Consumes(r)]
  <2>1. run[r].at = "select" /\ Steps(r, s) /\ UNCHANGED <<sizes, today, diary>>
    BY <1>3 DEF Select
  <2>2. run[r].level \in 1..3 /\ FromOK(r) /\ \A d \in run[r].from : Carried(d)
    BY <1>0, <2>1 DEF RunOK, Rest, Asking
  <2>3. s.at = "mark" /\ s.level = run[r].level /\ s.todo = run[r].from
    BY DEF Consumes
  <2> HIDE DEF s
  <2>4. run'[r] = s
    BY <2>1, RunnerIs
  <2>5. RunOK(r)'
    BY <2>1, <2>2, <2>3, <2>4 DEF RunOK, TodoOK, FromOK, Docs, Carried
  <2> QED BY <2>1, <2>5, QuietKeeps
<1>4. CASE \/ BeginConsolidate(r) \/ Extract(r) \/ TakeFact(r) \/ StoreFact(r) \/ EmbedFact(r)
  <2>1. PICK s : /\ Steps(r, s) /\ UNCHANGED <<sizes, today, diary>>
                 /\ s = Rest \/ (s.at \in {"extract", "facts", "store", "embed", "harvested"} /\ "at" \in DOMAIN s)
    <3> DEFINE Other(s) == s.at \in {"extract", "facts", "store", "embed", "harvested"} /\ "at" \in DOMAIN s
    <3>1. CASE BeginConsolidate(r)
      <4>1. PICK S : Steps(r, [at |-> "extract", from |-> S]) /\ UNCHANGED <<sizes, today, diary>>
        BY <3>1 DEF BeginConsolidate
      <4>2. Other([at |-> "extract", from |-> S])
        OBVIOUS
      <4> HIDE DEF Other
      <4> QED BY <4>1, <4>2 DEF Other
    <3>2. CASE Extract(r)
      <4>1. UNCHANGED <<sizes, today, diary>>
        BY <3>2 DEF Extract
      <4>2. CASE Steps(r, Rest)
        BY <4>1, <4>2
      <4>3. ASSUME NEW F, Steps(r, [at |-> "facts", from |-> run[r].from, facts |-> F])
            PROVE  \E s : Steps(r, s) /\ Other(s)
        <5>1. Other([at |-> "facts", from |-> run[r].from, facts |-> F])
          OBVIOUS
        <5> QED BY <4>3, <5>1
      <4> QED BY <3>2, <4>1, <4>2, <4>3 DEF Extract
    <3>3. CASE TakeFact(r)
      <4>1. UNCHANGED <<sizes, today, diary>>
        BY <3>3 DEF TakeFact
      <4>2. CASE Steps(r, [at |-> "harvested", from |-> run[r].from])
        BY <4>1, <4>2
      <4>3. ASSUME NEW f, Steps(r, [at |-> "store", from |-> run[r].from, facts |-> run[r].facts \ {f}, fact |-> f])
            PROVE  \E s : Steps(r, s) /\ Other(s)
        <5>1. Other([at |-> "store", from |-> run[r].from, facts |-> run[r].facts \ {f}, fact |-> f])
          OBVIOUS
        <5> QED BY <4>3, <5>1
      <4> QED BY <3>3, <4>1, <4>2, <4>3 DEF TakeFact
    <3>4. CASE StoreFact(r)
      <4>1. UNCHANGED <<sizes, today, diary>> /\ run[r].at = "store"
        BY <3>4 DEF StoreFact
      <4>2. CASE Steps(r, [at |-> "facts", from |-> run[r].from, facts |-> run[r].facts])
        BY <4>1, <4>2
      <4>3. CASE Steps(r, Rest)
        BY <4>1, <4>3
      <4>4. CASE Steps(r, [run[r] EXCEPT !.at = "embed"])
        <5> DEFINE s == [run[r] EXCEPT !.at = "embed"]
        <5>1. "at" \in DOMAIN run[r]
          BY <1>0, <4>1 DEF RunOK, Rest, Asking
        <5>2. s.at \in {"extract", "facts", "store", "embed", "harvested"} /\ "at" \in DOMAIN s /\ Steps(r, s)
          BY <4>4, <5>1
        <5> HIDE DEF s
        <5> QED BY <4>1, <5>2
      <4> QED BY <3>4, <4>2, <4>3, <4>4 DEF StoreFact
    <3>5. CASE EmbedFact(r)
      BY <3>5 DEF EmbedFact
    <3> QED BY <1>4, <3>1, <3>2, <3>3, <3>4, <3>5
  <2>2. run'[r] = s
    BY <2>1, RunnerIs
  <2>3. RunOK(r)'
    BY <2>1, <2>2 DEF RunOK
  <2> QED BY <2>1, <2>3, QuietKeeps
<1>5. CASE SelectHarvested(r)
  <2> DEFINE s == [at |-> "mark", level |-> 0, todo |-> Docs]
  <2>1. Steps(r, s) /\ UNCHANGED <<sizes, today, diary>>
    BY <1>5 DEF SelectHarvested
  <2>2. s.at = "mark" /\ s.level = 0 /\ s.todo = Docs
    OBVIOUS
  <2> HIDE DEF s
  <2>3. run'[r] = s /\ Docs' = Docs
    BY <2>1, RunnerIs DEF Docs
  <2>4. RunOK(r)'
    BY <2>2, <2>3 DEF RunOK, TodoOK
  <2> QED BY <2>1, <2>4, QuietKeeps
<1>6. CASE Marked(r)
  <2> DEFINE s == IF run[r].level = 0 THEN Rest ELSE NextLevel(run[r].level)
  <2>1. Steps(r, s) /\ UNCHANGED <<sizes, today, diary>> /\ run[r].at = "mark"
    BY <1>6 DEF Marked
  <2>2. run[r].level \in 0..3
    BY <1>0, <2>1 DEF RunOK, Rest, Asking
  <2>3. s = Rest \/ (s.at = "find" /\ s.level \in 1..3)
    BY <2>2 DEF NextLevel
  <2> HIDE DEF s
  <2>4. run'[r] = s
    BY <2>1, RunnerIs
  <2>5. RunOK(r)'
    BY <2>3, <2>4 DEF RunOK
  <2> QED BY <2>1, <2>5, QuietKeeps
<1> QED BY <1>1, <1>2, <1>3, <1>4, <1>5, <1>6

LEMMA CopyKeeps == ASSUME MemInv, NEW r \in sizes.runners, Copy(r) PROVE MemInv'
<1>1. run[r].at = "mark" /\ UNCHANGED <<sizes, today, diary>>
  BY DEF Copy
<1>2. PICK d \in run[r].todo :
         Steps(r, [at |-> "patch", level |-> run[r].level, todo |-> run[r].todo \ {d},
                   doc |-> d, copy |-> diary[d]])
  BY DEF Copy
<1> DEFINE s == [at |-> "patch", level |-> run[r].level, todo |-> run[r].todo \ {d},
                 doc |-> d, copy |-> diary[d]]
<1>3. Steps(r, s) /\ s.at = "patch" /\ s.level = run[r].level /\ s.todo = run[r].todo \ {d} /\ s.doc = d
      /\ s.copy = diary[d]
  BY <1>2
<1> HIDE DEF s
<1>4. run'[r] = s /\ RunOK(r)
  BY <1>3, RunnerIs
<1>5. run[r].level \in 0..3 /\ TodoOK(r)
  BY <1>1, <1>4 DEF RunOK, Rest, Asking
<1>6. d \in Docs /\ diary[d] \in Pages /\ diary[d].day <= today /\ (diary[d].used => Carried(d))
  BY <1>2, <1>5 DEF TodoOK, MemInv, DiaryInv
<1>7. Docs' = Docs /\ \A x \in Docs : Carried(x) => Carried(x)'
  BY <1>1 DEF Docs, Carried
<1>8. TodoOK(r)'
  BY <1>1, <1>3, <1>4, <1>5, <1>7 DEF TodoOK
<1>9. CopyOK(r)'
  <2>1. run[r].level > 0 => Carried(d)
    BY <1>2, <1>5 DEF TodoOK
  <2> QED BY <1>1, <1>3, <1>4, <1>6, <1>7, <2>1 DEF CopyOK, Carried
<1>10. RunOK(r)'
  BY <1>3, <1>4, <1>5, <1>8, <1>9 DEF RunOK
<1> QED BY <1>1, <1>3, <1>10, QuietKeeps

----------------------------------------------------------------------------
(* Steps that write *)

LEMMA WrittenDocs ==
    ASSUME DiaryInv, NEW d \in (1..4) \X Nat, NEW p \in Pages, Written(d, p)
    PROVE  /\ Docs' = Docs \cup {d} /\ diary'[d] = p /\ \A x \in Docs \ {d} : diary'[x] = diary[x]
           /\ diary' \in [Docs' -> Pages] /\ IsFiniteSet(Docs') /\ Docs' \subseteq (1..4) \X Nat
<1>1. diary' = [x \in Docs \cup {d} |-> IF x = d THEN p ELSE diary[x]]
  BY DEF Written
<1>2. Docs' = Docs \cup {d}
  BY <1>1 DEF Docs
<1>3. IsFiniteSet(Docs')
  BY <1>2, FS_AddElement DEF DiaryInv
<1> QED BY <1>1, <1>2, <1>3 DEF DiaryInv

LEMMA PageIs ==
    ASSUME DiaryInv, NEW day \in Nat, NEW of \in SUBSET Nat
    PROVE  /\ Page(day, of) \in Pages /\ Page(day, of).day = day /\ ~Page(day, of).used
           /\ Page(day, of).of = of
  BY SizesType DEF Page, Pages

LEMMA EventsStay ==
    ASSUME DiaryInv, NEW d \in (1..4) \X Nat, Docs' = Docs \cup {d}, d \in Docs \/ MemLevel(d) # 1
    PROVE  Events' = Events
  BY DEF Events, MemLevel

LEMMA RememberKeeps == ASSUME MemInv, Remember PROVE MemInv'
<1> DEFINE next == Cardinality(Events) + 1  d == <<1, next>>  p == Page(today, {next})
<1>1. Written(d, p) /\ UNCHANGED <<sizes, today, run>>
  BY DEF Remember
<1>2. DiaryInv /\ next \in Nat /\ Cardinality(Events) \in Nat /\ IsFiniteSet(Events) /\ today \in Nat
  BY SizesType DEF MemInv
<1>3. p \in Pages /\ p.day = today /\ ~p.used
  BY <1>2, PageIs
<1>4. d \in (1..4) \X Nat /\ MemLevel(d) = 1
  BY <1>2 DEF MemLevel
<1>5. d \notin Docs
  <2> SUFFICES ASSUME d \in Docs PROVE FALSE
    OBVIOUS
  <2>1. d \in Events
    BY <1>4 DEF Events
  <2>2. PICK i \in 1..Cardinality(Events) : d = <<1, i>>
    BY <1>2, <2>1 DEF DiaryInv
  <2> QED BY <1>2, <2>2
<1>6. Events = {<<1, i>> : i \in 1..Cardinality(Events)}
  BY <1>2 DEF DiaryInv
<1> DEFINE n == Cardinality(Events)
<1>7. n \in Nat /\ next = n + 1 /\ Events = {<<1, i>> : i \in 1..n} /\ d = <<1, n + 1>>
  BY <1>2, <1>6
<1> HIDE DEF p, d, n, next
<1>8. /\ Docs' = Docs \cup {d} /\ diary'[d] = p /\ \A x \in Docs \ {d} : diary'[x] = diary[x]
      /\ diary' \in [Docs' -> Pages] /\ IsFiniteSet(Docs') /\ Docs' \subseteq (1..4) \X Nat
  BY <1>1, <1>2, <1>3, <1>4, WrittenDocs
<1>9. Events' = Events \cup {d} /\ d \notin Events
  BY <1>4, <1>5, <1>8 DEF Events, MemLevel
<1>10. Cardinality(Events)' = n + 1
  BY <1>2, <1>9, FS_AddElement DEF n
<1>11. Events' = {<<1, i>> : i \in 1..(n + 1)}
  <2>1. 1..(n + 1) = (1..n) \cup {n + 1}
    BY <1>7
  <2> QED BY <1>7, <1>9, <2>1
<1>12. Same /\ Grows
  BY <1>1, <1>2, <1>3, <1>5, <1>8 DEF Same, Grows
<1>120. DaysTold'
  <2>1. ASSUME NEW x \in Docs', MemLevel(x) = 2, ~sizes.lenient PROVE DayTold(x)'
    <3>1. x \in Docs
      BY <1>4, <1>8, <2>1
    <3> QED BY <1>2, <1>12, <2>1, <3>1, DaysToldStay
  <2> QED BY <1>1, <2>1 DEF DaysTold, MemLevel
<1>121. Cardinality(Events)' <= sizes'.events
  BY <1>1, <1>7, <1>10 DEF Remember, next
<1>13. ASSUME NEW x \in Docs'
       PROVE  /\ diary'[x].day <= today'
              /\ MemLevel(x) = 3 => x[2] \in 0..sizes'.last
              /\ MemLevel(x) = 4 => x = Insights /\ Reaches'
              /\ diary'[x].used => Carried(x)'
  <2>1. CASE x = d
    BY <1>1, <1>2, <1>3, <1>4, <1>8, <2>1
  <2>2. CASE x # d
    <3>1. x \in Docs /\ diary'[x] = diary[x]
      BY <1>8, <2>2
    <3> QED BY <1>1, <1>2, <1>12, <3>1, CarriedStays DEF DiaryInv, Reaches
  <2> QED BY <2>1, <2>2
<1>14. DiaryInv'
  BY <1>1, <1>2, <1>8, <1>10, <1>11, <1>120, <1>121, <1>13 DEF DiaryInv, MemLevel, Insights
<1>15. \A r \in MemRunner : RunOK(r)'
  BY <1>1, <1>2, <1>12, RunStays DEF MemInv
<1> QED BY <1>1, <1>14, <1>15 DEF MemInv

LEMMA StoredKeeps ==
    ASSUME MemInv, NEW r \in sizes.runners, Stored(r), UNCHANGED <<sizes, today>>,
           run[r] \in Asking, FromOK(r), MergeOK(r), DayOK(r), ListOK(r),
           sizes.lenient => ~Refused(r), ~sizes.lenient => Whole(r)
    PROVE  MemInv'
<1> DEFINE lv == run[r].level  from == run[r].from  d == Summary(r)
           all == EventsOf(from) \cup run[r].old  p == Made(r)
           s == [at |-> "select", level |-> lv, from |-> from]
<1>0. DiaryInv /\ RunOK(r) /\ r \in MemRunner
  BY SizesType DEF MemInv
<1>1. Written(d, p) /\ Steps(r, s)
  BY DEF Stored
<1>2. /\ lv \in 1..3 /\ from \in SUBSET Docs /\ run[r].day \in 0..today /\ run[r].old \in SUBSET Nat
      /\ \A x \in from : MemLevel(x) = lv /\ x \in (1..4) \X Nat
  BY <1>0 DEF Asking, FromOK, DiaryInv
<1>3. today \in Nat /\ today <= sizes.last /\ sizes.last \in Nat
  BY <1>0, SizesType DEF DiaryInv
<1>4. all \in SUBSET Nat /\ \A x \in from : diary[x].of \subseteq all
  <2>1. \A x \in from : diary[x].of \in SUBSET Nat
    BY <1>0, <1>2 DEF DiaryInv, Pages
  <2> QED BY <1>2, <2>1 DEF EventsOf
<1> HIDE DEF all
<1>5. p \in Pages /\ p.day = run[r].day /\ ~p.used /\ p.of = all
  <2>1. run[r].day \in Nat
    BY <1>2, <1>3
  <2>2. PICK q : q = Page(run[r].day, all)
    OBVIOUS
  <2>3. q \in Pages /\ q.day = run[r].day /\ ~q.used /\ q.of = all
    BY <1>0, <1>4, <2>1, <2>2, PageIs
  <2>4. p = IF run[r].known THEN [q EXCEPT !.age = diary[Insights].age] ELSE q
    BY <2>2 DEF Made, all
  <2>5. run[r].known => lv = 3
    BY <1>2 DEF DayOK
  <2>6. run[r].known => Insights \in Docs
    BY <2>5 DEF MergeOK
  <2>7. run[r].known => diary[Insights].age \in Nat
    BY <1>0, <2>6 DEF DiaryInv, Pages
  <2> HIDE DEF p
  <2> QED BY <2>3, <2>4, <2>7 DEF Pages
<1>6. /\ d \in (1..4) \X Nat /\ MemLevel(d) = lv + 1
      /\ lv < 3 => d[2] = run[r].day /\ (d \in Docs => ~sizes.lenient /\ lv = 1 /\ diary[d].of = all)
      /\ lv = 3 => d = Insights /\ Reaches
      /\ lv = 3 /\ d \in Docs => diary[d].of \subseteq all
  <2>1. CASE lv < 3
    <3>1. d = <<lv + 1, run[r].day>>
      BY <2>1 DEF Summary
    <3>2. ~run[r].known /\ run[r].old = {}
      BY <2>1 DEF DayOK
    <3>3. d \in Docs => ~sizes.lenient
      BY <3>2 DEF Refused
    <3>4. ASSUME d \in Docs PROVE lv = 1 /\ diary[d].of = all
      <4>1. lv = 1 /\ run[r].from = DayEvents(run[r].day)
        BY <3>3, <3>4 DEF ListOK, Whole
      <4>2. d[2] = run[r].day /\ MemLevel(d) = 2
        BY <3>1, <4>1 DEF MemLevel
      <4>3. diary[d].of = EventsOf(DayEvents(d[2]))
        BY <1>0, <3>3, <3>4, <4>2 DEF DiaryInv, DaysTold, DayTold
      <4> QED BY <3>2, <4>1, <4>2, <4>3 DEF all
    <3> QED BY <1>2, <1>3, <2>1, <3>1, <3>3, <3>4 DEF MemLevel
  <2>0. lv = 3 => sizes.lenient /\ ~Refused(r)
    BY DEF ListOK
  <2>2. CASE lv = 3
    <3>1. d = Insights
      BY <2>2 DEF Summary
    <3>2. d \in Docs => run[r].known
      BY <2>2, <2>0 DEF Refused
    <3> QED BY <2>2, <3>1, <3>2 DEF MergeOK, Insights, MemLevel, all
  <2> QED BY <1>2, <2>1, <2>2
<1>7. s.at = "select" /\ s.level = lv /\ s.from = from
  OBVIOUS
<1> HIDE DEF lv, from, d, p, s
<1>8. /\ Docs' = Docs \cup {d} /\ diary'[d] = p /\ \A x \in Docs \ {d} : diary'[x] = diary[x]
      /\ diary' \in [Docs' -> Pages] /\ IsFiniteSet(Docs') /\ Docs' \subseteq (1..4) \X Nat
  BY <1>0, <1>1, <1>5, <1>6, WrittenDocs
<1>9. Events' = Events
  BY <1>0, <1>2, <1>6, <1>8, EventsStay
<1>10. Grows /\ (Same \/ Reaches)
  <2>1. CASE lv < 3
    <3>1. \A x \in Docs : diary'[x].of = diary[x].of
      BY <1>5, <1>6, <1>8, <2>1
    <3>2. \A x \in Docs : MemLevel(x) = 1 => diary'[x].day = diary[x].day
      BY <1>2, <1>6, <1>8
    <3>3. \A x \in Docs' \ Docs : MemLevel(x) # 1
      BY <1>2, <1>6, <1>8
    <3> QED BY <1>0, <1>3, <1>8, <3>1, <3>2, <3>3 DEF Same, Grows
  <2>2. CASE lv = 3
    <3>1. \A x \in Docs : diary[x].of \subseteq diary'[x].of
      BY <1>5, <1>6, <1>8, <2>2
    <3>2. \A x \in Docs : MemLevel(x) < 4 => diary'[x] = diary[x]
      BY <1>6, <1>8, <2>2
    <3>3. \A x \in Docs' \ Docs : MemLevel(x) # 1
      BY <1>6, <1>8, <2>2
    <3> QED BY <1>0, <1>3, <1>6, <1>8, <2>2, <3>1, <3>2, <3>3 DEF Grows
  <2> QED BY <1>2, <2>1, <2>2
<1>11. ASSUME NEW x \in Docs'
       PROVE  /\ diary'[x].day <= today'
              /\ MemLevel(x) = 3 => x[2] \in 0..sizes'.last
              /\ MemLevel(x) = 4 => x = Insights /\ Reaches'
              /\ diary'[x].used => Carried(x)'
  <2>0. Reaches' = Reaches
    BY <1>0 DEF Reaches
  <2>1. CASE x = d
    BY <1>0, <1>2, <1>3, <1>5, <1>6, <1>8, <2>0, <2>1
  <2>2. CASE x # d
    <3>1. x \in Docs /\ diary'[x] = diary[x]
      BY <1>8, <2>2
    <3> QED BY <1>0, <1>10, <2>0, <3>1, CarriedStays DEF DiaryInv
  <2> QED BY <2>1, <2>2
<1>111. DaysTold'
  <2>1. ASSUME NEW x \in Docs', MemLevel(x) = 2, ~sizes.lenient PROVE DayTold(x)'
    <3>1. CASE x \in Docs
      BY <1>0, <1>10, <2>1, <3>1, DaysToldStay
    <3>2. CASE x \notin Docs
      <4>1. x = d /\ diary'[x].of = all
        BY <1>5, <1>8, <3>2
      <4>2. lv = 1 /\ from = DayEvents(run[r].day) /\ run[r].day < today /\ run[r].day \in Nat /\ run[r].old = {}
        BY <1>2, <2>1 DEF ListOK, Whole, lv, from, DayOK
      <4>3. PICK n : n = run[r].day
        OBVIOUS
      <4>4. all = EventsOf(DayEvents(n)) /\ x[2] = n
        BY <1>6, <4>1, <4>2, <4>3 DEF all, from
      <4>5. EventsOf(DayEvents(n))' = EventsOf(DayEvents(n))
        BY <1>0, <1>10, <4>2, <4>3, DayStays
      <4> QED BY <4>1, <4>2, <4>3, <4>4, <4>5 DEF DayTold
    <3> QED BY <3>1, <3>2
  <2> QED BY <2>1 DEF DaysTold, MemLevel
<1>12. DiaryInv'
  BY <1>0, <1>8, <1>9, <1>11, <1>111 DEF DiaryInv, MemLevel, Insights
<1>13. \A x \in from : x \in Docs' /\ Carried(x)'
  <2> SUFFICES ASSUME NEW x \in from PROVE x \in Docs' /\ Carried(x)'
    OBVIOUS
  <2>1. x \in Docs /\ MemLevel(x) = lv /\ x # d /\ MemLevel(x) < MemLevel(d)
    BY <1>2, <1>6
  <2>2. diary'[x].of \subseteq diary'[d].of /\ d \in Docs' /\ x \in Docs'
    BY <1>4, <1>5, <1>8, <2>1
  <2>3. MemLevel(x) = 1 => <<2, diary'[x].day>> \in Docs'
    <3> SUFFICES ASSUME MemLevel(x) = 1 PROVE <<2, diary'[x].day>> \in Docs'
      OBVIOUS
    <3>1. lv = 1
      BY <2>1
    <3>2. diary'[x].day = run[r].day
      BY <1>8, <2>1, <3>1 DEF DayOK, lv, from
    <3>3. d = <<2, run[r].day>>
      BY <3>1 DEF Summary, d, lv
    <3> QED BY <2>2, <3>2, <3>3
  <2> QED BY <2>1, <2>2, <2>3 DEF Carried, MemLevel
<1>14. run'[r] = s
  BY <1>1, RunnerIs
<1>15. RunOK(r)'
  BY <1>2, <1>7, <1>13, <1>14 DEF RunOK, FromOK, MemLevel
<1> QED BY <1>1, <1>10, <1>12, <1>15, RunnerKeeps

LEMMA WriteSummaryKeeps ==
    ASSUME MemInv, NEW r \in sizes.runners, WriteSummary(r) \/ PutSummary(r) PROVE MemInv'
<1>1. UNCHANGED <<sizes, today>> /\ RunOK(r) /\ r \in MemRunner /\ run[r].at \in {"write", "put"}
  BY SizesType DEF MemInv, WriteSummary, PutSummary
<1>2. run[r] \in Asking /\ FromOK(r) /\ MergeOK(r) /\ DayOK(r) /\ ListOK(r)
  BY <1>1 DEF RunOK, Rest
<1>3. CASE PutSummary(r)
  <2>1. run[r].at = "put" /\ Stored(r)
    BY <1>3 DEF PutSummary
  <2>2. ~sizes.lenient /\ Whole(r)
    BY <1>1, <2>1 DEF RunOK, Rest
  <2> QED BY <1>1, <1>2, <2>1, <2>2, StoredKeeps
<1>4. CASE WriteSummary(r)
  <2>1. CASE Refused(r)
    <3>1. Steps(r, Rest) /\ UNCHANGED diary
      BY <1>4, <2>1 DEF WriteSummary
    <3>2. RunOK(r)'
      BY <3>1, RunnerIs DEF RunOK
    <3> QED BY <1>1, <3>1, <3>2, QuietKeeps
  <2>2. CASE ~Refused(r) /\ sizes.lenient
    <3>1. Stored(r)
      BY <1>4, <2>2 DEF WriteSummary
    <3> QED BY <1>1, <1>2, <2>2, <3>1, StoredKeeps
  <2>3. CASE ~Refused(r) /\ ~sizes.lenient
    <3> DEFINE s == [run[r] EXCEPT !.at = "put"]
    <3>1. Steps(r, s) /\ UNCHANGED diary
      BY <1>4, <2>3 DEF WriteSummary
    <3>2. /\ s \in Asking /\ s.at = "put" /\ s.from = run[r].from /\ s.level = run[r].level
          /\ s.known = run[r].known /\ s.old = run[r].old /\ s.day = run[r].day
      BY <1>2 DEF Asking
    <3> HIDE DEF s
    <3>3. run'[r] = s /\ Asking' = Asking /\ Reaches' = Reaches /\ Docs' = Docs
      BY <1>1, <3>1, RunnerIs DEF Asking, Reaches, Docs
    <3>4. Whole(r)
      <4>1. run[r].level = 1 /\ (<<2, run[r].day>> \in Docs \/ Whole(r)) /\ ~run[r].known
        BY <1>2, <2>3 DEF ListOK, DayOK
      <4>2. Summary(r) = <<2, run[r].day>>
        BY <4>1 DEF Summary
      <4> QED BY <2>3, <4>1, <4>2 DEF Refused
    <3>5. FromOK(r)' /\ MergeOK(r)'
      BY <1>1, <1>2, <3>1, <3>2, <3>3 DEF FromOK, MergeOK
    <3>6. DayOK(r)'
      BY <1>1, <1>2, <3>1, <3>2, <3>3 DEF DayOK
    <3>7. ListOK(r)' /\ Whole(r)'
      BY <1>1, <1>2, <3>1, <3>2, <3>3, <3>4 DEF ListOK, Whole, DayEvents, Events
    <3>8. RunOK(r)'
      BY <1>1, <2>3, <3>2, <3>3, <3>5, <3>6, <3>7 DEF RunOK
    <3> QED BY <1>1, <3>1, <3>8, QuietKeeps
  <2> QED BY <2>1, <2>2, <2>3
<1> QED BY <1>3, <1>4

LEMMA PatchKeeps == ASSUME MemInv, NEW r \in sizes.runners, Patch(r) PROVE MemInv'
<1> DEFINE p == IF run[r].level = 0 THEN [run[r].copy EXCEPT !.harvested = TRUE]
                ELSE [run[r].copy EXCEPT !.used = TRUE]
           d == run[r].doc
           s == [at |-> "mark", level |-> run[r].level, todo |-> run[r].todo]
<1>1. /\ run[r].at = "patch" /\ Written(d, p) /\ Steps(r, s) /\ UNCHANGED <<sizes, today>>
      /\ DiaryInv /\ RunOK(r) /\ r \in MemRunner
  BY SizesType DEF MemInv, Patch
<1>2. run[r].level \in 0..3 /\ TodoOK(r) /\ CopyOK(r)
  BY <1>1 DEF RunOK, Rest, Asking
<1>3. /\ p \in Pages /\ p.of = run[r].copy.of /\ p.day = run[r].copy.day
      /\ p.used => run[r].level > 0 \/ run[r].copy.used
  <2>1. run[r].copy \in Pages
    BY <1>2 DEF CopyOK
  <2>2. PICK x \in Pages : x = run[r].copy
    BY <2>1
  <2>3. p = IF run[r].level = 0 THEN [x EXCEPT !.harvested = TRUE] ELSE [x EXCEPT !.used = TRUE]
    BY <2>2
  <2> HIDE DEF p
  <2>4. /\ p \in Pages /\ p.of = x.of /\ p.day = x.day
        /\ p.used => run[r].level > 0 \/ x.used
    <3>1. CASE run[r].level = 0
      BY <2>3, <3>1 DEF Pages
    <3>2. CASE run[r].level # 0
      <4>1. p = [x EXCEPT !.used = TRUE] /\ run[r].level > 0
        BY <1>2, <2>3, <3>2
      <4> QED BY <4>1 DEF Pages
    <3> QED BY <3>1, <3>2
  <2> QED BY <2>2, <2>4
<1>4. /\ d \in Docs /\ d \in (1..4) \X Nat /\ p.of = diary[d].of /\ p.day <= today
      /\ MemLevel(d) = 1 => p.day = diary[d].day
      /\ p.used => Carried(d)
  BY <1>1, <1>2, <1>3 DEF CopyOK, DiaryInv
<1>5. s.at = "mark" /\ s.level = run[r].level /\ s.todo = run[r].todo
  OBVIOUS
<1> HIDE DEF p, d, s
<1>6. /\ Docs' = Docs \cup {d} /\ diary'[d] = p /\ \A x \in Docs \ {d} : diary'[x] = diary[x]
      /\ diary' \in [Docs' -> Pages] /\ IsFiniteSet(Docs') /\ Docs' \subseteq (1..4) \X Nat
  BY <1>1, <1>3, <1>4, WrittenDocs
<1>7. Events' = Events
  BY <1>1, <1>4, <1>6, EventsStay
<1>8. Same /\ Grows
  <2>1. \A x \in Docs : diary'[x].of = diary[x].of
    BY <1>4, <1>6
  <2>2. \A x \in Docs : MemLevel(x) = 1 => diary'[x].day = diary[x].day
    BY <1>4, <1>6
  <2> QED BY <1>1, <1>4, <1>6, <2>1, <2>2, SizesType DEF Same, Grows
<1>9. ASSUME NEW x \in Docs'
      PROVE  /\ diary'[x].day <= today'
             /\ MemLevel(x) = 3 => x[2] \in 0..sizes'.last
             /\ MemLevel(x) = 4 => x = Insights /\ Reaches'
             /\ diary'[x].used => Carried(x)'
  <2>0. Reaches' = Reaches /\ x \in Docs
    BY <1>1, <1>4, <1>6 DEF Reaches
  <2>1. diary'[x].used => Carried(x)
    BY <1>1, <1>4, <1>6, <2>0 DEF DiaryInv
  <2>2. diary'[x].day <= today'
    BY <1>1, <1>4, <1>6, <2>0 DEF DiaryInv
  <2> QED BY <1>1, <1>8, <2>0, <2>1, <2>2, CarriedStays DEF DiaryInv
<1>90. DaysTold'
  <2>1. ASSUME NEW x \in Docs', MemLevel(x) = 2, ~sizes.lenient PROVE DayTold(x)'
    BY <1>1, <1>4, <1>6, <1>8, <2>1, DaysToldStay
  <2> QED BY <1>1, <2>1 DEF DaysTold, MemLevel
<1>10. DiaryInv'
  BY <1>1, <1>6, <1>7, <1>9, <1>90 DEF DiaryInv, MemLevel, Insights
<1>11. run'[r] = s
  BY <1>1, RunnerIs
<1>12. TodoOK(r)'
  BY <1>1, <1>2, <1>5, <1>6, <1>8, <1>11, CarriedStays DEF TodoOK
<1>13. RunOK(r)'
  BY <1>2, <1>5, <1>11, <1>12 DEF RunOK
<1> QED BY <1>1, <1>8, <1>10, <1>13, RunnerKeeps

----------------------------------------------------------------------------

LEMMA MemStarts == MemInit => MemInv
<1> SUFFICES ASSUME MemInit PROVE MemInv
  OBVIOUS
<1>1. Docs = {} /\ Events = {} /\ Cardinality(Events) = 0
  BY FS_EmptySet DEF MemInit, Docs, Events
<1>2. sizes \in MemSettings /\ today = 0 /\ sizes.last \in Nat /\ sizes.events \in Nat /\ IsFiniteSet(Docs)
  BY <1>1, FS_EmptySet, MemoryAssumption DEF MemInit, MemSetting
<1>3. DiaryInv
  BY <1>1, <1>2 DEF DiaryInv, MemInit, DaysTold
<1> QED BY <1>3 DEF MemInv, MemInit, RunOK

LEMMA DaysKeep == ASSUME MemInv, NextDay \/ StopMemory PROVE MemInv'
<1>1. /\ sizes' = sizes /\ diary' = diary /\ today' \in 0..sizes.last /\ today <= today'
      /\ run' = [r \in MemRunner |-> run'[r]] /\ \A r \in MemRunner : run'[r] = run[r] \/ run'[r] = Rest
  BY SizesType DEF MemInv, DiaryInv, NextDay, StopMemory
<1>2. Docs' = Docs /\ Events' = Events /\ Reaches' = Reaches /\ \A x \in Docs : Carried(x)' = Carried(x)
  BY <1>1 DEF Docs, Events, Reaches, Carried
<1>3. \A d \in Docs : diary'[d].day <= today'
  BY <1>1, SizesType DEF MemInv, DiaryInv, Pages
<1>5. Grows /\ Same
  BY <1>1, <1>2, SizesType DEF Grows, Same, MemInv
<1>40. DaysTold'
  <2>1. ASSUME NEW x \in Docs', MemLevel(x) = 2, ~sizes.lenient PROVE DayTold(x)'
    BY <1>2, <1>5, <2>1, DaysToldStay DEF MemInv
  <2> QED BY <1>1, <2>1 DEF DaysTold, MemLevel
<1>4. DiaryInv'
  BY <1>1, <1>2, <1>3, <1>40 DEF MemInv, DiaryInv
<1>6. ASSUME NEW r \in MemRunner PROVE RunOK(r)'
  <2>1. CASE run'[r] = Rest
    BY <2>1 DEF RunOK
  <2>2. CASE run'[r] = run[r]
    BY <1>5, <2>2, RunStays DEF MemInv
  <2> QED BY <1>1, <2>1, <2>2
<1> QED BY <1>1, <1>4, <1>6 DEF MemInv

LEMMA MemSteps == MemInv /\ [MemNext]_memVars => MemInv'
<1> SUFFICES ASSUME MemInv, [MemNext]_memVars PROVE MemInv'
  OBVIOUS
<1>1. CASE MemNext
  BY <1>1, RememberKeeps, ReadsKeep, FindKeeps, FindInsightsKeeps, WriteSummaryKeeps, CopyKeeps, PatchKeeps,
     DaysKeep DEF MemNext
<1>2. CASE UNCHANGED memVars
  <2>1. sizes' = sizes /\ today' = today /\ diary' = diary /\ run' = run
    BY <1>2 DEF memVars
  <2>2. Grows /\ Same
    BY <2>1, SizesType DEF Grows, Same, MemInv, Docs
  <2>20. DiaryInv'
    BY <2>1 DEF MemInv, DiaryInv, Docs, Events, Carried, Reaches, DaysTold, DayTold, DayEvents, EventsOf
  <2>3. \A r \in MemRunner : RunOK(r)'
    BY <2>1, <2>2, RunStays DEF MemInv
  <2> QED BY <2>1, <2>20, <2>3 DEF MemInv
<1> QED BY <1>1, <1>2

LEMMA CarriedIsKept == MemInv => NothingSkipped
<1> SUFFICES ASSUME MemInv, NEW x \in Docs
             PROVE  \E d \in Docs : ~diary[d].used /\ diary[x].of \subseteq diary[d].of
  BY DEF NothingSkipped, Events
<1> DEFINE Has(d) == \E e \in Docs : ~diary[e].used /\ diary[d].of \subseteq diary[e].of
<1>1. \A d \in Docs : MemLevel(d) \in 1..4 /\ (diary[d].used => Carried(d))
  BY DEF MemInv, DiaryInv, MemLevel
<1>2. ASSUME NEW d \in Docs, \A e \in Docs : MemLevel(d) < MemLevel(e) => Has(e) PROVE Has(d)
  BY <1>1, <1>2 DEF Carried
<1>3. \A d \in Docs : MemLevel(d) = 4 => Has(d)
  BY <1>1, <1>2
<1>4. \A d \in Docs : MemLevel(d) = 3 => Has(d)
  BY <1>1, <1>2, <1>3
<1>5. \A d \in Docs : MemLevel(d) = 2 => Has(d)
  BY <1>1, <1>2, <1>3, <1>4
<1>6. \A d \in Docs : MemLevel(d) = 1 => Has(d)
  BY <1>1, <1>2, <1>3, <1>4, <1>5
<1> QED BY <1>1, <1>3, <1>4, <1>5, <1>6

\* Whatever is compressed, marked, harvested or cut short, and however these runs
\* overlap below a merge of insights, no event is skipped ("Mark the EXACT sources
\* consumed", memory.rs:121): a document is archived only when a stored one of a
\* higher level was made of it.
THEOREM NothingIsSkipped == MemSpec => []NothingSkipped
<1>1. MemInit => MemInv
  BY MemStarts
<1>2. MemInv /\ [MemNext]_memVars => MemInv'
  BY MemSteps
<1>3. MemInv => NothingSkipped
  BY CarriedIsKept
<1> QED BY <1>1, <1>2, <1>3, PTL DEF MemSpec

----------------------------------------------------------------------------
(* Focuses: something is unblocked *)

\* Records of the store.
FocusRecord == [mind : Mind, deps : SUBSET Focus, archived : BOOLEAN, decayed : BOOLEAN]

\* The record of x names y as a dependency, or a copy of it that is still to be written does.
Names(x, y) ==
    \/ focus[x] # NoFocus /\ y \in focus[x].deps
    \/ \E c \in FocusClient :
          \/ todo[c].at = "put" /\ todo[c].id = x /\ y \in todo[c].copy.deps
          \/ todo[c].at = "unlink" /\ x \in DOMAIN todo[c].copies /\ y \in todo[c].copies[x].deps

Acyclic == \A S \in SUBSET Focus : S # {} => \E x \in S : \A y \in S : ~Names(x, y)

\* Walks for a record that is new, and for one that is there.
Adding(c) == todo[c].at = "follow" /\ focus[todo[c].id] = NoFocus
Changing(c) == todo[c].at = "follow" /\ focus[todo[c].id] # NoFocus

WalkOK(c) ==
    /\ {"at", "id", "stack", "seen", "copy"} \subseteq DOMAIN todo[c]
    /\ todo[c].id \in given /\ todo[c].stack \subseteq given /\ todo[c].seen \subseteq given
    /\ todo[c].copy \in FocusRecord
    /\ todo[c].copy.deps \subseteq todo[c].seen \cup todo[c].stack
    /\ todo[c].id \notin todo[c].seen
    /\ focus[todo[c].id] # NoFocus => "update" \in asks[c]

CopiesOK(c) ==
    /\ DOMAIN todo[c].copies \subseteq given
    /\ \A j \in DOMAIN todo[c].copies : todo[c].copies[j] \in FocusRecord

FocusTodoOK(c) ==
    /\ todo[c].at \in {"free", "follow", "put", "list", "unlink"}
    /\ todo[c].at = "follow" => WalkOK(c)
    /\ todo[c].at = "put" => /\ todo[c].id \in given /\ todo[c].copy \in FocusRecord
                             /\ asks[c] \cap {"update", "archive"} # {}
    /\ todo[c].at \in {"list", "unlink"} => "remove" \in asks[c]
    /\ todo[c].at = "unlink" => CopiesOK(c)

\* A record that is being added is known to its own request only.
KnownOnlyTo(c, j) ==
    /\ \A x \in Focus : ~Names(x, j) /\ ~Names(j, x)
    /\ \A d \in FocusClient :
          /\ todo[d].at = "follow" => j \notin todo[d].seen
          /\ todo[d].at = "unlink" => j \notin DOMAIN todo[d].copies
          /\ todo[d].at \in {"follow", "put"} /\ d # c => todo[d].id # j
New(c) == \A j \in Focus : j = todo[c].id => KnownOnlyTo(c, j)

\* What a walk has seen leads to what it has seen or will look up.
Closed(c) == \A x \in todo[c].seen : \A y \in Focus : Names(x, y) => y \in todo[c].seen \cup todo[c].stack

FocusKept ==
    /\ focus = [i \in Focus |-> focus[i]] /\ todo = [c \in FocusClient |-> todo[c]]
    /\ \A i \in Focus : focus[i] = NoFocus \/ focus[i] \in FocusRecord
    /\ given \subseteq Focus /\ Kept \subseteq given /\ asks \in FocusSettings
    /\ \A x, y \in Focus : Names(x, y) => x \in given /\ y \in given
    /\ \A c \in FocusClient : FocusTodoOK(c) /\ (Adding(c) => New(c)) /\ (Changing(c) => Closed(c))
    /\ Acyclic

LEMMA NoFocusIsNone == NoFocus \notin FocusRecord
<1>1. DOMAIN NoFocus = {"mind"}
  BY DEF NoFocus
<1>2. \A r \in FocusRecord : "deps" \in DOMAIN r
  BY DEF FocusRecord
<1> QED BY <1>1, <1>2

LEMMA NamesShrink ==
    ASSUME Acyclic, \A x, y \in Focus : Names(x, y)' => Names(x, y)
    PROVE  Acyclic'
<1> SUFFICES ASSUME NEW S \in SUBSET Focus, S # {}
             PROVE  \E x \in S : \A y \in S : ~Names(x, y)'
  BY DEF Acyclic
<1>1. PICK x \in S : \A y \in S : ~Names(x, y)
  BY DEF Acyclic
<1> QED BY <1>1

\* A new record is named by none, so it closes no cycle.
LEMMA NewIsNoCycle ==
    ASSUME Acyclic, NEW j \in Focus, \A x \in Focus : ~Names(x, j), NEW D, j \notin D,
           \A x, y \in Focus : Names(x, y)' => Names(x, y) \/ (x = j /\ y \in D)
    PROVE  Acyclic'
<1> SUFFICES ASSUME NEW S \in SUBSET Focus, S # {}
             PROVE  \E x \in S : \A y \in S : ~Names(x, y)'
  BY DEF Acyclic
<1>1. CASE S \subseteq {j}
  BY <1>1
<1>2. CASE ~(S \subseteq {j})
  <2>1. PICK x \in S \ {j} : \A y \in S \ {j} : ~Names(x, y)
    <3>1. S \ {j} # {} /\ S \ {j} \in SUBSET Focus
      BY <1>2
    <3> QED BY <3>1 DEF Acyclic
  <2>2. \A y \in S : ~Names(x, y)
    BY <2>1
  <2> QED BY <2>1, <2>2
<1> QED BY <1>1, <1>2

\* Dependencies whose walk is over and did not come back close no cycle.
LEMMA ClosedIsNoCycle ==
    ASSUME Acyclic, NEW j \in Focus, NEW C \in SUBSET Focus, j \notin C, NEW D, D \subseteq C,
           \A x \in C : \A y \in Focus : Names(x, y) => y \in C,
           \A x, y \in Focus : Names(x, y)' => (x # j /\ Names(x, y)) \/ (x = j /\ y \in D)
    PROVE  Acyclic'
<1> SUFFICES ASSUME NEW S \in SUBSET Focus, S # {}
             PROVE  \E x \in S : \A y \in S : ~Names(x, y)'
  BY DEF Acyclic
<1>1. CASE S \cap C # {}
  <2>1. PICK x \in S \cap C : \A y \in S \cap C : ~Names(x, y)
    <3>1. S \cap C \in SUBSET Focus
      OBVIOUS
    <3> QED BY <1>1, <3>1 DEF Acyclic
  <2>2. \A y \in S : ~Names(x, y)
    BY <2>1
  <2> QED BY <2>1, <2>2
<1>2. CASE S \cap C = {} /\ j \in S
  BY <1>2
<1>3. CASE S \cap C = {} /\ j \notin S
  <2>1. PICK x \in S : \A y \in S : ~Names(x, y)
    BY DEF Acyclic
  <2> QED BY <1>3, <2>1
<1> QED BY <1>1, <1>2, <1>3

LEMMA TurnIs == ASSUME FocusKept, NEW c \in FocusClient, NEW x, Turns(c, x)
    PROVE  /\ todo' = [d \in FocusClient |-> todo'[d]] /\ todo'[c] = x
           /\ \A d \in FocusClient \ {c} : todo'[d] = todo[d]
  BY DEF FocusKept, Turns

\* While one client changes dependencies, the others only add.
LEMMA OthersAdd ==
    ASSUME FocusKept, NEW c \in FocusClient, Changing(c), NEW d \in FocusClient \ {c}
    PROVE  asks[d] \subseteq {"add"} /\ (todo[d].at = "free" \/ Adding(d))
<1>1. "update" \in asks[c] /\ FocusTodoOK(d) /\ asks \in FocusSettings
  BY DEF FocusKept, FocusTodoOK, WalkOK, Changing
<1>2. PICK e \in FocusClient : \A f \in FocusClient \ {e} : asks[f] \subseteq {"add"}
  BY <1>1, FocusAssumption
<1>3. e = c
  BY <1>1, <1>2
<1>4. asks[d] \subseteq {"add"}
  BY <1>2, <1>3
<1> QED BY <1>1, <1>4 DEF FocusTodoOK, WalkOK, Adding

\* Each request beside the one that steps.
LEMMA OtherTurns ==
    ASSUME FocusKept, NEW d \in FocusClient, todo'[d] = todo[d], asks' = asks, given \subseteq given',
           todo[d].at = "follow" =>
               (focus'[todo[d].id] # NoFocus => focus[todo[d].id] # NoFocus)
    PROVE  FocusTodoOK(d)' /\ (Adding(d) => Adding(d)') /\ (Changing(d)' => Changing(d))
<1>1. FocusTodoOK(d)
  BY DEF FocusKept
<1>2. FocusTodoOK(d)'
  BY <1>1 DEF FocusTodoOK, WalkOK, CopiesOK
<1> QED BY <1>2 DEF Adding, Changing

\* What one request holds to be written, and what is named now.
WritesLink(x, p, q) ==
    \/ x.at = "put" /\ x.id = p /\ q \in x.copy.deps
    \/ x.at = "unlink" /\ p \in DOMAIN x.copies /\ q \in x.copies[p].deps

Recorded(p, q) == focus[p] # NoFocus /\ q \in focus[p].deps

LEMMA NamesAre ==
    \A p, q : Names(p, q) <=> Recorded(p, q) \/ \E c \in FocusClient : WritesLink(todo[c], p, q)
  BY DEF Names, Recorded, WritesLink

LEMMA NamesNow ==
    ASSUME FocusKept, NEW c \in FocusClient, NEW x, Turns(c, x), NEW p, NEW q, Names(p, q)'
    PROVE  \/ focus'[p] # NoFocus /\ q \in focus'[p].deps
           \/ WritesLink(x, p, q)
           \/ \E e \in FocusClient \ {c} : WritesLink(todo[e], p, q)
<1>1. todo'[c] = x /\ \A d \in FocusClient \ {c} : todo'[d] = todo[d]
  BY TurnIs
<1>2. \/ focus'[p] # NoFocus /\ q \in focus'[p].deps
      \/ \E e \in FocusClient : WritesLink(todo'[e], p, q)
  BY DEF Names, WritesLink
<1> QED BY <1>1, <1>2

LEMMA StepKeeps ==
    ASSUME FocusKept, NEW c \in FocusClient, NEW x, Turns(c, x),
           asks' = asks, given \subseteq given', given' \subseteq Focus,
           focus' = [i \in Focus |-> focus'[i]],
           \A i \in Focus : focus'[i] = NoFocus \/ focus'[i] \in FocusRecord,
           \A i \in Focus : focus'[i] # NoFocus => i \in given',
           \A p, q \in Focus : Names(p, q)' => p \in given' /\ q \in given',
           Acyclic',
           FocusTodoOK(c)', Adding(c)' => New(c)', Changing(c)' => Closed(c)',
           \A d \in FocusClient \ {c} : todo[d].at = "follow" =>
               (focus'[todo[d].id] = NoFocus <=> focus[todo[d].id] = NoFocus),
           \A d \in FocusClient \ {c} : Adding(d) => New(d)',
           \A d \in FocusClient \ {c} : Changing(d) => Closed(d)'
    PROVE  FocusKept'
<1>1. /\ todo' = [d \in FocusClient |-> todo'[d]] /\ todo'[c] = x
      /\ \A d \in FocusClient \ {c} : todo'[d] = todo[d]
  BY TurnIs
<1>2. ASSUME NEW d \in FocusClient \ {c}
      PROVE  FocusTodoOK(d)' /\ (Adding(d)' => New(d)') /\ (Changing(d)' => Closed(d)')
  <2>1. todo'[d] = todo[d]
    BY <1>1
  <2>2. FocusTodoOK(d)'
    BY <2>1, OtherTurns
  <2>3. (Adding(d)' => Adding(d)) /\ (Changing(d)' => Changing(d))
    BY <2>1 DEF Adding, Changing
  <2> QED BY <2>2, <2>3
<1>3. \A d \in FocusClient : FocusTodoOK(d)' /\ (Adding(d)' => New(d)') /\ (Changing(d)' => Closed(d)')
  BY <1>2
<1>4. Kept' \subseteq given'
  BY DEF Kept
<1>5. asks' \in FocusSettings
  BY DEF FocusKept
<1> QED BY <1>1, <1>3, <1>4, <1>5 DEF FocusKept

\* A step that adds no dependency.
LEMMA ShrinkKeeps ==
    ASSUME FocusKept, NEW c \in FocusClient, NEW x, Turns(c, x),
           asks' = asks, given \subseteq given', given' \subseteq Focus,
           focus' = [i \in Focus |-> focus'[i]],
           \A i \in Focus : focus'[i] = NoFocus \/ focus'[i] \in FocusRecord,
           \A i \in Focus : focus'[i] # NoFocus => i \in given',
           \A p, q \in Focus : Names(p, q)' => Names(p, q),
           FocusTodoOK(c)', Adding(c)' => New(c)', Changing(c)' => Closed(c)',
           \A d \in FocusClient \ {c} : todo[d].at = "follow" =>
               (focus'[todo[d].id] = NoFocus <=> focus[todo[d].id] = NoFocus),
           \A d \in FocusClient \ {c} : Adding(d) =>
               /\ x.at = "follow" => todo[d].id \notin x.seen
               /\ x.at = "unlink" => todo[d].id \notin DOMAIN x.copies
               /\ x.at \in {"follow", "put"} => x.id # todo[d].id
    PROVE  FocusKept'
<1>1. /\ todo'[c] = x /\ \A d \in FocusClient \ {c} : todo'[d] = todo[d]
  BY TurnIs
<1>2. Acyclic'
  BY NamesShrink DEF FocusKept
<1>3. \A p, q \in Focus : Names(p, q)' => p \in given' /\ q \in given'
  BY DEF FocusKept
<1>4. ASSUME NEW d \in FocusClient \ {c}, Adding(d) PROVE New(d)'
  <2>1. SUFFICES ASSUME NEW j \in Focus, j = todo[d].id PROVE KnownOnlyTo(d, j)'
    BY <1>1 DEF New
  <2>2. KnownOnlyTo(d, j)
    BY <1>4, <2>1 DEF FocusKept, New
  <2>3. \A p \in Focus : ~Names(p, j)' /\ ~Names(j, p)'
    BY <2>2 DEF KnownOnlyTo
  <2>4. \A e \in FocusClient :
          /\ todo'[e].at = "follow" => j \notin todo'[e].seen
          /\ todo'[e].at = "unlink" => j \notin DOMAIN todo'[e].copies
          /\ todo'[e].at \in {"follow", "put"} /\ e # d => todo'[e].id # j
    BY <1>1, <1>4, <2>1, <2>2 DEF KnownOnlyTo
  <2> QED BY <2>3, <2>4 DEF KnownOnlyTo
<1>5. ASSUME NEW d \in FocusClient \ {c}, Changing(d) PROVE Closed(d)'
  <2>1. Closed(d) /\ todo'[d] = todo[d] /\ todo[d].seen \subseteq Focus
    BY <1>1, <1>5 DEF FocusKept, FocusTodoOK, WalkOK, Changing
  <2> QED BY <2>1 DEF Closed
<1> QED BY <1>2, <1>3, <1>4, <1>5, StepKeeps

\* Steps that leave the records alone and only read.
LEMMA SameRecords ==
    ASSUME FocusKept, NEW c \in FocusClient, NEW x, Turns(c, x),
           asks' = asks, focus' = focus, given \subseteq given', given' \subseteq Focus,
           \A p, q \in Focus : WritesLink(x, p, q) => Names(p, q),
           FocusTodoOK(c)', Adding(c)' => New(c)', Changing(c)' => Closed(c)',
           \A d \in FocusClient \ {c} : Adding(d) =>
               /\ x.at = "follow" => todo[d].id \notin x.seen
               /\ x.at = "unlink" => todo[d].id \notin DOMAIN x.copies
               /\ x.at \in {"follow", "put"} => x.id # todo[d].id
    PROVE  FocusKept'
<1>1. \A p, q \in Focus : Names(p, q)' => Names(p, q)
  <2> SUFFICES ASSUME NEW p \in Focus, NEW q \in Focus, Names(p, q)' PROVE Names(p, q)
    OBVIOUS
  <2> QED BY NamesNow, NamesAre DEF Recorded
<1>2. /\ focus' = [i \in Focus |-> focus'[i]]
      /\ \A i \in Focus : focus'[i] = NoFocus \/ focus'[i] \in FocusRecord
      /\ \A i \in Focus : focus'[i] # NoFocus => i \in given'
  BY DEF FocusKept, Kept
<1> QED BY <1>1, <1>2, ShrinkKeeps

LEMMA AddBegins == ASSUME FocusKept, NEW c \in FocusClient, BeginAdd(c) PROVE FocusKept'
<1>1. PICK m \in Mind, i \in Focus \ given, D \in SUBSET given :
         /\ given' = given \cup {i}
         /\ Turns(c, [at |-> "follow", id |-> i, stack |-> D, seen |-> {},
                      copy |-> [mind |-> m, deps |-> D, archived |-> FALSE, decayed |-> FALSE]])
  BY DEF BeginAdd
<1>2. asks' = asks /\ focus' = focus /\ todo[c].at = "free" /\ "add" \in asks[c]
  BY DEF BeginAdd, Asked, Free
<1> DEFINE copy == [mind |-> m, deps |-> D, archived |-> FALSE, decayed |-> FALSE]
           x == [at |-> "follow", id |-> i, stack |-> D, seen |-> {}, copy |-> copy]
<1>3. copy \in FocusRecord /\ copy.deps = D
  BY DEF FocusRecord, FocusKept
<1>4. Turns(c, x)
  BY <1>1
<1> HIDE DEF copy
<1>5. /\ x.at = "follow" /\ x.id = i /\ x.stack = D /\ x.seen = {} /\ x.copy = copy
      /\ {"at", "id", "stack", "seen", "copy"} \subseteq DOMAIN x
  OBVIOUS
<1> HIDE DEF x
<1>6. todo'[c] = x /\ \A d \in FocusClient \ {c} : todo'[d] = todo[d]
  BY <1>4, TurnIs
<1>7. /\ given \subseteq Focus /\ i \notin given /\ focus[i] = NoFocus
      /\ \A p, q \in Focus : Names(p, q) => p \in given /\ q \in given
      /\ \A d \in FocusClient : FocusTodoOK(d)
  BY DEF FocusKept, Kept
<1>8. FocusTodoOK(c)'
  BY <1>1, <1>2, <1>3, <1>5, <1>6, <1>7 DEF FocusTodoOK, WalkOK
<1>9. \A p, q : ~WritesLink(x, p, q)
  BY <1>5 DEF WritesLink
<1>10. \A p, q \in Focus : Names(p, q)' => Names(p, q)
  <2> SUFFICES ASSUME NEW p \in Focus, NEW q \in Focus, Names(p, q)' PROVE Names(p, q)
    OBVIOUS
  <2> QED BY <1>2, <1>4, <1>9, NamesNow, NamesAre DEF Recorded
<1>11. New(c)'
  <2> SUFFICES ASSUME NEW j \in Focus, j = i PROVE KnownOnlyTo(c, j)'
    BY <1>5, <1>6 DEF New
  <2>1. \A p \in Focus : ~Names(p, j)' /\ ~Names(j, p)'
    BY <1>7, <1>10
  <2>2. \A d \in FocusClient \ {c} :
          /\ todo[d].at = "follow" => todo[d].seen \subseteq given /\ todo[d].id \in given
          /\ todo[d].at = "unlink" => DOMAIN todo[d].copies \subseteq given
          /\ todo[d].at = "put" => todo[d].id \in given
    BY <1>7 DEF FocusTodoOK, WalkOK, CopiesOK
  <2>3. \A d \in FocusClient :
          /\ todo'[d].at = "follow" => j \notin todo'[d].seen
          /\ todo'[d].at = "unlink" => j \notin DOMAIN todo'[d].copies
          /\ todo'[d].at \in {"follow", "put"} /\ d # c => todo'[d].id # j
    BY <1>5, <1>6, <1>7, <2>2
  <2> QED BY <2>1, <2>3 DEF KnownOnlyTo
<1>12. ~Changing(c)'
  BY <1>2, <1>5, <1>6, <1>7 DEF Changing
<1>13. \A d \in FocusClient \ {c} : Adding(d) => x.id # todo[d].id
  BY <1>5, <1>7 DEF FocusTodoOK, WalkOK, Adding
<1>14. given \subseteq given' /\ given' \subseteq Focus
  BY <1>1, <1>7
<1> QED BY <1>2, <1>4, <1>5, <1>8, <1>9, <1>11, <1>12, <1>13, <1>14, SameRecords

LEMMA UpdateBegins == ASSUME FocusKept, NEW c \in FocusClient, BeginUpdate(c) PROVE FocusKept'
<1>1. PICK i \in Kept :
         \/ Turns(c, [at |-> "put", id |-> i, copy |-> focus[i]])
         \/ \E D \in SUBSET given :
              Turns(c, [at |-> "follow", id |-> i, stack |-> D, seen |-> {},
                        copy |-> [focus[i] EXCEPT !.deps = D]])
  BY DEF BeginUpdate
<1>2. asks' = asks /\ focus' = focus /\ given' = given /\ "update" \in asks[c]
  BY DEF BeginUpdate, Asked
<1>3. i \in given /\ given \subseteq Focus /\ focus[i] \in FocusRecord /\ focus[i] # NoFocus
  BY DEF FocusKept, Kept
<1>4. \A d \in FocusClient \ {c} : Adding(d) => i # todo[d].id
  BY <1>3 DEF Adding
<1>5. CASE Turns(c, [at |-> "put", id |-> i, copy |-> focus[i]])
  <2> DEFINE x == [at |-> "put", id |-> i, copy |-> focus[i]]
  <2>1. Turns(c, x) /\ x.at = "put" /\ x.id = i /\ x.copy = focus[i]
    BY <1>5
  <2> HIDE DEF x
  <2>2. todo'[c] = x
    BY <2>1, TurnIs
  <2>3. FocusTodoOK(c)' /\ ~Adding(c)' /\ ~Changing(c)'
    BY <1>2, <1>3, <2>1, <2>2 DEF FocusTodoOK, Adding, Changing
  <2>4. \A p, q \in Focus : WritesLink(x, p, q) => Names(p, q)
    BY <1>3, <2>1 DEF WritesLink, Names
  <2> QED BY <1>2, <1>3, <1>4, <2>1, <2>3, <2>4, SameRecords
<1>6. ASSUME NEW D \in SUBSET given,
             Turns(c, [at |-> "follow", id |-> i, stack |-> D, seen |-> {},
                       copy |-> [focus[i] EXCEPT !.deps = D]])
      PROVE  FocusKept'
  <2> DEFINE copy == [focus[i] EXCEPT !.deps = D]
             x == [at |-> "follow", id |-> i, stack |-> D, seen |-> {}, copy |-> copy]
  <2>1. copy \in FocusRecord /\ copy.deps = D
    BY <1>3 DEF FocusRecord
  <2>2. Turns(c, x)
    BY <1>6
  <2> HIDE DEF copy
  <2>3. /\ x.at = "follow" /\ x.id = i /\ x.stack = D /\ x.seen = {} /\ x.copy = copy
        /\ {"at", "id", "stack", "seen", "copy"} \subseteq DOMAIN x
    OBVIOUS
  <2> HIDE DEF x
  <2>4. todo'[c] = x
    BY <2>2, TurnIs
  <2>5. FocusTodoOK(c)'
    BY <1>2, <1>3, <2>1, <2>3, <2>4 DEF FocusTodoOK, WalkOK
  <2>6. ~Adding(c)' /\ Closed(c)'
    BY <1>2, <1>3, <2>3, <2>4 DEF Adding, Closed
  <2>7. \A p, q : ~WritesLink(x, p, q)
    BY <2>3 DEF WritesLink
  <2> QED BY <1>2, <1>3, <1>4, <2>2, <2>3, <2>5, <2>6, <2>7, SameRecords
<1> QED BY <1>1, <1>5, <1>6

LEMMA ArchiveBegins == ASSUME FocusKept, NEW c \in FocusClient, BeginArchive(c) PROVE FocusKept'
<1>1. PICK i \in Kept : Turns(c, [at |-> "put", id |-> i, copy |-> [focus[i] EXCEPT !.archived = ~@]])
  BY DEF BeginArchive
<1>2. asks' = asks /\ focus' = focus /\ given' = given /\ "archive" \in asks[c]
  BY DEF BeginArchive, Asked
<1>3. i \in given /\ given \subseteq Focus /\ focus[i] \in FocusRecord /\ focus[i] # NoFocus
  BY DEF FocusKept, Kept
<1>4. \A d \in FocusClient \ {c} : Adding(d) => i # todo[d].id
  BY <1>3 DEF Adding
<1> DEFINE copy == [focus[i] EXCEPT !.archived = ~@]
           x == [at |-> "put", id |-> i, copy |-> copy]
<1>5. copy \in FocusRecord
  BY <1>3, Zenon DEF FocusRecord
<1>6. copy.deps = focus[i].deps
  BY <1>3 DEF FocusRecord
<1>7. Turns(c, x)
  BY <1>1
<1> HIDE DEF copy
<1>8. x.at = "put" /\ x.id = i /\ x.copy = copy
  OBVIOUS
<1> HIDE DEF x
<1>9. todo'[c] = x
  BY <1>7, TurnIs
<1>10. FocusTodoOK(c)' /\ ~Adding(c)' /\ ~Changing(c)'
  BY <1>2, <1>3, <1>5, <1>8, <1>9 DEF FocusTodoOK, Adding, Changing
<1>11. \A p, q \in Focus : WritesLink(x, p, q) => Names(p, q)
  BY <1>3, <1>6, <1>8 DEF WritesLink, Names
<1> QED BY <1>2, <1>3, <1>4, <1>7, <1>8, <1>10, <1>11, SameRecords

LEMMA FreeKeeps ==
    ASSUME FocusKept, NEW c \in FocusClient, Turns(c, Free), asks' = asks, focus' = focus, given' = given
    PROVE  FocusKept'
<1>1. Free.at = "free"
  BY DEF Free
<1>2. todo'[c] = Free
  BY TurnIs
<1>3. FocusTodoOK(c)' /\ ~Adding(c)' /\ ~Changing(c)'
  BY <1>1, <1>2 DEF FocusTodoOK, Adding, Changing
<1>4. \A p, q : ~WritesLink(Free, p, q)
  BY <1>1 DEF WritesLink
<1> HIDE DEF Free
<1> QED BY <1>1, <1>3, <1>4, SameRecords DEF FocusKept

LEMMA FollowKeeps == ASSUME FocusKept, NEW c \in FocusClient, Follow(c) PROVE FocusKept'
<1>1. PICK i \in todo[c].stack :
         IF i = todo[c].id \/ (i \notin todo[c].seen /\ focus[i] = NoFocus) THEN Turns(c, Free)
         ELSE Turns(c, [todo[c] EXCEPT
                !.seen = @ \cup {i},
                !.stack = (@ \ {i}) \cup (IF i \in todo[c].seen THEN {} ELSE focus[i].deps)])
  BY DEF Follow
<1>2. asks' = asks /\ focus' = focus /\ given' = given /\ todo[c].at = "follow"
  BY DEF Follow
<1>3. CASE i = todo[c].id \/ (i \notin todo[c].seen /\ focus[i] = NoFocus)
  BY <1>1, <1>2, <1>3, FreeKeeps
<1>4. CASE ~(i = todo[c].id \/ (i \notin todo[c].seen /\ focus[i] = NoFocus))
  <2>1. PICK id, seen, stack, copy : id = todo[c].id /\ seen = todo[c].seen /\ stack = todo[c].stack
                                     /\ copy = todo[c].copy
    OBVIOUS
  <2>2. PICK more : more = IF i \in seen THEN {} ELSE focus[i].deps
    OBVIOUS
  <2> DEFINE x == [todo[c] EXCEPT !.seen = @ \cup {i}, !.stack = (@ \ {i}) \cup more]
  <2>3. Turns(c, x)
    BY <1>1, <1>4, <2>1, <2>2
  <2>4. WalkOK(c) /\ FocusTodoOK(c) /\ given \subseteq Focus
    BY <1>2 DEF FocusKept, FocusTodoOK
  <2>5. /\ x.at = "follow" /\ x.id = id /\ x.copy = copy
        /\ x.seen = seen \cup {i} /\ x.stack = (stack \ {i}) \cup more
        /\ {"at", "id", "stack", "seen", "copy"} \subseteq DOMAIN x
    BY <1>2, <2>1, <2>4 DEF WalkOK
  <2> HIDE DEF x
  <2>6. todo'[c] = x /\ \A d \in FocusClient \ {c} : todo'[d] = todo[d]
    BY <2>3, TurnIs
  <2>7. i \in given /\ i # id /\ id \in given /\ seen \subseteq given /\ stack \subseteq given
        /\ copy \in FocusRecord /\ copy.deps \subseteq seen \cup stack /\ id \notin seen
        /\ (focus[id] # NoFocus => "update" \in asks[c])
    BY <1>1, <1>4, <2>1, <2>4 DEF WalkOK
  <2>8. more \subseteq given /\ (i \notin seen => focus[i] # NoFocus /\ more = focus[i].deps)
    <3>1. CASE i \in seen
      BY <2>2, <3>1
    <3>2. CASE i \notin seen
      <4>1. focus[i] # NoFocus /\ more = focus[i].deps /\ i \in Focus
        BY <1>4, <2>1, <2>2, <2>4, <2>7, <3>2
      <4>2. focus[i].deps \subseteq Focus
        BY <4>1 DEF FocusKept, FocusRecord
      <4>3. \A y \in focus[i].deps : Names(i, y)
        BY <4>1 DEF Names
      <4> QED BY <4>1, <4>2, <4>3 DEF FocusKept
    <3> QED BY <3>1, <3>2
  <2>9. FocusTodoOK(c)'
    BY <1>2, <2>5, <2>6, <2>7, <2>8 DEF FocusTodoOK, WalkOK
  <2>10. \A p, q : ~WritesLink(x, p, q)
    BY <2>5 DEF WritesLink
  <2>11. \A p, q \in Focus : Names(p, q)' => Names(p, q)
    <3> SUFFICES ASSUME NEW p \in Focus, NEW q \in Focus, Names(p, q)' PROVE Names(p, q)
      OBVIOUS
    <3> QED BY <1>2, <2>3, <2>10, NamesNow, NamesAre DEF Recorded
  <2>12. Adding(c)' => New(c)'
    <3> SUFFICES ASSUME Adding(c)', NEW j \in Focus, j = id PROVE KnownOnlyTo(c, j)'
      BY <2>5, <2>6 DEF New
    <3>1. Adding(c)
      BY <1>2, <2>1, <2>5, <2>6 DEF Adding
    <3>2. KnownOnlyTo(c, j)
      BY <2>1, <3>1 DEF FocusKept, New
    <3>3. \A p \in Focus : ~Names(p, j)' /\ ~Names(j, p)'
      BY <2>11, <3>2 DEF KnownOnlyTo
    <3>4. \A d \in FocusClient :
            /\ todo'[d].at = "follow" => j \notin todo'[d].seen
            /\ todo'[d].at = "unlink" => j \notin DOMAIN todo'[d].copies
            /\ todo'[d].at \in {"follow", "put"} /\ d # c => todo'[d].id # j
      BY <2>5, <2>6, <2>7, <3>2 DEF KnownOnlyTo
    <3> QED BY <3>3, <3>4 DEF KnownOnlyTo
  <2>13. Changing(c)' => Closed(c)'
    <3> SUFFICES ASSUME Changing(c)', NEW p \in seen \cup {i}, NEW y \in Focus, Names(p, y)'
                 PROVE  y \in x.seen \cup x.stack
      BY <2>5, <2>6 DEF Closed
    <3>1. Changing(c) /\ Closed(c)
      BY <1>2, <2>1, <2>5, <2>6 DEF Changing, FocusKept
    <3>2. p \in Focus /\ Names(p, y)
      BY <2>4, <2>7, <2>11
    <3>3. CASE p \in seen
      <4>1. y \in seen \cup stack
        BY <2>1, <3>1, <3>2, <3>3 DEF Closed
      <4> QED BY <2>5, <4>1
    <3>4. CASE p \notin seen
      <4>1. p = i /\ more = focus[i].deps
        BY <2>8, <3>4
      <4>2. \A d \in FocusClient : ~WritesLink(todo[d], p, y)
        BY <1>2, <3>1, OthersAdd DEF WritesLink, Adding
      <4>3. y \in more
        BY <3>2, <4>1, <4>2, NamesAre DEF Recorded
      <4> QED BY <2>5, <4>3
    <3> QED BY <3>3, <3>4
  <2>14. ASSUME NEW d \in FocusClient \ {c}, Adding(d)
         PROVE  todo[d].id \notin x.seen /\ x.id # todo[d].id
    <3>1. PICK j \in Focus : j = todo[d].id /\ focus[j] = NoFocus
      BY <2>4, <2>14 DEF FocusKept, FocusTodoOK, WalkOK, Adding
    <3>2. KnownOnlyTo(d, j)
      BY <2>14, <3>1 DEF FocusKept, New
    <3>3. j \notin seen /\ id # j
      BY <1>2, <2>1, <3>2 DEF KnownOnlyTo
    <3>4. i # j
      BY <2>8, <3>1, <3>3
    <3> QED BY <2>5, <3>1, <3>3, <3>4
  <2>15. given \subseteq given' /\ given' \subseteq Focus
    BY <1>2, <2>4
  <2> QED BY <1>2, <2>3, <2>5, <2>9, <2>10, <2>12, <2>13, <2>14, <2>15, SameRecords
<1> QED BY <1>3, <1>4

LEMMA ListKeeps == ASSUME FocusKept, NEW c \in FocusClient, ListDependents(c) PROVE FocusKept'
<1>1. PICK i : i = todo[c].id
  OBVIOUS
<1> DEFINE x == [at |-> "unlink", copies |-> Unlinked(i)]
<1>2. /\ asks' = asks /\ focus' = focus /\ given' = given /\ "remove" \in asks[c] /\ given \subseteq Focus
      /\ Turns(c, x)
  BY <1>1 DEF ListDependents, FocusKept, FocusTodoOK
<1>3. PICK copies : copies = Unlinked(i)
  OBVIOUS
<1>4. x.at = "unlink" /\ x.copies = copies
  BY <1>3
<1> HIDE DEF x
<1>5. todo'[c] = x
  BY <1>2, TurnIs
<1>6. /\ DOMAIN copies \subseteq Kept
      /\ \A j \in DOMAIN copies : copies[j] = [focus[j] EXCEPT !.deps = @ \ {i}]
  BY <1>3 DEF Unlinked
<1>7. \A j \in DOMAIN copies : /\ j \in given /\ focus[j] # NoFocus /\ focus[j] \in FocusRecord
                               /\ copies[j] \in FocusRecord /\ copies[j].deps \subseteq focus[j].deps
  <2> SUFFICES ASSUME NEW j \in DOMAIN copies
               PROVE  /\ j \in given /\ focus[j] # NoFocus /\ focus[j] \in FocusRecord
                      /\ copies[j] \in FocusRecord /\ copies[j].deps \subseteq focus[j].deps
    OBVIOUS
  <2>1. j \in given /\ focus[j] # NoFocus /\ focus[j] \in FocusRecord
    BY <1>6 DEF FocusKept, Kept
  <2> QED BY <1>6, <2>1 DEF FocusRecord
<1>8. FocusTodoOK(c)' /\ ~Adding(c)' /\ ~Changing(c)'
  BY <1>2, <1>4, <1>5, <1>7 DEF FocusTodoOK, CopiesOK, Adding, Changing
<1>9. \A p, q \in Focus : WritesLink(x, p, q) => Names(p, q)
  BY <1>4, <1>7 DEF WritesLink, Names
<1>10. \A d \in FocusClient \ {c} : Adding(d) => todo[d].id \notin DOMAIN copies
  BY <1>7 DEF Adding
<1> QED BY <1>2, <1>4, <1>8, <1>9, <1>10, SameRecords

\* A request that is not adding and has something to write meets no walk of a change.
LEMMA NoWalkBeside ==
    ASSUME FocusKept, NEW c \in FocusClient, NEW d \in FocusClient \ {c}, Changing(d)
    PROVE  todo[c].at # "put" /\ todo[c].at # "unlink" /\ "remove" \notin asks[c]
  BY OthersAdd DEF Adding

\* The walks of others are about the same records as before when one record is written.
LEMMA WritesOne ==
    ASSUME FocusKept, NEW c \in FocusClient, NEW i \in Focus, NEW r \in FocusRecord,
           focus' = [focus EXCEPT ![i] = r],
           \A d \in FocusClient \ {c} : todo[d].at = "follow" => todo[d].id # i
    PROVE  /\ focus' = [j \in Focus |-> focus'[j]] /\ focus'[i] = r /\ r # NoFocus
           /\ \A j \in Focus \ {i} : focus'[j] = focus[j]
           /\ \A d \in FocusClient \ {c} : todo[d].at = "follow" =>
                (focus'[todo[d].id] = NoFocus <=> focus[todo[d].id] = NoFocus)
<1>1. focus = [j \in Focus |-> focus[j]]
  BY DEF FocusKept
<1>2. focus' = [j \in Focus |-> IF j = i THEN r ELSE focus[j]]
  BY <1>1
<1>3. r # NoFocus
  BY NoFocusIsNone
<1>4. ASSUME NEW d \in FocusClient \ {c}, todo[d].at = "follow"
      PROVE  focus'[todo[d].id] = NoFocus <=> focus[todo[d].id] = NoFocus
  <2>1. todo[d].id \in Focus /\ todo[d].id # i
    BY <1>4 DEF FocusKept, FocusTodoOK, WalkOK
  <2> QED BY <1>2, <2>1
<1> QED BY <1>2, <1>3, <1>4

LEMMA PutsCopy == ASSUME FocusKept, NEW c \in FocusClient, PutFocus(c), todo[c].at = "put" PROVE FocusKept'
<1>1. PICK i, r : i = todo[c].id /\ r = todo[c].copy
  OBVIOUS
<1>2. /\ focus' = [focus EXCEPT ![i] = r] /\ Turns(c, Free) /\ Free.at = "free"
      /\ asks' = asks /\ given' = given
  BY <1>1 DEF PutFocus, Free
<1> HIDE DEF Free
<1>3. i \in given /\ r \in FocusRecord /\ given \subseteq Focus
  BY <1>1 DEF FocusKept, FocusTodoOK
<1>4. \A d \in FocusClient \ {c} : ~Changing(d)
  BY NoWalkBeside
<1>5. ASSUME NEW d \in FocusClient \ {c}, todo[d].at = "follow" PROVE todo[d].id # i
  <2>1. SUFFICES ASSUME todo[d].id = i PROVE FALSE
    OBVIOUS
  <2>2. KnownOnlyTo(d, i)
    BY <1>3, <1>4, <1>5, <2>1 DEF FocusKept, New, Adding, Changing
  <2> QED BY <1>1, <2>2 DEF KnownOnlyTo
<1>6. /\ focus' = [j \in Focus |-> focus'[j]] /\ focus'[i] = r /\ r # NoFocus
      /\ \A j \in Focus \ {i} : focus'[j] = focus[j]
      /\ \A d \in FocusClient \ {c} : todo[d].at = "follow" =>
           (focus'[todo[d].id] = NoFocus <=> focus[todo[d].id] = NoFocus)
  BY <1>2, <1>3, <1>5, WritesOne
<1>7. \A p, q \in Focus : Names(p, q)' => Names(p, q)
  <2> SUFFICES ASSUME NEW p \in Focus, NEW q \in Focus, Names(p, q)' PROVE Names(p, q)
    OBVIOUS
  <2>1. ~WritesLink(Free, p, q)
    BY <1>2 DEF WritesLink
  <2>2. p = i /\ q \in r.deps => WritesLink(todo[c], p, q)
    BY <1>1 DEF WritesLink
  <2>3. (focus'[p] # NoFocus /\ q \in focus'[p].deps) \/ \E e \in FocusClient \ {c} : WritesLink(todo[e], p, q)
    BY <1>2, <2>1, NamesNow
  <2> QED BY <1>6, <2>2, <2>3, NamesAre DEF Recorded
<1>8. todo'[c] = Free
  BY <1>2, TurnIs
<1>9. FocusTodoOK(c)' /\ ~Adding(c)' /\ ~Changing(c)'
  BY <1>2, <1>8 DEF FocusTodoOK, Adding, Changing
<1>10. \A j \in Focus : /\ focus'[j] = NoFocus \/ focus'[j] \in FocusRecord
                        /\ focus'[j] # NoFocus => j \in given'
  BY <1>2, <1>3, <1>6 DEF FocusKept, Kept
<1>11. given \subseteq given' /\ given' \subseteq Focus
  BY <1>2, <1>3
<1> QED BY <1>2, <1>6, <1>7, <1>9, <1>10, <1>11, ShrinkKeeps

LEMMA PutsWalked == ASSUME FocusKept, NEW c \in FocusClient, PutFocus(c), todo[c].at = "follow" PROVE FocusKept'
<1>1. PICK i, r, seen : i = todo[c].id /\ r = todo[c].copy /\ seen = todo[c].seen
  OBVIOUS
<1>2. /\ focus' = [focus EXCEPT ![i] = r] /\ Turns(c, Free) /\ Free.at = "free"
      /\ asks' = asks /\ given' = given /\ todo[c].stack = {}
  BY <1>1 DEF PutFocus, Free
<1> HIDE DEF Free
<1>3. /\ i \in given /\ r \in FocusRecord /\ given \subseteq Focus /\ seen \subseteq given
      /\ r.deps \subseteq seen /\ i \notin seen /\ i \in Focus
  BY <1>1, <1>2 DEF FocusKept, FocusTodoOK, WalkOK
<1>4. ASSUME NEW d \in FocusClient \ {c}, todo[d].at = "follow" PROVE todo[d].id # i
  <2>1. SUFFICES ASSUME todo[d].id = i PROVE FALSE
    OBVIOUS
  <2>2. CASE Adding(c)
    <3>1. KnownOnlyTo(c, i)
      BY <1>1, <1>3, <2>2 DEF FocusKept, New
    <3> QED BY <1>4, <2>1, <3>1 DEF KnownOnlyTo
  <2>3. CASE Changing(c)
    <3>1. Adding(d)
      BY <1>4, <2>3, OthersAdd
    <3>2. KnownOnlyTo(d, i)
      BY <1>3, <2>1, <3>1 DEF FocusKept, New
    <3> QED BY <1>1, <3>2 DEF KnownOnlyTo
  <2> QED BY <2>2, <2>3 DEF Adding, Changing
<1>5. /\ focus' = [j \in Focus |-> focus'[j]] /\ focus'[i] = r /\ r # NoFocus
      /\ \A j \in Focus \ {i} : focus'[j] = focus[j]
      /\ \A d \in FocusClient \ {c} : todo[d].at = "follow" =>
           (focus'[todo[d].id] = NoFocus <=> focus[todo[d].id] = NoFocus)
  BY <1>2, <1>3, <1>4, WritesOne
<1>6. ASSUME NEW p \in Focus, NEW q \in Focus, Names(p, q)'
      PROVE  \/ p # i /\ Names(p, q)
             \/ p = i /\ q \in r.deps
             \/ p = i /\ \E e \in FocusClient \ {c} : WritesLink(todo[e], p, q)
  <2>1. ~WritesLink(Free, p, q)
    BY <1>2 DEF WritesLink
  <2>2. (focus'[p] # NoFocus /\ q \in focus'[p].deps) \/ \E e \in FocusClient \ {c} : WritesLink(todo[e], p, q)
    BY <1>2, <1>6, <2>1, NamesNow
  <2> QED BY <1>5, <2>2, NamesAre DEF Recorded
<1>7. \A p, q \in Focus : Names(p, q)' => Names(p, q) \/ (p = i /\ q \in r.deps)
  BY <1>6, NamesAre
<1>8. Acyclic'
  <2>1. CASE Adding(c)
    <3>1. KnownOnlyTo(c, i)
      BY <1>1, <1>3, <2>1 DEF FocusKept, New
    <3>2. \A p \in Focus : ~Names(p, i)
      BY <3>1 DEF KnownOnlyTo
    <3>3. i \notin r.deps /\ Acyclic
      BY <1>3 DEF FocusKept
    <3> QED BY <1>3, <1>7, <3>2, <3>3, NewIsNoCycle
  <2>2. CASE Changing(c)
    <3>1. \A e \in FocusClient \ {c} : todo[e].at # "put" /\ todo[e].at # "unlink"
      BY <2>2, OthersAdd DEF Adding
    <3>2. \A p, q \in Focus : Names(p, q)' => (p # i /\ Names(p, q)) \/ (p = i /\ q \in r.deps)
      BY <1>6, <3>1 DEF WritesLink
    <3>3. \A p \in seen : \A q \in Focus : Names(p, q) => q \in seen
      <4>1. Closed(c)
        BY <2>2 DEF FocusKept
      <4> QED BY <1>1, <1>2, <4>1 DEF Closed
    <3>4. Acyclic /\ seen \in SUBSET Focus
      BY <1>3 DEF FocusKept
    <3> QED BY <1>3, <3>2, <3>3, <3>4, ClosedIsNoCycle
  <2> QED BY <2>1, <2>2 DEF Adding, Changing
<1>9. todo'[c] = Free /\ \A d \in FocusClient \ {c} : todo'[d] = todo[d]
  BY <1>2, TurnIs
<1>10. FocusTodoOK(c)' /\ ~Adding(c)' /\ ~Changing(c)'
  BY <1>2, <1>9 DEF FocusTodoOK, Adding, Changing
<1>11. \A j \in Focus : /\ focus'[j] = NoFocus \/ focus'[j] \in FocusRecord
                        /\ focus'[j] # NoFocus => j \in given'
  BY <1>2, <1>3, <1>5 DEF FocusKept, Kept
<1>12. \A p, q \in Focus : Names(p, q)' => p \in given' /\ q \in given'
  BY <1>2, <1>3, <1>7 DEF FocusKept
<1>13. ASSUME NEW d \in FocusClient \ {c}, Adding(d) PROVE New(d)'
  <2>1. SUFFICES ASSUME NEW j \in Focus, j = todo[d].id PROVE KnownOnlyTo(d, j)'
    BY <1>9 DEF New
  <2>2. KnownOnlyTo(d, j) /\ j # i
    BY <1>4, <1>13, <2>1 DEF FocusKept, New, Adding
  <2>3. j \notin seen
    BY <1>1, <2>2 DEF KnownOnlyTo
  <2>4. \A p \in Focus : ~Names(p, j)' /\ ~Names(j, p)'
    BY <1>3, <1>7, <2>2, <2>3 DEF KnownOnlyTo
  <2>5. \A e \in FocusClient :
          /\ todo'[e].at = "follow" => j \notin todo'[e].seen
          /\ todo'[e].at = "unlink" => j \notin DOMAIN todo'[e].copies
          /\ todo'[e].at \in {"follow", "put"} /\ e # d => todo'[e].id # j
    BY <1>2, <1>9, <2>2 DEF KnownOnlyTo
  <2> QED BY <2>4, <2>5 DEF KnownOnlyTo
<1>14. ASSUME NEW d \in FocusClient \ {c}, Changing(d) PROVE Closed(d)'
  <2>1. Closed(d) /\ todo'[d] = todo[d] /\ todo[d].seen \subseteq Focus /\ todo[d].at = "follow"
    BY <1>9, <1>14 DEF FocusKept, FocusTodoOK, WalkOK, Changing
  <2>2. Adding(c)
    BY <1>14, OthersAdd DEF Adding, Changing
  <2>3. KnownOnlyTo(c, i)
    BY <1>1, <1>3, <2>2 DEF FocusKept, New
  <2>4. i \notin todo[d].seen
    BY <2>1, <2>3 DEF KnownOnlyTo
  <2> QED BY <1>7, <2>1, <2>4 DEF Closed
<1>15. given \subseteq given' /\ given' \subseteq Focus
  BY <1>2, <1>3
<1> QED BY <1>2, <1>5, <1>8, <1>10, <1>11, <1>12, <1>13, <1>14, <1>15, StepKeeps

LEMMA RemoveKeeps == ASSUME FocusKept, NEW c \in FocusClient, RemoveFocus(c) PROVE FocusKept'
<1>1. PICK i \in Kept : /\ focus' = [focus EXCEPT ![i] = NoFocus]
                        /\ Turns(c, [at |-> "list", id |-> i])
  BY DEF RemoveFocus
<1>2. /\ asks' = asks /\ given' = given /\ "remove" \in asks[c] /\ todo[c].at = "free"
      /\ i \in Focus /\ focus[i] # NoFocus /\ given \subseteq Focus
  BY DEF RemoveFocus, Asked, Kept, Free, FocusKept
<1> DEFINE x == [at |-> "list", id |-> i]
<1>3. Turns(c, x) /\ x.at = "list"
  BY <1>1
<1> HIDE DEF x
<1>4. /\ focus' = [j \in Focus |-> focus'[j]] /\ focus'[i] = NoFocus
      /\ \A j \in Focus \ {i} : focus'[j] = focus[j]
  <2>1. focus = [j \in Focus |-> focus[j]]
    BY DEF FocusKept
  <2> QED BY <1>1, <1>2, <2>1
<1>5. \A p, q \in Focus : Names(p, q)' => Names(p, q)
  <2> SUFFICES ASSUME NEW p \in Focus, NEW q \in Focus, Names(p, q)' PROVE Names(p, q)
    OBVIOUS
  <2>1. ~WritesLink(x, p, q)
    BY <1>3 DEF WritesLink
  <2>2. (focus'[p] # NoFocus /\ q \in focus'[p].deps) \/ \E e \in FocusClient \ {c} : WritesLink(todo[e], p, q)
    BY <1>3, <2>1, NamesNow
  <2> QED BY <1>4, <2>2, NamesAre DEF Recorded
<1>6. todo'[c] = x
  BY <1>3, TurnIs
<1>7. FocusTodoOK(c)' /\ ~Adding(c)' /\ ~Changing(c)'
  BY <1>2, <1>3, <1>6 DEF FocusTodoOK, Adding, Changing
<1>8. \A j \in Focus : /\ focus'[j] = NoFocus \/ focus'[j] \in FocusRecord
                       /\ focus'[j] # NoFocus => j \in given'
  BY <1>2, <1>4 DEF FocusKept, Kept
<1>9. ASSUME NEW d \in FocusClient \ {c}, todo[d].at = "follow"
      PROVE  focus'[todo[d].id] = NoFocus <=> focus[todo[d].id] = NoFocus
  <2>1. ~Changing(d) /\ todo[d].id \in Focus
    BY <1>2, <1>9, NoWalkBeside DEF FocusKept, FocusTodoOK, WalkOK
  <2>2. focus[todo[d].id] = NoFocus
    BY <1>9, <2>1 DEF Changing
  <2> QED BY <1>4, <2>1, <2>2
<1>10. given \subseteq given' /\ given' \subseteq Focus
  BY <1>2
<1> QED BY <1>2, <1>3, <1>4, <1>5, <1>7, <1>8, <1>9, <1>10, ShrinkKeeps

LEMMA UnlinkKeeps == ASSUME FocusKept, NEW c \in FocusClient, Unlink(c) PROVE FocusKept'
<1>1. PICK copies : copies = todo[c].copies
  OBVIOUS
<1>2. /\ asks' = asks /\ given' = given /\ todo[c].at = "unlink" /\ given \subseteq Focus
      /\ \/ Turns(c, Free) /\ focus' = focus
         \/ \E j \in DOMAIN copies :
              /\ focus' = [focus EXCEPT ![j] = copies[j]]
              /\ Turns(c, [at |-> "unlink", copies |-> [k \in DOMAIN copies \ {j} |-> copies[k]]])
  BY <1>1 DEF Unlink, FocusKept
<1>3. CASE Turns(c, Free) /\ focus' = focus
  BY <1>2, <1>3, FreeKeeps
<1>4. ASSUME NEW j \in DOMAIN copies, focus' = [focus EXCEPT ![j] = copies[j]],
             Turns(c, [at |-> "unlink", copies |-> [k \in DOMAIN copies \ {j} |-> copies[k]]])
      PROVE  FocusKept'
  <2>1. /\ DOMAIN copies \subseteq given /\ \A k \in DOMAIN copies : copies[k] \in FocusRecord
        /\ "remove" \in asks[c] /\ FocusTodoOK(c)
    BY <1>1, <1>2 DEF FocusKept, FocusTodoOK, CopiesOK
  <2>2. PICK rest : rest = [k \in DOMAIN copies \ {j} |-> copies[k]]
    OBVIOUS
  <2>3. DOMAIN rest = DOMAIN copies \ {j} /\ \A k \in DOMAIN rest : rest[k] = copies[k]
    BY <2>2
  <2> DEFINE x == [at |-> "unlink", copies |-> rest]
  <2>4. Turns(c, x) /\ x.at = "unlink" /\ x.copies = rest
    BY <1>4, <2>2
  <2> HIDE DEF x
  <2>5. todo'[c] = x
    BY <2>4, TurnIs
  <2>6. FocusTodoOK(c)' /\ ~Adding(c)' /\ ~Changing(c)'
    BY <1>2, <2>1, <2>3, <2>4, <2>5 DEF FocusTodoOK, CopiesOK, Adding, Changing
  <2>7. \A d \in FocusClient \ {c} : ~Changing(d)
    BY <1>2, NoWalkBeside
  <2>8. ASSUME NEW d \in FocusClient \ {c}, Adding(d) PROVE todo[d].id \notin DOMAIN copies
    <3>1. PICK k \in Focus : k = todo[d].id
      BY <2>8 DEF FocusKept, FocusTodoOK, WalkOK, Adding
    <3>2. KnownOnlyTo(d, k)
      BY <2>8, <3>1 DEF FocusKept, New
    <3> QED BY <1>1, <1>2, <3>1, <3>2 DEF KnownOnlyTo
  <2>9. \A d \in FocusClient \ {c} : todo[d].at = "follow" => todo[d].id # j
    BY <2>7, <2>8 DEF Adding, Changing
  <2>10. /\ focus' = [k \in Focus |-> focus'[k]] /\ focus'[j] = copies[j] /\ copies[j] # NoFocus
         /\ \A k \in Focus \ {j} : focus'[k] = focus[k]
         /\ \A d \in FocusClient \ {c} : todo[d].at = "follow" =>
              (focus'[todo[d].id] = NoFocus <=> focus[todo[d].id] = NoFocus)
    BY <1>2, <1>4, <2>1, <2>9, WritesOne
  <2>11. \A p, q \in Focus : Names(p, q)' => Names(p, q)
    <3> SUFFICES ASSUME NEW p \in Focus, NEW q \in Focus, Names(p, q)' PROVE Names(p, q)
      OBVIOUS
    <3>1. WritesLink(x, p, q) => WritesLink(todo[c], p, q)
      BY <1>1, <1>2, <2>3, <2>4 DEF WritesLink
    <3>2. p = j /\ q \in copies[j].deps => WritesLink(todo[c], p, q)
      BY <1>1, <1>2 DEF WritesLink
    <3>3. \/ focus'[p] # NoFocus /\ q \in focus'[p].deps
          \/ \E e \in FocusClient : WritesLink(todo[e], p, q)
      BY <2>4, <3>1, NamesNow
    <3> QED BY <2>10, <3>2, <3>3, NamesAre DEF Recorded
  <2>12. \A k \in Focus : /\ focus'[k] = NoFocus \/ focus'[k] \in FocusRecord
                          /\ focus'[k] # NoFocus => k \in given'
    BY <1>2, <2>1, <2>10 DEF FocusKept, Kept
  <2>13. given \subseteq given' /\ given' \subseteq Focus
    BY <1>2
  <2> QED BY <1>2, <2>3, <2>4, <2>6, <2>8, <2>10, <2>11, <2>12, <2>13, ShrinkKeeps
<1> QED BY <1>2, <1>3, <1>4

LEMMA DecayKeeps == ASSUME FocusKept, NEW i \in Focus, Decay(i) PROVE FocusKept'
<1>1. /\ asks' = asks /\ given' = given /\ todo' = todo
      /\ focus[i] # NoFocus /\ focus[i] \in FocusRecord /\ focus = [j \in Focus |-> focus[j]]
  BY DEF Decay, ActiveFocuses, Kept, FocusKept
<1>2. PICK r : r = [focus[i] EXCEPT !.decayed = TRUE]
  OBVIOUS
<1>3. r \in FocusRecord /\ r.deps = focus[i].deps /\ r # NoFocus
  BY <1>1, <1>2, NoFocusIsNone DEF FocusRecord
<1>4. focus' = [focus EXCEPT ![i] = r]
  BY <1>1, <1>2 DEF Decay
<1>5. /\ focus' = [j \in Focus |-> focus'[j]] /\ focus'[i] = r
      /\ \A j \in Focus \ {i} : focus'[j] = focus[j]
  BY <1>1, <1>4
<1>6. \A p, q \in Focus : Names(p, q)' <=> Names(p, q)
  BY <1>1, <1>3, <1>5 DEF Names
<1>7. \A j \in Focus : focus'[j] = NoFocus <=> focus[j] = NoFocus
  BY <1>1, <1>3, <1>5
<1>8. \A c \in FocusClient : todo[c].at = "follow" => todo[c].id \in Focus /\ todo[c].seen \subseteq Focus
  BY DEF FocusKept, FocusTodoOK, WalkOK
<1>9. ASSUME NEW c \in FocusClient
      PROVE  FocusTodoOK(c)' /\ (Adding(c)' => New(c)') /\ (Changing(c)' => Closed(c)')
  <2>1. FocusTodoOK(c) /\ (Adding(c) => New(c)) /\ (Changing(c) => Closed(c))
    BY DEF FocusKept
  <2>2. FocusTodoOK(c)'
    BY <1>1, <1>7, <1>8, <2>1 DEF FocusTodoOK, WalkOK, CopiesOK
  <2>3. (Adding(c)' => Adding(c)) /\ (Changing(c)' => Changing(c))
    BY <1>1, <1>7, <1>8 DEF Adding, Changing
  <2>4. New(c) => New(c)'
    BY <1>1, <1>6 DEF New, KnownOnlyTo
  <2>5. Changing(c) /\ Closed(c) => Closed(c)'
    BY <1>1, <1>6, <1>8 DEF Closed, Changing
  <2> QED BY <2>1, <2>2, <2>3, <2>4, <2>5
<1>10. \A j \in Focus : focus'[j] = NoFocus \/ focus'[j] \in FocusRecord
  BY <1>3, <1>5 DEF FocusKept
<1>11. Kept' \subseteq given' /\ given' \subseteq Focus /\ asks' \in FocusSettings
  BY <1>1, <1>7 DEF Kept, FocusKept
<1>12. Acyclic'
  BY <1>6, NamesShrink DEF FocusKept
<1>13. \A p, q \in Focus : Names(p, q)' => p \in given' /\ q \in given'
  BY <1>1, <1>6 DEF FocusKept
<1>14. todo' = [c \in FocusClient |-> todo'[c]]
  BY <1>1 DEF FocusKept
<1> QED BY <1>5, <1>9, <1>10, <1>11, <1>12, <1>13, <1>14 DEF FocusKept

LEMMA StopKeeps == ASSUME FocusKept, StopFocuses PROVE FocusKept'
<1>1. asks' = asks /\ given' = given /\ focus' = focus /\ todo' = [c \in FocusClient |-> Free]
  BY DEF StopFocuses
<1>2. todo' = [c \in FocusClient |-> todo'[c]] /\ \A c \in FocusClient : todo'[c].at = "free"
  BY <1>1 DEF Free
<1>3. \A p, q \in Focus : Names(p, q)' => Names(p, q)
  BY <1>1, <1>2 DEF Names
<1>4. \A c \in FocusClient : FocusTodoOK(c)' /\ ~Adding(c)' /\ ~Changing(c)'
  BY <1>2 DEF FocusTodoOK, Adding, Changing
<1>5. Acyclic'
  BY <1>3, NamesShrink DEF FocusKept
<1> QED BY <1>1, <1>2, <1>3, <1>4, <1>5 DEF FocusKept, Kept

LEMMA FocusStarts == ASSUME FocusInit PROVE FocusKept
<1>1. /\ focus = [i \in Focus |-> NoFocus] /\ todo = [c \in FocusClient |-> Free]
      /\ given = {} /\ asks \in FocusSettings
  BY DEF FocusInit
<1>2. /\ focus = [i \in Focus |-> focus[i]] /\ todo = [c \in FocusClient |-> todo[c]]
      /\ \A i \in Focus : focus[i] = NoFocus
      /\ \A c \in FocusClient : todo[c].at = "free"
  BY <1>1 DEF Free
<1>3. \A p, q \in Focus : ~Names(p, q)
  BY <1>2 DEF Names
<1>4. Acyclic
  BY <1>3 DEF Acyclic
<1>5. \A c \in FocusClient : FocusTodoOK(c) /\ ~Adding(c) /\ ~Changing(c)
  BY <1>2 DEF FocusTodoOK, Adding, Changing
<1> QED BY <1>1, <1>2, <1>3, <1>4, <1>5 DEF FocusKept, Kept

LEMMA FocusSteps == FocusKept /\ [FocusNext]_focusVars => FocusKept'
<1> SUFFICES ASSUME FocusKept, [FocusNext]_focusVars PROVE FocusKept'
  OBVIOUS
<1>1. CASE UNCHANGED focusVars
  <2>1. asks' = asks /\ given' = given /\ focus' = focus /\ todo' = todo
    BY <1>1 DEF focusVars
  <2>2. \A p, q \in Focus : Names(p, q)' <=> Names(p, q)
    BY <2>1 DEF Names
  <2>3. ASSUME NEW c \in FocusClient
        PROVE  FocusTodoOK(c)' /\ (Adding(c)' => New(c)') /\ (Changing(c)' => Closed(c)')
    <3>1. FocusTodoOK(c) /\ (Adding(c) => New(c)) /\ (Changing(c) => Closed(c))
      BY DEF FocusKept
    <3>2. FocusTodoOK(c)'
      BY <2>1, <3>1 DEF FocusTodoOK, WalkOK, CopiesOK
    <3>3. Adding(c)' => New(c)'
      BY <2>1, <2>2, <3>1 DEF Adding, New, KnownOnlyTo
    <3>4. Changing(c)' => Closed(c)'
      <4>1. Changing(c) => todo[c].seen \subseteq Focus
        BY <3>1 DEF FocusKept, FocusTodoOK, WalkOK, Changing
      <4> QED BY <2>1, <2>2, <3>1, <4>1 DEF Changing, Closed
    <3> QED BY <3>2, <3>3, <3>4
  <2>4. Acyclic'
    BY <2>2, NamesShrink DEF FocusKept
  <2> QED BY <2>1, <2>2, <2>3, <2>4 DEF FocusKept, Kept
<1>2. ASSUME NEW c \in FocusClient, PutFocus(c) PROVE FocusKept'
  BY <1>2, PutsCopy, PutsWalked DEF PutFocus
<1> QED BY <1>1, <1>2, AddBegins, UpdateBegins, ArchiveBegins, FollowKeeps, RemoveKeeps, ListKeeps,
           UnlinkKeeps, DecayKeeps, StopKeeps DEF FocusNext

\* For any number of focuses, scopes and requests, through additions, changes, removals
\* cut short, archiving and decay: some active focus depends on no active one
\* (get_unblocked, focus.rs:289), because the dependencies stay free of cycles, while
\* nobody changes them beside the one whose walk looks for a cycle.
THEOREM UnblockedStays == FocusSpec => []SomethingUnblocked
<1>1. FocusKept => SomethingUnblocked
  <2> SUFFICES ASSUME FocusKept, ActiveFocuses # {} PROVE Unblocked # {}
    BY DEF SomethingUnblocked
  <2>1. ActiveFocuses \in SUBSET Focus
    BY DEF ActiveFocuses, Kept
  <2>2. PICK i \in ActiveFocuses : \A j \in ActiveFocuses : ~Names(i, j)
    BY <2>1 DEF FocusKept, Acyclic
  <2>3. focus[i].deps \cap ActiveFocuses = {}
    BY <2>2 DEF Names, ActiveFocuses, Kept
  <2> QED BY <2>2, <2>3 DEF Unblocked
<1> QED BY <1>1, FocusStarts, FocusSteps, PTL DEF FocusSpec

----------------------------------------------------------------------------
(* Migration: links lead back *)

FromMongo == legacy.from = "mongo"

PlanOK ==
    /\ IsFiniteSet(plan)
    /\ \A p \in plan : p.of \in MgLive
    /\ \A p, q \in plan : p.of = q.of \/ p.new = q.new => p = q

\* How far the plan is.
PlansSoFar ==
    /\ mgAt.phase = "plan" =>
         /\ mgAt.k <= Len(LegacyDocs) + 1 /\ Cardinality(plan) < mgAt.k
         /\ \A p \in plan : p.of < mgAt.k
    /\ \A k \in MgLive : mgAt.phase # "plan" \/ k < mgAt.k => \E p \in plan : p.of = k

\* The map is about what is planned; what is not in it has kept its id.
MapOK ==
    /\ \A l \in DOMAIN idMap : \E p \in plan : p.new = idMap[l] /\ LegacyDocs[p.of].id = l
    /\ \A p \in plan : LET d == LegacyDocs[p.of] IN
          d.id \in DOMAIN idMap \/ (d.kind = "doc" /\ p.new = d.id)

Passed(p) ==
    \/ mgAt.phase = "seats"
    \/ mgAt.phase = "jobs" /\ (p \in KbFirst \/ p.of < mgAt.k)
    \/ mgAt.phase = "write" /\ p \in KbFirst /\ p.of < mgAt.k
InTarget(p) ==
    /\ p.new \in DOMAIN target
    /\ target[p.new].legacy = LegacyDocs[p.of].id
WrittenOK == \A p \in plan : Passed(p) => p.of \in errors \/ InTarget(p)

SeatsOK ==
    /\ DOMAIN anchored \subseteq 1..Len(legacy.seats)
    /\ \A s \in DOMAIN anchored :
          mgAt.phase = "seats" /\ s < mgAt.k => 0 \in errors \/ anchored[s] = Restored(legacy.seats[s])

MgKept ==
    /\ legacy \in LegacyData
    /\ mgAt = [phase |-> mgAt.phase, k |-> mgAt.k]
    /\ mgAt.phase \in {"plan", "write", "jobs", "seats"} /\ mgAt.k \in Nat \ {0}
    /\ FromMongo \/ mgAt.phase = "plan"
    /\ SeatsOK
    /\ FromMongo => PlanOK /\ PlansSoFar /\ MapOK /\ WrittenOK

LEMMA AppendApart ==
    ASSUME NEW S, NEW base \in Seq(S), NEW m \in Nat, NEW n \in Nat, Append(base, m) = Append(base, n)
    PROVE  m = n
<1>1. Append(base, m)[Len(base) + 1] = m /\ Append(base, n)[Len(base) + 1] = n OBVIOUS
<1> QED BY <1>1

LEMMA NumbersToTry ==
    ASSUME NEW n \in Nat
    PROVE  IsFiniteSet(2..n + 1) /\ Cardinality(2..n + 1) = n
<1> DEFINE b == n + 1
<1>1. b \in Int /\ n = b - 1 /\ b >= 1 OBVIOUS
<1> HIDE DEF b
<1>2. IsFiniteSet(2..b) /\ Cardinality(2..b) = IF 2 > b THEN 0 ELSE b - 2 + 1 BY <1>1, FS_Interval
<1>3. IsFiniteSet(2..b) /\ Cardinality(2..b) = n BY <1>1, <1>2
<1> QED BY <1>3 DEF b

\* There are more numbers to append than ids given out: unique finds one.
LEMMA UniqueIsNew ==
    ASSUME IsFiniteSet(plan), LegacyDocs \in Seq(LegacyDoc), Cardinality(plan) < Len(LegacyDocs),
           NEW S, NEW base \in Seq(S)
    PROVE  Unique(base) \notin Used
<1> DEFINE N == Len(LegacyDocs)
           numbers == 2..N + 1
           free == {n \in numbers : Append(base, n) \notin Used}
<1>1. N \in Nat OBVIOUS
<1>2. IsFiniteSet(Used) /\ Cardinality(Used) <= Cardinality(plan)
  <2> DEFINE f == [p \in plan |-> p.new]
  <2>1. f \in Surjection(plan, Used) BY DEF Surjection, Used
  <2> QED BY <2>1, FS_Surjection
<1>3. IsFiniteSet(numbers) /\ Cardinality(numbers) = N BY <1>1, NumbersToTry
<1>4. free # {}
  <2> SUFFICES ASSUME free = {} PROVE FALSE OBVIOUS
  <2> DEFINE g == [n \in numbers |-> Append(base, n)]
  <2>1. g \in [numbers -> Used] OBVIOUS
  <2>2. \A m, n \in numbers : g[m] = g[n] => m = n BY <1>1, AppendApart
  <2>3. g \in Injection(numbers, Used) BY <2>1, <2>2 DEF Injection, IsInjective
  <2>4. Cardinality(numbers) <= Cardinality(Used) BY <1>2, <2>3, FS_Injection
  <2>5. Cardinality(plan) \in Nat /\ Cardinality(Used) \in Nat BY <1>2, FS_CardinalityType
  <2> QED BY <1>1, <1>2, <1>3, <2>4, <2>5
<1>5. \E n \in free : \A m \in free : n <= m
  <2>1. free \in SUBSET Nat BY <1>1
  <2> QED BY <1>4, <2>1, Least
<1>6. (CHOOSE n \in free : \A m \in free : n <= m) \in free BY <1>5
<1> HIDE DEF free
<1>7. Append(base, CHOOSE n \in free : \A m \in free : n <= m) \notin Used BY <1>6 DEF free
<1> QED BY <1>7 DEF Unique, free

LEMMA LegacyTyped ==
    ASSUME MgKept
    PROVE  /\ LegacyDocs \in Seq(LegacyDoc) /\ Len(LegacyDocs) \in Nat
           /\ legacy.seats \in Seq([task : Seq(STRING), document : Seq(STRING)])
           /\ \A k \in 1..Len(LegacyDocs) :
                 /\ LegacyDocs[k] \in LegacyDoc
                 /\ LegacyDocs[k].id \in Seq(STRING) /\ LegacyDocs[k].name \in Seq(STRING)
                 /\ LegacyDocs[k].kind \in {"project", "task", "doc", "history", "deleted"}
<1>1. LegacyDocs \in Seq(LegacyDoc) /\ legacy.seats \in Seq([task : Seq(STRING), document : Seq(STRING)])
  BY MigrationAssumption DEF MgKept, LegacyDocs
<1>2. \A k \in 1..Len(LegacyDocs) : LegacyDocs[k] \in LegacyDoc BY <1>1
<1>3. \A d \in LegacyDoc : d.id \in Seq(STRING) /\ d.name \in Seq(STRING)
        /\ d.kind \in {"project", "task", "doc", "history", "deleted"} BY DEF LegacyDoc
<1> QED BY <1>1, <1>2, <1>3

LEMMA SeqWidens ==
    ASSUME NEW A, NEW B, A \subseteq B, NEW s \in Seq(A)
    PROVE  s \in Seq(B)
OBVIOUS

\* The words of ids.
Words == STRING \cup {"history"}
LEMMA BasesTyped ==
    ASSUME MgKept, NEW k \in 1..Len(LegacyDocs)
    PROVE  TaskBases(LegacyDocs[k]) \subseteq Seq(Words) /\ KbBases(LegacyDocs[k]) \subseteq Seq(Words)
<1> DEFINE d == LegacyDocs[k]
<1>1. d.id \in Seq(Words) /\ d.name \in Seq(Words) BY LegacyTyped, SeqWidens DEF Words
<1>2. AiSlugs \subseteq Seq(Words) BY MigrationAssumption, SeqWidens DEF Words
<1>3. <<"history">> \o d.id \in Seq(Words)
  <2>1. \A h \in Words : <<h>> \in Seq(Words) OBVIOUS
  <2>2. <<"history">> \in Seq(Words) BY <2>1 DEF Words
  <2> QED BY <1>1, <2>2, ConcatProperties
<1> HIDE DEF d
<1>4. KeptOr(d) \subseteq Seq(Words) BY <1>1 DEF KeptOr
<1>5. TaskBases(d) \subseteq Seq(Words) /\ KbBases(d) \subseteq Seq(Words)
  BY <1>2, <1>3, <1>4 DEF TaskBases, KbBases
<1> QED BY <1>5 DEF d

LEMMA LiveIs ==
    ASSUME MgKept, NEW k
    PROVE  k \in MgLive <=> k \in 1..Len(LegacyDocs) /\ LegacyDocs[k].kind # "deleted"
BY DEF MgLive

LEMMA EntersIs ==
    ASSUME NEW phase, NEW STATE k, Enters(phase, k)
    PROVE  mgAt' = [phase |-> mgAt'.phase, k |-> mgAt'.k] /\ mgAt'.phase = phase /\ mgAt'.k = k
BY DEF Enters

LEMMA SeatsWait ==
    ASSUME MgKept, UNCHANGED <<legacy, anchored>>, mgAt'.phase # "seats" \/ mgAt'.k = 1
    PROVE  SeatsOK'
<1>1. legacy.seats \in Seq([task : Seq(STRING), document : Seq(STRING)]) BY LegacyTyped
<1>2. \A s \in DOMAIN anchored : s \in 1..Len(legacy.seats) BY DEF MgKept, SeatsOK
<1> QED BY <1>1, <1>2 DEF MgKept, SeatsOK

\* A document is given an id.
LEMMA Planning ==
    ASSUME MgKept, FromMongo, In("plan", LegacyDocs), LegacyDocs[mgAt.k].kind # "deleted",
           NEW STATE new, new \notin Used, Plans(LegacyDocs[mgAt.k], new),
           \/ idMap' = Mapped(idMap, LegacyDocs[mgAt.k].id, new)
           \/ /\ LegacyDocs[mgAt.k].kind = "doc" /\ new = LegacyDocs[mgAt.k].id
              /\ idMap' = idMap,
           Enters("plan", mgAt.k + 1), UNCHANGED <<legacy, target, anchored, errors, mgFaults>>
    PROVE  MgKept'
<1> DEFINE k == mgAt.k
           d == LegacyDocs[k]
           q == [new |-> new, of |-> k, early |-> FixLinks(d.links, idMap)]
<1>1. /\ k \in Nat \ {0} /\ k <= Len(LegacyDocs) /\ Len(LegacyDocs) \in Nat /\ mgAt.phase = "plan"
      /\ k \in MgLive
  BY LegacyTyped, LiveIs DEF MgKept, In
<1>2. PlanOK /\ PlansSoFar /\ MapOK BY DEF MgKept
<1>3. q.new = new /\ q.of = k OBVIOUS
<1>4. plan' = plan \cup {q} BY DEF Plans
<1> HIDE DEF q
<1>5. mgAt'.phase = "plan" /\ mgAt'.k = k + 1 /\ mgAt' = [phase |-> mgAt'.phase, k |-> mgAt'.k] BY EntersIs
<1>6. LegacyDocs' = LegacyDocs /\ MgLive' = MgLive /\ FromMongo' = FromMongo /\ legacy' = legacy
  BY DEF LegacyDocs, MgLive, FromMongo
<1>7. q \notin plan BY <1>3 DEF Used
<1>8. PlanOK'
  <2>1. IsFiniteSet(plan') BY <1>2, <1>4, FS_AddElement DEF PlanOK
  <2>2. \A p \in plan' : p.of \in MgLive' BY <1>1, <1>2, <1>3, <1>4, <1>6 DEF PlanOK
  <2>3. \A p \in plan : p.of < k /\ p.of \in Nat
    <3>1. \A p \in plan : p.of \in 1..Len(LegacyDocs) BY <1>2, LiveIs DEF PlanOK
    <3> QED BY <1>1, <1>2, <3>1 DEF PlansSoFar
  <2>4. \A p \in plan : p.of # q.of /\ p.new # q.new BY <1>1, <1>3, <2>3 DEF Used
  <2>5. \A p, r \in plan' : p.of = r.of \/ p.new = r.new => p = r BY <1>2, <1>4, <2>4 DEF PlanOK
  <2> QED BY <2>1, <2>2, <2>5 DEF PlanOK
<1>9. PlansSoFar'
  <2>1. Cardinality(plan) \in Nat /\ Cardinality(plan') = Cardinality(plan) + 1
    BY <1>2, <1>4, <1>7, FS_AddElement, FS_CardinalityType DEF PlanOK
  <2>2. k + 1 <= Len(LegacyDocs) + 1 /\ Cardinality(plan') < k + 1 BY <1>1, <1>2, <2>1 DEF PlansSoFar
  <2>3. \A p \in plan' : p.of < k + 1
    <3>1. \A p \in plan : p.of \in 1..Len(LegacyDocs) BY <1>2, LiveIs DEF PlanOK
    <3> QED BY <1>1, <1>2, <1>3, <1>4, <3>1 DEF PlansSoFar
  <2>4. \A j \in MgLive : j < k + 1 => \E p \in plan' : p.of = j
    <3> SUFFICES ASSUME NEW j \in MgLive, j < k + 1 PROVE \E p \in plan' : p.of = j OBVIOUS
    <3>1. j \in Nat BY LiveIs
    <3>2. CASE j = k BY <1>3, <1>4, <3>2
    <3>3. CASE j < k BY <1>1, <1>2, <1>4, <3>3 DEF PlansSoFar
    <3> QED BY <1>1, <3>1, <3>2, <3>3
  <2> QED BY <1>5, <1>6, <2>2, <2>3, <2>4 DEF PlansSoFar
<1>10. MapOK'
  <2>1. \A l \in DOMAIN idMap' : \E p \in plan' : p.new = idMap'[l] /\ LegacyDocs[p.of].id = l
    <3>1. CASE idMap' = idMap BY <1>2, <1>4, <3>1 DEF MapOK
    <3>2. CASE idMap' = Mapped(idMap, d.id, new)
      <4>1. /\ DOMAIN idMap' = DOMAIN idMap \cup {d.id} /\ idMap'[d.id] = new
            /\ \A l \in DOMAIN idMap : l # d.id => idMap'[l] = idMap[l]
        BY <3>2 DEF Mapped
      <4> QED BY <1>2, <1>3, <1>4, <4>1 DEF MapOK
    <3> QED BY <3>1, <3>2
  <2>2. DOMAIN idMap \subseteq DOMAIN idMap' BY DEF Mapped
  <2>3. \A p \in plan : LegacyDocs[p.of].id \in DOMAIN idMap'
                        \/ (LegacyDocs[p.of].kind = "doc" /\ p.new = LegacyDocs[p.of].id)
    BY <1>2, <2>2 DEF MapOK
  <2>4. d.id \in DOMAIN idMap' \/ (d.kind = "doc" /\ q.new = d.id) BY <1>3 DEF Mapped
  <2> QED BY <1>3, <1>4, <1>6, <2>1, <2>3, <2>4 DEF MapOK
<1>11. WrittenOK' BY <1>5 DEF WrittenOK, Passed
<1>12. SeatsOK' BY <1>5, SeatsWait
<1> QED BY <1>1, <1>5, <1>6, <1>8, <1>9, <1>10, <1>11, <1>12 DEF MgKept

LEMMA PlanJobKeeps ==
    ASSUME MgKept, PlanJob
    PROVE  MgKept'
<1> DEFINE d == LegacyDocs[mgAt.k]
<1>1. FromMongo /\ In("plan", LegacyDocs) /\ d.kind \in {"project", "task"} BY DEF PlanJob, FromMongo
<1>2. PICK base \in TaskBases(d) : Plans(d, Unique(base)) /\ idMap' = Mapped(idMap, d.id, Unique(base))
  BY DEF PlanJob
<1>3. mgAt.k \in 1..Len(LegacyDocs) BY <1>1, LegacyTyped DEF MgKept, In
<1>4. base \in Seq(Words) BY <1>2, <1>3, BasesTyped
<1>5. Unique(base) \notin Used
  <2>1. IsFiniteSet(plan) /\ Cardinality(plan) < Len(LegacyDocs)
    <3>1. IsFiniteSet(plan) /\ Cardinality(plan) < mgAt.k /\ Len(LegacyDocs) \in Nat
      BY <1>1, LegacyTyped DEF MgKept, PlanOK, PlansSoFar, In
    <3>2. Cardinality(plan) \in Nat BY <3>1, FS_CardinalityType
    <3> QED BY <1>3, <3>1, <3>2
  <2> QED BY <1>4, <2>1, LegacyTyped, UniqueIsNew
<1>6. Enters("plan", mgAt.k + 1) /\ UNCHANGED <<legacy, target, anchored, errors, mgFaults>> BY DEF PlanJob
<1> QED BY <1>1, <1>2, <1>5, <1>6, Planning

LEMMA PlanDocKeeps ==
    ASSUME MgKept, PlanDoc
    PROVE  MgKept'
<1> DEFINE d == LegacyDocs[mgAt.k]
<1>1. FromMongo /\ In("plan", LegacyDocs) BY DEF PlanDoc, FromMongo
<1>2. Enters("plan", mgAt.k + 1) /\ UNCHANGED <<legacy, target, anchored, errors, mgFaults>> BY DEF PlanDoc
<1>3. mgAt.k \in 1..Len(LegacyDocs) /\ Len(LegacyDocs) \in Nat /\ mgAt.phase = "plan"
  BY <1>1, LegacyTyped DEF MgKept, In
<1>4. CASE d.kind = "deleted" /\ UNCHANGED <<idMap, plan>>
  <2>1. mgAt'.phase = "plan" /\ mgAt'.k = mgAt.k + 1 /\ mgAt' = [phase |-> mgAt'.phase, k |-> mgAt'.k]
    BY <1>2, EntersIs
  <2>2. LegacyDocs' = LegacyDocs /\ MgLive' = MgLive /\ FromMongo' = FromMongo /\ legacy' = legacy
    BY <1>2 DEF LegacyDocs, MgLive, FromMongo
  <2>3. PlanOK /\ PlansSoFar /\ MapOK BY <1>1 DEF MgKept
  <2>4. PlanOK' /\ MapOK' BY <1>4, <2>2, <2>3 DEF PlanOK, MapOK
  <2>5. PlansSoFar'
    <3>1. Cardinality(plan) \in Nat BY <2>3, FS_CardinalityType DEF PlanOK
    <3>2. \A p \in plan : p.of \in Nat /\ p.of < mgAt.k
      BY <1>3, <2>3, LiveIs DEF PlanOK, PlansSoFar
    <3>3. \A j \in MgLive : j \in Nat /\ j # mgAt.k BY <1>4, LiveIs
    <3> QED BY <1>3, <1>4, <2>1, <2>2, <2>3, <3>1, <3>2, <3>3 DEF PlansSoFar
  <2>6. WrittenOK' BY <2>1 DEF WrittenOK, Passed
  <2>7. SeatsOK' BY <1>2, <2>1, SeatsWait
  <2> QED BY <1>3, <2>1, <2>2, <2>4, <2>5, <2>6, <2>7 DEF MgKept
<1>5. CASE d.kind \in {"doc", "history"}
  <2>1. PICK base \in KbBases(d) :
           /\ Plans(d, Unique(base))
           /\ idMap' = IF d.kind = "doc" /\ Unique(base) = d.id THEN idMap ELSE Mapped(idMap, d.id, Unique(base))
    BY <1>5 DEF PlanDoc
  <2>2. base \in Seq(Words) BY <1>3, <2>1, BasesTyped
  <2>3. Unique(base) \notin Used
    <3>1. IsFiniteSet(plan) /\ Cardinality(plan) < mgAt.k
      BY <1>1, <1>3 DEF MgKept, PlanOK, PlansSoFar
    <3>2. Cardinality(plan) \in Nat BY <3>1, FS_CardinalityType
    <3>3. Cardinality(plan) < Len(LegacyDocs) BY <1>3, <3>1, <3>2
    <3> QED BY <2>2, <3>1, <3>3, LegacyTyped, UniqueIsNew
  <2> QED BY <1>1, <1>2, <1>5, <2>1, <2>3, Planning
<1> QED BY <1>4, <1>5 DEF PlanDoc

\* All ids are given out, and the map is known.
LEMMA PlanStays ==
    ASSUME MgKept, FromMongo, UNCHANGED <<legacy, idMap, plan>>,
           mgAt'.phase # "plan", mgAt.phase # "plan" \/ mgAt.k > Len(LegacyDocs)
    PROVE  /\ legacy' \in LegacyData /\ FromMongo' /\ PlanOK' /\ PlansSoFar' /\ MapOK'
           /\ \A p \in plan : p.of \in MgLive /\ p.of \in Nat \ {0}
           /\ LegacyDocs' = LegacyDocs /\ KbFirst' = KbFirst
<1>1. LegacyDocs' = LegacyDocs /\ MgLive' = MgLive /\ FromMongo' = FromMongo BY DEF LegacyDocs, MgLive, FromMongo
<1>2. PlanOK /\ PlansSoFar /\ MapOK /\ Len(LegacyDocs) \in Nat /\ mgAt.k \in Nat BY LegacyTyped DEF MgKept
<1>3. PlanOK' /\ MapOK' BY <1>1, <1>2 DEF PlanOK, MapOK
<1>4. \A j \in MgLive : j \in 1..Len(LegacyDocs) BY LiveIs
<1>5. \A j \in MgLive : mgAt.phase # "plan" \/ j < mgAt.k BY <1>2, <1>4
<1>6. PlansSoFar' BY <1>1, <1>2, <1>5 DEF PlansSoFar
<1>7. \A p \in plan : p.of \in MgLive /\ p.of \in Nat \ {0} BY <1>2, <1>4 DEF PlanOK
<1>8. KbFirst' = KbFirst BY <1>1 DEF KbFirst
<1> QED BY <1>1, <1>3, <1>6, <1>7, <1>8 DEF MgKept

LEMMA WrittenStays ==
    ASSUME MgKept, FromMongo, UNCHANGED <<legacy, idMap, plan, target>>, errors \subseteq errors',
           \A q \in plan : Passed(q)' => Passed(q)
    PROVE  WrittenOK'
<1> SUFFICES ASSUME NEW q \in plan, Passed(q)' PROVE q.of \in errors' \/ InTarget(q)' BY DEF WrittenOK
<1>1. q.of \in errors \/ InTarget(q) BY DEF MgKept, WrittenOK
<1>2. InTarget(q) => InTarget(q)' BY DEF InTarget, LegacyDocs
<1> QED BY <1>1, <1>2

\* The row that an upsert leaves.
LEMMA UpsertIs ==
    ASSUME NEW p, NEW links, Lands(p, links)
    PROVE  /\ DOMAIN target' = DOMAIN target \cup {p.new}
           /\ \A x \in DOMAIN target : x # p.new => target'[x] = target[x]
           /\ target'[p.new].legacy = LegacyDocs[p.of].id
           /\ target'[p.new].links = IF p.new \in DOMAIN target /\ ~Overwrites(p) THEN target[p.new].links ELSE links
<1> DEFINE kept == p.new \in DOMAIN target /\ ~Overwrites(p)
           of == LegacyDocs[p.of].id
           rest == IF kept THEN target[p.new].links ELSE links
           row == [legacy |-> of, links |-> rest]
<1>1. row.legacy = of /\ row.links = rest OBVIOUS
<1> HIDE DEF row
<1>2. target' = Mapped(target, p.new, row) BY DEF Lands, row
<1>3. /\ DOMAIN target' = DOMAIN target \cup {p.new} /\ target'[p.new] = row
      /\ \A x \in DOMAIN target : x # p.new => target'[x] = target[x]
  BY <1>2 DEF Mapped
<1> QED BY <1>1, <1>3

LEMMA WrittenMore ==
    ASSUME MgKept, FromMongo, UNCHANGED <<legacy, idMap, plan>>, NEW p \in plan, MgWrites(p, Links(p)),
           \A q \in plan : Passed(q)' => q = p \/ Passed(q)
    PROVE  WrittenOK'
<1> SUFFICES ASSUME NEW q \in plan, Passed(q)' PROVE q.of \in errors' \/ InTarget(q)' BY DEF WrittenOK
<1>1. LegacyDocs' = LegacyDocs BY DEF LegacyDocs
<1>2. CASE target' = target /\ errors' = errors \cup {p.of}
  <2>1. CASE q = p BY <1>2, <2>1
  <2>2. CASE Passed(q)
    <3>1. q.of \in errors \/ InTarget(q) BY <2>2 DEF MgKept, WrittenOK
    <3> QED BY <1>1, <1>2, <3>1 DEF InTarget
  <2> QED BY <2>1, <2>2
<1>3. CASE Lands(p, Links(p)) /\ errors' = errors
  <2>3. /\ DOMAIN target' = DOMAIN target \cup {p.new} /\ target'[p.new].legacy = LegacyDocs[p.of].id
        /\ \A x \in DOMAIN target : x # p.new => target'[x] = target[x]
    BY <1>3, UpsertIs
  <2>4. CASE q = p BY <1>1, <2>3, <2>4 DEF InTarget
  <2>5. CASE q # p
    <3>1. q.of \in errors \/ InTarget(q) BY <2>5 DEF MgKept, WrittenOK
    <3>2. q.new # p.new BY <2>5 DEF MgKept, PlanOK
    <3> QED BY <1>1, <1>3, <2>3, <3>1, <3>2 DEF InTarget
  <2> QED BY <2>4, <2>5
<1> QED BY <1>2, <1>3 DEF MgWrites

LEMMA PlannedKeeps ==
    ASSUME MgKept, Planned
    PROVE  MgKept'
<1>1. FromMongo /\ mgAt.phase = "plan" /\ UNCHANGED <<legacy, idMap, plan, target, anchored, errors>>
      /\ mgAt.k > Len(LegacyDocs)
  BY DEF Planned, FromMongo
<1>2. mgAt'.phase = "write" /\ mgAt'.k = 1 /\ mgAt' = [phase |-> mgAt'.phase, k |-> mgAt'.k]
  BY EntersIs DEF Planned
<1>3. /\ legacy' \in LegacyData /\ FromMongo' /\ PlanOK' /\ PlansSoFar' /\ MapOK'
      /\ \A p \in plan : p.of \in Nat \ {0}
  BY <1>1, <1>2, PlanStays
<1>4. \A q \in plan : ~Passed(q)' BY <1>2, <1>3 DEF Passed
<1>5. WrittenOK' BY <1>1, <1>4, WrittenStays
<1>6. SeatsOK' BY <1>1, <1>2, SeatsWait
<1> QED BY <1>2, <1>3, <1>5, <1>6 DEF MgKept

\* The documents that are left are written in the order of their planning.
LEMMA FirstLeft ==
    ASSUME MgKept, FromMongo, \A p \in plan : p.of \in Nat, NEW left, left \subseteq plan, left # {}
    PROVE  LET p == CHOOSE q \in left : \A r \in left : q.of <= r.of
           IN  p \in left /\ \A r \in left : p.of <= r.of
<1> DEFINE numbers == {p.of : p \in left}
<1>1. numbers \in SUBSET Nat /\ numbers # {} OBVIOUS
<1>2. PICK n \in numbers : \A m \in numbers : n <= m BY <1>1, Least
<1>3. PICK q \in left : q.of = n BY <1>2
<1>4. \A r \in left : q.of <= r.of BY <1>2, <1>3
<1> QED BY <1>3, <1>4

LEMMA WritesKeep ==
    ASSUME MgKept, WriteDocs \/ WriteJobs
    PROVE  MgKept'
<1> DEFINE ps == IF mgAt.phase = "write" THEN KbFirst ELSE plan \ KbFirst
           next == IF mgAt.phase = "write" THEN "jobs" ELSE "seats"
           left == {p \in ps : p.of >= mgAt.k}
<1>1. mgAt.phase \in {"write", "jobs"} /\ WriteOne(mgAt.phase, ps, next) BY DEF WriteDocs, WriteJobs, WriteOne
<1>2. FromMongo /\ mgAt.k \in Nat \ {0} BY <1>1 DEF MgKept
<1>3. UNCHANGED <<legacy, idMap, plan, anchored>> BY <1>1 DEF WriteOne
<1>4. \A p \in plan : p.of \in Nat \ {0} BY <1>2, LiveIs DEF MgKept, PlanOK
<1>5. left \subseteq plan BY DEF KbFirst
<1>6. CASE left = {}
  <2>1. Enters(next, 1) /\ UNCHANGED <<target, errors>> BY <1>1, <1>6 DEF WriteOne
  <2>2. mgAt'.phase = next /\ mgAt'.k = 1 /\ mgAt' = [phase |-> mgAt'.phase, k |-> mgAt'.k] BY <2>1, EntersIs
  <2>3. /\ legacy' \in LegacyData /\ FromMongo' /\ PlanOK' /\ PlansSoFar' /\ MapOK' /\ KbFirst' = KbFirst
    BY <1>1, <1>2, <1>3, <2>2, PlanStays
  <2>4. \A p \in ps : p.of < mgAt.k
    <3>1. \A p \in ps : p \in plan /\ ~(p.of >= mgAt.k) BY <1>6 DEF KbFirst
    <3> QED BY <1>2, <1>4, <3>1
  <2>5. ASSUME NEW q \in plan, Passed(q)' PROVE Passed(q)
    <3>1. CASE mgAt.phase = "write"
      <4>1. q \in KbFirst BY <1>4, <2>2, <2>3, <2>5, <3>1 DEF Passed
      <4> QED BY <2>4, <3>1, <4>1 DEF Passed
    <3>2. CASE mgAt.phase = "jobs" BY <2>4, <3>2 DEF Passed
    <3> QED BY <1>1, <3>1, <3>2
  <2>6. WrittenOK' BY <1>2, <1>3, <2>1, <2>5, WrittenStays
  <2>7. SeatsOK' BY <1>3, <2>2, SeatsWait
  <2> QED BY <1>1, <2>2, <2>3, <2>6, <2>7 DEF MgKept
<1>7. CASE left # {}
  <2>1. PICK p \in left : (\A r \in left : p.of <= r.of) /\ MgWrites(p, Links(p)) /\ Enters(mgAt.phase, p.of + 1)
    <3> DEFINE p == CHOOSE q \in left : \A r \in left : q.of <= r.of
    <3>1. p \in left /\ \A r \in left : p.of <= r.of BY <1>2, <1>4, <1>5, <1>7, FirstLeft
    <3>2. MgWrites(p, Links(p)) /\ Enters(mgAt.phase, p.of + 1) BY <1>1, <1>7 DEF WriteOne
    <3> QED BY <3>1, <3>2
  <2>2. mgAt'.phase = mgAt.phase /\ mgAt'.k = p.of + 1 /\ mgAt' = [phase |-> mgAt'.phase, k |-> mgAt'.k]
    BY <2>1, EntersIs
  <2>3. /\ legacy' \in LegacyData /\ FromMongo' /\ PlanOK' /\ PlansSoFar' /\ MapOK' /\ KbFirst' = KbFirst
    BY <1>1, <1>2, <1>3, <2>2, PlanStays
  <2>4. p \in plan /\ p.of \in Nat \ {0} BY <1>4, <1>5
  <2>5. ASSUME NEW q \in plan, Passed(q)' PROVE q = p \/ Passed(q)
    <3>1. CASE q \in ps
      <4>1. q.of < p.of + 1 BY <1>1, <2>2, <2>3, <2>5, <3>1 DEF Passed
      <4>2. CASE q \in left
        <5>1. q.of = p.of BY <1>4, <2>1, <2>4, <4>1, <4>2
        <5> QED BY <1>2, <2>4, <5>1 DEF MgKept, PlanOK
      <4>3. CASE q \notin left
        <5>1. q.of < mgAt.k BY <1>2, <1>4, <3>1, <4>3
        <5> QED BY <1>1, <3>1, <5>1 DEF Passed
      <4> QED BY <4>2, <4>3
    <3>2. CASE q \notin ps BY <1>1, <2>2, <2>3, <2>5, <3>2 DEF Passed
    <3> QED BY <3>1, <3>2
  <2>6. WrittenOK' BY <1>2, <1>3, <2>1, <2>4, <2>5, WrittenMore
  <2>7. SeatsOK' BY <1>1, <1>3, <2>2, SeatsWait
  <2> QED BY <1>1, <2>2, <2>3, <2>4, <2>6, <2>7 DEF MgKept
<1> QED BY <1>6, <1>7

LEMMA SeatKeeps ==
    ASSUME MgKept, MigrateSeat
    PROVE  MgKept'
<1> DEFINE k == mgAt.k
           anchors == Restored(legacy.seats[k])
<1>1. mgAt.phase = "seats" /\ k <= Len(legacy.seats) /\ UNCHANGED <<legacy, idMap, plan, target>>
  BY DEF MigrateSeat, In
<1>2. mgAt'.phase = "seats" /\ mgAt'.k = k + 1 /\ mgAt' = [phase |-> mgAt'.phase, k |-> mgAt'.k]
  BY EntersIs DEF MigrateSeat
<1>3. FromMongo /\ k \in Nat \ {0} /\ Len(legacy.seats) \in Nat BY <1>1, LegacyTyped DEF MgKept
<1>4. /\ legacy' \in LegacyData /\ FromMongo' /\ PlanOK' /\ PlansSoFar' /\ MapOK'
  BY <1>1, <1>2, <1>3, PlanStays
<1>5. errors \subseteq errors' BY DEF MigrateSeat
<1>6. WrittenOK' BY <1>1, <1>3, <1>5, WrittenStays DEF Passed
<1>7. \A s : Restored(legacy.seats[s])' = Restored(legacy.seats[s]) BY <1>1 DEF Restored
<1>8. DOMAIN anchored \subseteq 1..Len(legacy.seats) /\
      \A s \in DOMAIN anchored : s < k => 0 \in errors \/ anchored[s] = Restored(legacy.seats[s])
  BY <1>1 DEF MgKept, SeatsOK
<1>9. ASSUME UNCHANGED anchored, 0 \in errors' PROVE SeatsOK' BY <1>1, <1>8, <1>9 DEF SeatsOK
<1>10. ASSUME anchored' = Mapped(anchored, k, anchors), errors' = errors PROVE SeatsOK'
  <2> HIDE DEF anchors
  <2>1. /\ DOMAIN anchored' = DOMAIN anchored \cup {k} /\ anchored'[k] = anchors
        /\ \A s \in DOMAIN anchored : s # k => anchored'[s] = anchored[s]
    BY <1>10 DEF Mapped
  <2>2. DOMAIN anchored' \subseteq 1..Len(legacy.seats) BY <1>1, <1>3, <1>8, <2>1
  <2>3. ASSUME NEW s \in DOMAIN anchored', s < k + 1
        PROVE  0 \in errors \/ anchored'[s] = Restored(legacy.seats[s])
    <3>1. CASE s = k BY <2>1, <3>1 DEF anchors
    <3>2. CASE s # k
      <4>1. s < k /\ s \in DOMAIN anchored BY <1>3, <2>1, <2>2, <2>3, <3>2
      <4> QED BY <1>8, <2>1, <3>2, <4>1
    <3> QED BY <3>1, <3>2
  <2> QED BY <1>1, <1>2, <1>7, <1>10, <2>2, <2>3 DEF SeatsOK
<1>11. SeatsOK' BY <1>9, <1>10 DEF MigrateSeat
<1> QED BY <1>2, <1>3, <1>4, <1>6, <1>11 DEF MgKept

LEMMA FileKeeps ==
    ASSUME MgKept, VaultFile
    PROVE  MgKept'
<1>1. ~FromMongo /\ UNCHANGED <<legacy, anchored>> /\ mgAt.k \in Nat \ {0} BY DEF VaultFile, FromMongo, MgKept
<1>2. mgAt'.phase = "plan" /\ mgAt'.k = mgAt.k + 1 /\ mgAt' = [phase |-> mgAt'.phase, k |-> mgAt'.k]
  BY EntersIs DEF VaultFile
<1>3. SeatsOK' /\ ~FromMongo' BY <1>1, <1>2, SeatsWait DEF FromMongo
<1> QED BY <1>1, <1>2, <1>3 DEF MgKept

\* Before anything is planned.
Unplanned == legacy \in LegacyData /\ mgAt = MgStart /\ idMap = NoMap /\ plan = {} /\ SeatsOK
LEMMA StartKept == Unplanned => MgKept
<1> SUFFICES ASSUME Unplanned PROVE MgKept OBVIOUS
<1> USE DEF Unplanned
<1>1. mgAt.phase = "plan" /\ mgAt.k = 1 /\ mgAt = [phase |-> mgAt.phase, k |-> mgAt.k] BY DEF MgStart
<1>2. LegacyDocs \in Seq(LegacyDoc) BY MigrationAssumption DEF LegacyDocs
<1>3. PlanOK BY FS_EmptySet DEF PlanOK
<1>4. PlansSoFar
  <2>1. Cardinality(plan) = 0 /\ 1 <= Len(LegacyDocs) + 1 BY <1>2, FS_EmptySet
  <2>2. \A j \in MgLive : ~(j < 1) BY <1>2 DEF MgLive
  <2> QED BY <1>1, <2>1, <2>2 DEF PlansSoFar
<1>5. MapOK BY DEF MapOK, NoMap
<1>6. WrittenOK BY DEF WrittenOK
<1> QED BY <1>1, <1>3, <1>4, <1>5, <1>6 DEF MgKept

LEMMA AgainKeeps ==
    ASSUME MgKept, Again
    PROVE  MgKept'
<1>1. /\ legacy' \in LegacyData /\ mgAt' = MgStart /\ idMap' = NoMap /\ plan' = {}
      /\ UNCHANGED <<legacy, anchored>>
  BY DEF Again, MgKept
<1>2. SeatsOK' BY <1>1, SeatsWait DEF MgStart
<1>3. Unplanned' BY <1>1, <1>2 DEF Unplanned
<1>4. (Unplanned => MgKept)' BY StartKept, PTL
<1> QED BY <1>3, <1>4

LEMMA MgKeptHolds == MgSpec => []MgKept
<1>1. MgInit => MgKept
  <2> SUFFICES ASSUME MgInit PROVE MgKept OBVIOUS
  <2>1. legacy.seats \in Seq([task : Seq(STRING), document : Seq(STRING)])
    BY MigrationAssumption DEF MgInit
  <2>2. SeatsOK BY <2>1 DEF MgInit, SeatsOK, NoMap
  <2> QED BY <2>2, StartKept DEF MgInit, Unplanned
<1>2. MgKept /\ [MgNext]_mgVars => MgKept'
  <2> SUFFICES ASSUME MgKept, [MgNext]_mgVars PROVE MgKept' OBVIOUS
  <2>1. CASE UNCHANGED mgVars
    <3>1. UNCHANGED <<legacy, mgAt, idMap, plan, target, anchored, errors>> BY <2>1 DEF mgVars
    <3>2. LegacyDocs' = LegacyDocs /\ MgLive' = MgLive /\ FromMongo' = FromMongo /\ KbFirst' = KbFirst
      BY <3>1 DEF LegacyDocs, MgLive, FromMongo, KbFirst
    <3>3. \A p : (Passed(p)' <=> Passed(p)) /\ (InTarget(p)' <=> InTarget(p))
      BY <3>1, <3>2 DEF Passed, InTarget
    <3>4. \A s : Restored(legacy.seats[s])' = Restored(legacy.seats[s]) BY <3>1 DEF Restored
    <3>5. (PlanOK' <=> PlanOK) /\ (PlansSoFar' <=> PlansSoFar) /\ (MapOK' <=> MapOK)
      BY <3>1, <3>2 DEF PlanOK, PlansSoFar, MapOK
    <3>6. WrittenOK' <=> WrittenOK BY <3>1, <3>3 DEF WrittenOK
    <3>7. SeatsOK' <=> SeatsOK BY <3>1, <3>4 DEF SeatsOK
    <3> QED BY <3>1, <3>2, <3>5, <3>6, <3>7 DEF MgKept
  <2>2. CASE MgNext
    BY <2>2, PlanJobKeeps, PlanDocKeeps, PlannedKeeps, WritesKeep, SeatKeeps, FileKeeps, AgainKeeps DEF MgNext
  <2> QED BY <2>1, <2>2
<1> QED BY <1>1, <1>2, PTL DEF MgSpec

\* The ids that every run gives when no model proposes any, and the map of them.
LiveOf(d) == {k \in 1..Len(d.docs) : d.docs[k].kind # "deleted"}
StableBase(d, k) ==
    IF d.docs[k].kind = "history" THEN <<"history">> \o d.docs[k].id
    ELSE IF d.docs[k].id = <<>> THEN d.docs[k].name ELSE d.docs[k].id
Chosen(d, base, used) ==
    IF base \notin used THEN base
    ELSE LET free == {n \in 2..Len(d.docs) + 1 : Append(base, n) \notin used} IN
         Append(base, CHOOSE n \in free : \A m \in free : n <= m)
Stable(d, f) ==
    /\ f = [k \in LiveOf(d) |-> f[k]]
    /\ \A k \in LiveOf(d) : f[k] = Chosen(d, StableBase(d, k), {f[j] : j \in {i \in LiveOf(d) : i < k}})

\* An id of several documents is mapped as the last of them that is renamed.
Renames(d, k, new) == d.docs[k].kind # "doc" \/ new # d.docs[k].id
LastOf(d, f, k, l) ==
    /\ Renames(d, k, f[k]) /\ d.docs[k].id = l
    /\ \A j \in LiveOf(d) : Renames(d, j, f[j]) /\ d.docs[j].id = l => j <= k
IsMap(d, f, m) ==
    /\ m = [l \in DOMAIN m |-> m[l]]
    /\ \A l \in DOMAIN m : \E k \in LiveOf(d) : LastOf(d, f, k, l) /\ m[l] = f[k]
    /\ \A k \in LiveOf(d) : Renames(d, k, f[k]) => d.docs[k].id \in DOMAIN m
TheIds(d) == CHOOSE f : Stable(d, f)
TheMap(d) == CHOOSE m : IsMap(d, TheIds(d), m)

LEMMA StableIsOne ==
    ASSUME NEW d, NEW f, NEW g, Stable(d, f), Stable(d, g)
    PROVE  f = g
<1> SUFFICES ASSUME \E k \in LiveOf(d) : f[k] # g[k] PROVE FALSE BY DEF Stable
<1> DEFINE bad == {k \in LiveOf(d) : f[k] # g[k]}
<1>1. bad \in SUBSET Nat /\ bad # {} BY DEF LiveOf
<1>2. PICK k \in bad : \A m \in bad : k <= m BY <1>1, Least
<1>3. k \in LiveOf(d) /\ k \in Nat /\ f[k] # g[k] BY <1>2 DEF LiveOf
<1> DEFINE below == {i \in LiveOf(d) : i < k}
<1>4. \A j \in below : f[j] = g[j]
  <2> SUFFICES ASSUME NEW j \in below, f[j] # g[j] PROVE FALSE OBVIOUS
  <2>1. j \in bad /\ j \in Nat /\ j < k BY DEF LiveOf
  <2>2. k <= j BY <1>2, <2>1
  <2> QED BY <1>3, <2>1, <2>2
<1> HIDE DEF below
<1>5. {f[j] : j \in below} = {g[j] : j \in below} BY <1>4
<1>6. f[k] = Chosen(d, StableBase(d, k), {f[j] : j \in below}) BY <1>3 DEF Stable, below
<1>7. g[k] = Chosen(d, StableBase(d, k), {g[j] : j \in below}) BY <1>3 DEF Stable, below
<1> QED BY <1>3, <1>5, <1>6, <1>7

LEMMA MapIsOne ==
    ASSUME NEW d, NEW f, NEW m, NEW n, IsMap(d, f, m), IsMap(d, f, n)
    PROVE  m = n
<1>1. DOMAIN m = DOMAIN n BY DEF IsMap, LastOf
<1>2. ASSUME NEW l \in DOMAIN m PROVE m[l] = n[l]
  <2>1. PICK k \in LiveOf(d) : LastOf(d, f, k, l) /\ m[l] = f[k] BY DEF IsMap
  <2>2. PICK j \in LiveOf(d) : LastOf(d, f, j, l) /\ n[l] = f[j] BY <1>1 DEF IsMap
  <2>3. j <= k /\ k <= j BY <2>1, <2>2 DEF LastOf
  <2>4. j = k BY <2>3 DEF LiveOf
  <2> QED BY <2>1, <2>2, <2>4
<1> QED BY <1>1, <1>2 DEF IsMap

LEMMA TheIdsAre ==
    ASSUME NEW d, NEW f, Stable(d, f), NEW m, IsMap(d, f, m)
    PROVE  f = TheIds(d) /\ m = TheMap(d)
<1>1. Stable(d, TheIds(d)) BY DEF TheIds
<1>2. f = TheIds(d) BY <1>1, StableIsOne
<1>3. IsMap(d, TheIds(d), m) BY <1>2
<1>4. IsMap(d, TheIds(d), TheMap(d)) BY <1>3 DEF TheMap
<1> QED BY <1>2, <1>3, <1>4, MapIsOne

\* What a run has planned so far is stable, the map is the map of it.
StablePlan == ~legacy.ai =>
    \A p \in plan : p.new = Chosen(legacy, StableBase(legacy, p.of), {q.new : q \in {r \in plan : r.of < p.of}})
IsLast(p, l) ==
    /\ Renames(legacy, p.of, p.new) /\ legacy.docs[p.of].id = l
    /\ \A q \in plan : Renames(legacy, q.of, q.new) /\ legacy.docs[q.of].id = l => q.of <= p.of
MapLast ==
    /\ idMap = [l \in DOMAIN idMap |-> idMap[l]]
    /\ \A l \in DOMAIN idMap : \E p \in plan : IsLast(p, l) /\ idMap[l] = p.new
    /\ \A p \in plan : Renames(legacy, p.of, p.new) => legacy.docs[p.of].id \in DOMAIN idMap

\* Rows that earlier runs left have the links that this run would give them.
RowsStable == ~legacy.ai =>
    \A x \in DOMAIN target : \E k \in LiveOf(legacy) :
        TheIds(legacy)[k] = x /\ target[x].links = FixLinks(legacy.docs[k].links, TheMap(legacy))
RunRows == \A x \in DOMAIN target : x \in before \/ \E p \in plan : Passed(p) /\ p.new = x
LinksOK == \A p \in plan : Passed(p) =>
    \/ p.of \in errors
    \/ LinksAnew(p) => target[p.new].links = FixLinks(legacy.docs[p.of].links, idMap)
MgLinks == FromMongo => StablePlan /\ MapLast /\ RowsStable /\ RunRows /\ LinksOK

\* A whole plan is the one that every run makes.
LEMMA PlanIsStable ==
    ASSUME MgKept, FromMongo, ~legacy.ai, StablePlan, MapLast, mgAt.phase # "plan"
    PROVE  (\A p \in plan : p.new = TheIds(legacy)[p.of]) /\ idMap = TheMap(legacy)
<1> DEFINE f == [k \in LiveOf(legacy) |-> (CHOOSE p \in plan : p.of = k).new]
<1>1. PlanOK /\ PlansSoFar BY DEF MgKept
<1>2. MgLive = LiveOf(legacy) BY DEF MgLive, LiveOf, LegacyDocs
<1>3. \A p \in plan : p.of \in LiveOf(legacy) BY <1>1, <1>2 DEF PlanOK
<1>4. ASSUME NEW p \in plan PROVE f[p.of] = p.new
  <2>1. (CHOOSE r \in plan : r.of = p.of) \in plan /\ (CHOOSE r \in plan : r.of = p.of).of = p.of OBVIOUS
  <2>2. (CHOOSE r \in plan : r.of = p.of) = p BY <1>1, <2>1 DEF PlanOK
  <2> QED BY <1>3, <2>2
<1>5. \A k \in LiveOf(legacy) : \E p \in plan : p.of = k BY <1>1, <1>2 DEF PlansSoFar
<1>6. f = [k \in LiveOf(legacy) |-> f[k]] OBVIOUS
<1> HIDE DEF f
<1>7. ASSUME NEW k \in LiveOf(legacy)
      PROVE  f[k] = Chosen(legacy, StableBase(legacy, k), {f[j] : j \in {i \in LiveOf(legacy) : i < k}})
  <2>1. PICK p \in plan : p.of = k BY <1>5
  <2>2. {q.new : q \in {r \in plan : r.of < k}} = {f[j] : j \in {i \in LiveOf(legacy) : i < k}}
    <3>1. ASSUME NEW x \in {q.new : q \in {r \in plan : r.of < k}}
          PROVE  x \in {f[j] : j \in {i \in LiveOf(legacy) : i < k}}
      BY <1>3, <1>4
    <3>2. ASSUME NEW x \in {f[j] : j \in {i \in LiveOf(legacy) : i < k}}
          PROVE  x \in {q.new : q \in {r \in plan : r.of < k}}
      <4>1. PICK j \in LiveOf(legacy) : j < k /\ x = f[j] OBVIOUS
      <4>2. PICK q \in plan : q.of = j BY <1>5
      <4> QED BY <1>4, <4>1, <4>2
    <3> QED BY <3>1, <3>2
  <2>3. p.new = Chosen(legacy, StableBase(legacy, p.of), {q.new : q \in {r \in plan : r.of < p.of}}) BY DEF StablePlan
  <2> QED BY <1>4, <2>1, <2>2, <2>3
<1>8. Stable(legacy, f) BY <1>6, <1>7 DEF Stable
<1>9. IsMap(legacy, f, idMap)
  <2>1. ASSUME NEW l \in DOMAIN idMap
        PROVE  \E k \in LiveOf(legacy) : LastOf(legacy, f, k, l) /\ idMap[l] = f[k]
    <3>1. PICK p \in plan : IsLast(p, l) /\ idMap[l] = p.new BY DEF MapLast
    <3>2. p.of \in LiveOf(legacy) /\ f[p.of] = p.new BY <1>3, <1>4
    <3>3. ASSUME NEW j \in LiveOf(legacy), Renames(legacy, j, f[j]), legacy.docs[j].id = l PROVE j <= p.of
      <4>1. PICK q \in plan : q.of = j BY <1>5
      <4>2. f[j] = q.new BY <1>4, <4>1
      <4> QED BY <3>1, <3>3, <4>1, <4>2 DEF IsLast
    <3>4. LastOf(legacy, f, p.of, l) BY <3>1, <3>2, <3>3 DEF LastOf, IsLast
    <3> QED BY <3>1, <3>2, <3>4
  <2>2. ASSUME NEW k \in LiveOf(legacy), Renames(legacy, k, f[k]) PROVE legacy.docs[k].id \in DOMAIN idMap
    <3>1. PICK p \in plan : p.of = k BY <1>5
    <3>2. f[k] = p.new BY <1>4, <3>1
    <3> QED BY <2>2, <3>1, <3>2 DEF MapLast
  <2>3. idMap = [l \in DOMAIN idMap |-> idMap[l]] BY DEF MapLast
  <2> QED BY <2>1, <2>2, <2>3 DEF IsMap
<1>10. f = TheIds(legacy) /\ idMap = TheMap(legacy) BY <1>8, <1>9, TheIdsAre
<1> QED BY <1>4, <1>10

\* Steps that change neither the plan nor the target.
LEMMA LinksStay ==
    ASSUME MgLinks, FromMongo' => FromMongo, UNCHANGED <<legacy, idMap, plan, target, before>>, errors \subseteq errors',
           \A p \in plan : Passed(p)' <=> Passed(p)
    PROVE  MgLinks'
<1> SUFFICES ASSUME FromMongo PROVE (StablePlan /\ MapLast /\ RowsStable /\ RunRows /\ LinksOK)' BY DEF MgLinks
<1>1. StablePlan /\ MapLast /\ RowsStable /\ RunRows /\ LinksOK BY DEF MgLinks
<1>2. StablePlan' BY <1>1 DEF StablePlan
<1>3. MapLast' BY <1>1 DEF MapLast, IsLast
<1>4. RowsStable' BY <1>1 DEF RowsStable, FixLinks
<1>5. RunRows' BY <1>1 DEF RunRows
<1>6. LinksOK'
  <2> SUFFICES ASSUME NEW p \in plan, Passed(p)', p.of \notin errors', LinksAnew(p)'
               PROVE  target'[p.new].links = FixLinks(legacy.docs[p.of].links, idMap)
    BY DEF LinksOK, FixLinks
  <2>1. LinksAnew(p) BY DEF LinksAnew, Overwrites, LegacyDocs
  <2> QED BY <1>1, <2>1 DEF LinksOK
<1> QED BY <1>2, <1>3, <1>4, <1>5, <1>6

\* A document is given an id.
LEMMA LinksPlanned ==
    ASSUME MgKept, MgLinks, FromMongo, In("plan", LegacyDocs),
           NEW base, Plans(LegacyDocs[mgAt.k], Unique(base)), ~legacy.ai => base = StableBase(legacy, mgAt.k),
           idMap' = IF Renames(legacy, mgAt.k, Unique(base)) THEN Mapped(idMap, LegacyDocs[mgAt.k].id, Unique(base))
                    ELSE idMap,
           Enters("plan", mgAt.k + 1), UNCHANGED <<legacy, target, before>>
    PROVE  MgLinks'
<1> DEFINE k == mgAt.k
           new == Unique(base)
           old == LegacyDocs[k].id
<1>0. PICK q : q = [new |-> new, of |-> k, early |-> FixLinks(LegacyDocs[k].links, idMap)] OBVIOUS
<1>1. q.new = new /\ q.of = k BY <1>0
<1>2. plan' = plan \cup {q} BY <1>0 DEF Plans
<1>3. PlanOK /\ PlansSoFar /\ mgAt.phase = "plan" /\ k \in Nat BY DEF MgKept, In
<1>4. \A p \in plan : p.of \in Nat /\ p.of < k BY <1>3, LiveIs DEF PlanOK, PlansSoFar
<1>5. StablePlan /\ MapLast /\ RowsStable /\ RunRows BY DEF MgLinks
<1>6. new = Chosen(legacy, base, {r.new : r \in plan}) BY DEF Unique, Chosen, Used, LegacyDocs
<1>7. idMap' = IF Renames(legacy, k, new) THEN Mapped(idMap, old, new) ELSE idMap OBVIOUS
<1> HIDE DEF new
<1>8. mgAt'.phase = "plan" BY EntersIs
<1>9. StablePlan'
  <2> SUFFICES ASSUME ~legacy.ai, NEW p \in plan'
               PROVE  p.new = Chosen(legacy, StableBase(legacy, p.of), {r.new : r \in {r \in plan' : r.of < p.of}})
    BY DEF StablePlan
  <2>1. CASE p = q
    <3>1. {r \in plan' : r.of < p.of} = plan BY <1>1, <1>2, <1>3, <1>4, <2>1
    <3> QED BY <1>1, <1>6, <2>1, <3>1
  <2>2. CASE p \in plan
    <3>1. {r \in plan' : r.of < p.of} = {r \in plan : r.of < p.of} BY <1>1, <1>2, <1>3, <1>4, <2>2
    <3> QED BY <1>5, <2>2, <3>1 DEF StablePlan
  <2> QED BY <1>2, <2>1, <2>2
<1>10. MapLast'
  <2>1. CASE Renames(legacy, k, new)
    <3>1. /\ DOMAIN idMap' = DOMAIN idMap \cup {old} /\ idMap'[old] = new
          /\ \A l \in DOMAIN idMap : l # old => idMap'[l] = idMap[l]
          /\ idMap' = [l \in DOMAIN idMap' |-> idMap'[l]]
      BY <1>7, <2>1 DEF Mapped
    <3>2. ASSUME NEW l \in DOMAIN idMap' PROVE \E p \in plan' : IsLast(p, l)' /\ idMap'[l] = p.new
      <4>1. CASE l = old
        <5>1. IsLast(q, l)' BY <1>1, <1>2, <1>3, <1>4, <2>1, <4>1 DEF IsLast, LegacyDocs
        <5> QED BY <1>1, <1>2, <3>1, <4>1, <5>1
      <4>2. CASE l # old
        <5>1. PICK p \in plan : IsLast(p, l) /\ idMap[l] = p.new BY <1>5, <3>1, <3>2, <4>2 DEF MapLast
        <5>2. IsLast(p, l)' BY <1>1, <1>2, <4>2, <5>1 DEF IsLast, LegacyDocs
        <5> QED BY <1>2, <3>1, <3>2, <4>2, <5>1, <5>2
      <4> QED BY <4>1, <4>2
    <3>3. \A p \in plan' : Renames(legacy, p.of, p.new) => legacy.docs[p.of].id \in DOMAIN idMap'
      BY <1>1, <1>2, <1>5, <3>1 DEF MapLast, LegacyDocs
    <3> QED BY <3>1, <3>2, <3>3 DEF MapLast
  <2>2. CASE ~Renames(legacy, k, new)
    <3>1. idMap' = idMap BY <1>7, <2>2
    <3>2. ASSUME NEW l \in DOMAIN idMap PROVE \E p \in plan' : IsLast(p, l)' /\ idMap[l] = p.new
      <4>1. PICK p \in plan : IsLast(p, l) /\ idMap[l] = p.new BY <1>5, <3>2 DEF MapLast
      <4>2. IsLast(p, l)' BY <1>1, <1>2, <2>2, <4>1 DEF IsLast
      <4> QED BY <1>2, <4>1, <4>2
    <3>3. \A p \in plan' : Renames(legacy, p.of, p.new) => legacy.docs[p.of].id \in DOMAIN idMap
      BY <1>1, <1>2, <1>5, <2>2 DEF MapLast
    <3>4. idMap = [l \in DOMAIN idMap |-> idMap[l]] BY <1>5 DEF MapLast
    <3> QED BY <3>1, <3>2, <3>3, <3>4 DEF MapLast
  <2> QED BY <2>1, <2>2
<1>11. RowsStable' BY <1>5 DEF RowsStable, FixLinks
<1>12. RunRows' BY <1>3, <1>5 DEF RunRows, Passed
<1>13. LinksOK' BY <1>8 DEF LinksOK, Passed
<1> QED BY <1>9, <1>10, <1>11, <1>12, <1>13 DEF MgLinks

LEMMA LinksPlan ==
    ASSUME MgKept, MgLinks, PlanJob \/ PlanDoc
    PROVE  MgLinks'
<1> DEFINE d == LegacyDocs[mgAt.k]
<1>1. FromMongo /\ In("plan", LegacyDocs) /\ Enters("plan", mgAt.k + 1)
      /\ UNCHANGED <<legacy, target, before, errors>>
  BY DEF PlanJob, PlanDoc, FromMongo
<1>2. d = legacy.docs[mgAt.k] BY DEF LegacyDocs
<1>3. CASE PlanJob
  <2>1. PICK base \in TaskBases(d) : Plans(d, Unique(base)) /\ idMap' = Mapped(idMap, d.id, Unique(base))
    BY <1>3 DEF PlanJob
  <2>2. d.kind \in {"project", "task"} BY <1>3 DEF PlanJob
  <2>3. ~legacy.ai => base = StableBase(legacy, mgAt.k) BY <1>2, <2>1, <2>2 DEF TaskBases, KeptOr, StableBase
  <2>4. Renames(legacy, mgAt.k, Unique(base)) BY <1>2, <2>2 DEF Renames
  <2> QED BY <1>1, <2>1, <2>3, <2>4, LinksPlanned
<1>4. CASE PlanDoc /\ d.kind = "deleted"
  <2>1. UNCHANGED <<idMap, plan>> BY <1>4 DEF PlanDoc
  <2>2. mgAt.phase = "plan" /\ mgAt'.phase = "plan" BY <1>1, EntersIs DEF In
  <2> QED BY <1>1, <2>1, <2>2, LinksStay DEF Passed
<1>5. CASE PlanDoc /\ d.kind # "deleted"
  <2>1. d.kind \in {"doc", "history"} /\ \E base \in KbBases(d) :
           /\ Plans(d, Unique(base))
           /\ idMap' = IF d.kind = "doc" /\ Unique(base) = d.id THEN idMap ELSE Mapped(idMap, d.id, Unique(base))
    BY <1>5 DEF PlanDoc
  <2>2. PICK base \in KbBases(d) :
           /\ Plans(d, Unique(base))
           /\ idMap' = IF d.kind = "doc" /\ Unique(base) = d.id THEN idMap ELSE Mapped(idMap, d.id, Unique(base))
    BY <2>1
  <2>3. ~legacy.ai => base = StableBase(legacy, mgAt.k) BY <1>2, <2>1, <2>2 DEF KbBases, KeptOr, StableBase
  <2>4. Renames(legacy, mgAt.k, Unique(base)) <=> ~(d.kind = "doc" /\ Unique(base) = d.id) BY <1>2, <2>1 DEF Renames
  <2> QED BY <1>1, <2>2, <2>3, <2>4, LinksPlanned
<1> QED BY <1>3, <1>4, <1>5

\* A document is written.
LEMMA LinksWrite ==
    ASSUME MgKept, MgLinks, FromMongo, mgAt.phase # "plan", NEW p \in plan, ~Passed(p), MgWrites(p, Links(p)),
           UNCHANGED <<legacy, idMap, plan, before>>,
           Passed(p)', \A q \in plan : Passed(q) => Passed(q)', \A q \in plan : Passed(q)' => q = p \/ Passed(q)
    PROVE  MgLinks'
<1>1. StablePlan /\ MapLast /\ RowsStable /\ RunRows /\ LinksOK BY DEF MgLinks
<1>2. StablePlan' BY <1>1 DEF StablePlan
<1>3. MapLast' BY <1>1 DEF MapLast, IsLast
<1> DEFINE fixed == FixLinks(legacy.docs[p.of].links, idMap)
<1>4. Links(p) = fixed BY DEF Links, LegacyDocs
<1>5. p.of \in LiveOf(legacy) /\ \A q \in plan : p.new = q.new => p = q
  BY DEF MgKept, PlanOK, MgLive, LiveOf, LegacyDocs
<1>6. ~legacy.ai => (\A q \in plan : q.new = TheIds(legacy)[q.of]) /\ idMap = TheMap(legacy) BY <1>1, PlanIsStable
<1>7. \A k \in LiveOf(legacy) : \E q \in plan : q.of = k
  BY DEF MgKept, PlansSoFar, MgLive, LiveOf, LegacyDocs
<1> HIDE DEF fixed
<1>8. CASE target' = target /\ errors' = errors \cup {p.of}
  <2>1. RowsStable' BY <1>1, <1>8 DEF RowsStable, FixLinks
  <2>2. RunRows' BY <1>1, <1>8 DEF RunRows
  <2>3. LinksOK'
    <3> SUFFICES ASSUME NEW q \in plan, Passed(q)', q.of \notin errors', LinksAnew(q)'
                 PROVE  target'[q.new].links = FixLinks(legacy.docs[q.of].links, idMap)
      BY DEF LinksOK, FixLinks
    <3>1. LinksAnew(q) BY DEF LinksAnew, Overwrites, LegacyDocs
    <3>2. q # p /\ q.of \notin errors BY <1>8
    <3> QED BY <1>1, <1>8, <3>1, <3>2 DEF LinksOK
  <2> QED BY <1>2, <1>3, <2>1, <2>2, <2>3 DEF MgLinks
<1>9. CASE Lands(p, Links(p)) /\ errors' = errors
  <2>1. /\ DOMAIN target' = DOMAIN target \cup {p.new}
        /\ \A x \in DOMAIN target : x # p.new => target'[x] = target[x]
        /\ target'[p.new].links = IF p.new \in DOMAIN target /\ ~Overwrites(p) THEN target[p.new].links ELSE fixed
    BY <1>4, <1>9, UpsertIs
  <2>2. ASSUME ~legacy.ai PROVE target'[p.new].links = fixed
    <3>1. CASE p.new \in DOMAIN target
      <4>1. PICK k \in LiveOf(legacy) :
                TheIds(legacy)[k] = p.new /\ target[p.new].links = FixLinks(legacy.docs[k].links, TheMap(legacy))
        BY <1>1, <2>2, <3>1 DEF RowsStable
      <4>2. PICK q \in plan : q.of = k BY <1>7
      <4>3. q.new = p.new BY <1>6, <2>2, <4>1, <4>2
      <4>4. k = p.of BY <1>5, <4>2, <4>3
      <4>5. target[p.new].links = fixed BY <1>6, <2>2, <4>1, <4>4 DEF fixed
      <4> QED BY <2>1, <4>5
    <3>2. CASE p.new \notin DOMAIN target BY <2>1, <3>2
    <3> QED BY <3>1, <3>2
  <2>3. ASSUME p.new \notin before PROVE p.new \notin DOMAIN target BY <1>1, <1>5, <2>3 DEF RunRows
  <2>4. LinksAnew(p) => target'[p.new].links = fixed BY <2>1, <2>2, <2>3 DEF LinksAnew
  <2>5. RowsStable'
    <3> SUFFICES ASSUME ~legacy.ai, NEW x \in DOMAIN target'
                 PROVE  \E k \in LiveOf(legacy) :
                            TheIds(legacy)[k] = x /\ target'[x].links = FixLinks(legacy.docs[k].links, TheMap(legacy))
      BY DEF RowsStable, FixLinks
    <3>1. CASE x = p.new BY <1>5, <1>6, <2>2, <3>1 DEF fixed
    <3>2. CASE x # p.new BY <1>1, <2>1, <3>2 DEF RowsStable
    <3> QED BY <3>1, <3>2
  <2>6. RunRows' BY <1>1, <2>1 DEF RunRows
  <2>7. LinksOK'
    <3> SUFFICES ASSUME NEW q \in plan, Passed(q)', q.of \notin errors', LinksAnew(q)'
                 PROVE  target'[q.new].links = FixLinks(legacy.docs[q.of].links, idMap)
      BY DEF LinksOK, FixLinks
    <3>1. LinksAnew(q) BY DEF LinksAnew, Overwrites, LegacyDocs
    <3>2. CASE q = p BY <2>4, <3>1, <3>2 DEF fixed
    <3>3. CASE q # p
      <4>1. target[q.new].links = FixLinks(legacy.docs[q.of].links, idMap)
        BY <1>1, <1>9, <3>1, <3>3 DEF LinksOK
      <4>2. q.new # p.new BY <1>5, <3>3
      <4>3. q.new \in DOMAIN target
        <5>1. q.of \in errors \/ InTarget(q) BY <3>3 DEF MgKept, WrittenOK
        <5> QED BY <1>9, <5>1 DEF InTarget
      <4> QED BY <2>1, <4>1, <4>2, <4>3
    <3> QED BY <3>2, <3>3
  <2> QED BY <1>2, <1>3, <2>5, <2>6, <2>7 DEF MgLinks
<1> QED BY <1>8, <1>9 DEF MgWrites

LEMMA LinksWritten ==
    ASSUME MgKept, MgLinks, WriteDocs \/ WriteJobs
    PROVE  MgLinks'
<1> DEFINE ps == IF mgAt.phase = "write" THEN KbFirst ELSE plan \ KbFirst
           next == IF mgAt.phase = "write" THEN "jobs" ELSE "seats"
           left == {p \in ps : p.of >= mgAt.k}
<1>1. mgAt.phase \in {"write", "jobs"} /\ WriteOne(mgAt.phase, ps, next) BY DEF WriteDocs, WriteJobs, WriteOne
<1>2. FromMongo /\ mgAt.k \in Nat \ {0} BY <1>1 DEF MgKept
<1>3. UNCHANGED <<legacy, idMap, plan, before>> BY <1>1 DEF WriteOne
<1>4. \A p \in plan : p.of \in Nat \ {0} BY <1>2, LiveIs DEF MgKept, PlanOK
<1>5. left \subseteq plan BY DEF KbFirst
<1>6. KbFirst' = KbFirst BY <1>3 DEF KbFirst, LegacyDocs
<1>7. CASE left = {}
  <2>1. Enters(next, 1) /\ UNCHANGED <<target, errors>> BY <1>1, <1>7 DEF WriteOne
  <2>2. mgAt'.phase = next /\ mgAt'.k = 1 BY <2>1, EntersIs
  <2>3. \A p \in ps : p.of < mgAt.k
    <3>1. \A p \in ps : p \in plan /\ ~(p.of >= mgAt.k) BY <1>7 DEF KbFirst
    <3> QED BY <1>2, <1>4, <3>1
  <2>4. ASSUME NEW q \in plan PROVE Passed(q)' <=> Passed(q)
    <3>1. CASE mgAt.phase = "write" BY <1>4, <1>6, <2>2, <2>3, <3>1 DEF Passed
    <3>2. CASE mgAt.phase = "jobs" BY <2>2, <2>3, <3>2 DEF Passed
    <3> QED BY <1>1, <3>1, <3>2
  <2> QED BY <1>2, <1>3, <2>1, <2>4, LinksStay
<1>8. CASE left # {}
  <2>1. PICK p \in left : (\A r \in left : p.of <= r.of) /\ MgWrites(p, Links(p)) /\ Enters(mgAt.phase, p.of + 1)
    <3> DEFINE p == CHOOSE q \in left : \A r \in left : q.of <= r.of
    <3>1. p \in left /\ \A r \in left : p.of <= r.of BY <1>2, <1>4, <1>5, <1>8, FirstLeft
    <3>2. MgWrites(p, Links(p)) /\ Enters(mgAt.phase, p.of + 1) BY <1>1, <1>8 DEF WriteOne
    <3> QED BY <3>1, <3>2
  <2>2. mgAt'.phase = mgAt.phase /\ mgAt'.k = p.of + 1 BY <2>1, EntersIs
  <2>3. p \in plan /\ p.of \in Nat \ {0} /\ p \in ps /\ ~(p.of < mgAt.k) BY <1>2, <1>4, <1>5
  <2>4. ~Passed(p) BY <1>1, <2>3 DEF Passed
  <2>5. Passed(p)' BY <1>1, <1>6, <2>2, <2>3 DEF Passed
  <2>6. ASSUME NEW q \in plan, Passed(q) PROVE Passed(q)'
    <3>1. p.of >= mgAt.k BY <2>1
    <3>2. q.of < mgAt.k => q.of < p.of + 1 BY <1>2, <1>4, <2>3, <3>1
    <3> QED BY <1>1, <1>6, <2>2, <2>6, <3>2 DEF Passed
  <2>7. ASSUME NEW q \in plan, Passed(q)' PROVE q = p \/ Passed(q)
    <3>1. CASE q \in ps
      <4>1. q.of < p.of + 1 BY <1>1, <1>6, <2>2, <2>7, <3>1 DEF Passed
      <4>2. CASE q \in left
        <5>1. q.of = p.of BY <1>4, <2>1, <2>3, <4>1, <4>2
        <5> QED BY <1>2, <2>3, <5>1 DEF MgKept, PlanOK
      <4>3. CASE q \notin left
        <5>1. q.of < mgAt.k BY <1>2, <1>4, <3>1, <4>3
        <5> QED BY <1>1, <3>1, <5>1 DEF Passed
      <4> QED BY <4>2, <4>3
    <3>2. CASE q \notin ps BY <1>1, <1>6, <2>2, <2>7, <3>2 DEF Passed
    <3> QED BY <3>1, <3>2
  <2> QED BY <1>1, <1>2, <1>3, <2>1, <2>3, <2>4, <2>5, <2>6, <2>7, LinksWrite
<1> QED BY <1>7, <1>8

LEMMA LinksAgain ==
    ASSUME MgLinks, Again
    PROVE  MgLinks'
<1> SUFFICES ASSUME FromMongo PROVE (StablePlan /\ MapLast /\ RowsStable /\ RunRows /\ LinksOK)'
  BY DEF MgLinks, FromMongo, Again
<1>1. plan' = {} /\ idMap' = NoMap /\ before' = DOMAIN target /\ target' = target /\ legacy' = legacy BY DEF Again
<1>2. StablePlan' BY <1>1 DEF StablePlan
<1>3. MapLast' BY <1>1 DEF MapLast, NoMap
<1>4. RowsStable' BY <1>1 DEF MgLinks, RowsStable, FixLinks
<1>5. RunRows' BY <1>1 DEF RunRows
<1>6. LinksOK' BY <1>1 DEF LinksOK
<1> QED BY <1>2, <1>3, <1>4, <1>5, <1>6

LEMMA MgLinksHold == MgSpec => []MgLinks
<1>1. MgInit => MgLinks
  <2> SUFFICES ASSUME MgInit PROVE MgLinks OBVIOUS
  <2>1. plan = {} /\ idMap = NoMap /\ target = NoMap BY DEF MgInit
  <2>2. StablePlan /\ LinksOK BY <2>1 DEF StablePlan, LinksOK
  <2>3. MapLast BY <2>1 DEF MapLast, NoMap
  <2>4. RowsStable /\ RunRows BY <2>1 DEF RowsStable, RunRows, NoMap
  <2> QED BY <2>2, <2>3, <2>4 DEF MgLinks
<1>2. MgKept /\ MgLinks /\ [MgNext]_mgVars => MgLinks'
  <2> SUFFICES ASSUME MgKept, MgLinks, [MgNext]_mgVars PROVE MgLinks' OBVIOUS
  <2>1. CASE UNCHANGED mgVars
    <3>1. UNCHANGED <<legacy, idMap, plan, target, before, errors, mgAt>> BY <2>1 DEF mgVars
    <3>2. \A p \in plan : Passed(p)' <=> Passed(p) BY <3>1 DEF Passed, KbFirst, LegacyDocs
    <3>3. FromMongo' => FromMongo BY <3>1 DEF FromMongo
    <3> QED BY <3>1, <3>2, <3>3, LinksStay
  <2>2. CASE Planned
    <3>1. UNCHANGED <<legacy, idMap, plan, target, before, errors>> /\ mgAt.phase = "plan" BY <2>2 DEF Planned
    <3>2. mgAt'.phase = "write" /\ mgAt'.k = 1 BY <2>2, EntersIs DEF Planned
    <3>3. FromMongo' => FromMongo BY <3>1 DEF FromMongo
    <3>4. FromMongo => \A p \in plan : p.of \in Nat \ {0} BY LiveIs DEF MgKept, PlanOK
    <3>5. FromMongo => \A p \in plan : Passed(p)' <=> Passed(p) BY <3>1, <3>2, <3>4 DEF Passed
    <3> QED BY <3>1, <3>3, <3>5, LinksStay DEF MgLinks
  <2>3. CASE MigrateSeat
    <3>1. UNCHANGED <<legacy, idMap, plan, target, before>> /\ mgAt.phase = "seats" /\ errors \subseteq errors'
      BY <2>3 DEF MigrateSeat, In
    <3>2. mgAt'.phase = "seats" BY <2>3, EntersIs DEF MigrateSeat
    <3>3. \A p \in plan : Passed(p)' <=> Passed(p) BY <3>1, <3>2 DEF Passed
    <3>4. FromMongo' => FromMongo BY <3>1 DEF FromMongo
    <3> QED BY <3>1, <3>3, <3>4, LinksStay
  <2>4. CASE VaultFile BY <2>4 DEF VaultFile, MgLinks, FromMongo
  <2> QED BY <2>1, <2>2, <2>3, <2>4, LinksPlan, LinksWritten, LinksAgain DEF MgNext
<1> QED BY <1>1, <1>2, MgKeptHolds, PTL DEF MgSpec

\* Whatever there is to import, into whatever store, whatever a model proposes and however
\* often a run failed or was cut short before: after one without errors every document has
\* an id of its own, the tasks of seats lead where they led, and so do the links of every
\* document, those that an earlier run wrote excepted when a model gives names (migrate.rs:
\* ids are planned, then links rewritten; kb_upsert leaves the links of a document).
THEOREM LinksKeepLeading == MgSpec => []LinksLeadBack
<1>1. MgKept /\ MgLinks => LinksLeadBack
  <2> SUFFICES ASSUME MgKept, MgLinks, MgDone, FromMongo PROVE LinksLeadBack BY DEF LinksLeadBack, FromMongo
  <2>1. mgAt.phase = "seats" /\ mgAt.k > Len(legacy.seats) /\ errors = {} BY DEF MgDone
  <2>2. PlanOK /\ PlansSoFar /\ MapOK /\ WrittenOK /\ SeatsOK BY DEF MgKept
  <2>3. \A p \in plan : InTarget(p) BY <2>1, <2>2 DEF WrittenOK, Passed
  <2>4. \A p \in plan : LeadsTo(p.new, LegacyDocs[p.of].id) BY <2>3 DEF InTarget, LeadsTo
  <2>5. \A k \in MgLive : \E p \in plan : p.of = k BY <2>1, <2>2 DEF PlansSoFar
  <2>6. \A l \in DOMAIN idMap : LeadsTo(idMap[l], l) BY <2>2, <2>4 DEF MapOK
  <2>7. \A l : Imported(l) => \E p \in plan : LegacyDocs[p.of].id = l BY <2>5 DEF Imported
  <2>8. ASSUME NEW p \in plan, LinksAnew(p), NEW l \in LegacyDocs[p.of].links, Imported(l)
        PROVE  \E m \in target[p.new].links : LeadsTo(m, l)
    <3>1. target[p.new].links = FixLinks(LegacyDocs[p.of].links, idMap)
      BY <2>1, <2>8 DEF MgLinks, LinksOK, Passed, LegacyDocs
    <3>2. CASE l \in DOMAIN idMap BY <2>6, <2>8, <3>1, <3>2 DEF FixLinks
    <3>3. CASE l \notin DOMAIN idMap
      <4>1. l \in target[p.new].links BY <2>8, <3>1, <3>3 DEF FixLinks
      <4>2. PICK q \in plan : LegacyDocs[q.of].id = l BY <2>7, <2>8
      <4>3. q.new = l BY <2>2, <3>3, <4>2 DEF MapOK
      <4> QED BY <2>4, <4>1, <4>2, <4>3
    <3> QED BY <3>2, <3>3
  <2>9. ASSUME NEW s \in DOMAIN anchored, Imported(legacy.seats[s].task)
        PROVE  LeadsTo(anchored[s].task, legacy.seats[s].task)
    <3> DEFINE old == legacy.seats[s].task
    <3>1. s \in 1..Len(legacy.seats) /\ Len(legacy.seats) \in Nat /\ mgAt.k \in Nat
      BY <2>2, LegacyTyped DEF SeatsOK, MgKept
    <3>2. anchored[s] = Restored(legacy.seats[s]) BY <2>1, <2>2, <3>1 DEF SeatsOK
    <3>3. old \in DOMAIN idMap
      <4>1. PICK k \in MgLive : LegacyDocs[k].id = old BY <2>9 DEF Imported
      <4>2. \E j \in MgLive : LegacyDocs[j].id = old /\ LegacyDocs[j].kind # "doc"
        <5>1. CASE LegacyDocs[k].kind # "doc" BY <4>1, <5>1
        <5>2. CASE LegacyDocs[k].kind = "doc"
          <6>1. \E j \in 1..Len(LegacyDocs) :
                   LegacyDocs[j].id = old /\ LegacyDocs[j].kind \in {"project", "task"}
            BY <3>1, <4>1, <5>2, LiveIs, SeatsAtTasks DEF MgKept, LegacyDocs
          <6> QED BY <6>1, LiveIs
        <5> QED BY <5>1, <5>2
      <4>3. PICK j \in MgLive : LegacyDocs[j].id = old /\ LegacyDocs[j].kind # "doc" BY <4>2
      <4>4. PICK p \in plan : p.of = j BY <2>5
      <4> QED BY <2>2, <4>3, <4>4 DEF MapOK
    <3>4. anchored[s].task = idMap[old] BY <3>2, <3>3 DEF Restored
    <3> QED BY <2>6, <3>3, <3>4
  <2>10. \A k \in MgLive : \E p \in plan : p.of = k /\ LeadsTo(p.new, LegacyDocs[k].id) BY <2>4, <2>5
  <2>11. \A p, q \in plan : p.new = q.new => p.of = q.of BY <2>2 DEF PlanOK
  <2> QED BY <2>8, <2>9, <2>10, <2>11 DEF LinksLeadBack
<1> QED BY <1>1, MgKeptHolds, MgLinksHold, PTL

----------------------------------------------------------------------------
(* Stores: what was stored is kept *)

DocRow == [who : StId, dead : BOOLEAN]
PastRow == [who : StId, marked : BOOLEAN]

\* A row has the id it was stored under or one that its client gave it.
Fits(i, row) ==
    row.who = i \/ \E c \in StClient : "rename" \in stSetting.does[c] /\ {i, row.who} \subseteq stSetting.own[c]

\* The requests that have a row's copy in hand, and those that hold the connection.
InHand == {"replace", "rename free", "rename insert", "rename purge"}
Holding == {"digest insert", "count writes"}
Renaming == {"rename", "rename free", "rename insert", "rename purge"}

\* The row may have gone since it was read, it is not another one.
HandOK(c) ==
    /\ stJob[c].copy \in DocRow /\ Fits(stJob[c].id, stJob[c].copy)
    /\ StLive(stJob[c].id) => kb[stJob[c].id] = stJob[c].copy
    /\ stJob[c].copy.dead => at[stJob[c].copy.who] = {}

\* The row of the new id, once it is there.
PurgeOK(c) == at[stJob[c].copy.who] # {} =>
    StLive(stJob[c].new) /\ kb[stJob[c].new].who = stJob[c].copy.who

\* No row of another id is about the document that is added.
OnlyHere(c) == \A k \in StId : k # stJob[c].id /\ kb[k] # NoRow => kb[k].who # stJob[c].id

BusyOK(c) ==
    /\ {"at", "id", "new", "copy"} \subseteq DOMAIN stJob[c]
    /\ stJob[c].id \in stSetting.own[c] /\ stJob[c].new \in stSetting.own[c]
    /\ stJob[c].at = "add" => "add" \in stSetting.does[c] /\ OnlyHere(c)
    /\ stJob[c].at \in {"put", "replace"} => "put" \in stSetting.does[c]
    /\ stJob[c].at \in Renaming => "rename" \in stSetting.does[c] /\ stJob[c].new # stJob[c].id
    /\ stJob[c].at \in InHand => HandOK(c)
    /\ stJob[c].at = "rename purge" => PurgeOK(c)
    /\ stJob[c].at = "rename insert" => ~StLive(stJob[c].new)
    /\ stJob[c].at \in Holding => Sqlite /\ conn = c
    /\ stJob[c].at = "count writes" => stJob[c].copy = requests
StJobOK(c) == stJob[c].at = "idle" \/ BusyOK(c)

\* A document that is to be found has no row that is deleted.
NoneDead == \A w, i \in StId : at[w] # {} /\ kb[i] # NoRow /\ kb[i].who = w => ~kb[i].dead
RowFound == \A w \in StId : at[w] # {} => \E i \in at[w] : StLive(i) /\ kb[i].who = w

RowsOK ==
    /\ stSetting \in StSettings
    /\ kb \in [StId -> DocRow \cup {NoRow}] /\ at \in [StId -> SUBSET StId]
    /\ \A i \in StId : kb[i] # NoRow => Fits(i, kb[i])
    /\ NoneDead /\ RowFound
PastOK ==
    /\ past \in [StId -> PastRow \cup {NoRow}] /\ noted \subseteq StId
    /\ \A i \in noted : past[i] # NoRow
    /\ counted \in Nat /\ requests \in Nat /\ counted <= requests
StKept ==
    /\ RowsOK /\ PastOK
    /\ stJob = [c \in StClient |-> stJob[c]] /\ \A c \in StClient : StJobOK(c)

LEMMA RowFacts ==
    /\ \A r \in DocRow : r # NoRow /\ r.who \in StId /\ r.dead \in BOOLEAN
    /\ \A r \in PastRow : r # NoRow
    /\ \A r \in DocRow : [r EXCEPT !.dead = TRUE] \in DocRow
    /\ \A r \in DocRow : [r EXCEPT !.dead = TRUE].who = r.who /\ [r EXCEPT !.dead = TRUE].dead
<1>1. ASSUME NEW r \in DocRow PROVE r # NoRow
  <2>1. "dead" \in DOMAIN r BY DEF DocRow
  <2>2. "dead" \notin DOMAIN NoRow BY DEF NoRow
  <2> QED BY <2>1, <2>2
<1>2. ASSUME NEW r \in PastRow PROVE r # NoRow
  <2>1. "marked" \in DOMAIN r BY DEF PastRow
  <2>2. "marked" \notin DOMAIN NoRow BY DEF NoRow
  <2> QED BY <2>1, <2>2
<1>3. \A r \in DocRow : r.who \in StId /\ r.dead \in BOOLEAN /\ [r EXCEPT !.dead = TRUE] \in DocRow
        /\ [r EXCEPT !.dead = TRUE].who = r.who /\ [r EXCEPT !.dead = TRUE].dead
  BY DEF DocRow
<1> QED BY <1>1, <1>2, <1>3

\* What a step of one request leaves to the others.
StepOf(c) ==
    /\ stJob' = [d \in StClient |-> stJob'[d]]
    /\ \A d \in StClient \ {c} : stJob'[d] = stJob[d]

LEMMA MovesFacts ==
    ASSUME StKept, NEW c \in StClient, NEW STATE to, Moves(c, to)
    PROVE  StepOf(c) /\ stJob'[c] = to
BY DEF StKept, Moves, StepOf

LEMMA ToFacts ==
    ASSUME StKept, NEW c \in StClient, NEW there, To(c, there), stJob[c].at # "idle"
    PROVE  /\ StepOf(c) /\ {"at", "id", "new", "copy"} \subseteq DOMAIN stJob'[c]
           /\ stJob'[c].at = there /\ stJob'[c].id = stJob[c].id
           /\ stJob'[c].new = stJob[c].new /\ stJob'[c].copy = stJob[c].copy
<1>1. BusyOK(c) BY DEF StKept, StJobOK
<1>2. StepOf(c) /\ stJob'[c] = [stJob[c] EXCEPT !.at = there] BY MovesFacts DEF To
<1> QED BY <1>1, <1>2 DEF BusyOK

LEMMA EndsFacts ==
    ASSUME StKept, NEW c \in StClient, Ends(c)
    PROVE  StepOf(c) /\ StJobOK(c)'
<1>1. StepOf(c) /\ stJob'[c] = StIdle BY MovesFacts DEF Ends
<1> QED BY <1>1 DEF StJobOK, StIdle

\* Requests that write over rows have ids of their own.
Writes(c) == stSetting.does[c] \cap {"put", "rename"} # {}
LEMMA WritersApart ==
    ASSUME StKept, NEW c \in StClient, NEW d \in StClient, c # d, Writes(c),
           stSetting.does[d] \cap {"add", "put", "rename"} # {}
    PROVE  stSetting.own[c] \cap stSetting.own[d] = {}
BY RowsApart DEF StKept, RowsOK, Writes

LEMMA WhoIsOwn ==
    ASSUME StKept, NEW c \in StClient, Writes(c), NEW i \in stSetting.own[c], NEW row, Fits(i, row)
    PROVE  row.who \in stSetting.own[c]
<1>1. CASE row.who = i BY <1>1
<1>2. ASSUME NEW e \in StClient, "rename" \in stSetting.does[e], {i, row.who} \subseteq stSetting.own[e]
      PROVE  row.who \in stSetting.own[c]
  <2>1. CASE e = c BY <1>2, <2>1
  <2>2. CASE e # c
    <3>1. stSetting.own[c] \cap stSetting.own[e] = {} BY WritersApart, <2>2, <1>2
    <3> QED BY <3>1, <1>2
  <2> QED BY <2>1, <2>2
<1> QED BY <1>1, <1>2 DEF Fits

LEMMA OwnIds ==
    ASSUME StKept, NEW c \in StClient
    PROVE  stSetting.own[c] \subseteq StId
BY StoresAssumption DEF StKept, RowsOK, StSetting

LEMMA FitsStays ==
    ASSUME stSetting' = stSetting, NEW i, NEW row, Fits(i, row)
    PROVE  Fits(i, row)'
BY DEF Fits

LEMMA HandFits ==
    ASSUME stSetting' = stSetting, NEW d \in StClient,
           stJob'[d].id = stJob[d].id, stJob'[d].copy = stJob[d].copy, Fits(stJob[d].id, stJob[d].copy)
    PROVE  Fits(stJob[d].id, stJob[d].copy)'
BY DEF Fits

\* What the others are doing stays right when these stay.
LEMMA OtherJob ==
    ASSUME NEW d \in StClient, StJobOK(d), stJob'[d] = stJob[d], stSetting' = stSetting,
           conn = d => conn' = d,
           stJob[d].at = "count writes" => requests' = requests,
           stJob[d].at = "add" => OnlyHere(d)',
           stJob[d].at \in InHand => HandOK(d)',
           stJob[d].at = "rename purge" => PurgeOK(d)',
           stJob[d].at = "rename insert" => ~StLive(stJob[d].new)'
    PROVE  StJobOK(d)'
BY DEF StJobOK, BusyOK, Mongo, Sqlite

LEMMA StFrame ==
    ASSUME StKept, NEW c \in StClient, StepOf(c), StJobOK(c)', stSetting' = stSetting,
           kb' = kb, \A w \in StId : at'[w] = {} <=> at[w] = {},
           at' \in [StId -> SUBSET StId], RowFound', PastOK',
           \A d \in StClient \ {c} : conn = d => conn' = d,
           \/ requests' = requests
           \/ \A d \in StClient \ {c} : stJob[d].at # "count writes"
    PROVE  StKept'
<1>1. RowsOK'
  <2>1. RowsOK BY DEF StKept
  <2>2. (\A i \in StId : kb[i] # NoRow => Fits(i, kb[i]))' BY <2>1, ZenonT(40) DEF RowsOK, Fits
  <2>3. NoneDead' BY <2>1 DEF RowsOK, NoneDead
  <2> QED BY <2>1, <2>2, <2>3 DEF RowsOK
<1>2. ASSUME NEW d \in StClient PROVE StJobOK(d)'
  <2>1. CASE d = c BY <2>1
  <2>2. CASE d # c
    <3>1. stJob'[d] = stJob[d] /\ StJobOK(d) BY <2>2 DEF StKept, StepOf
    <3>2. stJob[d].at = "add" => OnlyHere(d)' BY <3>1 DEF StJobOK, BusyOK, OnlyHere
    <3>3. stJob[d].at \in InHand => HandOK(d)'
      <4> SUFFICES ASSUME stJob[d].at \in InHand PROVE HandOK(d)' OBVIOUS
      <4>1. HandOK(d) BY <3>1 DEF StJobOK, BusyOK, InHand
      <4>2. stJob[d].copy.who \in StId BY <4>1, RowFacts DEF HandOK
      <4> QED BY <3>1, <4>1, <4>2, ZenonT(40) DEF HandOK, Fits, StLive
    <3>4. stJob[d].at = "rename purge" => PurgeOK(d)'
      <4> SUFFICES ASSUME stJob[d].at = "rename purge" PROVE PurgeOK(d)' OBVIOUS
      <4>1. HandOK(d) /\ PurgeOK(d) BY <3>1 DEF StJobOK, BusyOK, InHand
      <4>2. stJob[d].copy.who \in StId BY <4>1, RowFacts DEF HandOK
      <4> QED BY <3>1, <4>1, <4>2 DEF PurgeOK, StLive
    <3>5. stJob[d].at = "rename insert" => ~StLive(stJob[d].new)' BY <3>1 DEF StJobOK, BusyOK, StLive
    <3> QED BY <2>2, <3>1, <3>2, <3>3, <3>4, <3>5, OtherJob
  <2> QED BY <2>1, <2>2
<1> QED BY <1>1, <1>2 DEF StKept, StepOf

LEMMA Plain ==
    ASSUME StKept, NEW c \in StClient, StepOf(c), StJobOK(c)', UNCHANGED <<stSetting, kb, at>>, PastOK',
           \A d \in StClient \ {c} : conn = d => conn' = d,
           \/ requests' = requests
           \/ \A d \in StClient \ {c} : stJob[d].at # "count writes"
    PROVE  StKept'
<1>1. at' \in [StId -> SUBSET StId] /\ RowFound' BY DEF StKept, RowsOK, RowFound, StLive
<1> QED BY <1>1, StFrame

\* Steps that leave history and counters alone as well.
LEMMA PastStays ==
    ASSUME StKept, UNCHANGED <<past, requests, noted, counted>>
    PROVE  PastOK'
BY DEF StKept, PastOK

\* While a request holds the connection no other runs a statement.
LEMMA HolderHas ==
    ASSUME StKept, NEW c \in StClient, stJob[c].at \in Holding
    PROVE  Sqlite /\ conn = c
<1>1. stJob[c].at # "idle" BY DEF Holding
<1> QED BY <1>1 DEF StKept, StJobOK, BusyOK

LEMMA HoldsAlone ==
    ASSUME StKept, NEW c \in StClient, LockHeld(c), NEW d \in StClient, d # c
    PROVE  stJob[d].at \notin Holding
BY HolderHas, StoresAssumption DEF LockHeld

LEMMA HolderIsOne ==
    ASSUME StKept, NEW c \in StClient, stJob[c].at \in Holding, NEW d \in StClient, d # c
    PROVE  stJob[d].at \notin Holding
BY HolderHas

LEMMA LockPasses ==
    ASSUME NEW c \in StClient, conn' = conn \/ Releases(c) \/ (LockHeld(c) /\ Holds(c))
    PROVE  \A d \in StClient \ {c} : conn = d => conn' = d
BY StoresAssumption DEF Releases, LockHeld, Holds

LEMMA BeginKeeps ==
    ASSUME StKept, NEW c \in StClient, NEW r \in StRequest, NEW i \in StId, NEW j \in StId, StBegin(c, r, i, j)
    PROVE  StKept'
<1>1. StepOf(c) /\ stJob'[c] = [at |-> r, id |-> i, new |-> j, copy |-> NoRow]
  BY MovesFacts DEF StBegin
<1>2. PastOK' BY PastStays DEF StBegin, Tables
<1>3. UNCHANGED <<stSetting, kb, at, conn, requests>> BY DEF StBegin, Tables
<1>4. r = "add" => OnlyHere(c)' BY <1>1, <1>3 DEF StBegin, OnlyHere
<1>5. r \notin InHand /\ r \notin Holding /\ r \notin {"replace", "rename purge", "rename free", "rename insert",
        "count writes"}
  BY DEF StRequest, InHand, Holding
<1>6. BusyOK(c)'
  <2> DEFINE job == [at |-> r, id |-> i, new |-> j, copy |-> NoRow]
  <2>1. job.at = r /\ job.id = i /\ job.new = j /\ {"at", "id", "new", "copy"} \subseteq DOMAIN job OBVIOUS
  <2> HIDE DEF job
  <2>2. stJob'[c] = job BY <1>1 DEF job
  <2> QED BY <2>1, <2>2, <1>3, <1>4, <1>5 DEF StBegin, BusyOK, Renaming
<1> QED BY <1>1, <1>2, <1>3, <1>6, Plain DEF StJobOK

LEMMA PutLooksKeeps ==
    ASSUME StKept, NEW c \in StClient, PutLooks(c)
    PROVE  StKept'
<1>1. PastOK' /\ UNCHANGED <<stSetting, kb, at, conn, requests>> BY PastStays DEF PutLooks, Tables, Bounds
<1>2. BusyOK(c) /\ stJob[c].at = "put" BY DEF StKept, StJobOK, PutLooks
<1>3. CASE ~Gets(stJob[c].id) BY <1>1, <1>3, EndsFacts, Plain DEF PutLooks
<1>4. CASE Gets(stJob[c].id)
  <2> DEFINE i == stJob[c].id
  <2>1. StepOf(c) /\ stJob'[c] = [stJob[c] EXCEPT !.at = "replace", !.copy = kb[i]]
    BY <1>4, MovesFacts DEF PutLooks
  <2>2. /\ {"at", "id", "new", "copy"} \subseteq DOMAIN stJob'[c] /\ stJob'[c].at = "replace"
        /\ stJob'[c].id = i /\ stJob'[c].new = stJob[c].new /\ stJob'[c].copy = kb[i]
    BY <2>1, <1>2 DEF BusyOK
  <2>3. i \in StId BY <1>2, OwnIds DEF BusyOK
  <2>4. kb[i] # NoRow BY <1>4, <2>3 DEF Gets, StLive
  <2>5. kb[i] \in DocRow /\ Fits(i, kb[i]) BY <2>3, <2>4 DEF StKept, RowsOK
  <2>6. kb[i].dead => at[kb[i].who] = {} BY <2>3, <2>4, <2>5, RowFacts DEF StKept, RowsOK, NoneDead
  <2>7. HandOK(c)' BY <1>1, <2>2, <2>5, <2>6 DEF HandOK, Fits
  <2>8. BusyOK(c)' BY <1>1, <1>2, <2>2, <2>7 DEF BusyOK, Renaming, Holding
  <2> QED BY <1>1, <2>1, <2>8, Plain DEF StJobOK
<1> QED BY <1>3, <1>4

\* A step to a place of which nothing more is known.
LEMMA ToPlain ==
    ASSUME StKept, NEW c \in StClient, NEW there \in {"embed", "unembed", "refused", "activate task"}, To(c, there),
           stJob[c].at # "idle", stSetting' = stSetting
    PROVE  StepOf(c) /\ StJobOK(c)'
<1>1. BusyOK(c) BY DEF StKept, StJobOK
<1>2. StepOf(c) BY ToFacts
<1>3. BusyOK(c)' BY <1>1, ToFacts DEF BusyOK, InHand, Renaming, Holding
<1> QED BY <1>2, <1>3 DEF StJobOK

LEMMA VectorsKeep ==
    ASSUME StKept, NEW c \in StClient, Unembed(c) \/ Embed(c) \/ StRefused(c)
    PROVE  StKept'
<1>1. PastOK' /\ UNCHANGED <<stSetting, kb, at, conn, requests>>
  BY PastStays DEF Unembed, Embed, StRefused, Tables, Bounds
<1>2. CASE Unembed(c) BY <1>1, <1>2, ToPlain, Plain DEF Unembed
<1>3. CASE Embed(c) BY <1>1, <1>3, EndsFacts, Plain DEF Embed
<1>4. CASE StRefused(c) BY <1>1, <1>4, EndsFacts, Plain DEF StRefused
<1> QED BY <1>2, <1>3, <1>4

LEMMA SidesKeep ==
    ASSUME StKept, NEW c \in StClient,
           \/ AnchorDocument(c) \/ AnchorNothing(c) \/ AnchorTask(c) \/ CloseSeat(c)
           \/ ArmTimer(c) \/ FireTimer(c) \/ KeepRecord(c) \/ DropRecord(c)
    PROVE  StKept'
<1>1. PastOK' /\ UNCHANGED <<stSetting, kb, at, conn, requests>>
  BY PastStays DEF AnchorDocument, AnchorNothing, AnchorTask, CloseSeat, ArmTimer, FireTimer, KeepRecord,
                   DropRecord, OnSide, Done, Bounds
<1>2. CASE AnchorDocument(c) BY <1>1, <1>2, ToPlain, Plain DEF AnchorDocument, OnSide
<1>3. CASE ~AnchorDocument(c)
  <2>1. Ends(c) BY <1>3 DEF AnchorNothing, AnchorTask, CloseSeat, ArmTimer, FireTimer, KeepRecord, DropRecord, Done
  <2> QED BY <1>1, <2>1, EndsFacts, Plain
<1> QED BY <1>2, <1>3

LEMMA RenameReadsKeeps ==
    ASSUME StKept, NEW c \in StClient, RenameReads(c) \/ RenameLooks(c)
    PROVE  StKept'
<1>1. PastOK' /\ UNCHANGED <<stSetting, kb, at, conn, requests>>
  BY PastStays DEF RenameReads, RenameLooks, Tables, Bounds
<1>2. BusyOK(c) BY DEF StKept, StJobOK, RenameReads, RenameLooks
<1> DEFINE i == stJob[c].id
<1>3. i \in StId BY <1>2, OwnIds DEF BusyOK
<1>4. CASE RenameReads(c) /\ ~Gets(i) BY <1>1, <1>4, EndsFacts, Plain DEF RenameReads
<1>5. CASE RenameReads(c) /\ Gets(i)
  <2>1. StepOf(c) /\ stJob'[c] = [stJob[c] EXCEPT !.at = "rename free", !.copy = kb[i]]
    BY <1>5, MovesFacts DEF RenameReads
  <2>2. /\ {"at", "id", "new", "copy"} \subseteq DOMAIN stJob'[c] /\ stJob'[c].at = "rename free"
        /\ stJob'[c].id = i /\ stJob'[c].new = stJob[c].new /\ stJob'[c].copy = kb[i]
    BY <2>1, <1>2 DEF BusyOK
  <2>4. kb[i] # NoRow BY <1>3, <1>5 DEF Gets, StLive
  <2>5. kb[i] \in DocRow /\ Fits(i, kb[i]) BY <1>3, <2>4 DEF StKept, RowsOK
  <2>6. kb[i].dead => at[kb[i].who] = {} BY <1>3, <2>4, <2>5, RowFacts DEF StKept, RowsOK, NoneDead
  <2>7. HandOK(c)' BY <1>1, <2>2, <2>5, <2>6 DEF HandOK, Fits
  <2>8. BusyOK(c)' BY <1>1, <1>2, <1>5, <2>2, <2>7 DEF BusyOK, Renaming, Holding, RenameReads
  <2> QED BY <1>1, <2>1, <2>8, Plain DEF StJobOK
<1>6. CASE RenameLooks(c) /\ Gets(stJob[c].new) BY <1>1, <1>6, ToPlain, Plain DEF RenameLooks
<1>7. CASE RenameLooks(c) /\ ~Gets(stJob[c].new)
  <2>1. To(c, "rename insert") /\ stJob[c].at = "rename free" BY <1>7 DEF RenameLooks
  <2>2. /\ StepOf(c) /\ {"at", "id", "new", "copy"} \subseteq DOMAIN stJob'[c] /\ stJob'[c].at = "rename insert"
        /\ stJob'[c].id = i /\ stJob'[c].new = stJob[c].new /\ stJob'[c].copy = stJob[c].copy
    BY <2>1, ToFacts
  <2>3. HandOK(c)' BY <1>1, <1>2, <2>1, <2>2 DEF HandOK, Fits, StLive, BusyOK, InHand
  <2>4. ~StLive(stJob[c].new) BY <1>7 DEF Gets, StLive
  <2>8. BusyOK(c)' BY <1>1, <1>2, <2>1, <2>2, <2>3, <2>4 DEF BusyOK, Renaming, Holding, StLive
  <2> QED BY <1>1, <2>2, <2>8, Plain DEF StJobOK
<1> QED BY <1>4, <1>5, <1>6, <1>7

\* History: a row that is there is only marked or written anew.
LEMMA PastRows ==
    /\ \A i : [who |-> i, marked |-> FALSE] # NoRow
    /\ \A i \in StId : [who |-> i, marked |-> FALSE] \in PastRow
    /\ \A r \in PastRow, b \in BOOLEAN : [r EXCEPT !.marked = b] \in PastRow
<1>1. ASSUME NEW i PROVE [who |-> i, marked |-> FALSE] # NoRow
  <2>1. "marked" \in DOMAIN [who |-> i, marked |-> FALSE] OBVIOUS
  <2>2. "marked" \notin DOMAIN NoRow BY DEF NoRow
  <2> QED BY <2>1, <2>2
<1> QED BY <1>1 DEF PastRow

LEMMA PastGrows ==
    ASSUME StKept, UNCHANGED <<requests, counted>>,
           past' \in [StId -> PastRow \cup {NoRow}], noted' \subseteq StId,
           \A i \in StId : past[i] # NoRow => past'[i] # NoRow,
           \A i \in noted' : i \in noted \/ past'[i] # NoRow
    PROVE  PastOK'
BY DEF StKept, PastOK

LEMMA StoresRow ==
    ASSUME StKept, NEW i \in StId, past' = [past EXCEPT ![i] = [who |-> i, marked |-> FALSE]],
           noted' = noted \cup {i}, UNCHANGED <<requests, counted>>
    PROVE  PastOK'
<1> DEFINE row == [who |-> i, marked |-> FALSE]
<1>1. row \in PastRow /\ row # NoRow BY PastRows
<1> HIDE DEF row
<1>2. past' = [past EXCEPT ![i] = row] BY DEF row
<1> QED BY <1>1, <1>2, PastGrows DEF StKept, PastOK

LEMMA MarksRow ==
    ASSUME StKept, NEW i \in StId, past[i] # NoRow, NEW b \in BOOLEAN, past' = [past EXCEPT ![i].marked = b],
           UNCHANGED <<requests, counted, noted>>
    PROVE  PastOK'
<1> DEFINE row == [past[i] EXCEPT !.marked = b]
<1>1. past[i] \in PastRow BY DEF StKept, PastOK
<1>2. row \in PastRow /\ row # NoRow BY <1>1, PastRows, RowFacts
<1> HIDE DEF row
<1>3. past' = [past EXCEPT ![i] = row] BY DEF row
<1> QED BY <1>2, <1>3, PastGrows DEF StKept, PastOK

LEMMA NoteKeeps ==
    ASSUME StKept, NEW c \in StClient, StNote(c)
    PROVE  StKept'
<1>1. UNCHANGED <<stSetting, kb, at, conn, requests, counted>> /\ Ends(c) BY DEF StNote
<1>2. stJob[c].id \in StId BY OwnIds DEF StNote, StKept, StJobOK, BusyOK
<1> DEFINE i == stJob[c].id
<1>3. CASE past[i] # NoRow \/ (Mongo /\ Taken(i))
  <2>1. UNCHANGED <<past, noted>> BY <1>3 DEF StNote
  <2>2. PastOK' BY <1>1, <2>1, PastStays
  <2> QED BY <1>1, <2>2, EndsFacts, Plain
<1>4. CASE ~(past[i] # NoRow \/ (Mongo /\ Taken(i)))
  <2>1. past' = [past EXCEPT ![i] = [who |-> i, marked |-> FALSE]] /\ noted' = noted \cup {i}
    BY <1>4 DEF StNote
  <2>2. PastOK' BY <1>1, <1>2, <2>1, StoresRow
  <2> QED BY <1>1, <2>2, EndsFacts, Plain
<1> QED BY <1>3, <1>4

LEMMA DigestUpdatesKeeps ==
    ASSUME StKept, NEW c \in StClient, DigestUpdates(c)
    PROVE  StKept'
<1>1. UNCHANGED <<stSetting, kb, at, requests, counted, noted>> /\ Sqlite /\ LockHeld(c) /\ stJob[c].at = "digest"
  BY DEF DigestUpdates, Bounds
<1>2. BusyOK(c) /\ stJob[c].id \in StId BY <1>1, OwnIds DEF StKept, StJobOK, BusyOK
<1>3. CASE past[stJob[c].id] # NoRow
  <2>1. past' = [past EXCEPT ![stJob[c].id].marked = FALSE] /\ Ends(c) /\ UNCHANGED conn
    BY <1>3 DEF DigestUpdates
  <2>2. PastOK' BY <1>1, <1>2, <1>3, <2>1, MarksRow
  <2> QED BY <1>1, <2>1, <2>2, EndsFacts, Plain
<1>4. CASE past[stJob[c].id] = NoRow
  <2>1. PastOK' BY <1>1, <1>4, PastStays DEF DigestUpdates
  <2>2. To(c, "digest insert") /\ Holds(c) BY <1>4 DEF DigestUpdates
  <2>3. conn' = c BY <1>1, <2>2 DEF Holds
  <2>7. /\ {"at", "id", "new", "copy"} \subseteq DOMAIN stJob'[c] /\ stJob'[c].at = "digest insert"
        /\ stJob'[c].id = stJob[c].id /\ stJob'[c].new = stJob[c].new
    BY <1>1, <2>2, ToFacts
  <2>4. BusyOK(c)' BY <1>1, <1>2, <2>7, <2>3 DEF BusyOK, InHand, Renaming, Sqlite
  <2>5. \A d \in StClient \ {c} : conn = d => conn' = d BY <1>1, <2>2, LockPasses
  <2>6. StepOf(c) BY <1>1, <2>2, ToFacts
  <2> QED BY <1>1, <2>1, <2>4, <2>5, <2>6, Plain DEF StJobOK
<1> QED BY <1>3, <1>4

LEMMA DigestInsertsKeeps ==
    ASSUME StKept, NEW c \in StClient, DigestInserts(c)
    PROVE  StKept'
<1>1. UNCHANGED <<stSetting, kb, at, requests, counted>> /\ Ends(c) /\ Releases(c) BY DEF DigestInserts
<1>2. stJob[c].id \in StId BY OwnIds DEF DigestInserts, StKept, StJobOK, BusyOK
<1> DEFINE i == stJob[c].id
<1>3. PastOK'
  <2>1. CASE Mongo /\ kb[i] # NoRow
    <3>1. UNCHANGED <<past, noted>> BY <2>1 DEF DigestInserts
    <3> QED BY <1>1, <3>1, PastStays
  <2>2. CASE ~(Mongo /\ kb[i] # NoRow)
    <3>1. past' = [past EXCEPT ![i] = [who |-> i, marked |-> FALSE]] /\ noted' = noted \cup {i}
      BY <2>2 DEF DigestInserts
    <3> QED BY <1>1, <1>2, <3>1, StoresRow
  <2> QED BY <2>1, <2>2
<1>4. \A d \in StClient \ {c} : conn = d => conn' = d BY <1>1, LockPasses
<1> QED BY <1>1, <1>3, <1>4, EndsFacts, Plain

LEMMA MarksKeep ==
    ASSUME StKept, NEW c \in StClient, MarkReads(c) \/ MarkRow(c) \/ MarkAll(c)
    PROVE  StKept'
<1>1. UNCHANGED <<stSetting, kb, at, conn, requests, counted, noted>>
  BY DEF MarkReads, MarkRow, MarkAll, Tables, Bounds
<1>2. BusyOK(c) BY DEF StKept, StJobOK, MarkReads, MarkRow, MarkAll
<1>3. CASE MarkReads(c)
  <2>1. StepOf(c) /\ stJob'[c] = [stJob[c] EXCEPT !.at = "mark rows", !.copy = {i \in StId : past[i] # NoRow}]
    BY <1>3, MovesFacts DEF MarkReads
  <2>2. /\ {"at", "id", "new", "copy"} \subseteq DOMAIN stJob'[c] /\ stJob'[c].at = "mark rows"
        /\ stJob'[c].id = stJob[c].id /\ stJob'[c].new = stJob[c].new
    BY <2>1, <1>2 DEF BusyOK
  <2>3. BusyOK(c)' BY <1>1, <1>2, <2>2 DEF BusyOK, InHand, Renaming, Holding
  <2>4. PastOK' BY <1>1, <1>3, PastStays DEF MarkReads, Tables
  <2> QED BY <1>1, <2>1, <2>3, <2>4, Plain DEF StJobOK
<1>4. CASE MarkRow(c) /\ Ends(c) /\ UNCHANGED past
  BY <1>1, <1>4, PastStays, EndsFacts, Plain
<1>5. ASSUME MarkRow(c), NEW i \in stJob[c].copy,
             past' = IF past[i] = NoRow THEN past ELSE [past EXCEPT ![i].marked = TRUE],
             Moves(c, [stJob[c] EXCEPT !.copy = @ \ {i}])
      PROVE  StKept'
  <2>1. StepOf(c) /\ stJob'[c] = [stJob[c] EXCEPT !.copy = @ \ {i}] BY <1>5, MovesFacts
  <2>2. /\ {"at", "id", "new", "copy"} \subseteq DOMAIN stJob'[c] /\ stJob'[c].at = "mark rows"
        /\ stJob'[c].id = stJob[c].id /\ stJob'[c].new = stJob[c].new
    BY <1>5, <2>1, <1>2 DEF BusyOK, MarkRow
  <2>3. BusyOK(c)' BY <1>1, <1>2, <2>2 DEF BusyOK, InHand, Renaming, Holding
  <2>4. CASE past[i] = NoRow BY <1>1, <1>5, <2>1, <2>3, <2>4, PastStays, Plain DEF StJobOK
  <2>5. CASE past[i] # NoRow /\ i \in StId
    <3>1. PastOK' BY <1>1, <1>5, <2>5, MarksRow
    <3> QED BY <1>1, <2>1, <2>3, <3>1, Plain DEF StJobOK
  <2>6. CASE i \notin StId
    <3>1. past' = past BY <1>5, <2>6 DEF StKept, PastOK
    <3> QED BY <1>1, <2>1, <2>3, <3>1, PastStays, Plain DEF StJobOK
  <2> QED BY <2>4, <2>5, <2>6
<1>6. CASE MarkAll(c)
  <2>1. \A i \in StId : past[i] # NoRow => [past[i] EXCEPT !.marked = TRUE] \in PastRow
    BY PastRows DEF StKept, PastOK
  <2>2. past' \in [StId -> PastRow \cup {NoRow}] /\ \A i \in StId : past[i] # NoRow => past'[i] # NoRow
    BY <1>6, <2>1, RowFacts DEF MarkAll
  <2>3. PastOK' BY <1>1, <2>2, PastGrows DEF StKept, PastOK
  <2> QED BY <1>1, <1>6, <2>3, EndsFacts, Plain DEF MarkAll
<1> QED BY <1>3, <1>4, <1>5, <1>6 DEF MarkReads, MarkRow, MarkAll

LEMMA CountReadsKeeps ==
    ASSUME StKept, NEW c \in StClient, CountReads(c)
    PROVE  StKept'
<1>1. UNCHANGED <<stSetting, kb, at, requests, counted, noted, past>> /\ Sqlite /\ LockHeld(c) /\ Holds(c)
  BY DEF CountReads, Tables, Bounds
<1>2. BusyOK(c) BY DEF CountReads, StKept, StJobOK
<1>3. StepOf(c) /\ stJob'[c] = [stJob[c] EXCEPT !.at = "count writes", !.copy = requests]
  BY MovesFacts DEF CountReads
<1>4. /\ {"at", "id", "new", "copy"} \subseteq DOMAIN stJob'[c] /\ stJob'[c].at = "count writes"
      /\ stJob'[c].id = stJob[c].id /\ stJob'[c].new = stJob[c].new /\ stJob'[c].copy = requests
  BY <1>3, <1>2 DEF BusyOK
<1>5. conn' = c BY <1>1 DEF Holds
<1>6. BusyOK(c)' BY <1>1, <1>2, <1>4, <1>5 DEF BusyOK, InHand, Renaming, Sqlite
<1>7. PastOK' BY <1>1, PastStays
<1>8. \A d \in StClient \ {c} : conn = d => conn' = d BY <1>1, LockPasses
<1> QED BY <1>1, <1>3, <1>6, <1>7, <1>8, Plain DEF StJobOK

LEMMA CountWritesKeeps ==
    ASSUME StKept, NEW c \in StClient, CountWrites(c)
    PROVE  StKept'
<1>1. /\ UNCHANGED <<stSetting, kb, at, past, noted>> /\ Ends(c) /\ Releases(c)
      /\ counted' = counted + 1
  BY DEF CountWrites
<1>2. requests' = requests + 1 BY DEF CountWrites, StKept, StJobOK, BusyOK
<1>3. PastOK' BY <1>1, <1>2 DEF StKept, PastOK
<1>4. \A d \in StClient \ {c} : conn = d => conn' = d BY <1>1, LockPasses
<1>5. \A d \in StClient \ {c} : stJob[d].at # "count writes"
  <2>1. CASE stJob[c].at = "count writes" BY <2>1, HolderIsOne DEF Holding
  <2>2. CASE Mongo BY <2>2, HolderHas DEF Holding, Mongo, Sqlite
  <2> QED BY <2>1, <2>2 DEF CountWrites
<1> QED BY <1>1, <1>3, <1>4, <1>5, EndsFacts, Plain

LEMMA FailsKeeps ==
    ASSUME StKept, NEW c \in StClient, StFails(c)
    PROVE  StKept'
<1>1. UNCHANGED <<stSetting, kb, at, past, requests, noted, counted>> /\ Releases(c) /\ stJob[c].at # "idle"
  BY DEF StFails, Tables
<1>2. PastOK' BY <1>1, PastStays
<1>3. \A d \in StClient \ {c} : conn = d => conn' = d BY <1>1, LockPasses
<1>4. StepOf(c) /\ StJobOK(c)'
  <2>1. To(c, "embed") \/ To(c, "refused") \/ Ends(c) BY DEF StFails
  <2> QED BY <1>1, <2>1, ToPlain, EndsFacts
<1> QED BY <1>1, <1>2, <1>3, <1>4, Plain

LEMMA CrashKeeps ==
    ASSUME StKept, StCrash
    PROVE  StKept'
<1>1. PastOK' BY PastStays DEF StCrash, Tables
<1>2. RowsOK' BY DEF StCrash, Tables, StKept, RowsOK, NoneDead, RowFound, StLive, Fits
<1> QED BY <1>1, <1>2 DEF StCrash, StKept, StJobOK, StIdle

LEMMA RowsTyped ==
    ASSUME StKept, NEW i \in StId, kb[i] # NoRow
    PROVE  kb[i] \in DocRow /\ kb[i].who \in StId /\ kb[i].dead \in BOOLEAN /\ Fits(i, kb[i])
BY RowFacts DEF StKept, RowsOK

\* A row of a document that is to be found is not deleted.
LEMMA RowLives ==
    ASSUME StKept, NEW i \in StId, kb[i] # NoRow, at[kb[i].who] # {}
    PROVE  StLive(i)
BY RowsTyped DEF StKept, RowsOK, NoneDead, StLive

\* Rows go, and so does the promise to find them.
LEMMA Fewer ==
    ASSUME StKept, NEW c \in StClient, LockHeld(c), StepOf(c), StJobOK(c)',
           UNCHANGED <<stSetting, conn, past, requests, noted, counted>>,
           kb' \in [StId -> DocRow \cup {NoRow}], at' \in [StId -> SUBSET StId],
           \A i \in StId : \/ kb'[i] = kb[i]
                           \/ kb'[i] = NoRow
                           \/ kb[i] # NoRow /\ kb'[i].who = kb[i].who /\ kb'[i].dead,
           \A v \in StId : at'[v] = at[v] \/ at'[v] = {},
           \A i \in StId : StLive(i) /\ kb'[i] # kb[i] => at'[kb[i].who] = {}
    PROVE  StKept'
<1>1. PastOK' BY PastStays
<1>2. \A i \in StId : StLive(i)' => kb'[i] = kb[i] /\ StLive(i) BY DEF StLive
<1>3. \A i \in StId : kb'[i] # NoRow => kb[i] # NoRow /\ kb'[i].who = kb[i].who OBVIOUS
<1>4. \A i \in StId : kb'[i] # NoRow => Fits(i, kb[i])' BY <1>3, RowsTyped DEF Fits
<1>5. NoneDead'
  <2> SUFFICES ASSUME NEW v \in StId, NEW i \in StId, at'[v] # {}, kb'[i] # NoRow, kb'[i].who = v
               PROVE  ~kb'[i].dead
    BY DEF NoneDead
  <2>1. at[v] # {} /\ kb[i] # NoRow /\ kb[i].who = v BY <1>3
  <2>2. StLive(i) BY <2>1, RowLives
  <2>3. kb'[i] = kb[i] BY <2>1, <2>2
  <2> QED BY <2>2, <2>3 DEF StLive
<1>6. RowFound'
  <2> SUFFICES ASSUME NEW v \in StId, at'[v] # {} PROVE \E k \in at'[v] : StLive(k)' /\ kb'[k].who = v
    BY DEF RowFound
  <2>1. at'[v] = at[v] OBVIOUS
  <2>2. PICK k \in at[v] : StLive(k) /\ kb[k].who = v BY <2>1 DEF StKept, RowsOK, RowFound
  <2>3. k \in StId BY <2>2 DEF StKept, RowsOK
  <2>4. kb'[k] = kb[k] BY <2>2, <2>3
  <2> QED BY <2>1, <2>2, <2>4 DEF StLive
<1>7. RowsOK' BY <1>4, <1>5, <1>6 DEF RowsOK, StKept
<1>8. ASSUME NEW d \in StClient \ {c} PROVE StJobOK(d)'
  <2>1. stJob'[d] = stJob[d] /\ StJobOK(d) BY DEF StKept, StepOf
  <2>2. stJob[d].at = "add" => OnlyHere(d)'
    <3>1. SUFFICES ASSUME stJob[d].at = "add" PROVE OnlyHere(d)' OBVIOUS
    <3>2. OnlyHere(d) BY <2>1, <3>1 DEF StJobOK, BusyOK
    <3> QED BY <1>3, <2>1, <3>2 DEF OnlyHere
  <2>3. stJob[d].at \in InHand => HandOK(d)'
    <3>1. SUFFICES ASSUME stJob[d].at \in InHand PROVE HandOK(d)' OBVIOUS
    <3>2. BusyOK(d) /\ HandOK(d) BY <2>1, <3>1 DEF StJobOK, BusyOK, InHand
    <3>3. stJob[d].id \in StId /\ stJob[d].copy.who \in StId BY <3>2, OwnIds, RowFacts DEF BusyOK, HandOK
    <3>4. Fits(stJob[d].id, stJob[d].copy)' BY <2>1, <3>2 DEF HandOK, Fits
    <3>5. \A k \in StId : k = stJob[d].id /\ StLive(k)' => kb'[k] = stJob[d].copy BY <1>2, <3>2 DEF HandOK
    <3>6. stJob[d].copy.dead => at'[stJob[d].copy.who] = {} BY <3>2, <3>3 DEF HandOK
    <3> QED BY <2>1, <3>2, <3>3, <3>4, <3>5, <3>6 DEF HandOK, StLive
  <2>4. stJob[d].at = "rename purge" => PurgeOK(d)'
    <3>1. SUFFICES ASSUME stJob[d].at = "rename purge", at'[stJob[d].copy.who] # {} PROVE PurgeOK(d)'
      BY <2>1 DEF PurgeOK
    <3>2. BusyOK(d) /\ HandOK(d) /\ PurgeOK(d) BY <2>1, <3>1 DEF StJobOK, BusyOK, InHand
    <3>3. stJob[d].new \in StId /\ stJob[d].copy.who \in StId BY <3>2, OwnIds, RowFacts DEF BusyOK, HandOK
    <3>4. at[stJob[d].copy.who] # {} BY <3>1, <3>3
    <3>5. StLive(stJob[d].new) /\ kb[stJob[d].new].who = stJob[d].copy.who BY <3>2, <3>4 DEF PurgeOK
    <3>6. kb'[stJob[d].new] = kb[stJob[d].new] BY <3>1, <3>3, <3>5
    <3> QED BY <2>1, <3>5, <3>6 DEF PurgeOK, StLive
  <2>5. stJob[d].at = "rename insert" => ~StLive(stJob[d].new)'
    <3>1. SUFFICES ASSUME stJob[d].at = "rename insert" PROVE ~StLive(stJob[d].new)' OBVIOUS
    <3>2. BusyOK(d) /\ ~StLive(stJob[d].new) BY <2>1, <3>1 DEF StJobOK, BusyOK
    <3>3. PICK k \in StId : k = stJob[d].new BY <3>2, OwnIds DEF BusyOK
    <3>4. ~StLive(k)' BY <1>2, <3>2, <3>3
    <3> QED BY <2>1, <3>3, <3>4
  <2> QED BY <2>1, <2>2, <2>3, <2>4, <2>5, OtherJob
<1> QED BY <1>1, <1>7, <1>8 DEF StKept, StepOf

LEMMA DeletesKeep ==
    ASSUME StKept, NEW c \in StClient, StDelete(c) \/ StPurge(c) \/ StSweep(c)
    PROVE  StKept'
<1> DEFINE i == stJob[c].id
<1>1. /\ UNCHANGED <<stSetting, conn, past, requests, noted, counted>> /\ LockHeld(c) /\ Ends(c)
      /\ stJob[c].at # "idle"
  BY DEF StDelete, StPurge, StSweep, PurgeRow, Bounds
<1>2. i \in StId BY <1>1, OwnIds DEF StKept, StJobOK, BusyOK
<1>3. at \in [StId -> SUBSET StId] /\ kb \in [StId -> DocRow \cup {NoRow}] BY DEF StKept, RowsOK
<1>4. CASE StDelete(c)
  <2>1. at' \in [StId -> SUBSET StId] /\ \A v \in StId : at'[v] = at[v] \/ at'[v] = {} BY <1>3, <1>4 DEF StDelete
  <2>2. \A v \in StId : kb[i].who = v => at'[v] = {} BY <1>4 DEF StDelete
  <2>3. CASE kb[i] = NoRow
    <3>1. kb' = kb BY <1>4, <2>3 DEF StDelete
    <3> QED BY <1>1, <1>3, <2>1, <3>1, Fewer, EndsFacts
  <2>4. CASE kb[i] # NoRow
    <3> DEFINE row == [kb[i] EXCEPT !.dead = TRUE]
    <3>1. kb[i] \in DocRow /\ kb[i].who \in StId BY <1>2, <2>4, RowsTyped
    <3>2. row \in DocRow /\ row.who = kb[i].who /\ row.dead BY <3>1, RowFacts
    <3> HIDE DEF row
    <3>3. kb' = [kb EXCEPT ![i] = row] BY <1>4, <2>4 DEF StDelete, row
    <3>4. /\ kb' \in [StId -> DocRow \cup {NoRow}]
          /\ \A k \in StId : kb'[k] = kb[k] \/ (kb[k] # NoRow /\ kb'[k].who = kb[k].who /\ kb'[k].dead)
          /\ \A k \in StId : kb'[k] # kb[k] => k = i
      BY <1>2, <1>3, <2>4, <3>2, <3>3
    <3>5. \A k \in StId : StLive(k) /\ kb'[k] # kb[k] => at'[kb[k].who] = {} BY <2>2, <3>1, <3>4
    <3> QED BY <1>1, <2>1, <3>4, <3>5, Fewer, EndsFacts
  <2> QED BY <2>3, <2>4
<1>5. CASE StPurge(c)
  <2>1. at' \in [StId -> SUBSET StId] /\ \A v \in StId : at'[v] = at[v] \/ at'[v] = {} BY <1>3, <1>5 DEF StPurge
  <2>2. \A v \in StId : kb[i].who = v => at'[v] = {} BY <1>5 DEF StPurge
  <2>3. kb' = [kb EXCEPT ![i] = NoRow] BY <1>5 DEF StPurge, PurgeRow
  <2>4. /\ kb' \in [StId -> DocRow \cup {NoRow}]
        /\ \A k \in StId : kb'[k] = kb[k] \/ kb'[k] = NoRow
        /\ \A k \in StId : kb'[k] # kb[k] => k = i
    BY <1>2, <1>3, <2>3
  <2>5. \A k \in StId : StLive(k) /\ kb'[k] # kb[k] => at'[kb[k].who] = {}
    BY <2>2, <2>4, RowsTyped DEF StLive
  <2> QED BY <1>1, <2>1, <2>4, <2>5, Fewer, EndsFacts
<1>6. CASE StSweep(c)
  <2>1. at' = at /\ kb' = [k \in StId |-> IF StLive(k) THEN kb[k] ELSE NoRow] BY <1>6 DEF StSweep
  <2>2. /\ kb' \in [StId -> DocRow \cup {NoRow}]
        /\ \A k \in StId : kb'[k] = kb[k] \/ kb'[k] = NoRow
        /\ \A k \in StId : StLive(k) => kb'[k] = kb[k]
    BY <1>3, <2>1
  <2> QED BY <1>1, <1>3, <2>1, <2>2, Fewer, EndsFacts
<1> QED BY <1>4, <1>5, <1>6

\* What the others do is about other ids, or adds a document.
LEMMA OthersStay ==
    ASSUME StKept, NEW c \in StClient, StepOf(c), stSetting' = stSetting, requests' = requests,
           \A d \in StClient \ {c} : conn = d => conn' = d,
           \A k \in StId \ stSetting.own[c] : kb'[k] = kb[k] /\ at'[k] = at[k],
           \A k \in StId : kb'[k] = kb[k] \/ kb'[k] = NoRow \/ kb'[k].who \in stSetting.own[c],
           \/ Writes(c)
           \/ "add" \in stSetting.does[c] /\ \A k \in StId : kb'[k] = kb[k] \/ kb'[k].who = k
    PROVE  \A d \in StClient \ {c} : StJobOK(d)'
<1> SUFFICES ASSUME NEW d \in StClient \ {c} PROVE StJobOK(d)' OBVIOUS
<1>1. stJob'[d] = stJob[d] /\ StJobOK(d) BY DEF StKept, StepOf
<1>2. stJob[d].at = "add" => OnlyHere(d)'
  <2>1. SUFFICES ASSUME stJob[d].at = "add" PROVE OnlyHere(d)' OBVIOUS
  <2>2. BusyOK(d) /\ OnlyHere(d) /\ stJob[d].id \in StId BY <1>1, <2>1, OwnIds DEF StJobOK, BusyOK
  <2>3. ASSUME NEW k \in StId, k # stJob[d].id, kb'[k] # NoRow PROVE kb'[k].who # stJob[d].id
    <3>1. CASE kb'[k] = kb[k] BY <2>2, <2>3, <3>1 DEF OnlyHere
    <3>2. CASE kb'[k] # kb[k] /\ Writes(c)
      <4>1. stSetting.own[c] \cap stSetting.own[d] = {} BY <2>1, <2>2, <3>2, WritersApart DEF BusyOK
      <4> QED BY <2>2, <2>3, <3>2, <4>1 DEF BusyOK
    <3>3. CASE kb'[k] # kb[k] /\ ~Writes(c) BY <2>3, <3>3
    <3> QED BY <3>1, <3>2, <3>3
  <2> QED BY <1>1, <2>3 DEF OnlyHere
<1>3. ASSUME stJob[d].at \in InHand
      PROVE  /\ HandOK(d)' /\ (stJob[d].at = "rename purge" => PurgeOK(d)')
             /\ stJob[d].at = "rename insert" => ~StLive(stJob[d].new)'
  <2>1. BusyOK(d) /\ HandOK(d) /\ Writes(d)
    BY <1>1, <1>3 DEF StJobOK, BusyOK, InHand, Renaming, Writes
  <2>2. stSetting.own[d] \cap stSetting.own[c] = {}
    <3>1. stSetting.does[c] \cap {"add", "put", "rename"} # {} BY DEF Writes
    <3> QED BY <2>1, <3>1, WritersApart
  <2>3. stJob[d].copy.who \in stSetting.own[d] BY <2>1, WhoIsOwn DEF BusyOK, HandOK
  <2>4. \A k \in stSetting.own[d] : k \in StId /\ kb'[k] = kb[k] /\ at'[k] = at[k] BY <2>2, OwnIds
  <2>5. \A k \in stSetting.own[d] : StLive(k)' <=> StLive(k) BY <2>4 DEF StLive
  <2>6. stJob[d].id \in stSetting.own[d] /\ stJob[d].new \in stSetting.own[d] BY <2>1 DEF BusyOK
  <2>7. HandOK(d)'
    <3>5. Fits(stJob[d].id, stJob[d].copy) BY <2>1 DEF HandOK
    <3>1. Fits(stJob[d].id, stJob[d].copy)' BY <1>1, <3>5, HandFits
    <3>2. \A k \in StId : k = stJob[d].id /\ StLive(k)' => kb'[k] = stJob[d].copy
      BY <2>1, <2>4, <2>5, <2>6 DEF HandOK
    <3>3. stJob[d].copy.dead => at'[stJob[d].copy.who] = {} BY <2>1, <2>3, <2>4 DEF HandOK
    <3>4. stJob[d].id \in StId BY <2>4, <2>6
    <3> QED BY <1>1, <2>1, <3>1, <3>2, <3>3, <3>4 DEF HandOK, StLive
  <2>8. stJob[d].at = "rename purge" => PurgeOK(d) BY <2>1 DEF BusyOK
  <2>9. stJob[d].at = "rename purge" => PurgeOK(d)' BY <1>1, <2>3, <2>4, <2>6, <2>8, ZenonT(40) DEF PurgeOK, StLive
  <2>10. stJob[d].at = "rename insert" => ~StLive(stJob[d].new)'
    <3>1. PICK k \in stSetting.own[d] : k = stJob[d].new BY <2>6
    <3>2. stJob[d].at = "rename insert" => ~StLive(k) BY <2>1, <3>1 DEF BusyOK
    <3>3. StLive(k)' <=> StLive(k) BY <2>5
    <3> QED BY <3>1, <3>2, <3>3, <1>1
  <2> QED BY <2>7, <2>9, <2>10
<1> QED BY <1>1, <1>2, <1>3, OtherJob DEF InHand

\* A row is written.
LEMMA PutsRow ==
    ASSUME StKept, stSetting' = stSetting, NEW j \in StId, NEW STATE row, row \in DocRow, Fits(j, row),
           kb' = [kb EXCEPT ![j] = row], at' \in [StId -> SUBSET StId],
           StLive(j) => kb[j] = row,
           row.dead => at'[row.who] = {},
           \A v \in StId : at'[v] # {} =>
              \/ at[v] # {} /\ at[v] \subseteq at'[v]
              \/ /\ v = row.who /\ j \in at'[v]
                 /\ \A k \in StId \ {j} : kb[k] # NoRow => kb[k].who # v
    PROVE  RowsOK'
<1>1. kb \in [StId -> DocRow \cup {NoRow}] BY DEF StKept, RowsOK
<1>2. kb'[j] = row /\ \A k \in StId \ {j} : kb'[k] = kb[k] BY <1>1
<1>3. kb' \in [StId -> DocRow \cup {NoRow}] BY <1>1
<1>4. row # NoRow /\ row.who \in StId /\ row.dead \in BOOLEAN BY RowFacts
<1>5. \A k \in StId : kb'[k] # NoRow => Fits(k, kb[k])'
  <2>1. ASSUME NEW k \in StId, k # j, kb'[k] # NoRow PROVE Fits(k, kb[k])'
    BY <1>2, <2>1, RowsTyped DEF Fits
  <2>2. Fits(j, kb[j])' BY <1>2 DEF Fits
  <2> QED BY <2>1, <2>2
<1>6. NoneDead'
  <2> SUFFICES ASSUME NEW v \in StId, NEW k \in StId, at'[v] # {}, kb'[k] # NoRow, kb'[k].who = v
               PROVE  ~kb'[k].dead
    BY DEF NoneDead
  <2>1. CASE k = j BY <1>2, <1>4, <2>1
  <2>2. CASE k # j
    <3>1. kb[k] # NoRow /\ kb[k].who = v BY <1>2, <2>2
    <3>2. at[v] # {} BY <2>2, <3>1
    <3>3. StLive(k) BY <3>1, <3>2, RowLives
    <3> QED BY <1>2, <2>2, <3>3 DEF StLive
  <2> QED BY <2>1, <2>2
<1>7. RowFound'
  <2> SUFFICES ASSUME NEW v \in StId, at'[v] # {} PROVE \E k \in at'[v] : StLive(k)' /\ kb'[k].who = v
    BY DEF RowFound
  <2>1. CASE v = row.who /\ j \in at'[v]
    <3>1. StLive(j)' BY <1>2, <1>4, <2>1 DEF StLive
    <3> QED BY <1>2, <2>1, <3>1
  <2>2. CASE at[v] # {} /\ at[v] \subseteq at'[v]
    <3>1. PICK k \in at[v] : StLive(k) /\ kb[k].who = v BY <2>2 DEF StKept, RowsOK, RowFound
    <3>2. k \in StId BY <3>1 DEF StKept, RowsOK
    <3>3. kb'[k] = kb[k] BY <1>2, <3>1, <3>2
    <3> QED BY <2>2, <3>1, <3>3 DEF StLive
  <2> QED BY <2>1, <2>2
<1> QED BY <1>3, <1>5, <1>6, <1>7 DEF RowsOK, StKept

LEMMA AddKeeps ==
    ASSUME StKept, NEW c \in StClient, StAdd(c)
    PROVE  StKept'
<1> DEFINE i == stJob[c].id
           row == [who |-> i, dead |-> FALSE]
<1>1. /\ UNCHANGED <<stSetting, conn, past, requests, noted, counted>> /\ LockHeld(c)
      /\ stJob[c].at = "add"
  BY DEF StAdd, Bounds
<1>2. BusyOK(c) /\ i \in StId BY <1>1, OwnIds DEF StKept, StJobOK, BusyOK
<1>3. OnlyHere(c) /\ "add" \in stSetting.does[c] /\ i \in stSetting.own[c] BY <1>1, <1>2 DEF BusyOK
<1>4. PastOK' BY <1>1, PastStays
<1>5. CASE Ends(c) /\ UNCHANGED <<kb, at>> BY <1>1, <1>4, <1>5, EndsFacts, Plain
<1>6. CASE /\ ~Gets(i) /\ (Mongo => ~Taken(i))
           /\ kb' = [kb EXCEPT ![i] = row] /\ at' = [at EXCEPT ![i] = {i}] /\ To(c, "unembed")
  <2>1. row \in DocRow /\ row.who = i /\ ~row.dead BY <1>2 DEF DocRow
  <2> HIDE DEF row
  <2>2. ~StLive(i) BY <1>6 DEF Gets, StLive
  <2>3. kb \in [StId -> DocRow \cup {NoRow}] /\ at \in [StId -> SUBSET StId] BY DEF StKept, RowsOK
  <2>4. at' \in [StId -> SUBSET StId] /\ at'[i] = {i} /\ \A v \in StId \ {i} : at'[v] = at[v]
    BY <1>2, <1>6, <2>3
  <2>5. RowsOK'
    <3>1. Fits(i, row) BY <2>1 DEF Fits
    <3>2. \A k \in StId \ {i} : kb[k] # NoRow => kb[k].who # i BY <1>3 DEF OnlyHere
    <3>3. \A v \in StId : at'[v] # {} =>
             \/ at[v] # {} /\ at[v] \subseteq at'[v]
             \/ v = row.who /\ i \in at'[v] /\ \A k \in StId \ {i} : kb[k] # NoRow => kb[k].who # v
      BY <2>1, <2>4, <3>2
    <3>4. kb' = [kb EXCEPT ![i] = row] BY <1>6
    <3> QED BY <1>1, <1>2, <2>1, <2>2, <2>4, <3>1, <3>3, <3>4, PutsRow
  <2>6. StepOf(c) /\ StJobOK(c)' BY <1>1, <1>6, ToPlain
  <2>7. kb'[i] = row /\ \A k \in StId \ {i} : kb'[k] = kb[k] BY <1>2, <1>6, <2>3
  <2>9. \A d \in StClient \ {c} : StJobOK(d)' BY <1>1, <1>3, <2>1, <2>4, <2>6, <2>7, OthersStay
  <2> QED BY <1>4, <2>5, <2>6, <2>9 DEF StKept, StepOf
<1> QED BY <1>5, <1>6 DEF StAdd

LEMMA PutWritesKeeps ==
    ASSUME StKept, NEW c \in StClient, PutWrites(c)
    PROVE  StKept'
<1> DEFINE i == stJob[c].id
           row == stJob[c].copy
<1>1. /\ UNCHANGED <<stSetting, conn, past, requests, noted, counted, at>> /\ LockHeld(c)
      /\ stJob[c].at = "replace" /\ kb' = [kb EXCEPT ![i] = row] /\ To(c, "unembed")
  BY DEF PutWrites, Bounds
<1>2. BusyOK(c) /\ i \in StId BY <1>1, OwnIds DEF StKept, StJobOK, BusyOK
<1>3. HandOK(c) /\ Writes(c) /\ i \in stSetting.own[c] BY <1>1, <1>2 DEF BusyOK, InHand, Writes
<1>4. PastOK' BY <1>1, PastStays
<1>5. row \in DocRow /\ Fits(i, row) /\ (StLive(i) => kb[i] = row) /\ (row.dead => at[row.who] = {})
  BY <1>3 DEF HandOK
<1>6. row.who \in stSetting.own[c] BY <1>3, <1>5, WhoIsOwn
<1>7. kb \in [StId -> DocRow \cup {NoRow}] /\ at \in [StId -> SUBSET StId] BY DEF StKept, RowsOK
<1>8. RowsOK' BY <1>1, <1>2, <1>5, <1>7, PutsRow
<1>9. StepOf(c) /\ StJobOK(c)' BY <1>1, ToPlain
<1>10. kb'[i] = row /\ \A k \in StId \ {i} : kb'[k] = kb[k] BY <1>1, <1>2, <1>7
<1>12. \A d \in StClient \ {c} : StJobOK(d)' BY <1>1, <1>3, <1>6, <1>9, <1>10, OthersStay
<1> QED BY <1>4, <1>8, <1>9, <1>12 DEF StKept, StepOf

LEMMA RenameCopiesKeeps ==
    ASSUME StKept, NEW c \in StClient, RenameCopies(c)
    PROVE  StKept'
<1> DEFINE i == stJob[c].id
           j == stJob[c].new
           row == stJob[c].copy
           w == row.who
<1>1. UNCHANGED <<stSetting, conn, past, requests, noted, counted>> /\ stJob[c].at = "rename insert"
  BY DEF RenameCopies, Bounds
<1>2. BusyOK(c) /\ i \in StId /\ j \in StId BY <1>1, OwnIds DEF StKept, StJobOK, BusyOK
<1>3. /\ HandOK(c) /\ Writes(c) /\ i \in stSetting.own[c] /\ j \in stSetting.own[c] /\ ~StLive(j)
      /\ "rename" \in stSetting.does[c] /\ i # j
  BY <1>1, <1>2 DEF BusyOK, InHand, Writes, Renaming
<1>4. PastOK' BY <1>1, PastStays
<1>5. /\ row \in DocRow /\ Fits(i, row) /\ (StLive(i) => kb[i] = row) /\ (row.dead => at[w] = {})
      /\ w \in StId /\ row.dead \in BOOLEAN
  BY <1>3, RowFacts DEF HandOK
<1>6. w \in stSetting.own[c] BY <1>3, <1>5, WhoIsOwn
<1>7. CASE To(c, "refused") /\ UNCHANGED <<kb, at>> BY <1>1, <1>4, <1>7, ToPlain, Plain
<1>8. CASE kb' = [kb EXCEPT ![j] = row] /\ at' = Either(w, j) /\ To(c, "rename purge")
  <2>2. kb \in [StId -> DocRow \cup {NoRow}] /\ at \in [StId -> SUBSET StId] BY DEF StKept, RowsOK
  <2>3. kb'[j] = row /\ \A k \in StId \ {j} : kb'[k] = kb[k] BY <1>2, <1>8, <2>2
  <2>4. /\ at' \in [StId -> SUBSET StId] /\ \A v \in StId \ {w} : at'[v] = at[v]
        /\ at'[w] = at[w] \cup (IF at[w] = {} THEN {} ELSE {j})
    BY <1>2, <1>5, <1>8, <2>2 DEF Either
  <2>5. \A v \in StId : (at'[v] = {} <=> at[v] = {}) /\ at[v] \subseteq at'[v] BY <2>4
  <2>6. Fits(j, row) BY <1>3, <1>6 DEF Fits
  <2>7. row.dead => at'[w] = {} BY <1>5, <2>5
  <2>8. RowsOK'
    <3>1. stSetting' = stSetting /\ kb' = [kb EXCEPT ![j] = row] BY <1>1, <1>8
    <3>2. ~StLive(j) BY <1>3
    <3>3. \A v \in StId : at'[v] # {} => at[v] # {} /\ at[v] \subseteq at'[v] BY <2>5
    <3> QED BY <1>2, <1>5, <2>4, <2>6, <2>7, <3>1, <3>2, <3>3, PutsRow
  <2>9. /\ StepOf(c) /\ {"at", "id", "new", "copy"} \subseteq DOMAIN stJob'[c] /\ stJob'[c].at = "rename purge"
        /\ stJob'[c].id = i /\ stJob'[c].new = j /\ stJob'[c].copy = row
    BY <1>1, <1>8, ToFacts
  <2>11. \A k \in StId : k = i /\ StLive(k)' => kb'[k] = row BY <1>5, <2>3 DEF StLive
  <2>12. HandOK(c)'
    <3>1. Fits(i, row) /\ row \in DocRow BY <1>5
    <3>2. Fits(stJob[c].id, stJob[c].copy)' BY <1>1, <2>9, <3>1, HandFits
    <3> QED BY <1>2, <2>7, <2>9, <2>11, <3>1, <3>2 DEF HandOK, StLive
  <2>13. PurgeOK(c)'
    <3>1. row # NoRow BY <1>5, RowFacts
    <3>2. at'[w] # {} => ~row.dead BY <2>7
    <3> QED BY <2>3, <2>9, <3>1, <3>2 DEF PurgeOK, StLive
  <2>14. BusyOK(c)' BY <1>1, <1>3, <2>9, <2>12, <2>13 DEF BusyOK, Renaming, Holding
  <2>16. \A d \in StClient \ {c} : StJobOK(d)'
    <3>1. \A k \in StId \ stSetting.own[c] : kb'[k] = kb[k] /\ at'[k] = at[k] BY <1>3, <1>6, <2>3, <2>4
    <3>2. \A k \in StId : kb'[k] = kb[k] \/ kb'[k] = NoRow \/ kb'[k].who \in stSetting.own[c] BY <1>6, <2>3
    <3> QED BY <1>1, <1>3, <2>9, <3>1, <3>2, OthersStay
  <2> QED BY <1>4, <2>8, <2>9, <2>14, <2>16 DEF StKept, StepOf, StJobOK
<1> QED BY <1>7, <1>8 DEF RenameCopies

LEMMA RenamePurgesKeeps ==
    ASSUME StKept, NEW c \in StClient, RenamePurges(c)
    PROVE  StKept'
<1> DEFINE i == stJob[c].id
           j == stJob[c].new
           row == stJob[c].copy
           w == row.who
<1>1. /\ UNCHANGED <<stSetting, conn, past, requests, noted, counted>> /\ stJob[c].at = "rename purge"
      /\ kb' = [kb EXCEPT ![i] = NoRow] /\ To(c, "unembed")
  BY DEF RenamePurges, PurgeRow, Bounds
<1>2. BusyOK(c) /\ i \in StId /\ j \in StId BY <1>1, OwnIds DEF StKept, StJobOK, BusyOK
<1>3. HandOK(c) /\ PurgeOK(c) /\ Writes(c) /\ i \in stSetting.own[c] /\ j \in stSetting.own[c]
  BY <1>1, <1>2 DEF BusyOK, InHand, Writes, Renaming
<1>4. PastOK' BY <1>1, PastStays
<1>5. row \in DocRow /\ Fits(i, row) /\ (StLive(i) => kb[i] = row) /\ w \in StId
  BY <1>3, RowFacts DEF HandOK
<1>6. w \in stSetting.own[c] BY <1>3, <1>5, WhoIsOwn
<1>7. kb \in [StId -> DocRow \cup {NoRow}] /\ at \in [StId -> SUBSET StId] BY DEF StKept, RowsOK
<1>8. kb' \in [StId -> DocRow \cup {NoRow}] /\ kb'[i] = NoRow /\ \A k \in StId \ {i} : kb'[k] = kb[k]
  BY <1>1, <1>2, <1>7
<1>9. /\ at' \in [StId -> SUBSET StId] /\ \A v \in StId \ {w} : at'[v] = at[v]
      /\ at'[w] = (IF at[w] = {} THEN {} ELSE {j})
  BY <1>2, <1>5, <1>7 DEF RenamePurges, AtNew
<1>10. RowsOK'
  <2>1. \A k \in StId : kb'[k] # NoRow => Fits(k, kb[k])'
    <3> SUFFICES ASSUME NEW k \in StId, kb'[k] # NoRow PROVE Fits(k, kb[k])' OBVIOUS
    <3>1. kb'[k] = kb[k] /\ Fits(k, kb[k]) BY <1>8, RowsTyped
    <3> QED BY <1>1, <3>1 DEF Fits
  <2>2. NoneDead'
    <3> SUFFICES ASSUME NEW v \in StId, NEW k \in StId, at'[v] # {}, kb'[k] # NoRow, kb'[k].who = v
                 PROVE  ~kb'[k].dead
      BY DEF NoneDead
    <3>1. at[v] # {} /\ kb'[k] = kb[k] BY <1>8, <1>9
    <3> QED BY <3>1, RowLives DEF StLive
  <2>3. RowFound'
    <3> SUFFICES ASSUME NEW v \in StId, at'[v] # {} PROVE \E k \in at'[v] : StLive(k)' /\ kb'[k].who = v
      BY DEF RowFound
    <3>1. CASE v = w
      <4>1. at[w] # {} /\ at'[w] = {j} BY <1>9, <3>1
      <4>2. StLive(j) /\ kb[j].who = w BY <1>3, <4>1 DEF PurgeOK
      <4>3. i # j BY <1>1, <1>2 DEF BusyOK, Renaming
      <4>4. kb'[j] = kb[j] BY <1>2, <1>8, <4>3
      <4> QED BY <3>1, <4>1, <4>2, <4>4 DEF StLive
    <3>2. CASE v # w
      <4>1. PICK k \in at[v] : StLive(k) /\ kb[k].who = v BY <1>9, <3>2 DEF StKept, RowsOK, RowFound
      <4>2. k \in StId BY <1>7, <4>1
      <4>3. k # i BY <1>5, <3>2, <4>1
      <4>4. kb'[k] = kb[k] BY <1>8, <4>2, <4>3
      <4> QED BY <1>9, <3>2, <4>1, <4>4 DEF StLive
    <3> QED BY <3>1, <3>2
  <2> QED BY <1>1, <1>8, <1>9, <2>1, <2>2, <2>3 DEF RowsOK, StKept
<1>11. StepOf(c) /\ StJobOK(c)' BY <1>1, ToPlain
<1>13. \A d \in StClient \ {c} : StJobOK(d)'
  <2>1. \A k \in StId \ stSetting.own[c] : kb'[k] = kb[k] /\ at'[k] = at[k] BY <1>3, <1>6, <1>8, <1>9
  <2>2. \A k \in StId : kb'[k] = kb[k] \/ kb'[k] = NoRow \/ kb'[k].who \in stSetting.own[c] BY <1>8
  <2> QED BY <1>1, <1>3, <1>11, <2>1, <2>2, OthersStay
<1> QED BY <1>4, <1>10, <1>11, <1>13 DEF StKept, StepOf

LEMMA StKeptHolds == StSpec => []StKept
<1>1. StInit => StKept
  <2> SUFFICES ASSUME StInit PROVE StKept OBVIOUS
  <2>1. RowsOK BY DEF StInit, RowsOK, NoneDead, RowFound
  <2>2. PastOK BY DEF StInit, PastOK
  <2> QED BY <2>1, <2>2 DEF StInit, StKept, StJobOK, StIdle
<1>2. StKept /\ [StNext]_stVars => StKept'
  <2> SUFFICES ASSUME StKept, [StNext]_stVars PROVE StKept' OBVIOUS
  <2>1. CASE UNCHANGED stVars
    <3>1. RowsOK' /\ PastOK' /\ stJob' = [c \in StClient |-> stJob'[c]]
      BY <2>1 DEF stVars, StKept, RowsOK, PastOK, NoneDead, RowFound, Fits, StLive
    <3>2. ASSUME NEW c \in StClient PROVE StJobOK(c)'
      <4>1. StJobOK(c) BY DEF StKept
      <4> QED BY <2>1, <4>1 DEF stVars, StJobOK, BusyOK, HandOK, PurgeOK, OnlyHere, Fits, StLive, Sqlite, Mongo
    <3> QED BY <3>1, <3>2 DEF StKept
  <2>2. CASE StCrash BY <2>2, CrashKeeps
  <2>3. ASSUME NEW c \in StClient, NEW r \in StRequest, NEW i \in StId, NEW j \in StId, StBegin(c, r, i, j)
        PROVE  StKept'
    BY <2>3, BeginKeeps
  <2>4. ASSUME NEW c \in StClient,
               \/ StAdd(c) \/ PutLooks(c) \/ PutWrites(c) \/ Unembed(c) \/ Embed(c) \/ StRefused(c)
               \/ StDelete(c) \/ StPurge(c) \/ StSweep(c)
        PROVE  StKept'
    BY <2>4, AddKeeps, PutLooksKeeps, PutWritesKeeps, VectorsKeep, DeletesKeep
  <2>5. ASSUME NEW c \in StClient,
               \/ RenameReads(c) \/ RenameLooks(c) \/ RenameCopies(c) \/ RenamePurges(c)
        PROVE  StKept'
    BY <2>5, RenameReadsKeeps, RenameCopiesKeeps, RenamePurgesKeeps
  <2>6. ASSUME NEW c \in StClient,
               \/ StNote(c) \/ DigestUpdates(c) \/ DigestInserts(c) \/ MarkReads(c) \/ MarkRow(c) \/ MarkAll(c)
               \/ CountReads(c) \/ CountWrites(c) \/ StFails(c)
        PROVE  StKept'
    BY <2>6, NoteKeeps, DigestUpdatesKeeps, DigestInsertsKeeps, MarksKeep, CountReadsKeeps, CountWritesKeeps, FailsKeeps
  <2>7. ASSUME NEW c \in StClient,
               \/ AnchorDocument(c) \/ AnchorNothing(c) \/ AnchorTask(c) \/ CloseSeat(c)
               \/ ArmTimer(c) \/ FireTimer(c) \/ KeepRecord(c) \/ DropRecord(c)
        PROVE  StKept'
    BY <2>7, SidesKeep
  <2> QED BY <2>1, <2>2, <2>3, <2>4, <2>5, <2>6, <2>7 DEF StNext
<1> QED BY <1>1, <1>2, PTL DEF StSpec

\* Whatever the engine, the clients and the failures: what was answered to be stored is
\* there, a document that nobody deleted under the id its last rename gave it or, when
\* that has failed, under one of two; history; and the counts of the seat (sqlite.rs,
\* mongodb.rs, the trait's kb_rename).
THEOREM StoredStays == StSpec => []StoredIsKept
<1>1. StKept => StoredIsKept BY DEF StKept, RowsOK, PastOK, RowFound, StoredIsKept
<1> QED BY <1>1, StKeptHolds, PTL
=============================================================================

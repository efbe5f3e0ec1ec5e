--------------------------- MODULE ExternalState ---------------------------
(***************************************************************************)
(* External state: text objects of a seat with an etag, changed by         *)
(* state_put and state_delete (crates/slc-mcp/src/server.rs).              *)
(*                                                                         *)
(* A call reads the object, compares the etag and writes in two calls to   *)
(* the store.  The etag is a hash of the content, here the content itself: *)
(* equal contents have equal etags, whoever wrote them.  The version is    *)
(* left out; nothing compares it.                                          *)
(*                                                                         *)
(* MatchesGone is a deliberate mistake.                                    *)
(***************************************************************************)
EXTENDS Naturals

CONSTANTS
    ObjectKey,      \* seat, namespace and key of an object
    Text,           \* contents of objects
    NoText,         \* the empty etag: no object
    AnyEtag,        \* a call without expected_etag
    ObjectClient,
    MaxObjectSteps  \* steps after which no call begins (bound)

ASSUME TextAssumption == NoText \notin Text /\ AnyEtag \notin Text \cup {NoText}

NoCall == [at |-> "no call"]

VARIABLES
    object,  \* the stored content of each key
    call,    \* where each client's call is
    clock,   \* steps taken
    etags,   \* the etags that writes gave to objects, and when
    won      \* answered puts with an expected etag: when they began and ended

objectVars == <<object, call, clock, etags, won>>

MatchesGone(k, expected) == object[k] = NoText \/ expected \in {AnyEtag, object[k]}

\* kb_get, and the comparison with the expected etag.
Matches(k, expected) == expected \in {AnyEtag, object[k]}

Begins(c, new) ==
    /\ call[c] = NoCall /\ clock < MaxObjectSteps /\ clock' = clock + 1
    /\ call' = [call EXCEPT ![c] = new]
    /\ UNCHANGED <<object, etags, won>>

StatePut(c, k, text, expected) ==
    /\ Matches(k, expected)
    /\ Begins(c, [at |-> "put", key |-> k, text |-> text, expected |-> expected, began |-> clock + 1])

StateDelete(c, k, expected) ==
    /\ object[k] # NoText /\ Matches(k, expected)
    /\ Begins(c, [at |-> "delete", key |-> k])

Gives(c, text) ==
    /\ clock' = clock + 1
    /\ object' = [object EXCEPT ![call[c].key] = text]
    /\ etags' = etags \cup {[key |-> call[c].key, etag |-> text, at |-> clock']}
    /\ call' = [call EXCEPT ![c] = NoCall]

\* kb_replace, whatever is there by now.
StateWritten(c) ==
    /\ call[c].at = "put"
    /\ Gives(c, call[c].text)
    /\ won' = IF call[c].expected = AnyEtag THEN won
              ELSE won \cup {[key |-> call[c].key, expected |-> call[c].expected,
                              began |-> call[c].began, ended |-> clock']}

StatePurged(c) ==
    /\ call[c].at = "delete"
    /\ Gives(c, NoText)
    /\ UNCHANGED won

ObjectInit ==
    /\ object = [k \in ObjectKey |-> NoText]
    /\ call = [c \in ObjectClient |-> NoCall]
    /\ clock = 0 /\ etags = {} /\ won = {}

ObjectNext ==
    \E c \in ObjectClient :
        \/ \E k \in ObjectKey, x \in Text \cup {NoText, AnyEtag} :
             StateDelete(c, k, x) \/ \E t \in Text : StatePut(c, k, t, x)
        \/ StateWritten(c) \/ StatePurged(c)

ObjectSpec == ObjectInit /\ [][ObjectNext]_objectVars

\* Optimistic concurrency (README.md:160, server.rs:1090) is what it promises when
\* calls do not overlap: of two puts that expect one etag of an object and are both
\* answered with success, the second began before the first ended, or the object was
\* given that etag again after the first and before the second.
WinnersOverlap ==
    \A p, q \in won :
        p.key = q.key /\ p.expected = q.expected /\ p.ended < q.began
          => \E g \in etags : /\ g.key = p.key /\ g.etag = p.expected
                              /\ p.ended <= g.at /\ g.at < q.began
=============================================================================

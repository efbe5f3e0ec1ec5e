------------------------------ MODULE Focuses ------------------------------
(***************************************************************************)
(* The focuses of one seat and their dependencies (FocusManager,           *)
(* crates/slc-core/src/focus.rs), as the tools and the web API use them.   *)
(*                                                                         *)
(* Every operation is a series of calls to the store: the records are read,*)
(* a dependency is followed or a copy is written back in one step each.    *)
(*                                                                         *)
(* FollowDirect is a deliberate mistake.                                   *)
(***************************************************************************)
EXTENDS Naturals, FiniteSets

CONSTANTS
    Focus,           \* focus ids, each given once
    Mind,            \* scopes
    FocusClient,     \* requests in flight
    MaxFocuses,      \* active focuses of a scope
    FocusSettings    \* what each client asks for, one of them in each behaviour

\* Either no client changes dependencies, or beside the one that does the others only add.
ASSUME FocusAssumption ==
    \A a \in FocusSettings :
        \/ \A c \in FocusClient : "update" \notin a[c]
        \/ \E c \in FocusClient : \A d \in FocusClient \ {c} : a[d] \subseteq {"add"}

NoFocus == [mind |-> "none"]

VARIABLES
    asks,      \* the requests of each client
    focus,     \* the records
    given,     \* ids that were given out
    todo,      \* where each request is
    halted     \* whether the service stopped once (bound)

focusVars == <<asks, focus, given, todo, halted>>

Kept == {i \in Focus : focus[i] # NoFocus}
Free == [at |-> "free"]
Turns(c, state) == todo' = [todo EXCEPT ![c] = state]
Asked(c, what) == what \in asks[c] /\ todo[c] = Free

\* get_active: neither archived nor decayed below the threshold.
ActiveFocuses == {i \in Kept : ~focus[i].archived /\ ~focus[i].decayed}

----------------------------------------------------------------------------
(* add, update, set_archived *)

BeginAdd(c) ==
    /\ Asked(c, "add")
    /\ \E m \in Mind, i \in Focus \ given, D \in SUBSET given :
         /\ Cardinality({j \in ActiveFocuses : focus[j].mind = m}) < MaxFocuses
         /\ given' = given \cup {i}
         /\ Turns(c, [at |-> "follow", id |-> i, stack |-> D, seen |-> {},
                      copy |-> [mind |-> m, deps |-> D, archived |-> FALSE, decayed |-> FALSE]])
    /\ UNCHANGED <<asks, focus, halted>>

\* An update of title or priority writes back what it read.
BeginUpdate(c) ==
    /\ Asked(c, "update")
    /\ \E i \in Kept :
         \/ Turns(c, [at |-> "put", id |-> i, copy |-> focus[i]])
         \/ \E D \in SUBSET given :
              Turns(c, [at |-> "follow", id |-> i, stack |-> D, seen |-> {},
                        copy |-> [focus[i] EXCEPT !.deps = D]])
    /\ UNCHANGED <<asks, focus, given, halted>>

BeginArchive(c) ==
    /\ Asked(c, "archive")
    /\ \E i \in Kept :
         Turns(c, [at |-> "put", id |-> i, copy |-> [focus[i] EXCEPT !.archived = ~@]])
    /\ UNCHANGED <<asks, focus, given, halted>>

FollowDirect(c) ==
    /\ todo[c].at = "follow" /\ todo[c].stack # {}
    /\ \E i \in todo[c].stack :
         IF i = todo[c].id \/ focus[i] = NoFocus THEN Turns(c, Free)
         ELSE Turns(c, [todo[c] EXCEPT !.seen = @ \cup {i}, !.stack = @ \ {i}])
    /\ UNCHANGED <<asks, focus, given, halted>>

\* check_cycle: one dependency is looked up, and its own are put on the stack.
Follow(c) ==
    /\ todo[c].at = "follow" /\ todo[c].stack # {}
    /\ \E i \in todo[c].stack :
         IF i = todo[c].id \/ (i \notin todo[c].seen /\ focus[i] = NoFocus) THEN Turns(c, Free)
         ELSE Turns(c, [todo[c] EXCEPT
                !.seen = @ \cup {i},
                !.stack = (@ \ {i}) \cup (IF i \in todo[c].seen THEN {} ELSE focus[i].deps)])
    /\ UNCHANGED <<asks, focus, given, halted>>

\* The walk is over, the record is written.
PutFocus(c) ==
    /\ \/ todo[c].at = "put"
       \/ todo[c].at = "follow" /\ todo[c].stack = {}
    /\ focus' = [focus EXCEPT ![todo[c].id] = todo[c].copy]
    /\ Turns(c, Free)
    /\ UNCHANGED <<asks, given, halted>>

----------------------------------------------------------------------------
(* remove *)

RemoveFocus(c) ==
    /\ Asked(c, "remove")
    /\ \E i \in Kept :
         /\ focus' = [focus EXCEPT ![i] = NoFocus]
         /\ Turns(c, [at |-> "list", id |-> i])
    /\ UNCHANGED <<asks, given, halted>>

Unlinked(i) ==
    [j \in {k \in Kept : i \in focus[k].deps} |-> [focus[j] EXCEPT !.deps = @ \ {i}]]
ListDependents(c) ==
    /\ todo[c].at = "list"
    /\ Turns(c, [at |-> "unlink", copies |-> Unlinked(todo[c].id)])
    /\ UNCHANGED <<asks, focus, given, halted>>

Unlink(c) ==
    /\ todo[c].at = "unlink"
    /\ LET copies == todo[c].copies
       IN  IF DOMAIN copies = {} THEN Turns(c, Free) /\ UNCHANGED focus
           ELSE \E j \in DOMAIN copies :
                  /\ focus' = [focus EXCEPT ![j] = copies[j]]
                  /\ Turns(c, [at |-> "unlink", copies |-> [k \in DOMAIN copies \ {j} |-> copies[k]]])
    /\ UNCHANGED <<asks, given, halted>>

----------------------------------------------------------------------------

\* decay_score falls below the threshold.
Decay(i) ==
    /\ i \in ActiveFocuses
    /\ focus' = [focus EXCEPT ![i].decayed = TRUE]
    /\ UNCHANGED <<asks, given, todo, halted>>

\* The service stops between two calls; the records stay.
StopFocuses ==
    /\ ~halted /\ halted' = TRUE
    /\ todo' = [c \in FocusClient |-> Free]
    /\ UNCHANGED <<asks, focus, given>>

FocusInit ==
    /\ asks \in FocusSettings
    /\ focus = [i \in Focus |-> NoFocus] /\ given = {}
    /\ todo = [c \in FocusClient |-> Free] /\ halted = FALSE

FocusNext ==
    \/ \E c \in FocusClient :
         \/ BeginAdd(c) \/ BeginUpdate(c) \/ BeginArchive(c) \/ Follow(c) \/ PutFocus(c)
         \/ RemoveFocus(c) \/ ListDependents(c) \/ Unlink(c)
    \/ \E i \in Focus : Decay(i)
    \/ StopFocuses

FocusSpec == FocusInit /\ [][FocusNext]_focusVars

----------------------------------------------------------------------------
(* Properties *)

\* get_unblocked never leaves a seat with active focuses and nothing to do: the
\* dependencies stay free of cycles through additions, changes, removals cut short
\* by a restart, archiving and decay (focus.rs:289).
Unblocked == {i \in ActiveFocuses : focus[i].deps \cap ActiveFocuses = {}}
SomethingUnblocked == ActiveFocuses # {} => Unblocked # {}
=============================================================================

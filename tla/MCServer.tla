---------------------------- MODULE MCServer -------------------------------
(***************************************************************************)
(* Small instances for TLC of what the server does around a call: answers  *)
(* in pages, accounts, delegated work, contexts, searches and the transport *)
(* itself.  They share no state; each behaviour is of one of them.         *)
(***************************************************************************)
EXTENDS Pages, Accounts, Delegation, Context, Search, Transport, TLC

CONSTANTS c1, c2, n, m, w1, w2, t1, t2, t3, g, s, i1, i2, i3, a1, a2, b1, Parts

VARIABLE part

----------------------------------------------------------------------------

\* A list with items that fit, one that is cut by its content and one that
\* has none; one object with a long content.
SomeAnswers ==
    { [list |-> TRUE, items |-> <<[size |-> 1, body |-> 1], [size |-> 5, body |-> 4],
                                  [size |-> 1, body |-> 0], [size |-> 5, body |-> 0]>>],
      [list |-> FALSE, items |-> <<[size |-> 6, body |-> 5]>>] }
OwnLimits == (c1 :> 0) @@ (c2 :> 3)

----------------------------------------------------------------------------

\* Two handlers that register and use users, that edit rules, and that come
\* from the provider.
Registering == (c1 :> {"register", "login", "active"}) @@ (c2 :> {"register", "refresh", "groups"})
Ruling == [x \in {c1, c2} |-> {"addRule", "updateRule", "dropRule"}]
Provider == (c1 :> {"authorize", "callback", "exchange"}) @@ (c2 :> {"callback", "addRule"})
AllHandlers == {Registering, Ruling, Provider}

----------------------------------------------------------------------------

\* The manager assigns to two principals, one of which works.
Callers == (c1 :> m) @@ (c2 :> w1)
\* Roots of one identity, alone; three tasks in one lane; a root and its children.
Roots ==
    [ asks |-> (c1 :> {m, w1}) @@ (c2 :> {}), kinds |-> {"root"}, keys |-> {g, NoDgKey},
      tasks |-> 2, edits |-> 1, faults |-> 1 ]
OneLane ==
    [ Roots EXCEPT !.asks = (c1 :> {w1}) @@ (c2 :> {w1}), !.kinds = {"plain"}, !.keys = {NoDgKey},
                   !.tasks = 3, !.edits = 0 ]
Children ==
    [ Roots EXCEPT !.asks = (c1 :> {w1}) @@ (c2 :> {m, w1}), !.kinds = {"root", "child"}, !.keys = {NoDgKey} ]
AllDelegations == {Roots, OneLane, Children}
OfManager == {<<m, w1>>}
HoldLists == {{}, {w1}, {m}}

----------------------------------------------------------------------------

\* A document that links to a large one, which links to a small one; the limits
\* leave everything in, something out, and let a model summarise.
X(size, open, links) == [size |-> size, open |-> open, links |-> links]
Chain == (i1 :> X(2, TRUE, <<i2>>)) @@ (i2 :> X(4, TRUE, <<i3, i1, b1>>)) @@ (i3 :> X(1, TRUE, <<>>))
         @@ (b1 :> X(2, TRUE, <<>>))
Reader(limit) ==
    [ active |-> i1, policy |-> NoCxDoc, focuses |-> TRUE, own |-> 0, seatLimit |-> limit, default |-> 30,
      profiles |-> <<[id |-> "seat_profile", size |-> 3, whole |-> TRUE],
                     [id |-> "user_profile", size |-> 1, whole |-> TRUE]>> ]
Policy == [Reader(8) EXCEPT !.policy = i2, !.own = 6]
Closed == [Chain EXCEPT ![i2] = X(9, FALSE, <<i3>>)]
BaseDocs == <<b1>>
AllWorlds ==
    { [seat |-> x, docs |-> d] : x \in {Reader(5), Reader(10), Reader(0), Policy}, d \in {Chain, Closed} }

----------------------------------------------------------------------------

\* Two documents, one of the searching seat's and one that is public.
D(content, owner) == [content |-> content, owner |-> owner, dead |-> FALSE, at |-> 0]
Near == (a1 :> 10) @@ (a2 :> 4)
ByWords == (a1 :> 0) @@ (a2 :> 5)
Quiet ==
    [ docs |-> (i1 :> D(a1, SrPublic)) @@ (i2 :> D(a2, w1)), seat |-> (c1 :> w1) @@ (c2 :> w2),
      searchers |-> {c1}, writers |-> {c2}, stale |-> FALSE, mongo |-> FALSE, rerank |-> FALSE,
      puts |-> 2, searches |-> 1 ]
Searchers ==
    { Quiet, [Quiet EXCEPT !.stale = TRUE, !.puts = 1, !.searches = 2],
      [Quiet EXCEPT !.mongo = TRUE, !.rerank = TRUE, !.puts = 1],
      [Quiet EXCEPT !.seat = (c1 :> SrNobody) @@ (c2 :> w2), !.puts = 1] }

----------------------------------------------------------------------------

\* Two seats that number their requests alike, on one stream each, one of the clients
\* taking the body too; a token that is good for one of two clients of one seat; a
\* client that names its seat to the stream only, and one with a session.
Legacy(header) ==
    [ header |-> header, query |-> NoSeat, tokens |-> {}, route |-> "messages", reads |-> FALSE,
      base |-> 0, kinds |-> {"open", "call"}, posts |-> 2 ]
Strangers ==
    [ mode |-> "legacy", links |-> 2, letters |-> 1, faults |-> 0,
      clients |-> (c1 :> Legacy(w1))
                  @@ (c2 :> [Legacy(w2) EXCEPT !.reads = TRUE, !.kinds = {"call", "reply"}, !.posts = 1]) ]
Tokens ==
    [ mode |-> "bearer", links |-> 3, letters |-> 0, faults |-> 1,
      clients |-> (c1 :> [Legacy(w1) EXCEPT !.tokens = {w1}])
                  @@ (c2 :> [Legacy(w1) EXCEPT !.reads = TRUE, !.tokens = {w2}, !.base = 2, !.posts = 1]) ]
Modern ==
    [ mode |-> "embedded", links |-> 2, letters |-> 1, faults |-> 0,
      clients |-> (c1 :> [Legacy(NoSeat) EXCEPT !.query = w1])
                  @@ (c2 :> [Legacy(w1) EXCEPT !.reads = TRUE, !.route = "mcp", !.base = 2, !.posts = 1]) ]
AllTransports == {Strangers, Tokens, Modern}

----------------------------------------------------------------------------

MCInit ==
    /\ part \in Parts /\ PgInit /\ AcInit /\ DgInit /\ CxInit /\ SrInit /\ TrInit
    /\ part = "pages" \/ pgLimit = CHOOSE l \in PgLimits : TRUE
    /\ part = "accounts" \/ acSetting = Ruling
    /\ part = "context" \/ (cxWorld = Reader(5) /\ cxDocs = Chain)
    /\ part = "delegation" \/ dgSetting = Roots
    /\ part = "search" \/ srSetting = Quiet
    /\ part = "transport" \/ trSetting = Strangers

\* A step changes the variables of its own part.
Only(p) ==
    /\ part = p /\ UNCHANGED part
    /\ p # "pages" => UNCHANGED pgVars
    /\ p # "accounts" => UNCHANGED acVars
    /\ p # "delegation" => UNCHANGED dgVars
    /\ p # "context" => UNCHANGED cxVars
    /\ p # "search" => UNCHANGED srVars
    /\ p # "transport" => UNCHANGED trVars

MCNext ==
    \/ Only("pages") /\ PgNext
    \/ Only("accounts") /\ AcNext
    \/ Only("delegation") /\ DgNext
    \/ Only("context") /\ CxNext
    \/ Only("search") /\ SrNext
    \/ Only("transport") /\ TrNext

MCSpec == MCInit /\ [][MCNext]_<<part, pgVars, acVars, dgVars, cxVars, srVars, trVars>>
=============================================================================

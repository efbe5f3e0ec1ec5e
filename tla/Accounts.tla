------------------------------- MODULE Accounts --------------------------------
(***************************************************************************)
(* Users of the web UI in full mode (crates/slc-mcp/src/auth): the lists   *)
(* of users and of OAuth rules in memory, each behind a lock and each      *)
(* written to its file as a whole after a change, the one-time codes, the  *)
(* limit on attempts, and the handlers, which run on threads of their own  *)
(* and hold no lock from what they read to what they write.                *)
(*                                                                         *)
(* A refresh token is its user and the second it was made in.  Permissions *)
(* and the audit log, which changes nothing, are left out: a request that  *)
(* is refused for them does nothing.                                       *)
(*                                                                         *)
(* SaveRead is a deliberate mistake.                                       *)
(***************************************************************************)
EXTENDS Naturals, Sequences

CONSTANTS
    AcRequest,    \* handlers in flight
    AcName,       \* user names, and values of rules
    AcSettings,   \* what each handler may be asked, one of them in each behaviour
    RateMax, RateWindow, CodeTtl,
    MaxAcOps, MaxAcFaults, MaxAcClock    \* bounds

AcKinds == {"register", "login", "refresh", "active", "groups", "authorize", "callback", "exchange",
            "addRule", "updateRule", "dropRule"}

ASSUME AccountsAssumption ==
    /\ AcSettings \subseteq [AcRequest -> SUBSET AcKinds]
    /\ RateMax \in Nat \ {0} /\ RateWindow \in Nat /\ CodeTtl \in Nat

VARIABLES
    acSetting,
    users, rules,            \* in memory: users in the order of insertion, rules in any
    usersFile, rulesFile,    \* users.json, oauth_rules.json
    codes,      \* one-time codes, and states of a login at the provider
    tries,      \* seconds of the attempts that were let through
    tokens,     \* refresh tokens that were given out
    acJob,      \* where each handler is
    keptUsers, keptRules,    \* ids that an answered request has stored
    dropped, goneRules,      \* rules whose deletion has begun, and was answered
    acClock, acOps, acFaults

Lists == <<users, rules, usersFile, rulesFile>>
AcKept == <<keptUsers, keptRules, dropped, goneRules>>
AcBounds == <<acSetting, acClock, acOps, acFaults>>
acVars == <<Lists, codes, tries, tokens, acJob, AcKept, AcBounds>>

AcIdle == [at |-> "idle"]
AcGoes(r, x) == acJob' = [acJob EXCEPT ![r] = x]
AcAt(r, where) == acJob[r].at = where

HasId(list, id) == \E k \in 1..Len(list) : list[k].id = id
Named(list, n) == {k \in 1..Len(list) : list[k].name = n}
RuleIds(list) == {v.id : v \in list}
FirstOf(list, ks) == list[CHOOSE k \in ks : \A m \in ks : k <= m]

----------------------------------------------------------------------------
(* The lists: insert_user, update_user, insert_rule, update_rule, delete_rule *)

Replaced(list, x) == [k \in 1..Len(list) |-> IF list[k].id = x.id THEN x ELSE list[k]]
Without(list, id) == {v \in list : v.id # id}

\* After a change in memory the handler saves, and then answers with what it makes.
Saving(r, list, x, made) ==
    AcGoes(r, [at |-> "save", list |-> list, x |-> x, makes |-> made,
               read |-> IF list = "users" THEN users ELSE rules])

InsertUser(r, u, made) == users' = Append(users, u) /\ Saving(r, "users", u, made)
UpdateUser(r, u, made) ==
    /\ users' = IF HasId(users, u.id) THEN Replaced(users, u) ELSE Append(users, u)
    /\ Saving(r, "users", u, made)

SaveRead(r) == acJob[r].read

\* save_users and save_rules lock the list again and write what it holds then.
Saved(r) == IF acJob[r].list = "users" THEN users ELSE rules

NewToken(id) == [user |-> id, made |-> acClock]
LiveCodes == {p \in codes : acClock - p.made <= CodeTtl}

AcSave(r) == LET j == acJob[r] IN
    /\ AcAt(r, "save") /\ AcGoes(r, AcIdle)
    /\ IF j.list = "users"
       THEN usersFile' = Saved(r) /\ keptUsers' = keptUsers \cup {j.x.id} /\ UNCHANGED <<rulesFile, keptRules, goneRules>>
       ELSE /\ rulesFile' = Saved(r) /\ UNCHANGED <<usersFile, keptUsers>>
            /\ IF j.makes = "gone"
               THEN goneRules' = goneRules \cup {j.x.id} /\ UNCHANGED keptRules
               ELSE keptRules' = keptRules \cup {j.x.id} /\ UNCHANGED goneRules
    /\ tokens' = tokens \cup (IF j.makes = "tokens" THEN {NewToken(j.x.id)} ELSE {})
    /\ codes' = IF j.makes = "code" THEN LiveCodes \cup {[made |-> acClock, user |-> j.x.id]} ELSE codes
    /\ UNCHANGED <<users, rules, tries, dropped, AcBounds>>

\* The write fails: the caller gets an error, memory keeps the change.
AcSaveFails(r) ==
    /\ AcAt(r, "save") /\ acFaults < MaxAcFaults /\ acFaults' = acFaults + 1
    /\ AcGoes(r, AcIdle)
    /\ UNCHANGED <<Lists, codes, tries, tokens, AcKept, acSetting, acClock, acOps>>

----------------------------------------------------------------------------
(* Requests: what they read, and then what they write *)

AcAsked(r, kind) ==
    /\ AcAt(r, "idle") /\ kind \in acSetting[r]
    /\ acOps < MaxAcOps /\ acOps' = acOps + 1
    /\ UNCHANGED <<Lists, tokens, AcKept, acSetting, acClock, acFaults>>

\* check: attempts that are older than the window are forgotten.
Recent(key) == SelectSeq(tries[key], LAMBDA t : acClock - t < RateWindow)
LetThrough(key) == Len(Recent(key)) < RateMax
Counts(key) == tries' = [tries EXCEPT ![key] = IF LetThrough(key) THEN Append(Recent(key), acClock) ELSE Recent(key)]

NewUser(n, oauth) == [id |-> acOps', name |-> n, oauth |-> oauth, active |-> TRUE, groups |-> 0, rotated |-> 0]
GoesIf(r, ok, x) == AcGoes(r, IF ok THEN x ELSE AcIdle)

\* register: no user of that name yet; the password is hashed before the insertion.
Register(r, n) ==
    /\ AcAsked(r, "register") /\ Counts("register")
    /\ GoesIf(r, LetThrough("register") /\ Named(users, n) = {}, [at |-> "insert", x |-> NewUser(n, FALSE)])
    /\ UNCHANGED codes

\* login: the first user of that name; the password is verified before the update.
Login(r, n) ==
    LET ks == Named(users, n) IN
    /\ AcAsked(r, "login") /\ Counts("login")
    /\ IF LetThrough("login") /\ ks # {} /\ FirstOf(users, ks).active
       THEN AcGoes(r, [at |-> "update", x |-> FirstOf(users, ks), makes |-> "tokens"]) ELSE AcGoes(r, AcIdle)
    /\ UNCHANGED codes

\* refresh: the hash that is kept is of a token made now, as the one that is
\* given out is; a token with the kept hash is refused and the hash cleared.
Refresh(r) == \E t \in tokens : \E k \in 1..Len(users) :
    /\ users[k].id = t.user
    /\ AcAsked(r, "refresh")
    /\ IF ~users[k].active THEN AcGoes(r, AcIdle)
       ELSE IF users[k].rotated = t.made
       THEN AcGoes(r, [at |-> "update", x |-> [users[k] EXCEPT !.rotated = 0], makes |-> "error"])
       ELSE AcGoes(r, [at |-> "update", x |-> [users[k] EXCEPT !.rotated = acClock], makes |-> "tokens"])
    /\ UNCHANGED <<codes, tries>>

\* toggle_user_active and update_user_groups.
Administer(r) == \E k \in 1..Len(users) : \E kind \in {"active", "groups"} :
    /\ AcAsked(r, kind)
    /\ AcGoes(r, [at |-> "update", makes |-> "done",
                  x |-> IF kind = "active" THEN [users[k] EXCEPT !.active = ~@] ELSE [users[k] EXCEPT !.groups = 1 - @]])
    /\ UNCHANGED <<codes, tries>>

\* oauth_yandex_redirect: the state that the callback must bring.
Authorize(r) ==
    /\ AcAsked(r, "authorize")
    /\ codes' = LiveCodes \cup {[made |-> acClock, user |-> 0]}
    /\ UNCHANGED <<acJob, tries>>

\* check_rules, or the list of the environment, which is empty, when there are none.
Allowed(n) == rules = {} \/ \E v \in rules : v.name = n

\* oauth_yandex_callback: the state is used up; the provider names the user, if it
\* answers, and may be asked for groups and organisations by a rule.
Callback(r, n) == \E p \in {q \in codes : q.user = 0} :
    LET ks == {k \in Named(users, n) : users[k].oauth} IN
    /\ AcAsked(r, "callback") /\ codes' = codes \ {p}
    /\ \/ AcGoes(r, AcIdle)
       \/ /\ acClock - p.made <= CodeTtl /\ Allowed(n)
          /\ IF ks = {} THEN AcGoes(r, [at |-> "oauthInsert", x |-> NewUser(n, TRUE)])
             ELSE AcGoes(r, [at |-> "update", x |-> FirstOf(users, ks), makes |-> "code"])
    /\ UNCHANGED tries

\* exchange: a code is used up, in time or not; the tokens were made with it.
Exchange(r) == \E p \in {q \in codes : q.user # 0} :
    /\ AcAt(r, "idle") /\ "exchange" \in acSetting[r] /\ acOps < MaxAcOps /\ acOps' = acOps + 1
    /\ codes' = codes \ {p}
    /\ tokens' = tokens \cup (IF acClock - p.made > CodeTtl THEN {} ELSE {[user |-> p.user, made |-> p.made]})
    /\ UNCHANGED <<Lists, tries, acJob, AcKept, acSetting, acClock, acFaults>>

AddRule(r, n) ==
    /\ AcAsked(r, "addRule")
    /\ GoesIf(r, \A v \in rules : v.name # n, [at |-> "addRule", x |-> [id |-> acOps', name |-> n]])
    /\ UNCHANGED <<codes, tries>>
UpdateRule(r, n) == \E v \in rules :
    /\ AcAsked(r, "updateRule") /\ AcGoes(r, [at |-> "setRule", x |-> [v EXCEPT !.name = n]])
    /\ UNCHANGED <<codes, tries>>
DropRule(r) == \E v \in rules :
    /\ AcAsked(r, "dropRule") /\ AcGoes(r, [at |-> "dropRule", x |-> v])
    /\ UNCHANGED <<codes, tries>>

\* The second half of each: the change in memory, under the lock of the list.
AcWrites(r) == LET x == acJob[r].x IN
    /\ UNCHANGED <<usersFile, rulesFile, codes, tries, tokens, keptUsers, keptRules, goneRules, AcBounds>>
    /\ \/ AcAt(r, "insert") /\ InsertUser(r, x, "tokens") /\ UNCHANGED <<rules, dropped>>
       \/ AcAt(r, "oauthInsert") /\ InsertUser(r, x, "code") /\ UNCHANGED <<rules, dropped>>
       \/ AcAt(r, "update") /\ UpdateUser(r, x, acJob[r].makes) /\ UNCHANGED <<rules, dropped>>
       \/ /\ AcAt(r, "addRule") /\ rules' = rules \cup {x} /\ Saving(r, "rules", x, "done")
          /\ UNCHANGED <<users, dropped>>
       \/ /\ AcAt(r, "setRule") /\ UNCHANGED <<users, dropped>>
          /\ IF x.id \in RuleIds(rules)
             THEN rules' = Without(rules, x.id) \cup {x} /\ Saving(r, "rules", x, "done")
             ELSE UNCHANGED rules /\ AcGoes(r, AcIdle)
       \/ /\ AcAt(r, "dropRule") /\ UNCHANGED users
          /\ rules' = Without(rules, x.id)
          /\ dropped' = dropped \cup {x.id}
          /\ IF x.id \in RuleIds(rules) THEN Saving(r, "rules", x, "gone") ELSE AcGoes(r, AcIdle)

----------------------------------------------------------------------------

AcInit ==
    /\ acSetting \in AcSettings
    /\ users = <<>> /\ rules = {} /\ usersFile = <<>> /\ rulesFile = {}
    /\ codes = {} /\ tokens = {} /\ tries = [key \in {"login", "register"} |-> <<>>]
    /\ acJob = [r \in AcRequest |-> AcIdle]
    /\ keptUsers = {} /\ keptRules = {} /\ dropped = {} /\ goneRules = {}
    /\ acClock = 1 /\ acOps = 0 /\ acFaults = 0

AcTick ==
    /\ acClock < MaxAcClock /\ acClock' = acClock + 1
    /\ UNCHANGED <<Lists, codes, tries, tokens, acJob, AcKept, acSetting, acOps, acFaults>>

\* A restart: load reads the two files; codes and attempts were only in memory.
AcCrash ==
    /\ acFaults < MaxAcFaults /\ acFaults' = acFaults + 1
    /\ users' = usersFile /\ rules' = rulesFile
    /\ codes' = {} /\ tries' = [key \in {"login", "register"} |-> <<>>]
    /\ acJob' = [r \in AcRequest |-> AcIdle]
    /\ UNCHANGED <<usersFile, rulesFile, tokens, AcKept, acSetting, acClock, acOps>>

AcNext ==
    \/ \E r \in AcRequest :
          \/ \E n \in AcName : \/ Register(r, n) \/ Login(r, n) \/ Callback(r, n)
                               \/ AddRule(r, n) \/ UpdateRule(r, n)
          \/ Refresh(r) \/ Administer(r) \/ Authorize(r) \/ Exchange(r) \/ DropRule(r)
          \/ AcWrites(r) \/ AcSave(r) \/ AcSaveFails(r)
    \/ AcTick \/ AcCrash

AcSpec == AcInit /\ [][AcNext]_acVars

\* What an answered request stored is in the file and stays there, although
\* handlers on other threads change the same list and write the same file: no
\* user is lost, no rule is lost before its deletion begins, and a rule whose
\* deletion was answered is gone for good (AuthStore: "written atomically on
\* every change").
AnsweredSaved ==
    /\ \A id \in keptUsers : HasId(usersFile, id)
    /\ \A id \in keptRules \ dropped : id \in RuleIds(rulesFile)
    /\ \A id \in goneRules : id \notin RuleIds(rulesFile) \cup RuleIds(rules)
=============================================================================

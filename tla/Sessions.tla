----------------------------- MODULE Sessions -----------------------------
(***************************************************************************)
(* Accounts, sessions, invite codes and the rate limiter (api/auth.py,     *)
(* services/auth_service.py, core/auth.py, core/ratelimit.py), and the two *)
(* programs that make the superadmin (bootstrap.py, import_sqlite.py).     *)
(* change_own_password and the disabling of accounts are not in the        *)
(* repository: they are modelled from their callers and tests.             *)
(***************************************************************************)
EXTENDS Integers, FiniteSets

CONSTANTS
    Names, AdminNames, Requests, Tokens, NoName, NoToken, NoPass,
    Window,        \* seconds of a fixed window, and the attempts it allows
    Limit,
    SessionTTL, InviteTTL,
    MaxTime, MaxAttempts, MaxPassword, MaxToggles   \* bounds

ASSUME SessionAssumption ==
    /\ AdminNames \subseteq Names /\ AdminNames # {}
    /\ NoName \notin Names /\ NoToken \notin Tokens
    /\ Window \in Nat \ {0} /\ Limit \in Nat \ {0} /\ Window - 1 <= MaxTime
    /\ {SessionTTL, InviteTTL, MaxTime, MaxAttempts, MaxPassword, MaxToggles} \subseteq Nat

VARIABLES
    now,
    users,         \* name |-> account; role "none" when there is none
    sessions,      \* token |-> row of sessions; user NoName when there is none
    invite,        \* the invite code: [made, expires, revoked]
    buckets,       \* <<action, name, window>> |-> attempts counted
    request,       \* the handlers: what each has read
    configured,    \* settings.superadmin_username
    starting,      \* the name init-db is about to insert as superadmin
    admitted,      \* history: the attempts let through
    attempts, toggles

vars == <<now, users, sessions, invite, buckets, request, configured, starting,
          admitted, attempts, toggles>>
store   == <<users, sessions, invite, configured, starting>>
limiter == <<buckets, admitted, attempts>>

-----------------------------------------------------------------------------
Times == Window - 1 .. MaxTime
Ops   == {"login", "register"}

\* An attempt let through; no tells those of one second apart.  The fields
\* by of sessions and handlers are history: the attempt they rest on.
Passed == [op : Ops, name : Names, time : Times, no : Nat]

NoUser == [role |-> "none", status |-> "active", pass |-> 0]
Account(role) == [role |-> role, status |-> "active", pass |-> 0]
NoSession == [user |-> NoName, expires |-> 0, revoked |-> FALSE, by |-> NoPass]
Idle == [at |-> "idle", name |-> NoName, tok |-> NoToken, by |-> NoPass]

TypeOK ==
    /\ now \in Times
    /\ users \in [Names -> [role : {"none", "member", "superadmin"},
                            status : {"active", "disabled"}, pass : 0 .. MaxPassword]]
    /\ sessions \in [Tokens -> [user : Names \cup {NoName}, expires : Nat,
                                revoked : BOOLEAN, by : Passed \cup {NoPass}]]
    /\ invite \in [made : BOOLEAN, expires : Nat, revoked : BOOLEAN]
    /\ \A k \in Ops \X Names \X Times : buckets[k] \in 0 .. MaxAttempts
    /\ admitted \subseteq Passed
    /\ request \in [Requests ->
         [at : {"idle", "insert", "registered", "issue", "look", "inside"},
          name : Names \cup {NoName}, tok : Tokens \cup {NoToken},
          by : Passed \cup {NoPass}]]
    /\ configured \in AdminNames
    /\ starting \in AdminNames \cup {NoName}

Init ==
    /\ now = Window - 1        \* the end of a window
    /\ users = [n \in Names |-> NoUser]
    /\ sessions = [t \in Tokens |-> NoSession]
    /\ invite = [made |-> FALSE, expires |-> 0, revoked |-> FALSE]
    /\ buckets = [k \in Ops \X Names \X (0 .. MaxTime) |-> 0]
    /\ request = [q \in Requests |-> Idle]
    /\ configured \in AdminNames
    /\ starting = NoName
    /\ admitted = {}
    /\ attempts = 0 /\ toggles = 0

Exists(n) == users[n].role # "none"
InviteValid == invite.made /\ ~invite.revoked /\ invite.expires > now

\* The session row get_current_user accepts, and the account.
Opens(t) ==
    /\ sessions[t].user # NoName
    /\ ~sessions[t].revoked /\ sessions[t].expires >= now

Active(n) == Exists(n) /\ users[n].status = "active"

-----------------------------------------------------------------------------
(* The rate limiter                                                        *)

\* window_start, the key of the bucket of an attempt made now.
WindowStart == (now \div Window) * Window

Through(op, n, span) == {a \in admitted : a.op = op /\ a.name = n /\ a.time \in span}

\* The next attempt let through.
Pass(op, n) == [op |-> op, name |-> n, time |-> now,
                no |-> Cardinality(Through(op, n, {now})) + 1]

\* check_and_incr commits before the attempt it admits or refuses: Attempt
\* counts, and takes Then when the count is within the limit.
AttemptMutant(op, n, then, count) ==
    LET k == <<op, n, WindowStart>> IN
    /\ attempts < MaxAttempts
    /\ attempts' = attempts + 1
    /\ buckets' = IF then THEN [buckets EXCEPT ![k] = count] ELSE buckets
    /\ admitted' = IF count <= Limit THEN admitted \cup {Pass(op, n)} ELSE admitted

Attempt(op, n, then, count) ==
    LET k == <<op, n, WindowStart>> IN
    /\ attempts < MaxAttempts
    /\ attempts' = attempts + 1
    /\ buckets' = [buckets EXCEPT ![k] = count]
    /\ admitted' = IF count <= Limit THEN admitted \cup {Pass(op, n)} ELSE admitted

Count(op, n) == buckets[<<op, n, WindowStart>>] + 1

\* verify_password, and the account is active.
LoginOk(n, pass) == Active(n) /\ users[n].pass = pass

\* What is read after the attempt, and the step the handler goes on to.
Proceed(q, op, n, step, ok) ==
    LET count == Count(op, n)
        then  == count <= Limit /\ ok
    IN /\ request[q] = Idle
       /\ Attempt(op, n, then, count)
       /\ request' = IF then THEN [request EXCEPT ![q] = [at |-> step, name |-> n,
                                              tok |-> NoToken, by |-> Pass(op, n)]]
                     ELSE request
       /\ UNCHANGED <<now, store, toggles>>

\* POST /auth/login: the attempt, then the user's row and the password.
Login(q, n, pass) == Proceed(q, "login", n, "issue", LoginOk(n, pass))

\* POST /auth/register: the username is free and the invite valid now.
Register(q, n) == Proceed(q, "register", n, "insert", ~Exists(n) /\ InviteValid)

-----------------------------------------------------------------------------
(* The rest of the two handlers                                            *)

\* The new account is committed, unless the unique username is taken by now.
Insert(q) ==
    /\ request[q].at = "insert"
    /\ IF Exists(request[q].name)
       THEN request' = [request EXCEPT ![q] = Idle] /\ UNCHANGED users
       ELSE /\ users' = [users EXCEPT ![request[q].name] = Account("member")]
            /\ request' = [request EXCEPT ![q].at = "registered"]
    /\ UNCHANGED <<now, sessions, invite, configured, starting, limiter, toggles>>

\* auth_service.login of the account just committed.
RegisterLogin(q) ==
    /\ request[q].at = "registered"
    /\ request' = [request EXCEPT ![q] = IF LoginOk(@.name, 0) THEN [@ EXCEPT !.at = "issue"] ELSE Idle]
    /\ UNCHANGED <<now, store, limiter, toggles>>

\* issue_session, for a password that was verified earlier.
IssueMutant(q, t) ==
    /\ request[q].at = "issue" /\ sessions[t] = NoSession
    /\ sessions' = [sessions EXCEPT ![t] =
         [user |-> request[q].name, expires |-> now + SessionTTL, revoked |-> FALSE,
          by |-> request[q].by]]
    /\ UNCHANGED <<now, users, invite, configured, starting, request, limiter, toggles>>

Issue(q, t) ==
    /\ request[q].at = "issue" /\ sessions[t] = NoSession
    /\ sessions' = [sessions EXCEPT ![t] =
         [user |-> request[q].name, expires |-> now + SessionTTL, revoked |-> FALSE,
          by |-> request[q].by]]
    /\ request' = [request EXCEPT ![q] = Idle]
    /\ UNCHANGED <<now, users, invite, configured, starting, limiter, toggles>>

-----------------------------------------------------------------------------
(* Handlers behind a session                                               *)

\* get_current_user reads the row of the session.
Look(q, t) ==
    /\ request[q] = Idle /\ Opens(t)
    /\ request' = [request EXCEPT ![q] =
         [at |-> "look", name |-> sessions[t].user, tok |-> t, by |-> NoPass]]
    /\ UNCHANGED <<now, store, limiter, toggles>>

\* Then it reads the user, and commits last_seen_at, the only column of the
\* session it changed; the handler runs with the user it read.
AdmitMutant(q) ==
    /\ request[q].at = "look"
    /\ IF Active(request[q].name)
       THEN /\ request' = [request EXCEPT ![q].at = "inside"]
            /\ sessions' = [sessions EXCEPT ![request[q].tok].revoked = FALSE]
       ELSE request' = [request EXCEPT ![q] = Idle] /\ UNCHANGED sessions
    /\ UNCHANGED <<now, users, invite, configured, starting, limiter, toggles>>

Admit(q) ==
    /\ request[q].at = "look"
    /\ request' = IF Active(request[q].name) THEN [request EXCEPT ![q].at = "inside"]
                  ELSE [request EXCEPT ![q] = Idle]
    /\ UNCHANGED <<now, store, limiter, toggles>>

Inside(q) == request[q].at = "inside"
Leave(q)  == request' = [request EXCEPT ![q] = Idle]

Logout(t) ==
    /\ sessions[t].user # NoName /\ ~sessions[t].revoked
    /\ sessions' = [sessions EXCEPT ![t].revoked = TRUE]
    /\ UNCHANGED <<now, users, invite, configured, starting, request, limiter, toggles>>

\* change_own_password, not in the repository: given the current password, the
\* account's other sessions are revoked with the change.
ChangeOwnPassword(n, tok, pass) ==
    IF users[n].pass # pass THEN UNCHANGED <<users, sessions>>
    ELSE /\ users' = [users EXCEPT ![n].pass = @ + 1]
         /\ sessions' = [t \in Tokens |->
              IF sessions[t].user = n /\ t # tok
              THEN [sessions[t] EXCEPT !.revoked = TRUE] ELSE sessions[t]]

\* POST /me/password, with the user and the session read at its start.
ChangePassword(q, pass) ==
    /\ Inside(q) /\ users[request[q].name].pass < MaxPassword
    /\ ChangeOwnPassword(request[q].name, request[q].tok, pass)
    /\ Leave(q)
    /\ UNCHANGED <<now, invite, configured, starting, limiter, toggles>>

\* require_superadmin looks at the row get_current_user read.
Superadmin(q) == Inside(q) /\ users[request[q].name].role = "superadmin"

CreateInvite(q) ==
    /\ Superadmin(q) /\ ~invite.made
    /\ invite' = [made |-> TRUE, expires |-> now + InviteTTL, revoked |-> FALSE]
    /\ Leave(q)
    /\ UNCHANGED <<now, users, sessions, configured, starting, limiter, toggles>>

RevokeInvite(q) ==
    /\ Superadmin(q) /\ invite.made /\ ~invite.revoked
    /\ invite' = [invite EXCEPT !.revoked = TRUE]
    /\ Leave(q)
    /\ UNCHANGED <<now, users, sessions, configured, starting, limiter, toggles>>

\* An administrator disables or enables an account.
Toggle(n) ==
    /\ Exists(n) /\ toggles < MaxToggles
    /\ toggles' = toggles + 1
    /\ users' = [users EXCEPT ![n].status = IF @ = "active" THEN "disabled" ELSE "active"]
    /\ UNCHANGED <<now, sessions, invite, configured, starting, request, limiter>>

-----------------------------------------------------------------------------
(* The makers of the superadmin                                            *)

Superadmins == {n \in Names : users[n].role = "superadmin"}

\* ensure_superadmin: one row skips, none inserts, two make the query raise.
Bootstrap ==
    /\ starting = NoName /\ Superadmins = {}
    /\ starting' = configured
    /\ UNCHANGED <<now, users, sessions, invite, configured, request, limiter, toggles>>

\* Its insert, which the unique username refuses when the name is taken.
BootstrapInsert ==
    /\ starting # NoName
    /\ users' = IF Exists(starting) THEN users
                ELSE [users EXCEPT ![starting] = Account("superadmin")]
    /\ starting' = NoName
    /\ UNCHANGED <<now, sessions, invite, configured, request, limiter, toggles>>

\* _ensure_admin: the configured name, whoever is superadmin already; the
\* import stops when the name is a member's or taken while it runs.
EnsureAdmin ==
    /\ ~Exists(configured)
    /\ users' = [users EXCEPT ![configured] = Account("superadmin")]
    /\ UNCHANGED <<now, sessions, invite, configured, starting, request, limiter, toggles>>

Configure(n) ==
    /\ n # configured
    /\ configured' = n
    /\ UNCHANGED <<now, users, sessions, invite, starting, request, limiter, toggles>>

Tick ==
    /\ now < MaxTime
    /\ now' = now + 1
    /\ UNCHANGED <<store, request, limiter, toggles>>

-----------------------------------------------------------------------------
Next ==
    \/ \E q \in Requests, n \in Names, p \in 0 .. MaxPassword : Login(q, n, p)
    \/ \E q \in Requests, n \in Names : Register(q, n)
    \/ \E q \in Requests : Insert(q) \/ RegisterLogin(q)
    \/ \E q \in Requests, t \in Tokens : Issue(q, t) \/ Look(q, t)
    \/ \E t \in Tokens : Logout(t)
    \/ \E q \in Requests, p \in 0 .. MaxPassword : ChangePassword(q, p)
    \/ \E q \in Requests : Admit(q) \/ CreateInvite(q) \/ RevokeInvite(q)
    \/ \E n \in Names : Toggle(n)
    \/ Bootstrap \/ BootstrapInsert \/ EnsureAdmin
    \/ \E n \in AdminNames : Configure(n)
    \/ Tick

Spec == Init /\ [][Next]_vars

-----------------------------------------------------------------------------
(* Properties                                                              *)

(* In any stretch as long as a window, whatever the interleaving and        *)
(* however many attempts fail, at most twice the limit are let through: the *)
(* fixed window may be met at its end and again at the next one's start.    *)
AttemptsBounded ==
    \A op \in Ops, n \in Names, t \in Times :
      Cardinality(Through(op, n, t .. t + Window - 1)) <= 2 * Limit

(* Every session rests on an attempt of its own that the limiter let       *)
(* through for that name, through login or through registration, its       *)
(* insert and its own login: no interleaving or refusal on the way makes   *)
(* two sessions of one attempt or one of an attempt that was refused.      *)
Issued == {t \in Tokens : sessions[t].user # NoName}

SessionsRestOnAttempts ==
    /\ \A t \in Issued : sessions[t].by \in admitted /\ sessions[t].by.name = sessions[t].user
    /\ \A t, u \in Issued : sessions[t].by = sessions[u].by => t = u

(* Columns keep their types, and sessions rest on attempts let through.     *)
SessionsConsistent == TypeOK /\ SessionsRestOnAttempts

(* An account stays what it is: no request or start changes its role, a     *)
(* registration under way never takes over an account committed since it    *)
(* looked, and a handler is never entered for a disabled account, a session *)
(* issued by a login that raced the disabling included.  A revoked session  *)
(* stays revoked: no request that had read its row before brings it back.   *)
AccountsStand ==
    [][/\ \A n \in Names : Exists(n) => users'[n].role = users[n].role
       /\ \A q \in Requests : request'[q].at = "inside" /\ request[q].at # "inside"
            => users[request'[q].name].status = "active"
       /\ \A t \in Tokens : sessions[t].revoked => sessions'[t].revoked]_vars

(* The start is idempotent: with a superadmin there it skips and succeeds   *)
(* (bootstrap.py: the query for the superadmin returns at most one row).    *)
StartSucceeds == Cardinality(Superadmins) <= 1
=============================================================================

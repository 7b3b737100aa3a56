--------------------------- MODULE SessionsProofs ---------------------------
(***************************************************************************)
(* What accounts and sessions keep, for any number of names, handlers and  *)
(* sessions and in every order of logins, registrations, changes of        *)
(* password, disablings and starts of the system.                          *)
(***************************************************************************)
EXTENDS Sessions, FiniteSetTheorems, TLAPS

UserRow    == [role : {"none", "member", "superadmin"}, status : {"active", "disabled"},
               pass : 0 .. MaxPassword]
SessionRow == [user : Names \cup {NoName}, expires : Nat, revoked : BOOLEAN,
               by : Passed \cup {NoPass}]
Frame == [at : {"idle", "insert", "registered", "issue", "look", "inside"},
          name : Names \cup {NoName}, tok : Tokens \cup {NoToken}, by : Passed \cup {NoPass}]
Keys  == Ops \X Names \X (0 .. MaxTime)

\* The columns of TypeOK, the counts bounded by the attempts made.
TypeInv ==
    /\ now \in Times
    /\ users \in [Names -> UserRow]
    /\ sessions \in [Tokens -> SessionRow]
    /\ invite \in [made : BOOLEAN, expires : Nat, revoked : BOOLEAN]
    /\ request \in [Requests -> Frame]
    /\ configured \in AdminNames
    /\ starting \in AdminNames \cup {NoName}

\* The window a time is in, and the attempts let through in it: no more than
\* its bucket counts, and no more than the limit.
Start(u)  == (u \div Window) * Window
Span(u)   == Start(u) .. Start(u) + Window - 1
WindowInv ==
    \A o \in Ops, m \in Names, u \in 0 .. MaxTime :
        /\ Cardinality(Through(o, m, Span(u))) <= buckets[<<o, m, Start(u)>>]
        /\ Cardinality(Through(o, m, Span(u))) <= Limit

\* Attempts of one second are numbered.
PassInv ==
    /\ admitted \subseteq Passed
    /\ IsFiniteSet(admitted)
    /\ \A a \in admitted : a.no <= Cardinality(Through(a.op, a.name, {a.time}))

CountInv ==
    /\ attempts \in 0 .. MaxAttempts
    /\ buckets \in [Keys -> 0 .. attempts]
    /\ PassInv /\ WindowInv

\* A handler past its first read is about a name, and one that logs in or is
\* inside about an account.
FrameOk(f) ==
    /\ f.at # "idle" => f.name \in Names
    /\ f.at \in {"issue", "look", "inside"} => Exists(f.name)
    /\ f.at \in {"look", "inside"} => f.tok \in Tokens

RequestInv == \A q \in Requests : FrameOk(request[q])
OwnerInv   == \A t \in Tokens : sessions[t].user # NoName => Exists(sessions[t].user)

\* A handler on its way to a session holds an attempt for its name that no
\* other handler holds and no session was made of.
OnItsWay(f) == f.at \in {"insert", "registered", "issue"}

HeldInv ==
    \A q \in Requests : OnItsWay(request[q]) =>
      /\ request[q].by \in admitted /\ request[q].by.name = request[q].name
      /\ \A p \in Requests : OnItsWay(request[p]) /\ request[p].by = request[q].by => p = q
      /\ \A t \in Issued : sessions[t].by # request[q].by

RestInv == HeldInv /\ SessionsRestOnAttempts

SessionsInv == TypeInv /\ CountInv /\ RequestInv /\ OwnerInv /\ RestInv

\* The three parts of AccountsStand.
RolesStay   == \A n \in Names : Exists(n) => users'[n].role = users[n].role
EntryActive == \A q \in Requests : request'[q].at = "inside" /\ request[q].at # "inside"
                 => users[request'[q].name].status = "active"
RevokedStay == \A t \in Tokens : sessions[t].revoked => sessions'[t].revoked

StepOk == RolesStay /\ EntryActive /\ RevokedStay

-----------------------------------------------------------------------------
LEMMA Idling == Idle \in Frame /\ FrameOk(Idle) /\ Idle.at = "idle"
BY SessionAssumption DEF Idle, Frame, FrameOk

\* The windows divide the time.
LEMMA WindowFacts ==
    ASSUME NEW u \in Nat
    PROVE  /\ u \div Window \in Nat /\ Start(u) \in Nat
           /\ Start(u) <= u /\ u <= Start(u) + Window - 1
BY SessionAssumption DEF Start

\* A multiple of the window's length is the start of the window of what is
\* less than a length beyond.
LEMMA StartOf ==
    ASSUME NEW p \in Nat, NEW u \in Nat, p * Window <= u, u <= p * Window + Window - 1
    PROVE  Start(u) = p * Window
<1> DEFINE q == u \div Window
           W == Window
<1>0. W \in Nat /\ W > 0
  BY SessionAssumption
<1>1. /\ q \in Nat /\ p * W \in Nat /\ q * W \in Nat
      /\ q * W <= u /\ u < q * W + W /\ Start(u) = q * W
  <2>1. Start(u) = q * W
    BY DEF Start
  <2>2. q \in Nat /\ Start(u) \in Nat /\ Start(u) <= u /\ u <= Start(u) + W - 1
    BY WindowFacts
  <2> QED
    BY <1>0, <2>1, <2>2
<1> HIDE DEF q
<1>2. ~(p + 1 <= q)
  <2> SUFFICES ASSUME p + 1 <= q PROVE FALSE
    OBVIOUS
  <2>1. (p + 1) * W <= q * W /\ (p + 1) * W = p * W + W
    BY <1>0, <1>1
  <2> QED
    BY <1>0, <1>1, <2>1
<1>3. ~(q + 1 <= p)
  <2> SUFFICES ASSUME q + 1 <= p PROVE FALSE
    OBVIOUS
  <2>1. (q + 1) * W <= p * W /\ (q + 1) * W = q * W + W
    BY <1>0, <1>1
  <2> QED
    BY <1>0, <1>1, <2>1
<1>4. p = q
  BY <1>1, <1>2, <1>3
<1> QED
  BY <1>1, <1>4

\* A stretch as long as a window meets two of them.
LEMMA TwoWindows ==
    ASSUME NEW t \in Nat
    PROVE  /\ Start(t) + Window \in Nat
           /\ Start(Start(t) + Window) = Start(t) + Window
           /\ t .. t + Window - 1 \subseteq Span(t) \cup Span(Start(t) + Window)
<1>1. Window \in Nat /\ Window > 0
  BY SessionAssumption
<1>2. PICK p \in Nat : p = t \div Window
  BY WindowFacts
<1>3. PICK s \in Nat : s = Start(t) /\ s = p * Window /\ s <= t /\ t <= s + Window - 1
  BY <1>2, WindowFacts DEF Start
<1>4. PICK q \in Nat, v \in Nat : v = q * Window /\ v = s + Window
  <2>1. p + 1 \in Nat /\ s + Window \in Nat /\ s + Window = (p + 1) * Window
    BY <1>1, <1>3
  <2> QED
    BY <2>1
<1>5. Start(v) = v
  <2>1. q * Window <= v /\ v <= q * Window + Window - 1
    BY <1>1, <1>4
  <2> QED
    BY <1>4, <2>1, StartOf
<1>6. t .. t + Window - 1 \subseteq (s .. s + Window - 1) \cup (v .. v + Window - 1)
  BY <1>1, <1>3, <1>4
<1> QED
  BY <1>3, <1>4, <1>5, <1>6 DEF Span

LEMMA InitSessions == Init => SessionsInv
<1> SUFFICES ASSUME Init PROVE SessionsInv
  OBVIOUS
<1>1. NoUser \in UserRow /\ NoUser.role = "none" /\ NoSession \in SessionRow
      /\ NoSession.user = NoName
  BY SessionAssumption DEF NoUser, UserRow, NoSession, SessionRow
<1>2. now \in Times /\ 0 \in 0 .. MaxAttempts /\ 0 \in Nat
  BY SessionAssumption DEF Init, Times
<1>3. TypeInv
  BY <1>1, <1>2, Idling DEF Init, TypeInv
<1>4. attempts = 0 /\ 0 \in 0 .. attempts
  BY DEF Init
<1>5. CountInv
  <2>1. \A span : \A o \in Ops, m \in Names : Through(o, m, span) = {}
    BY DEF Init, Through
  <2>2. \A u \in 0 .. MaxTime : Start(u) \in 0 .. MaxTime
    BY WindowFacts, SessionAssumption
  <2>3. WindowInv
    <3> SUFFICES ASSUME NEW o \in Ops, NEW m \in Names, NEW u \in 0 .. MaxTime
                 PROVE  0 <= buckets[<<o, m, Start(u)>>] /\ 0 <= Limit
      BY <2>1, FS_EmptySet DEF WindowInv
    <3>1. <<o, m, Start(u)>> \in Ops \X Names \X (0 .. MaxTime)
      BY <2>2
    <3>2. buckets[<<o, m, Start(u)>>] = 0
      BY <3>1 DEF Init
    <3> QED
      BY <3>2, SessionAssumption
  <2>4. PassInv
    BY FS_EmptySet DEF Init, PassInv
  <2> QED
    BY <1>2, <1>4, <2>3, <2>4 DEF Init, CountInv, Keys
<1>6. RequestInv /\ OwnerInv /\ RestInv
  BY <1>1, Idling DEF Init, RequestInv, OwnerInv, RestInv, HeldInv, OnItsWay,
     SessionsRestOnAttempts, Issued
<1> QED
  BY <1>3, <1>5, <1>6 DEF SessionsInv

-----------------------------------------------------------------------------
(* What the actions have in common                                         *)

\* Handlers that hold an attempt held it before, but for one that holds a new
\* one, and sessions are as before: no attempt is held or used twice.
LEMMA HeldKeeps ==
    ASSUME SessionsInv, NEW q \in Requests, sessions' = sessions, admitted \subseteq admitted',
           \A p \in Requests \ {q} : request'[p] = request[p],
           OnItsWay(request'[q]) =>
              /\ request'[q].by \in admitted' /\ request'[q].by.name = request'[q].name
              /\ \/ request'[q].by \notin admitted
                 \/ OnItsWay(request[q]) /\ request'[q].by = request[q].by
    PROVE  RestInv'
<1>1. Issued' = Issued /\ \A t \in Issued : sessions'[t] = sessions[t]
  BY DEF Issued
<1>2. SessionsRestOnAttempts'
  BY <1>1 DEF SessionsInv, RestInv, SessionsRestOnAttempts
<1>3. \A p \in Requests \ {q} : OnItsWay(request'[p]) => request'[p].by \in admitted
  BY DEF SessionsInv, RestInv, HeldInv
<1>4. OnItsWay(request'[q]) =>
        /\ \A p \in Requests \ {q} : OnItsWay(request'[p]) => request'[p].by # request'[q].by
        /\ \A t \in Issued : sessions[t].by # request'[q].by
  BY <1>3 DEF SessionsInv, RestInv, HeldInv, SessionsRestOnAttempts
<1>5. HeldInv'
  <2> SUFFICES ASSUME NEW p \in Requests, OnItsWay(request'[p])
               PROVE  /\ request'[p].by \in admitted' /\ request'[p].by.name = request'[p].name
                      /\ \A r \in Requests : OnItsWay(request'[r]) /\ request'[r].by = request'[p].by
                                               => r = p
                      /\ \A t \in Issued : sessions[t].by # request'[p].by
    BY <1>1 DEF HeldInv, OnItsWay
  <2>1. CASE p = q
    BY <1>4, <2>1
  <2>2. CASE p # q
    <3>1. request'[p] = request[p]
      BY <2>2
    <3>2. /\ request[p].by \in admitted /\ request[p].by.name = request[p].name
          /\ \A r \in Requests : OnItsWay(request[r]) /\ request[r].by = request[p].by => r = p
          /\ \A t \in Issued : sessions[t].by # request[p].by
      BY <3>1 DEF SessionsInv, RestInv, HeldInv
    <3>3. ASSUME NEW r \in Requests, OnItsWay(request'[r]), request'[r].by = request'[p].by
          PROVE  r = p
      BY <1>4, <2>2, <3>1, <3>2, <3>3
    <3> QED
      BY <3>1, <3>2, <3>3
  <2> QED
    BY <2>1, <2>2
<1> QED
  BY <1>2, <1>5 DEF RestInv

\* One handler goes on, and the tables stay.
LEMMA FrameKeeps ==
    ASSUME SessionsInv, NEW q \in Requests, NEW f \in Frame,
           request' = [request EXCEPT ![q] = f], FrameOk(f),
           f.at = "inside" => users[f.name].status = "active",
           UNCHANGED <<now, users, sessions, configured, starting>>,
           invite' \in [made : BOOLEAN, expires : Nat, revoked : BOOLEAN],
           admitted \subseteq admitted', CountInv',
           OnItsWay(f) => /\ f.by \in admitted' /\ f.by.name = f.name
                          /\ \/ f.by \notin admitted
                             \/ OnItsWay(request[q]) /\ f.by = request[q].by
    PROVE  SessionsInv' /\ StepOk
<1>1. /\ request' \in [Requests -> Frame] /\ request'[q] = f
      /\ \A p \in Requests \ {q} : request'[p] = request[p]
  BY DEF SessionsInv, TypeInv
<1>2. TypeInv'
  BY <1>1 DEF SessionsInv, TypeInv
<1>3. RequestInv'
  BY <1>1 DEF SessionsInv, RequestInv, FrameOk, Exists
<1>4. OwnerInv'
  BY DEF SessionsInv, OwnerInv, Exists
<1>5. RestInv'
  BY <1>1, HeldKeeps
<1>6. StepOk
  BY <1>1 DEF StepOk, RolesStay, EntryActive, RevokedStay
<1> QED
  BY <1>2, <1>3, <1>4, <1>5, <1>6 DEF SessionsInv

\* An account is made or changes its status; the role of an account that
\* exists stays.
LEMMA AccountKeeps ==
    ASSUME SessionsInv, NEW q \in Requests, NEW n \in Names, NEW u \in UserRow,
           users' = [users EXCEPT ![n] = u], u.role # "none",
           Exists(n) => u.role = users[n].role,
           UNCHANGED <<now, sessions, invite, configured, buckets, admitted, attempts>>,
           starting' \in AdminNames \cup {NoName},
           request' \in [Requests -> Frame],
           \A p \in Requests : FrameOk(request'[p]),
           \A p \in Requests \ {q} : request'[p] = request[p],
           request'[q].at = "inside" => request'[q] = request[q],
           OnItsWay(request'[q]) => /\ OnItsWay(request[q]) /\ request'[q].by = request[q].by
                                    /\ request'[q].name = request[q].name
    PROVE  SessionsInv' /\ StepOk
<1>1. /\ users' \in [Names -> UserRow] /\ users'[n] = u
      /\ \A m \in Names \ {n} : users'[m] = users[m]
  BY DEF SessionsInv, TypeInv
<1>2. TypeInv'
  BY <1>1 DEF SessionsInv, TypeInv
<1>3. RolesStay /\ \A m \in Names : Exists(m) => users'[m].role # "none"
  BY <1>1 DEF RolesStay, Exists
<1>4. RequestInv'
  BY <1>3 DEF RequestInv, FrameOk, Exists
<1>5. ASSUME NEW t \in Tokens, sessions[t].user # NoName
      PROVE  sessions[t].user \in Names /\ Exists(sessions[t].user)
  <2>1. sessions[t] \in SessionRow
    BY DEF SessionsInv, TypeInv
  <2> QED
    BY <1>5, <2>1 DEF SessionsInv, OwnerInv, SessionRow
<1>6. OwnerInv'
  BY <1>3, <1>5 DEF OwnerInv, Exists
<1>7. RestInv'
  <2>1. OnItsWay(request[q]) => /\ request[q].by \in admitted
                                /\ request[q].by.name = request[q].name
    BY DEF SessionsInv, RestInv, HeldInv
  <2> QED
    BY <2>1, HeldKeeps
<1>8. EntryActive /\ RevokedStay
  BY DEF EntryActive, RevokedStay
<1>9. CountInv'
  BY DEF SessionsInv, CountInv, PassInv, WindowInv, Through
<1> QED
  BY <1>2, <1>3, <1>4, <1>6, <1>7, <1>8, <1>9 DEF SessionsInv, StepOk

\* One more attempt is let through.
LEMMA ThroughGrows ==
    ASSUME PassInv, NEW x, x \notin admitted, admitted' = admitted \cup {x},
           NEW o, NEW m, NEW span
    PROVE  LET T == Through(o, m, span) IN
           /\ Cardinality(T) \in Nat
           /\ Cardinality(T') = IF x.op = o /\ x.name = m /\ x.time \in span
                                THEN Cardinality(T) + 1 ELSE Cardinality(T)
<1> DEFINE T == Through(o, m, span)
<1>1. IsFiniteSet(T) /\ Cardinality(T) \in Nat /\ x \notin T
  BY FS_Subset, FS_CardinalityType DEF PassInv, Through
<1>2. T' = IF x.op = o /\ x.name = m /\ x.time \in span THEN T \cup {x} ELSE T
  BY DEF Through
<1>3. Cardinality(T \cup {x}) = Cardinality(T) + 1
  BY <1>1, FS_AddElement
<1> QED
  BY <1>1, <1>2, <1>3

LEMMA CountsKeep ==
    ASSUME SessionsInv, NEW op \in Ops, NEW n \in Names, NEW then,
           Attempt(op, n, then, Count(op, n))
    PROVE  CountInv'
<1> DEFINE k == <<op, n, Start(now)>>
           x == Pass(op, n)
<1>1. /\ attempts \in 0 .. MaxAttempts /\ attempts < MaxAttempts /\ attempts' = attempts + 1
      /\ buckets \in [Keys -> 0 .. attempts] /\ PassInv /\ WindowInv
      /\ now \in Times /\ now \in 0 .. MaxTime
  BY SessionAssumption DEF SessionsInv, TypeInv, CountInv, Attempt, Times
<1>2. attempts' \in 0 .. MaxAttempts
  BY <1>1, SessionAssumption
<1>3. /\ buckets' = [buckets EXCEPT ![k] = buckets[k] + 1]
      /\ \/ admitted' = admitted \cup {x} /\ buckets[k] + 1 <= Limit
         \/ admitted' = admitted
  BY <1>1 DEF Attempt, Count, WindowStart, Start
<1>4. \A u \in 0 .. MaxTime : Start(u) \in 0 .. MaxTime
  BY WindowFacts, SessionAssumption
<1>5. k \in Keys
  BY <1>1, <1>4 DEF Keys
<1> HIDE DEF k
<1>6. \A i \in Keys : buckets[i] \in 0 .. attempts' /\ buckets[i] + 1 \in 0 .. attempts'
  BY <1>1
<1>7. buckets' \in [Keys -> 0 .. attempts']
  BY <1>1, <1>3, <1>6
<1>8. ASSUME NEW o \in Ops, NEW m \in Names, NEW u \in 0 .. MaxTime
      PROVE  LET i == <<o, m, Start(u)>> IN
             /\ i \in Keys
             /\ buckets[i] \in Nat
             /\ buckets'[i] = IF i = k THEN buckets[i] + 1 ELSE buckets[i]
  BY <1>1, <1>3, <1>4 DEF Keys
<1>9. \A o, m, span : Cardinality(Through(o, m, span)) \in Nat
  BY <1>1, FS_Subset, FS_CardinalityType DEF PassInv, Through
<1>10. CASE admitted' = admitted
  <2>1. \A o, m, span : Through(o, m, span)' = Through(o, m, span)
    BY <1>10 DEF Through
  <2>2. PassInv'
    BY <1>1, <1>10, <2>1 DEF PassInv
  <2>3. WindowInv'
    BY <1>1, <1>8, <1>9, <2>1 DEF WindowInv
  <2> QED
    BY <1>2, <1>7, <2>2, <2>3 DEF CountInv
<1>11. CASE admitted' = admitted \cup {x} /\ buckets[k] + 1 <= Limit
  <2> DEFINE c == Cardinality(Through(op, n, {now}))
  <2>1. /\ x.op = op /\ x.name = n /\ x.time = now /\ x.no = c + 1
        /\ x \in Passed /\ c \in Nat
    BY <1>1, <1>9 DEF Pass, Passed
  <2> HIDE DEF x, c
  <2>2. x \notin admitted
    <3> SUFFICES ASSUME x \in admitted PROVE FALSE
      OBVIOUS
    <3>1. x.no <= c
      BY <1>1, <2>1 DEF PassInv, c
    <3> QED
      BY <2>1, <3>1
  <2>3. ASSUME NEW o, NEW m, NEW span
        PROVE  Cardinality(Through(o, m, span)')
                 = IF op = o /\ n = m /\ now \in span
                   THEN Cardinality(Through(o, m, span)) + 1
                   ELSE Cardinality(Through(o, m, span))
    BY <1>1, <1>11, <2>1, <2>2, ThroughGrows
  <2>4. PassInv'
    <3>1. admitted' \subseteq Passed /\ IsFiniteSet(admitted')
      BY <1>1, <1>11, <2>1, FS_AddElement DEF PassInv
    <3>2. ASSUME NEW a \in admitted'
          PROVE  a.no <= Cardinality(Through(a.op, a.name, {a.time})')
      <4>1. CASE a = x
        <5>1. PICK v \in Times : v = now
          BY <1>1
        <5>2. Cardinality(Through(op, n, {v})') = c + 1
          BY <2>3, <5>1 DEF c
        <5> QED
          BY <2>1, <4>1, <5>1, <5>2
      <4>2. CASE a \in admitted
        <5>1. a.no <= Cardinality(Through(a.op, a.name, {a.time})) /\ a.no \in Nat
          BY <1>1, <4>2 DEF PassInv, Passed
        <5> QED
          BY <1>9, <2>3, <5>1
      <4> QED
        BY <1>11, <4>1, <4>2
    <3> QED
      BY <3>1, <3>2 DEF PassInv, Through
  <2>5. ASSUME NEW o \in Ops, NEW m \in Names, NEW u \in 0 .. MaxTime
        PROVE  LET T == Through(o, m, Span(u))' IN
               /\ Cardinality(T) <= buckets'[<<o, m, Start(u)>>]
               /\ Cardinality(T) <= Limit
    <3> DEFINE b == Cardinality(Through(o, m, Span(u)))
               i == <<o, m, Start(u)>>
    <3>1. b \in Nat /\ b <= buckets[i] /\ b <= Limit
      BY <1>1, <1>9 DEF WindowInv
    <3>2. op = o /\ n = m /\ now \in Span(u) => i = k
      <4> SUFFICES ASSUME now \in Span(u) PROVE Start(now) = Start(u)
        BY DEF k
      <4>1. u \in Nat /\ now \in Nat
        BY <1>1, SessionAssumption
      <4>2. PICK p \in Nat : Start(u) = p * Window
        BY <4>1, WindowFacts DEF Start
      <4>3. p * Window <= now /\ now <= p * Window + Window - 1
        BY <4>2 DEF Span
      <4> QED
        BY <4>1, <4>2, <4>3, StartOf
    <3>3. CASE op = o /\ n = m /\ now \in Span(u)
      <4>1. Cardinality(Through(o, m, Span(u))') = b + 1
        BY <2>3, <3>3
      <4>2. buckets'[i] = buckets[i] + 1 /\ buckets[i] \in Nat /\ buckets[i] + 1 <= Limit
        BY <1>8, <1>11, <3>2, <3>3
      <4> HIDE DEF b, i
      <4>3. b + 1 <= buckets[i] + 1 /\ b + 1 <= Limit
        BY <3>1, <4>2, SessionAssumption
      <4> QED
        BY <4>1, <4>2, <4>3 DEF i
    <3>4. CASE ~(op = o /\ n = m /\ now \in Span(u))
      BY <1>8, <2>3, <3>1, <3>4
    <3> QED
      BY <3>3, <3>4
  <2>6. WindowInv'
    BY <2>5 DEF WindowInv, Through
  <2> QED
    BY <1>2, <1>7, <2>4, <2>6 DEF CountInv
<1> QED
  BY <1>3, <1>10, <1>11

\* The attempt let through is a new one, for the name it was made for.
LEMMA AttemptKeeps ==
    ASSUME SessionsInv, NEW op \in Ops, NEW n \in Names, NEW then,
           Attempt(op, n, then, Count(op, n))
    PROVE  /\ CountInv' /\ admitted \subseteq admitted'
           /\ Pass(op, n).name = n
           /\ Count(op, n) <= Limit => /\ Pass(op, n) \in admitted' \ admitted
                                       /\ Pass(op, n) \in Passed
<1> DEFINE T == Through(op, n, {now})
<1>1. PassInv /\ now \in Times
  BY DEF SessionsInv, CountInv, TypeInv
<1>2. Cardinality(T) \in Nat
  BY <1>1, FS_Subset, FS_CardinalityType DEF PassInv, Through
<1>3. /\ Pass(op, n).op = op /\ Pass(op, n).name = n /\ Pass(op, n).time = now
      /\ Pass(op, n).no = Cardinality(T) + 1 /\ Pass(op, n) \in Passed
  BY <1>1, <1>2 DEF Pass, Passed
<1> HIDE DEF T
<1>4. Pass(op, n) \notin admitted
  <2> SUFFICES ASSUME Pass(op, n) \in admitted PROVE FALSE
    OBVIOUS
  <2>1. Pass(op, n).no <= Cardinality(T)
    BY <1>1, <1>3 DEF PassInv, T
  <2> QED
    BY <1>2, <1>3, <2>1
<1>5. admitted' = IF Count(op, n) <= Limit THEN admitted \cup {Pass(op, n)} ELSE admitted
  BY DEF Attempt
<1> QED
  BY <1>3, <1>4, <1>5, CountsKeep

-----------------------------------------------------------------------------
\* A handler goes on with the attempt that was just let through, or not at all.
LEMMA ProceedKeeps ==
    ASSUME SessionsInv, NEW q \in Requests, NEW op \in Ops, NEW n \in Names,
           NEW step \in {"insert", "issue"}, NEW ok \in BOOLEAN,
           step = "issue" /\ ok => Exists(n), Proceed(q, op, n, step, ok)
    PROVE  SessionsInv' /\ StepOk
<1> DEFINE then == Count(op, n) <= Limit /\ ok
           new  == [at |-> step, name |-> n, tok |-> NoToken, by |-> Pass(op, n)]
           f    == IF then THEN new ELSE request[q]
<1>1. /\ Attempt(op, n, then, Count(op, n)) /\ request[q] = Idle
      /\ UNCHANGED <<now, users, sessions, configured, starting, invite>>
  BY DEF Proceed, store
<1>2. /\ CountInv' /\ admitted \subseteq admitted' /\ Pass(op, n).name = n
      /\ then => Pass(op, n) \in admitted' \ admitted /\ Pass(op, n) \in Passed
  BY <1>1, AttemptKeeps
<1>3. request' = [request EXCEPT ![q] = f]
  BY DEF Proceed, SessionsInv, TypeInv
<1>4. then => new \in Frame /\ FrameOk(new) /\ new.at # "inside"
  BY <1>2 DEF Frame, FrameOk
<1>5. f \in Frame /\ FrameOk(f) /\ f.at # "inside"
  BY <1>1, <1>4, Idling
<1>6. OnItsWay(f) => f.by \in admitted' /\ f.by.name = f.name /\ f.by \notin admitted
  BY <1>1, <1>2, Idling DEF OnItsWay
<1> HIDE DEF f
<1>7. invite' \in [made : BOOLEAN, expires : Nat, revoked : BOOLEAN]
  BY <1>1 DEF SessionsInv, TypeInv
<1> QED
  BY <1>1, <1>2, <1>3, <1>5, <1>6, <1>7, FrameKeeps

LEMMA LoginKeeps ==
    ASSUME SessionsInv, NEW q \in Requests, NEW n \in Names, NEW pass \in 0 .. MaxPassword,
           Login(q, n, pass)
    PROVE  SessionsInv' /\ StepOk
<1>1. "login" \in Ops /\ LoginOk(n, pass) \in BOOLEAN /\ (LoginOk(n, pass) => Exists(n))
  BY DEF Ops, LoginOk, Active
<1> QED
  BY <1>1, ProceedKeeps DEF Login

LEMMA RegisterKeeps ==
    ASSUME SessionsInv, NEW q \in Requests, NEW n \in Names, Register(q, n)
    PROVE  SessionsInv' /\ StepOk
<1>1. "register" \in Ops /\ (~Exists(n) /\ InviteValid) \in BOOLEAN
  BY DEF Ops
<1> QED
  BY <1>1, ProceedKeeps DEF Register

\* No attempt is counted, and a handler goes on or leaves.
LEMMA QuietCounts ==
    ASSUME SessionsInv, UNCHANGED limiter
    PROVE  CountInv' /\ admitted' = admitted
BY DEF SessionsInv, CountInv, PassInv, WindowInv, Through, limiter

LEMMA FrameFacts ==
    ASSUME SessionsInv, NEW q \in Requests
    PROVE  request[q] \in Frame /\ FrameOk(request[q])
BY DEF SessionsInv, TypeInv, RequestInv

LEMMA RegisterLoginKeeps ==
    ASSUME SessionsInv, NEW q \in Requests, RegisterLogin(q)
    PROVE  SessionsInv' /\ StepOk
<1> DEFINE o == request[q]
           f == IF LoginOk(o.name, 0) THEN [o EXCEPT !.at = "issue"] ELSE Idle
<1>1. /\ UNCHANGED <<now, users, sessions, configured, starting, invite>>
      /\ UNCHANGED limiter /\ o.at = "registered"
  BY DEF RegisterLogin, store
<1>2. CountInv' /\ admitted' = admitted
  BY <1>1, QuietCounts
<1>3. o \in Frame /\ FrameOk(o)
  BY FrameFacts
<1>4. request' = [request EXCEPT ![q] = f]
  BY DEF RegisterLogin, SessionsInv, TypeInv
<1> HIDE DEF o
<1>5. f \in Frame /\ FrameOk(f) /\ f.at # "inside"
  BY <1>1, <1>3, Idling DEF Frame, FrameOk, LoginOk, Active
<1>7. OnItsWay(f) => /\ OnItsWay(o) /\ f.by = o.by
                     /\ f.by \in admitted' /\ f.by.name = f.name
  <2>1. OnItsWay(o) /\ o.by \in admitted /\ o.by.name = o.name
    BY <1>1 DEF o, OnItsWay, SessionsInv, RestInv, HeldInv
  <2>2. OnItsWay(f) => f.by = o.by /\ f.name = o.name
    BY <1>3, Idling DEF OnItsWay, Frame
  <2> QED
    BY <1>2, <2>1, <2>2
<1> HIDE DEF f
<1>6. invite' \in [made : BOOLEAN, expires : Nat, revoked : BOOLEAN]
  BY <1>1 DEF SessionsInv, TypeInv
<1> QED
  BY <1>1, <1>2, <1>4, <1>5, <1>6, <1>7, FrameKeeps DEF o

\* A session that is looked up is of an account, and the account it is
\* admitted for is active.
LEMMA EnterKeeps ==
    ASSUME SessionsInv, NEW q \in Requests, Admit(q) \/ \E t \in Tokens : Look(q, t)
    PROVE  SessionsInv' /\ StepOk
<1>1. /\ UNCHANGED <<now, users, sessions, configured, starting, invite>>
      /\ UNCHANGED limiter
  BY DEF Look, Admit, store
<1>2. CountInv' /\ admitted' = admitted
  BY <1>1, QuietCounts
<1>3. invite' \in [made : BOOLEAN, expires : Nat, revoked : BOOLEAN]
  BY <1>1 DEF SessionsInv, TypeInv
<1>4. PICK f \in Frame : /\ request' = [request EXCEPT ![q] = f] /\ FrameOk(f)
                         /\ f.at = "inside" => users[f.name].status = "active"
                         /\ ~OnItsWay(f)
  <2>1. ASSUME NEW t \in Tokens, Look(q, t)
        PROVE  \E f \in Frame : /\ request' = [request EXCEPT ![q] = f] /\ FrameOk(f)
                                /\ f.at = "inside" => users[f.name].status = "active"
                                /\ ~OnItsWay(f)
    <3> DEFINE n == sessions[t].user
               f == [at |-> "look", name |-> n, tok |-> t, by |-> NoPass]
    <3>1. sessions[t] \in SessionRow /\ n # NoName
      BY <2>1 DEF SessionsInv, TypeInv, Look, Opens
    <3>2. n \in Names /\ Exists(n)
      BY <3>1 DEF SessionRow, SessionsInv, OwnerInv
    <3> HIDE DEF n
    <3>3. f \in Frame /\ FrameOk(f) /\ f.at # "inside" /\ ~OnItsWay(f)
      BY <3>2 DEF Frame, FrameOk, OnItsWay
    <3>4. request' = [request EXCEPT ![q] = f]
      BY <2>1 DEF Look, n
    <3> HIDE DEF f
    <3> QED
      BY <3>3, <3>4
  <2>2. CASE Admit(q)
    <3> DEFINE f == [request[q] EXCEPT !.at = "inside"]
    <3>1. request[q] \in Frame /\ FrameOk(request[q]) /\ request[q].at = "look"
      BY <2>2, FrameFacts DEF Admit
    <3>2. CASE Active(request[q].name)
      <4>1. f \in Frame /\ FrameOk(f) /\ f.name = request[q].name /\ ~OnItsWay(f)
        BY <3>1 DEF Frame, FrameOk, OnItsWay
      <4>2. users[f.name].status = "active"
        BY <3>2, <4>1 DEF Active
      <4>3. request' = [request EXCEPT ![q] = f]
        BY <2>2, <3>2 DEF Admit, SessionsInv, TypeInv
      <4> HIDE DEF f
      <4> QED
        BY <4>1, <4>2, <4>3
    <3>3. CASE ~Active(request[q].name)
      BY <2>2, <3>3, Idling DEF Admit, OnItsWay
    <3> QED
      BY <3>2, <3>3
  <2> QED
    BY <2>1, <2>2
<1> QED
  BY <1>1, <1>2, <1>3, <1>4, FrameKeeps

LEMMA InviteKeeps ==
    ASSUME SessionsInv, NEW q \in Requests, CreateInvite(q) \/ RevokeInvite(q)
    PROVE  SessionsInv' /\ StepOk
<1>1. /\ UNCHANGED <<now, users, sessions, configured, starting>>
      /\ UNCHANGED limiter /\ request' = [request EXCEPT ![q] = Idle]
  BY DEF CreateInvite, RevokeInvite, Leave
<1>2. CountInv' /\ admitted' = admitted
  BY <1>1, QuietCounts
<1>3. now + InviteTTL \in Nat
  BY SessionAssumption DEF SessionsInv, TypeInv, Times
<1>4. invite' \in [made : BOOLEAN, expires : Nat, revoked : BOOLEAN]
  <2>1. invite \in [made : BOOLEAN, expires : Nat, revoked : BOOLEAN]
    BY DEF SessionsInv, TypeInv
  <2>2. CASE CreateInvite(q)
    <3>1. invite' = [made |-> TRUE, expires |-> now + InviteTTL, revoked |-> FALSE]
      BY <2>2 DEF CreateInvite
    <3> QED
      BY <3>1, <1>3
  <2>3. CASE RevokeInvite(q)
    <3>1. invite' = [invite EXCEPT !.revoked = TRUE]
      BY <2>3 DEF RevokeInvite
    <3> QED
      BY <3>1, <2>1
  <2> QED
    BY <2>2, <2>3
<1> QED
  BY <1>1, <1>2, <1>4, Idling, FrameKeeps DEF OnItsWay

-----------------------------------------------------------------------------
LEMMA InsertKeeps ==
    ASSUME SessionsInv, NEW q \in Requests, Insert(q)
    PROVE  SessionsInv' /\ StepOk
<1> DEFINE n == request[q].name
<1>1. /\ request[q] \in Frame /\ FrameOk(request[q]) /\ n \in Names
      /\ request[q].at = "insert"
  BY FrameFacts DEF Insert, FrameOk
<1>2. CASE Exists(n)
  <2>1. /\ UNCHANGED <<now, users, sessions, configured, starting, invite>>
        /\ UNCHANGED limiter /\ request' = [request EXCEPT ![q] = Idle]
    BY <1>2 DEF Insert
  <2>2. CountInv' /\ admitted' = admitted
    BY <2>1, QuietCounts
  <2>3. invite' \in [made : BOOLEAN, expires : Nat, revoked : BOOLEAN]
    BY <2>1 DEF SessionsInv, TypeInv
  <2> QED
    BY <2>1, <2>2, <2>3, Idling, FrameKeeps DEF OnItsWay
<1>3. CASE ~Exists(n)
  <2> DEFINE f == [request[q] EXCEPT !.at = "registered"]
             u == Account("member")
  <2>1. /\ users' = [users EXCEPT ![n] = u]
        /\ UNCHANGED <<now, sessions, invite, configured, buckets, admitted, attempts>>
        /\ starting' = starting
    BY <1>3 DEF Insert, limiter
  <2>2. request' = [request EXCEPT ![q] = f]
    BY <1>3 DEF Insert, SessionsInv, TypeInv
  <2>3. u \in UserRow /\ u.role # "none"
    BY SessionAssumption DEF Account, UserRow
  <2>4. /\ f \in Frame /\ FrameOk(f) /\ f.at # "inside"
        /\ OnItsWay(request[q]) /\ f.by = request[q].by /\ f.name = request[q].name
    BY <1>1 DEF Frame, FrameOk, OnItsWay
  <2> HIDE DEF f, u
  <2>5. /\ request' \in [Requests -> Frame] /\ request'[q] = f
        /\ \A p \in Requests \ {q} : request'[p] = request[p]
    BY <2>2, <2>4 DEF SessionsInv, TypeInv
  <2>6. \A p \in Requests : FrameOk(request'[p])
    BY <2>4, <2>5 DEF SessionsInv, RequestInv
  <2>7. /\ request'[q].at = "inside" => request'[q] = request[q]
        /\ OnItsWay(request[q]) /\ request'[q].by = request[q].by
        /\ request'[q].name = request[q].name
    BY <2>4, <2>5
  <2>8. starting' \in AdminNames \cup {NoName}
    BY <2>1 DEF SessionsInv, TypeInv
  <2> QED
    BY <1>1, <1>3, <2>1, <2>3, <2>5, <2>6, <2>7, <2>8, AccountKeeps
<1> QED
  BY <1>2, <1>3

\* An account is made or toggled while no handler moves.
LEMMA AccountStep ==
    ASSUME SessionsInv, NEW n \in Names, NEW u \in UserRow,
           users' = [users EXCEPT ![n] = u], u.role # "none",
           Exists(n) => u.role = users[n].role,
           UNCHANGED <<now, sessions, invite, configured, request>>, UNCHANGED limiter,
           starting' \in AdminNames \cup {NoName}
    PROVE  SessionsInv' /\ StepOk
<1>1. UNCHANGED <<now, sessions, invite, configured, request, buckets, admitted, attempts>>
  BY DEF limiter
<1>2. /\ users' \in [Names -> UserRow]
      /\ \A m \in Names : Exists(m) => /\ users'[m].role = users[m].role
                                       /\ users'[m].role # "none"
  BY DEF SessionsInv, TypeInv, Exists
<1>3. TypeInv'
  BY <1>1, <1>2 DEF SessionsInv, TypeInv
<1>9. CountInv'
  BY QuietCounts
<1>4. RequestInv'
  BY <1>1, <1>2 DEF SessionsInv, RequestInv, FrameOk, Exists
<1>5. ASSUME NEW t \in Tokens, sessions[t].user # NoName
      PROVE  sessions[t].user \in Names /\ Exists(sessions[t].user)
  BY <1>5 DEF SessionsInv, TypeInv, OwnerInv, SessionRow
<1>6. OwnerInv'
  BY <1>1, <1>2, <1>5 DEF OwnerInv, Exists
<1>7. RestInv'
  BY <1>1 DEF SessionsInv, RestInv, HeldInv, OnItsWay, SessionsRestOnAttempts, Issued
<1>8. StepOk
  BY <1>1, <1>2 DEF StepOk, RolesStay, EntryActive, RevokedStay
<1> QED
  BY <1>3, <1>4, <1>6, <1>7, <1>8, <1>9 DEF SessionsInv

LEMMA ToggleKeeps ==
    ASSUME SessionsInv, NEW n \in Names, Toggle(n)
    PROVE  SessionsInv' /\ StepOk
<1> DEFINE u == [users[n] EXCEPT !.status = IF @ = "active" THEN "disabled" ELSE "active"]
<1>1. users[n] \in UserRow
  BY DEF SessionsInv, TypeInv
<1>2. /\ u \in UserRow /\ u.role = users[n].role
  BY <1>1 DEF UserRow
<1>3. /\ users' = [users EXCEPT ![n] = u] /\ Exists(n)
      /\ UNCHANGED <<now, sessions, invite, configured, request>> /\ UNCHANGED limiter
      /\ starting' = starting
  BY DEF Toggle, SessionsInv, TypeInv
<1> HIDE DEF u
<1>4. u.role # "none" /\ starting' \in AdminNames \cup {NoName}
  BY <1>2, <1>3 DEF Exists, SessionsInv, TypeInv
<1> QED
  BY <1>2, <1>3, <1>4, AccountStep

\* The tables stay, but for the clock and the configuration.
LEMMA StillKeeps ==
    ASSUME SessionsInv, UNCHANGED <<users, sessions, invite, request>>,
           UNCHANGED limiter, now' \in Times, configured' \in AdminNames,
           starting' \in AdminNames \cup {NoName}
    PROVE  SessionsInv' /\ StepOk
<1>1. TypeInv'
  BY DEF SessionsInv, TypeInv
<1>2. CountInv'
  BY QuietCounts
<1>3. RequestInv' /\ OwnerInv'
  BY DEF SessionsInv, RequestInv, FrameOk, OwnerInv, Exists
<1>5. RestInv'
  BY DEF SessionsInv, RestInv, HeldInv, OnItsWay, SessionsRestOnAttempts, Issued, limiter
<1>4. StepOk
  BY DEF StepOk, RolesStay, EntryActive, RevokedStay
<1> QED
  BY <1>1, <1>2, <1>3, <1>4, <1>5 DEF SessionsInv

\* A superadmin is made under a name nobody has, or nothing happens.
LEMMA SuperadminKeeps ==
    ASSUME SessionsInv, Bootstrap \/ BootstrapInsert \/ EnsureAdmin
    PROVE  SessionsInv' /\ StepOk
<1> DEFINE u == Account("superadmin")
<1>1. u \in UserRow /\ u.role # "none"
  BY SessionAssumption DEF Account, UserRow
<1> HIDE DEF u
<1>2. /\ now \in Times /\ configured \in AdminNames /\ starting \in AdminNames \cup {NoName}
      /\ users \in [Names -> UserRow] /\ AdminNames \subseteq Names
  BY SessionAssumption DEF SessionsInv, TypeInv
<1>3. CASE Bootstrap
  BY <1>2, <1>3, StillKeeps DEF Bootstrap
<1>4. CASE BootstrapInsert
  <2>1. /\ UNCHANGED <<now, sessions, invite, configured, request>> /\ UNCHANGED limiter
        /\ starting' = NoName /\ starting \in Names
    BY <1>2, <1>4 DEF BootstrapInsert
  <2>2. CASE Exists(starting)
    <3>1. users' = users
      BY <1>4, <2>2 DEF BootstrapInsert
    <3> QED
      BY <1>2, <2>1, <3>1, StillKeeps
  <2>3. CASE ~Exists(starting)
    <3>1. users' = [users EXCEPT ![starting] = u]
      BY <1>4, <2>3 DEF BootstrapInsert, u
    <3>2. PICK n \in Names : n = starting
      BY <2>1
    <3> QED
      BY <1>1, <2>1, <2>3, <3>1, <3>2, AccountStep
  <2> QED
    BY <2>2, <2>3
<1>5. CASE EnsureAdmin
  <2>1. PICK n \in Names : n = configured
    BY <1>2
  <2>2. /\ users' = [users EXCEPT ![n] = u] /\ ~Exists(n)
        /\ UNCHANGED <<now, sessions, invite, configured, request>> /\ UNCHANGED limiter
        /\ starting' = starting
    BY <1>5, <2>1 DEF EnsureAdmin, u
  <2> QED
    BY <1>1, <1>2, <2>2, AccountStep
<1> QED
  BY <1>3, <1>4, <1>5

-----------------------------------------------------------------------------
\* The attempt the handler held is the new session's.
LEMMA IssueKeeps ==
    ASSUME SessionsInv, NEW q \in Requests, NEW t \in Tokens, Issue(q, t)
    PROVE  SessionsInv' /\ StepOk
<1> DEFINE o == request[q]
           s == [user |-> o.name, expires |-> now + SessionTTL, revoked |-> FALSE, by |-> o.by]
<1>1. o \in Frame /\ o.name \in Names /\ Exists(o.name) /\ OnItsWay(o)
  BY FrameFacts DEF Issue, FrameOk, OnItsWay
<1>2. now + SessionTTL \in Nat
  BY SessionAssumption DEF SessionsInv, TypeInv, Times
<1>3. s \in SessionRow /\ s.user = o.name /\ s.by = o.by
  BY <1>1, <1>2 DEF SessionRow, Frame
<1>4. /\ sessions' = [sessions EXCEPT ![t] = s] /\ request' = [request EXCEPT ![q] = Idle]
      /\ sessions[t] = NoSession
      /\ UNCHANGED <<now, users, invite, configured, starting>> /\ UNCHANGED limiter
  BY DEF Issue
<1>5. /\ o.by \in admitted /\ o.by.name = o.name
      /\ \A p \in Requests \ {q} : OnItsWay(request[p]) => request[p].by # o.by
      /\ \A x \in Issued : sessions[x].by # o.by
  BY <1>1 DEF SessionsInv, RestInv, HeldInv
<1> HIDE DEF s, o
<1>6. /\ sessions' \in [Tokens -> SessionRow] /\ sessions'[t] = s
      /\ \A x \in Tokens \ {t} : sessions'[x] = sessions[x]
  BY <1>3, <1>4 DEF SessionsInv, TypeInv
<1>7. /\ request' \in [Requests -> Frame] /\ request'[q] = Idle
      /\ \A p \in Requests \ {q} : request'[p] = request[p]
  BY <1>4, Idling DEF SessionsInv, TypeInv
<1>8. TypeInv'
  BY <1>4, <1>6, <1>7 DEF SessionsInv, TypeInv
<1>9. RequestInv'
  BY <1>4, <1>7, Idling DEF SessionsInv, RequestInv, FrameOk, Exists
<1>10. OwnerInv'
  BY <1>1, <1>3, <1>4, <1>6 DEF SessionsInv, OwnerInv, Exists
<1>11. CountInv' /\ admitted' = admitted
  BY <1>4, QuietCounts
<1>12. RestInv'
  <2>1. \A x \in Issued' : x = t \/ (x \in Issued /\ sessions'[x] = sessions[x])
    BY <1>6 DEF Issued
  <2>2. SessionsRestOnAttempts'
    <3>1. \A x \in Issued' : sessions'[x].by \in admitted' /\ sessions'[x].by.name = sessions'[x].user
      BY <1>3, <1>5, <1>6, <1>11, <2>1 DEF SessionsInv, RestInv, SessionsRestOnAttempts
    <3>2. \A x, y \in Issued' : sessions'[x].by = sessions'[y].by => x = y
      BY <1>3, <1>5, <1>6, <2>1 DEF SessionsInv, RestInv, SessionsRestOnAttempts
    <3> QED
      BY <3>1, <3>2 DEF SessionsRestOnAttempts
  <2>3. HeldInv'
    <3> SUFFICES ASSUME NEW p \in Requests, OnItsWay(request'[p])
                 PROVE  /\ request'[p].by \in admitted' /\ request'[p].by.name = request'[p].name
                        /\ \A r \in Requests : OnItsWay(request'[r]) /\ request'[r].by = request'[p].by
                                                 => r = p
                        /\ \A x \in Issued' : sessions'[x].by # request'[p].by
      BY DEF HeldInv, OnItsWay
    <3>1. p # q /\ request'[p] = request[p]
      BY <1>7, Idling DEF OnItsWay
    <3>2. \A r \in Requests : OnItsWay(request'[r]) => request'[r] = request[r]
      BY <1>7, Idling DEF OnItsWay
    <3> QED
      BY <1>3, <1>5, <1>6, <1>11, <2>1, <3>1, <3>2 DEF SessionsInv, RestInv, HeldInv
  <2> QED
    BY <2>2, <2>3 DEF RestInv
<1>13. StepOk
  <2>1. sessions[t].revoked = FALSE
    BY <1>4 DEF NoSession
  <2> QED
    BY <1>4, <1>6, <1>7, <2>1, Idling DEF StepOk, RolesStay, EntryActive, RevokedStay
<1> QED
  BY <1>8, <1>9, <1>10, <1>11, <1>12, <1>13 DEF SessionsInv

\* Sessions are revoked and a password is changed; handlers stay or leave.
LEMMA RevokeKeeps ==
    ASSUME SessionsInv, UNCHANGED <<now, invite, configured, starting>>, UNCHANGED limiter,
           users' \in [Names -> UserRow], \A m \in Names : users'[m].role = users[m].role,
           sessions' \in [Tokens -> SessionRow],
           \A t \in Tokens : /\ sessions'[t].user = sessions[t].user
                             /\ sessions'[t].by = sessions[t].by
                             /\ sessions[t].revoked => sessions'[t].revoked,
           request' \in [Requests -> Frame],
           \A p \in Requests : request'[p] = request[p] \/ request'[p] = Idle
    PROVE  SessionsInv' /\ StepOk
<1>1. TypeInv'
  BY DEF SessionsInv, TypeInv
<1>2. CountInv' /\ admitted' = admitted
  BY QuietCounts
<1>3. \A m \in Names : Exists(m)' <=> Exists(m)
  BY DEF Exists
<1>4. RequestInv'
  BY <1>3, Idling DEF SessionsInv, RequestInv, FrameOk
<1>5. OwnerInv'
  BY <1>3 DEF SessionsInv, TypeInv, OwnerInv, SessionRow
<1>6. Issued' = Issued
  BY DEF Issued
<1>7. \A p \in Requests : OnItsWay(request'[p]) => request'[p] = request[p]
  BY Idling DEF OnItsWay
<1>8. SessionsRestOnAttempts'
  BY <1>2, <1>6 DEF SessionsInv, RestInv, SessionsRestOnAttempts, Issued
<1>9. HeldInv'
  BY <1>2, <1>6, <1>7 DEF SessionsInv, RestInv, HeldInv, OnItsWay, Issued
<1>10. StepOk
  BY Idling DEF StepOk, RolesStay, EntryActive, RevokedStay
<1> QED
  BY <1>1, <1>2, <1>4, <1>5, <1>8, <1>9, <1>10 DEF SessionsInv, RestInv

LEMMA LogoutKeeps ==
    ASSUME SessionsInv, NEW t \in Tokens, Logout(t)
    PROVE  SessionsInv' /\ StepOk
<1> DEFINE s == [sessions[t] EXCEPT !.revoked = TRUE]
<1>1. /\ sessions[t] \in SessionRow /\ users \in [Names -> UserRow]
      /\ request \in [Requests -> Frame]
  BY DEF SessionsInv, TypeInv
<1>2. s \in SessionRow /\ s.user = sessions[t].user /\ s.by = sessions[t].by /\ s.revoked = TRUE
  BY <1>1 DEF SessionRow
<1>3. /\ sessions' = [sessions EXCEPT ![t] = s]
      /\ UNCHANGED <<now, users, invite, configured, starting, request>>
      /\ UNCHANGED limiter
  BY DEF Logout, SessionsInv, TypeInv
<1> HIDE DEF s
<1>4. /\ sessions' \in [Tokens -> SessionRow]
      /\ \A x \in Tokens : /\ sessions'[x].user = sessions[x].user
                           /\ sessions'[x].by = sessions[x].by
                           /\ sessions[x].revoked => sessions'[x].revoked
  BY <1>2, <1>3 DEF SessionsInv, TypeInv
<1> QED
  BY <1>1, <1>3, <1>4, RevokeKeeps

LEMMA ChangePasswordKeeps ==
    ASSUME SessionsInv, NEW q \in Requests, NEW pass \in 0 .. MaxPassword,
           ChangePassword(q, pass)
    PROVE  SessionsInv' /\ StepOk
<1> DEFINE n   == request[q].name
           own == request[q].tok
<1>1. /\ n \in Names /\ users[n].pass < MaxPassword
      /\ UNCHANGED <<now, invite, configured, starting>> /\ UNCHANGED limiter
      /\ request' = [request EXCEPT ![q] = Idle]
  BY FrameFacts DEF ChangePassword, Inside, FrameOk, Leave
<1>2. /\ users \in [Names -> UserRow] /\ sessions \in [Tokens -> SessionRow]
      /\ request' \in [Requests -> Frame]
      /\ \A p \in Requests : request'[p] = request[p] \/ request'[p] = Idle
  BY <1>1, Idling DEF SessionsInv, TypeInv
<1>3. CASE users[n].pass # pass
  <2>1. UNCHANGED <<users, sessions>>
    BY <1>3 DEF ChangePassword, ChangeOwnPassword
  <2> QED
    BY <1>1, <1>2, <2>1, RevokeKeeps
<1>4. CASE users[n].pass = pass
  <2> DEFINE u == [users[n] EXCEPT !.pass = @ + 1]
  <2>1. users[n].pass + 1 \in 0 .. MaxPassword
    BY <1>1, <1>2, SessionAssumption DEF UserRow
  <2>2. u \in UserRow /\ u.role = users[n].role
    BY <1>1, <1>2, <2>1 DEF UserRow
  <2>3. /\ users' = [users EXCEPT ![n] = u]
        /\ sessions' = [t \in Tokens |-> IF sessions[t].user = n /\ t # own
                          THEN [sessions[t] EXCEPT !.revoked = TRUE] ELSE sessions[t]]
    BY <1>1, <1>2, <1>4 DEF ChangePassword, ChangeOwnPassword
  <2> HIDE DEF u, n, own
  <2>4. users' \in [Names -> UserRow] /\ \A m \in Names : users'[m].role = users[m].role
    BY <1>1, <1>2, <2>2, <2>3
  <2>5. ASSUME NEW t \in Tokens
        PROVE  /\ sessions'[t] \in SessionRow
               /\ sessions'[t].user = sessions[t].user /\ sessions'[t].by = sessions[t].by
               /\ sessions[t].revoked => sessions'[t].revoked
    <3>1. sessions[t] \in SessionRow
      BY <1>2
    <3>2. sessions'[t] = IF sessions[t].user = n /\ t # own
                         THEN [sessions[t] EXCEPT !.revoked = TRUE] ELSE sessions[t]
      BY <2>3
    <3> QED
      BY <3>1, <3>2 DEF SessionRow
  <2>6. sessions' \in [Tokens -> SessionRow]
    BY <2>3, <2>5
  <2> QED
    BY <1>1, <1>2, <2>4, <2>5, <2>6, RevokeKeeps
<1> QED
  BY <1>3, <1>4

-----------------------------------------------------------------------------
LEMMA StepKeeps ==
    ASSUME SessionsInv, Next
    PROVE  SessionsInv' /\ StepOk
<1>1. ASSUME NEW q \in Requests, NEW n \in Names, NEW p \in 0 .. MaxPassword, Login(q, n, p)
      PROVE  SessionsInv' /\ StepOk
  BY <1>1, LoginKeeps
<1>2. ASSUME NEW q \in Requests, NEW n \in Names, Register(q, n)
      PROVE  SessionsInv' /\ StepOk
  BY <1>2, RegisterKeeps
<1>3. ASSUME NEW q \in Requests, Insert(q) \/ RegisterLogin(q) \/ CreateInvite(q) \/ RevokeInvite(q)
      PROVE  SessionsInv' /\ StepOk
  BY <1>3, InsertKeeps, RegisterLoginKeeps, InviteKeeps
<1>11. ASSUME NEW q \in Requests, NEW p \in 0 .. MaxPassword, ChangePassword(q, p)
       PROVE  SessionsInv' /\ StepOk
  BY <1>11, ChangePasswordKeeps
<1>12. ASSUME NEW q \in Requests, Admit(q) PROVE SessionsInv' /\ StepOk
  BY <1>12, EnterKeeps
<1>4. ASSUME NEW q \in Requests, NEW t \in Tokens, Issue(q, t) \/ Look(q, t)
      PROVE  SessionsInv' /\ StepOk
  BY <1>4, IssueKeeps, EnterKeeps
<1>5. ASSUME NEW t \in Tokens, Logout(t) PROVE SessionsInv' /\ StepOk
  BY <1>5, LogoutKeeps
<1>6. ASSUME NEW n \in Names, Toggle(n) PROVE SessionsInv' /\ StepOk
  BY <1>6, ToggleKeeps
<1>7. CASE Bootstrap \/ BootstrapInsert \/ EnsureAdmin
  BY <1>7, SuperadminKeeps
<1>8. now \in Times /\ configured \in AdminNames /\ starting \in AdminNames \cup {NoName}
  BY DEF SessionsInv, TypeInv
<1>9. ASSUME NEW n \in AdminNames, Configure(n) PROVE SessionsInv' /\ StepOk
  BY <1>8, <1>9, StillKeeps DEF Configure
<1>10. CASE Tick
  <2>1. now + 1 \in Times
    BY <1>8, <1>10, SessionAssumption DEF Tick, Times
  <2> QED
    BY <1>8, <1>10, <2>1, StillKeeps DEF Tick, store
<1> QED
  BY <1>1, <1>2, <1>3, <1>4, <1>5, <1>6, <1>7, <1>9, <1>10, <1>11, <1>12 DEF Next

LEMMA StutterKeeps ==
    ASSUME SessionsInv, UNCHANGED vars
    PROVE  SessionsInv'
<1>1. /\ UNCHANGED <<users, sessions, invite, request>> /\ UNCHANGED limiter
      /\ now' = now /\ configured' = configured /\ starting' = starting
  BY DEF vars, limiter
<1>2. now \in Times /\ configured \in AdminNames /\ starting \in AdminNames \cup {NoName}
  BY DEF SessionsInv, TypeInv
<1> QED
  BY <1>1, <1>2, StillKeeps

(* The inductive invariant of accounts, sessions, handlers and attempts     *)
(* holds in every reachable state.                                          *)
THEOREM SessionsSafety == Spec => []SessionsInv
<1>1. SessionsInv /\ [Next]_vars => SessionsInv'
  BY StepKeeps, StutterKeeps
<1> QED
  BY InitSessions, <1>1, PTL DEF Spec

(* Columns keep their types, and every session rests on an attempt of its   *)
(* own that the limiter let through for the session's account.              *)
THEOREM SessionsRest == Spec => []SessionsConsistent
<1>1. ASSUME SessionsInv PROVE SessionsConsistent
  <2>1. Ops \X Names \X Times \subseteq Keys
    BY SessionAssumption DEF Times, Keys
  <2>2. admitted \subseteq Passed /\ \A k \in Keys : buckets[k] \in 0 .. MaxAttempts
    BY <1>1, SessionAssumption DEF SessionsInv, CountInv, PassInv
  <2>3. TypeOK
    BY <1>1, <2>1, <2>2 DEF SessionsInv, TypeInv, TypeOK, UserRow, SessionRow, Frame
  <2> QED
    BY <1>1, <2>3 DEF SessionsInv, RestInv, SessionsConsistent
<1> QED
  BY SessionsSafety, <1>1, PTL

(* In any stretch as long as a window, at most twice the limit are let      *)
(* through: the stretch meets two windows, and the bucket of each counts    *)
(* every attempt before it is judged.                                       *)
THEOREM AttemptsStayBounded == Spec => []AttemptsBounded
<1>1. ASSUME SessionsInv PROVE AttemptsBounded
  <2> SUFFICES ASSUME NEW op \in Ops, NEW n \in Names, NEW t \in Times
               PROVE  Cardinality(Through(op, n, t .. t + Window - 1)) <= 2 * Limit
    BY DEF AttemptsBounded
  <2> DEFINE next == Start(t) + Window
             A == Through(op, n, Span(t))
             B == Through(op, n, Span(next))
             C == Through(op, n, t .. t + Window - 1)
  <2>1. PassInv /\ WindowInv
    BY <1>1 DEF SessionsInv, CountInv
  <2>2. t \in Nat /\ t \in 0 .. MaxTime /\ MaxTime \in Nat /\ Limit \in Nat /\ Window \in Nat
    BY SessionAssumption DEF Times
  <2>3. /\ next \in Nat /\ Start(next) = next
        /\ t .. t + Window - 1 \subseteq Span(t) \cup Span(next)
    BY <2>2, TwoWindows
  <2> HIDE DEF next
  <2>4. IsFiniteSet(A) /\ IsFiniteSet(B) /\ C \subseteq A \cup B
    BY <2>1, <2>3, FS_Subset DEF PassInv, Through
  <2>5. Cardinality(A) <= Limit
    BY <2>1, <2>2 DEF WindowInv
  <2>6. Cardinality(B) <= Limit
    <3>1. CASE next <= MaxTime
      <4>1. next \in 0 .. MaxTime
        BY <2>2, <2>3, <3>1
      <4> QED
        BY <2>1, <4>1 DEF WindowInv
    <3>2. CASE MaxTime < next
      <4>1. \A a \in admitted : a.time <= MaxTime /\ a.time \in Int
        BY <2>1, <2>2, SessionAssumption DEF PassInv, Passed, Times
      <4>2. \A i \in Span(next) : MaxTime < i /\ i \in Int
        BY <2>2, <2>3, <3>2 DEF Span
      <4>3. B = {}
        BY <2>2, <4>1, <4>2 DEF Through
      <4> HIDE DEF B
      <4> QED
        BY <2>2, <4>3, FS_EmptySet
    <3>3. next <= MaxTime \/ MaxTime < next
      BY <2>2, <2>3
    <3> QED
      BY <3>1, <3>2, <3>3
  <2> HIDE DEF A, B, C
  <2>7. IsFiniteSet(A \cup B) /\ Cardinality(A \cup B) <= Cardinality(A) + Cardinality(B)
    <3>1. IsFiniteSet(A \cap B)
      BY <2>4, FS_Intersection
    <3>2. /\ Cardinality(A) \in Nat /\ Cardinality(B) \in Nat
          /\ Cardinality(A \cap B) \in Nat
      BY <2>4, <3>1, FS_CardinalityType
    <3>3. /\ IsFiniteSet(A \cup B)
          /\ Cardinality(A \cup B) = Cardinality(A) + Cardinality(B) - Cardinality(A \cap B)
      BY <2>4, FS_Union
    <3> QED
      BY <3>2, <3>3
  <2>8. Cardinality(C) <= Cardinality(A \cup B) /\ Cardinality(C) \in Nat
    BY <2>4, <2>7, FS_Subset, FS_CardinalityType
  <2>9. Cardinality(C) <= 2 * Limit
    BY <2>2, <2>4, <2>5, <2>6, <2>7, <2>8, FS_CardinalityType
  <2> QED
    BY <2>9 DEF C
<1> QED
  BY SessionsSafety, <1>1, PTL

(* No request or start of the system changes the role of an account, a      *)
(* registration under way never takes an account over, and a handler is     *)
(* never entered for a disabled account, whatever session a racing login    *)
(* was given; a revoked session stays revoked.                              *)
THEOREM AccountsStandStill == Spec => AccountsStand
<1>1. SessionsInv /\ [Next]_vars => [StepOk]_vars
  BY StepKeeps
<1>2. [StepOk]_vars =>
        [/\ \A n \in Names : Exists(n) => users'[n].role = users[n].role
         /\ \A q \in Requests : request'[q].at = "inside" /\ request[q].at # "inside"
              => users[request'[q].name].status = "active"
         /\ \A t \in Tokens : sessions[t].revoked => sessions'[t].revoked]_vars
  BY DEF StepOk, RolesStay, EntryActive, RevokedStay
<1> QED
  BY SessionsSafety, <1>1, <1>2, PTL DEF Spec, AccountsStand
=============================================================================

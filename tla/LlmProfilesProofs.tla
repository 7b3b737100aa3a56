-------------------------- MODULE LlmProfilesProofs --------------------------
(***************************************************************************)
(* What overlapping settings requests keep of a user's profiles and routes,*)
(* for any number of requests, profiles and roles.                         *)
(***************************************************************************)
EXTENDS LlmProfiles, FiniteSetTheorems, NaturalsInduction, WellFoundedInduction, TLAPS

\* A handler in progress: the request and what was read when it began.
Frame == [body: Bodies, seen: [Profiles -> Row \cup {NoProfile}],
          used: SUBSET Profiles, now: 1 .. MaxRequests]

TypeInv ==
    /\ profiles \in [Profiles -> Row \cup {NoProfile}]
    /\ routes \in [Roles -> Profiles \cup {NoRoute}]
    /\ request \in [Requests -> Frame \cup {Idle}]
    /\ count \in 0 .. MaxRequests
    /\ stale \in BOOLEAN

\* What Accepts has found of what the handler read.
Checked(o) ==
    LET b == o.body IN
    /\ b.op = "create" => b.id \notin Present(o.seen)
    /\ b.op \in {"patch", "delete"} => b.id \in Present(o.seen)
    /\ b.op = "patch" /\ b.set = "disable" => b.id \notin Defaults(o.seen) \cup o.used
    /\ b.op = "routes" => \A r \in Roles : b.plan[r] \in Enabled(o.seen) \cup {NoRoute}

\* The id of a profile being created is new, and no other request's.
NewId(q) ==
    request[q] # Idle /\ request[q].body.op = "create" =>
        /\ request[q].body.id \notin Present(profiles)
        /\ \A s \in Requests \ {q} :
             request[s] # Idle /\ request[s].body.op # "routes"
                 => request[s].body.id # request[q].body.id

ReadInv    == \A q \in Requests : request[q] # Idle => Checked(request[q])
NewIdInv   == \A q \in Requests : NewId(q)
RouteInv   == \A r \in Roles : routes[r] # NoRoute =>
                /\ routes[r] \in Present(profiles)
                /\ stale \/ routes[r] \in Enabled(profiles)
DefaultInv == stale \/ Defaults(profiles) \subseteq Enabled(profiles)

ProfilesInv == TypeInv /\ OneDefault /\ ReadInv /\ NewIdInv /\ RouteInv /\ DefaultInv

-----------------------------------------------------------------------------
LEMMA Tables ==
    ASSUME NEW t
    PROVE  /\ Present(t) \subseteq Profiles
           /\ Enabled(t) \subseteq Present(t)
           /\ Defaults(t) \subseteq Present(t)
BY DEF Present, Enabled, Defaults

LEMMA BodyCases ==
    ASSUME NEW b \in Bodies
    PROVE  /\ b.op \in {"create", "patch", "delete", "routes"}
           /\ b.op # "routes" => b.id \in Profiles
           /\ b.op = "create" => b.default \in BOOLEAN
           /\ b.op = "patch" => b.set \in {"enable", "disable", "default"}
           /\ b.op = "routes" => b.plan \in [Roles -> Profiles \cup {NoRoute}]
BY DEF Bodies

\* A handler in progress has no field "at".
LEMMA FrameNotIdle == Idle \notin Frame
BY DEF Idle, Frame

LEMMA InitProfiles == Init => ProfilesInv
<1> SUFFICES ASSUME Init PROVE ProfilesInv
  OBVIOUS
<1>0. count \in 0 .. MaxRequests
  BY ProfilesAssumption DEF Init
<1>1. TypeInv
  BY <1>0 DEF Init, TypeInv
<1>2. Present(profiles) = {} /\ Defaults(profiles) = {} /\ Enabled(profiles) = {}
  BY DEF Init, Present, Defaults, Enabled
<1>3. OneDefault
  BY <1>2, FS_EmptySet DEF OneDefault
<1>4. ReadInv /\ NewIdInv /\ RouteInv /\ DefaultInv
  BY <1>2 DEF Init, ReadInv, NewIdInv, NewId, RouteInv, DefaultInv
<1> QED
  BY <1>1, <1>3, <1>4 DEF ProfilesInv

-----------------------------------------------------------------------------
\* A request that begins changes no table, and has read what there is.
LEMMA BeginKeeps ==
    ASSUME ProfilesInv, NEW q \in Requests, NEW b \in Bodies, Begin(q, b)
    PROVE  ProfilesInv'
<1> DEFINE o == [body |-> b, seen |-> profiles, used |-> Routed, now |-> count + 1]
<1> USE DEF ProfilesInv
<1>1. /\ request' = [request EXCEPT ![q] = o]
      /\ profiles' = profiles /\ routes' = routes /\ stale' = stale
      /\ count' = count + 1 /\ count < MaxRequests /\ request[q] = Idle /\ Accepts(b)
  BY DEF Begin
<1>2. count' \in 0 .. MaxRequests /\ count + 1 \in 1 .. MaxRequests
  BY <1>1, ProfilesAssumption DEF TypeInv
<1>3. Routed \subseteq Profiles
  BY DEF TypeInv, Routed
<1>4. o \in Frame
  BY <1>2, <1>3 DEF Frame, TypeInv
<1> HIDE DEF o
<1>5. request' \in [Requests -> Frame \cup {Idle}]
  BY <1>1, <1>4 DEF TypeInv
<1>6. TypeInv'
  BY <1>1, <1>2, <1>5 DEF TypeInv
<1>7. request'[q] = o /\ \A s \in Requests \ {q} : request'[s] = request[s]
  BY <1>1 DEF TypeInv
<1>8. o.body = b /\ o.seen = profiles /\ o.used = Routed
  BY DEF o
<1>9. ReadInv'
  <2>1. Checked(o)
    BY <1>1, <1>8 DEF Checked, Accepts
  <2>2. \A s \in Requests : request'[s] # Idle => Checked(request'[s])
    BY <2>1, <1>7 DEF ReadInv
  <2> QED
    BY <2>2 DEF ReadInv
<1>10. NewIdInv'
  <2>1. b.op = "create" => b.id \notin Present(profiles) /\ b.id \notin InUse
    BY <1>1 DEF Accepts
  <2>2. b.op \in {"patch", "delete"} => b.id \in Present(profiles)
    BY <1>1 DEF Accepts
  <2>3. \A s \in Requests : request[s] # Idle /\ request[s].body.op # "routes"
                              => request[s].body.id \in InUse
    BY DEF InUse
  <2>4. NewId(q)'
    BY <1>1, <1>7, <1>8, <2>1, <2>3 DEF NewId
  <2>5. ASSUME NEW s \in Requests \ {q} PROVE NewId(s)'
    <3>1. NewId(s)
      BY DEF NewIdInv
    <3>2. CASE b.op = "create"
      BY <3>1, <3>2, <1>1, <1>7, <1>8, <2>1, <2>3 DEF NewId
    <3>3. CASE b.op # "create"
      BY <3>1, <3>3, <1>1, <1>7, <1>8, <2>2, BodyCases DEF NewId
    <3> QED
      BY <3>2, <3>3
  <2> QED
    BY <2>4, <2>5 DEF NewIdInv
<1>11. OneDefault' /\ RouteInv' /\ DefaultInv'
  BY <1>1 DEF OneDefault, RouteInv, DefaultInv
<1> QED
  BY <1>6, <1>9, <1>10, <1>11

\* A handler that ends leaves the other requests as they were.
LEMMA Ends ==
    ASSUME ProfilesInv, NEW q \in Requests, request[q] # Idle,
           request' = [request EXCEPT ![q] = Idle],
           \A p \in Profiles : p \in Present(profiles') /\ p \notin Present(profiles) =>
               /\ request[q].body.op = "create"
               /\ p = request[q].body.id
    PROVE  ReadInv' /\ NewIdInv' /\ request' \in [Requests -> Frame \cup {Idle}]
<1>1. request'[q] = Idle /\ \A s \in Requests \ {q} : request'[s] = request[s]
  BY DEF ProfilesInv, TypeInv
<1>2. request' \in [Requests -> Frame \cup {Idle}]
  BY DEF ProfilesInv, TypeInv
<1>3. ReadInv'
  BY <1>1 DEF ProfilesInv, ReadInv
<1>4. NewIdInv'
  <2> SUFFICES ASSUME NEW s \in Requests, request'[s] # Idle,
                      request'[s].body.op = "create"
               PROVE  /\ request'[s].body.id \notin Present(profiles')
                      /\ \A t \in Requests \ {s} :
                           request'[t] # Idle /\ request'[t].body.op # "routes"
                               => request'[t].body.id # request'[s].body.id
    BY DEF NewIdInv, NewId
  <2>1. s # q /\ request'[s] = request[s]
    BY <1>1
  <2>2. NewId(s)
    BY DEF ProfilesInv, NewIdInv
  <2>3. request[s].body.id \in Profiles
    BY <2>1, BodyCases DEF ProfilesInv, TypeInv, Frame
  <2>4. request[q].body.op = "create" => request[q].body.id # request[s].body.id
    BY <2>1, <2>2 DEF NewId
  <2>5. request[s].body.id \notin Present(profiles')
    BY <2>1, <2>2, <2>3, <2>4 DEF NewId
  <2>6. \A t \in Requests \ {s} : request'[t] # Idle /\ request'[t].body.op # "routes"
                               => request'[t].body.id # request[s].body.id
    BY <1>1, <2>1, <2>2 DEF NewId
  <2> QED
    BY <2>1, <2>5, <2>6
<1> QED
  BY <1>2, <1>3, <1>4

-----------------------------------------------------------------------------
LEMMA MarksCleared ==
    ASSUME profiles \in [Profiles -> Row \cup {NoProfile}], NEW reach
    PROVE  /\ Cleared(profiles, reach) \in [Profiles -> Row \cup {NoProfile}]
           /\ Present(Cleared(profiles, reach)) = Present(profiles)
           /\ Enabled(Cleared(profiles, reach)) = Enabled(profiles)
           /\ Defaults(Cleared(profiles, reach)) \subseteq Defaults(profiles)
<1> DEFINE c == Cleared(profiles, reach)
<1>1. ASSUME NEW p \in Profiles
      PROVE  /\ c[p] \in Row \cup {NoProfile}
             /\ c[p] = NoProfile <=> profiles[p] = NoProfile
             /\ profiles[p] # NoProfile => c[p].enabled = profiles[p].enabled
             /\ profiles[p] # NoProfile /\ c[p].default => profiles[p].default
  <2>1. CASE p \in reach \cap Present(profiles)
    <3>1. c[p] = [profiles[p] EXCEPT !.default = FALSE]
      BY <2>1 DEF Cleared
    <3>2. profiles[p] \in Row
      BY <2>1 DEF Present
    <3>3. c[p] \in Row /\ c[p].enabled = profiles[p].enabled /\ c[p].default = FALSE
      BY <3>1, <3>2 DEF Row
    <3> HIDE DEF c
    <3> QED
      BY <3>2, <3>3, ProfilesAssumption
  <2>2. CASE p \notin reach \cap Present(profiles)
    <3>1. c[p] = profiles[p]
      BY <2>2 DEF Cleared
    <3> QED
      BY <3>1
  <2> QED
    BY <2>1, <2>2
<1>2. c = [p \in Profiles |-> c[p]]
  BY DEF Cleared
<1> HIDE DEF c
<1>3. c \in [Profiles -> Row \cup {NoProfile}]
  BY <1>1, <1>2
<1>4. Present(c) = Present(profiles)
  BY <1>1 DEF Present
<1>5. Enabled(c) = Enabled(profiles) /\ Defaults(c) \subseteq Defaults(profiles)
  BY <1>1, <1>4, Tables DEF Enabled, Defaults, Present
<1> QED
  BY <1>3, <1>4, <1>5 DEF c

\* What every commit adds to the end of its handler.
LEMMA Commits ==
    ASSUME ProfilesInv, NEW q \in Requests, request[q] # Idle,
           NEW table \in [Profiles -> Row \cup {NoProfile}], Finish(q, table),
           routes' \in [Roles -> Profiles \cup {NoRoute}],
           \A p \in Profiles : p \in Present(table) /\ p \notin Present(profiles) =>
               /\ request[q].body.op = "create"
               /\ p = request[q].body.id,
           RouteInv', DefaultInv'
    PROVE  ProfilesInv'
<1>1. /\ profiles' = table /\ IndexAllows(table) /\ count' = count
      /\ request' = [request EXCEPT ![q] = Idle]
      /\ stale' = (stale \/ profiles # request[q].seen \/ Routed # request[q].used)
  BY DEF Finish
<1>2. ReadInv' /\ NewIdInv' /\ request' \in [Requests -> Frame \cup {Idle}]
  BY <1>1, Ends
<1>3. stale' \in BOOLEAN /\ count' \in 0 .. MaxRequests
  BY <1>1 DEF ProfilesInv, TypeInv
<1>4. TypeInv'
  BY <1>1, <1>2, <1>3 DEF TypeInv
<1>5. OneDefault'
  BY <1>1 DEF OneDefault, IndexAllows
<1> QED
  BY <1>2, <1>4, <1>5 DEF ProfilesInv

\* A handler in progress, and what a commit that makes nothing stale has read.
LEMMA InProgress ==
    ASSUME ProfilesInv, NEW q \in Requests, request[q] # Idle
    PROVE  /\ request[q] \in Frame /\ request[q].body \in Bodies
           /\ Checked(request[q]) /\ NewId(q)
           /\ \A table : Finish(q, table) /\ ~stale' =>
                ~stale /\ request[q].seen = profiles /\ request[q].used = Routed
<1>1. request[q] \in Frame
  BY DEF ProfilesInv, TypeInv
<1>2. request[q].body \in Bodies
  BY <1>1 DEF Frame
<1>3. Checked(request[q]) /\ NewId(q)
  BY DEF ProfilesInv, ReadInv, NewIdInv
<1>4. \A table : Finish(q, table) /\ ~stale' =>
                ~stale /\ request[q].seen = profiles /\ request[q].used = Routed
  BY DEF Finish
<1> QED
  BY <1>1, <1>2, <1>3, <1>4

-----------------------------------------------------------------------------
LEMMA CreateKeeps ==
    ASSUME ProfilesInv, NEW q \in Requests, request[q] # Idle, Create(q)
    PROVE  ProfilesInv'
<1> DEFINE o == request[q]
           id == o.body.id
           default == o.body.default \/ Present(o.seen) = {}
           new == [enabled |-> TRUE, default |-> default, created |-> o.now]
<1>1. /\ o \in Frame /\ o.body \in Bodies /\ NewId(q)
      /\ \A table : Finish(q, table) /\ ~stale' => ~stale
  BY InProgress
<1>2. o.body.op = "create" /\ routes' = routes
  BY DEF Create
<1>3. id \in Profiles /\ default \in BOOLEAN
  BY <1>1, <1>2, BodyCases
<1>4. new \in Row
  BY <1>1, <1>3 DEF Row, Frame
<1>5. PICK base \in {profiles, Cleared(profiles, Present(o.seen)),
                     Cleared(profiles, Present(profiles))} :
         Finish(q, [base EXCEPT ![id] = new])
  BY DEF Create
<1>6. id \notin Present(profiles)
  BY <1>1, <1>2 DEF NewId
<1> HIDE DEF new, default, id, o
<1>7. /\ base \in [Profiles -> Row \cup {NoProfile}]
      /\ Present(base) = Present(profiles) /\ Enabled(base) = Enabled(profiles)
      /\ Defaults(base) \subseteq Defaults(profiles)
  BY <1>5, MarksCleared DEF ProfilesInv, TypeInv
<1> DEFINE table == [base EXCEPT ![id] = new]
<1>8. /\ table \in [Profiles -> Row \cup {NoProfile}]
      /\ table[id] = new /\ \A p \in Profiles \ {id} : table[p] = base[p]
  BY <1>3, <1>4, <1>7
<1>9. new.enabled = TRUE
  BY DEF new
<1>10. Finish(q, table)
  BY <1>5
<1> HIDE DEF table
<1>11. new # NoProfile
  BY <1>4, ProfilesAssumption
<1>12. /\ \A p \in Profiles : p \in Present(table) <=> p = id \/ p \in Present(profiles)
       /\ \A p \in Profiles : p \in Enabled(table) <=> p = id \/ p \in Enabled(profiles)
       /\ \A p \in Profiles : p \in Defaults(table) /\ p # id => p \in Defaults(profiles)
  BY <1>3, <1>7, <1>8, <1>9, <1>11 DEF Present, Enabled, Defaults
<1>13. profiles' = table
  BY <1>10 DEF Finish
<1>14. RouteInv'
  <2> SUFFICES ASSUME NEW r \in Roles, routes[r] # NoRoute
               PROVE  /\ routes[r] \in Present(table)
                      /\ stale' \/ routes[r] \in Enabled(table)
    BY <1>2, <1>13 DEF RouteInv
  <2>1. routes[r] \in Present(profiles) /\ (stale \/ routes[r] \in Enabled(profiles))
    BY DEF ProfilesInv, RouteInv
  <2>2. routes[r] \in Profiles
    BY <2>1, Tables
  <2> QED
    BY <1>1, <1>10, <1>12, <2>1, <2>2 DEF o
<1>15. DefaultInv'
  <2> SUFFICES ASSUME ~stale', NEW p \in Defaults(table) PROVE p \in Enabled(table)
    BY <1>13 DEF DefaultInv
  <2>1. p \in Profiles
    BY Tables
  <2>2. Defaults(profiles) \subseteq Enabled(profiles)
    BY <1>1, <1>10 DEF ProfilesInv, DefaultInv, o
  <2> QED
    BY <1>12, <2>1, <2>2
<1>16. \A p \in Profiles : p \in Present(table) /\ p \notin Present(profiles) =>
               request[q].body.op = "create" /\ p = request[q].body.id
  BY <1>2, <1>12 DEF o, id
<1>17. routes' \in [Roles -> Profiles \cup {NoRoute}]
  BY <1>2 DEF ProfilesInv, TypeInv
<1> QED
  BY <1>8, <1>10, <1>14, <1>15, <1>16, <1>17, Commits

LEMMA SetEnabledKeeps ==
    ASSUME ProfilesInv, NEW q \in Requests, request[q] # Idle, SetEnabled(q)
    PROVE  ProfilesInv'
<1> DEFINE o == request[q]
           id == o.body.id
           wish == o.body.set = "enable"
           table == IF o.seen[id].enabled = wish THEN profiles
                    ELSE [profiles EXCEPT ![id].enabled = wish]
<1>1. /\ o.body \in Bodies /\ Checked(o)
      /\ \A t : Finish(q, t) /\ ~stale' =>
           ~stale /\ o.seen = profiles /\ o.used = Routed
  BY InProgress
<1>2. /\ o.body.op = "patch" /\ o.body.set \in {"enable", "disable"}
      /\ id \in Present(profiles) /\ Finish(q, table) /\ routes' = routes
  BY DEF SetEnabled
<1>3. id \in Profiles /\ profiles[id] \in Row
  BY <1>2, Tables DEF ProfilesInv, TypeInv, Present
<1>4. /\ table \in [Profiles -> Row \cup {NoProfile}]
      /\ \A p \in Profiles \ {id} : table[p] = profiles[p]
      /\ table[id] \in Row /\ table[id].default = profiles[id].default
      /\ table[id].enabled \in {profiles[id].enabled, wish}
  <2>1. CASE o.seen[id].enabled = wish
    BY <1>3, <2>1 DEF ProfilesInv, TypeInv
  <2>2. CASE o.seen[id].enabled # wish
    <3> DEFINE new == [profiles[id] EXCEPT !.enabled = wish]
    <3>1. new \in Row /\ new.default = profiles[id].default /\ new.enabled = wish
      BY <1>3 DEF Row
    <3>2. table = [profiles EXCEPT ![id] = new]
      BY <2>2
    <3> HIDE DEF new, table
    <3> QED
      BY <1>3, <3>1, <3>2 DEF ProfilesInv, TypeInv
  <2> QED
    BY <2>1, <2>2
<1> HIDE DEF table
<1>5. /\ \A p \in Profiles : p \in Present(table) <=> p \in Present(profiles)
      /\ \A p \in Profiles : p \in Defaults(table) <=> p \in Defaults(profiles)
      /\ \A p \in Profiles : p # id => (p \in Enabled(table) <=> p \in Enabled(profiles))
      /\ wish /\ id \in Enabled(profiles) => id \in Enabled(table)
  BY <1>2, <1>3, <1>4, ProfilesAssumption DEF Present, Enabled, Defaults
<1>6. profiles' = table
  BY <1>2 DEF Finish
<1>7. ~stale' /\ ~wish => id \notin Defaults(profiles) \cup Routed
  <2>1. ~wish => o.body.set = "disable"
    BY <1>2
  <2> QED
    BY <1>1, <1>2, <2>1 DEF Checked
<1> HIDE DEF wish, id, o
<1>8. RouteInv'
  <2> SUFFICES ASSUME NEW r \in Roles, routes[r] # NoRoute
               PROVE  /\ routes[r] \in Present(table)
                      /\ stale' \/ routes[r] \in Enabled(table)
    BY <1>2, <1>6 DEF RouteInv
  <2>1. routes[r] \in Present(profiles) /\ (stale \/ routes[r] \in Enabled(profiles))
    BY DEF ProfilesInv, RouteInv
  <2>2. routes[r] \in Profiles /\ routes[r] \in Routed
    BY <2>1, Tables DEF Routed
  <2>3. ~stale' => ~stale
    BY <1>1, <1>2
  <2> QED
    BY <1>5, <1>7, <2>1, <2>2, <2>3
<1>9. DefaultInv'
  <2> SUFFICES ASSUME ~stale', NEW p \in Defaults(table) PROVE p \in Enabled(table)
    BY <1>6 DEF DefaultInv
  <2>1. p \in Profiles /\ p \in Defaults(profiles)
    BY <1>5, Tables
  <2>2. Defaults(profiles) \subseteq Enabled(profiles)
    BY <1>1, <1>2 DEF ProfilesInv, DefaultInv
  <2> QED
    BY <1>5, <1>7, <2>1, <2>2
<1>10. routes' \in [Roles -> Profiles \cup {NoRoute}]
  BY <1>2 DEF ProfilesInv, TypeInv
<1> QED
  BY <1>2, <1>4, <1>5, <1>8, <1>9, <1>10, Commits

LEMMA SetDefaultKeeps ==
    ASSUME ProfilesInv, NEW q \in Requests, request[q] # Idle, SetDefault(q)
    PROVE  ProfilesInv'
<1> DEFINE o == request[q]
           id == o.body.id
<1>1. /\ o.body \in Bodies
      /\ \A t : Finish(q, t) /\ ~stale' => ~stale /\ o.seen = profiles
  BY InProgress
<1>2. id \in Present(profiles) /\ routes' = routes
  BY DEF SetDefault
<1>3. PICK base \in {Cleared(profiles, Present(o.seen)), Cleared(profiles, Present(profiles))} :
         Finish(q, [base EXCEPT
                      ![id].default = TRUE,
                      ![id].enabled = IF o.seen[id].enabled THEN @ ELSE TRUE])
  BY DEF SetDefault
<1>4. /\ base \in [Profiles -> Row \cup {NoProfile}]
      /\ Present(base) = Present(profiles) /\ Enabled(base) = Enabled(profiles)
      /\ Defaults(base) \subseteq Defaults(profiles)
  BY <1>3, MarksCleared DEF ProfilesInv, TypeInv
<1>5. id \in Profiles /\ base[id] \in Row
  BY <1>2, <1>4, Tables DEF Present
<1> DEFINE new == [base[id] EXCEPT !.default = TRUE,
                     !.enabled = IF o.seen[id].enabled THEN @ ELSE TRUE]
           table == [base EXCEPT ![id] = new]
<1>6. /\ new \in Row /\ new.default = TRUE
      /\ new.enabled = (IF o.seen[id].enabled THEN base[id].enabled ELSE TRUE)
  BY <1>5 DEF Row
<1>7. Finish(q, table)
  <2>1. table = [base EXCEPT ![id].default = TRUE,
                      ![id].enabled = IF o.seen[id].enabled THEN @ ELSE TRUE]
    BY <1>4, <1>5
  <2> QED
    BY <1>3, <2>1
<1> HIDE DEF new
<1>8. /\ table \in [Profiles -> Row \cup {NoProfile}]
      /\ table[id] = new /\ \A p \in Profiles \ {id} : table[p] = base[p]
  BY <1>4, <1>5, <1>6
<1> HIDE DEF table
<1>9. /\ \A p \in Profiles : p \in Present(table) <=> p \in Present(profiles)
      /\ \A p \in Profiles : p \in Defaults(table) /\ p # id => p \in Defaults(profiles)
      /\ \A p \in Profiles : p # id => (p \in Enabled(table) <=> p \in Enabled(profiles))
      /\ base[id].enabled => id \in Enabled(table)
      /\ ~o.seen[id].enabled => id \in Enabled(table)
      /\ id \in Enabled(profiles) => base[id].enabled
  <2> HIDE DEF id, o
  <2>1. ASSUME NEW p \in Profiles, p # id
        PROVE  /\ p \in Present(table) <=> p \in Present(base)
               /\ p \in Defaults(table) <=> p \in Defaults(base)
               /\ p \in Enabled(table) <=> p \in Enabled(base)
    BY <1>8, <2>1 DEF Present, Enabled, Defaults
  <2>2. new # NoProfile
    BY <1>6, ProfilesAssumption
  <2>3. id \in Present(table) /\ id \in Present(profiles)
    BY <1>2, <1>5, <1>8, <2>2 DEF Present
  <2>4. new.enabled <=> id \in Enabled(table)
    BY <1>5, <1>8, <2>3 DEF Enabled
  <2>5. base[id].enabled => id \in Enabled(table)
    BY <1>6, <2>4
  <2>6. ~o.seen[id].enabled => id \in Enabled(table)
    BY <1>6, <2>4
  <2>7. id \in Enabled(profiles) => base[id].enabled
    BY <1>4 DEF Enabled
  <2> QED
    BY <1>4, <2>1, <2>3, <2>5, <2>6, <2>7
<1>10. profiles' = table
  BY <1>7 DEF Finish
<1>11. ~stale' => id \in Enabled(table)
  <2> SUFFICES ASSUME ~stale' PROVE id \in Enabled(table)
    OBVIOUS
  <2>1. o.seen = profiles
    BY <1>1, <1>7
  <2>2. profiles[id].enabled => id \in Enabled(profiles)
    BY <1>2, <1>5 DEF Enabled
  <2> QED
    BY <1>9, <2>1, <2>2
<1>12. ~stale' => ~stale
  BY <1>1, <1>7
<1> HIDE DEF id, o
<1>13. RouteInv'
  <2> SUFFICES ASSUME NEW r \in Roles, routes[r] # NoRoute
               PROVE  /\ routes[r] \in Present(table)
                      /\ stale' \/ routes[r] \in Enabled(table)
    BY <1>2, <1>10 DEF RouteInv
  <2>1. routes[r] \in Present(profiles) /\ (stale \/ routes[r] \in Enabled(profiles))
    BY DEF ProfilesInv, RouteInv
  <2>2. routes[r] \in Profiles
    BY <2>1, Tables
  <2> QED
    BY <1>9, <1>11, <1>12, <2>1, <2>2
<1>14. DefaultInv'
  <2> SUFFICES ASSUME ~stale', NEW p \in Defaults(table) PROVE p \in Enabled(table)
    BY <1>10 DEF DefaultInv
  <2>1. p \in Profiles
    BY Tables
  <2>2. Defaults(profiles) \subseteq Enabled(profiles)
    BY <1>12 DEF ProfilesInv, DefaultInv
  <2> QED
    BY <1>9, <1>11, <2>1, <2>2
<1>15. routes' \in [Roles -> Profiles \cup {NoRoute}]
  BY <1>2 DEF ProfilesInv, TypeInv
<1> QED
  BY <1>7, <1>8, <1>9, <1>13, <1>14, <1>15, Commits

\* The table a deletion leaves, and who may be the default in it.
LEMMA Deletion ==
    ASSUME ProfilesInv, NEW q \in Requests, request[q] # Idle, Delete(q)
    PROVE  LET id == request[q].body.id
               rest == [profiles EXCEPT ![id] = NoProfile] IN
           /\ Finish(q, profiles') /\ id \in Profiles /\ request[q].body.op = "delete"
           /\ profiles' \in [Profiles -> Row \cup {NoProfile}]
           /\ Present(profiles') = Present(profiles) \ {id}
           /\ Enabled(profiles') = Enabled(profiles) \ {id}
           /\ \A p \in Defaults(profiles') : p \in Defaults(profiles) \/ p \in Enabled(profiles')
           /\ Defaults(profiles) \ {id} \subseteq Defaults(profiles')
           /\ request[q].seen[id].default =>
                \A p \in Enabled(rest) :
                  (\A s \in Enabled(rest) : rest[p].created <= rest[s].created)
                    => p \in Defaults(profiles')
           /\ routes' = [r \in Roles |-> IF routes[r] = id THEN NoRoute ELSE routes[r]]
<1> DEFINE o == request[q]
           id == o.body.id
           rest == [profiles EXCEPT ![id] = NoProfile]
           oldest == {p \in Enabled(rest) :
                        \A s \in Enabled(rest) : rest[p].created <= rest[s].created}
           table == [p \in Profiles |->
                       IF o.seen[id].default /\ p \in oldest
                         THEN [rest[p] EXCEPT !.default = TRUE] ELSE rest[p]]
<1>1. /\ o.body.op = "delete" /\ Finish(q, table)
      /\ routes' = [r \in Roles |-> IF routes[r] = id THEN NoRoute ELSE routes[r]]
  BY DEF Delete
<1>2. profiles' = table
  BY <1>1 DEF Finish
<1>3. o.body \in Bodies
  BY InProgress
<1>4. id \in Profiles
  BY <1>1, <1>3, BodyCases
<1> HIDE DEF id, o
<1>5. /\ rest \in [Profiles -> Row \cup {NoProfile}]
      /\ rest[id] = NoProfile /\ \A p \in Profiles \ {id} : rest[p] = profiles[p]
  BY <1>4 DEF ProfilesInv, TypeInv
<1> HIDE DEF rest
<1>6. oldest \subseteq Enabled(rest) /\ Enabled(rest) \subseteq Present(rest)
  BY Tables
<1>7. /\ \A p \in Profiles : p \in Present(rest) <=> p \in Present(profiles) /\ p # id
      /\ \A p \in Profiles : p \in Enabled(rest) <=> p \in Enabled(profiles) /\ p # id
      /\ \A p \in Profiles : p \in Defaults(rest) <=> p \in Defaults(profiles) /\ p # id
  BY <1>5 DEF Present, Enabled, Defaults
<1>8. ASSUME NEW p \in Profiles
      PROVE  /\ table[p] \in Row \cup {NoProfile}
             /\ p \in Present(table) <=> p \in Present(rest)
             /\ p \in Enabled(table) <=> p \in Enabled(rest)
             /\ p \in Defaults(rest) => p \in Defaults(table)
             /\ p \in Defaults(table) => p \in Defaults(rest) \/ p \in Enabled(table)
             /\ o.seen[id].default /\ p \in oldest => p \in Defaults(table)
  <2>1. CASE o.seen[id].default /\ p \in oldest
    <3> DEFINE new == [rest[p] EXCEPT !.default = TRUE]
    <3>1. table[p] = new
      BY <2>1
    <3>2. rest[p] \in Row /\ p \in Enabled(rest) /\ p \in Present(rest) /\ rest[p].enabled
      BY <1>5, <1>6, <2>1 DEF Present, Enabled
    <3>3. new \in Row /\ new.default = TRUE /\ new.enabled = rest[p].enabled
      BY <3>2 DEF Row
    <3> HIDE DEF new, table, oldest
    <3>4. new # NoProfile
      BY <3>3, ProfilesAssumption
    <3>5. p \in Present(table) /\ p \in Enabled(table) /\ p \in Defaults(table)
      BY <3>1, <3>2, <3>3, <3>4 DEF Present, Enabled, Defaults
    <3> QED
      BY <3>1, <3>2, <3>3, <3>5
  <2>2. CASE ~(o.seen[id].default /\ p \in oldest)
    <3>1. table[p] = rest[p]
      BY <2>2
    <3> HIDE DEF table, oldest
    <3>2. table[p] \in Row \cup {NoProfile}
      BY <1>5, <3>1
    <3>3. /\ p \in Present(table) <=> p \in Present(rest)
          /\ p \in Enabled(table) <=> p \in Enabled(rest)
          /\ p \in Defaults(table) <=> p \in Defaults(rest)
      BY <3>1 DEF Present, Enabled, Defaults
    <3> QED
      BY <2>2, <3>2, <3>3
  <2> QED
    BY <2>1, <2>2
<1>9. table = [p \in Profiles |-> table[p]]
  OBVIOUS
<1> HIDE DEF table
<1>10. table \in [Profiles -> Row \cup {NoProfile}]
  BY <1>8, <1>9
<1>11. /\ Present(table) \subseteq Profiles /\ Present(profiles) \subseteq Profiles
       /\ Enabled(table) \subseteq Profiles /\ Enabled(profiles) \subseteq Profiles
       /\ Defaults(table) \subseteq Profiles /\ Defaults(profiles) \subseteq Profiles
       /\ Enabled(rest) \subseteq Profiles
  BY Tables
<1>12. /\ Present(table) = Present(profiles) \ {id}
       /\ Enabled(table) = Enabled(profiles) \ {id}
  BY <1>7, <1>8, <1>11
<1>13. /\ \A p \in Defaults(table) : p \in Defaults(profiles) \/ p \in Enabled(table)
       /\ Defaults(profiles) \ {id} \subseteq Defaults(table)
  BY <1>7, <1>8, <1>11
<1>14. o.seen[id].default =>
         \A p \in Enabled(rest) :
           (\A s \in Enabled(rest) : rest[p].created <= rest[s].created)
             => p \in Defaults(table)
  BY <1>8, <1>11
<1> QED
  BY <1>1, <1>2, <1>4, <1>10, <1>12, <1>13, <1>14 DEF o, id, rest

LEMMA DeleteKeeps ==
    ASSUME ProfilesInv, NEW q \in Requests, request[q] # Idle, Delete(q)
    PROVE  ProfilesInv'
<1> DEFINE id == request[q].body.id
<1>1. /\ Finish(q, profiles') /\ id \in Profiles
      /\ profiles' \in [Profiles -> Row \cup {NoProfile}]
      /\ Present(profiles') = Present(profiles) \ {id}
      /\ Enabled(profiles') = Enabled(profiles) \ {id}
      /\ \A p \in Defaults(profiles') : p \in Defaults(profiles) \/ p \in Enabled(profiles')
      /\ routes' = [r \in Roles |-> IF routes[r] = id THEN NoRoute ELSE routes[r]]
  BY Deletion
<1>2. ~stale' => ~stale
  BY <1>1, InProgress
<1> HIDE DEF id
<1>3. routes' \in [Roles -> Profiles \cup {NoRoute}]
  BY <1>1 DEF ProfilesInv, TypeInv
<1>4. RouteInv'
  <2> SUFFICES ASSUME NEW r \in Roles, routes'[r] # NoRoute
               PROVE  /\ routes'[r] \in Present(profiles')
                      /\ stale' \/ routes'[r] \in Enabled(profiles')
    BY DEF RouteInv
  <2>1. routes'[r] = routes[r] /\ routes[r] # id /\ routes[r] # NoRoute
    BY <1>1
  <2>2. routes[r] \in Present(profiles) /\ (stale \/ routes[r] \in Enabled(profiles))
    BY <2>1 DEF ProfilesInv, RouteInv
  <2> QED
    BY <1>1, <1>2, <2>1, <2>2
<1>5. DefaultInv'
  <2> SUFFICES ASSUME ~stale', NEW p \in Defaults(profiles') PROVE p \in Enabled(profiles')
    BY DEF DefaultInv
  <2>1. Defaults(profiles) \subseteq Enabled(profiles)
    BY <1>2 DEF ProfilesInv, DefaultInv
  <2>2. p \in Present(profiles')
    BY Tables
  <2> QED
    BY <1>1, <2>1, <2>2
<1>6. \A p \in Profiles : p \in Present(profiles') => p \in Present(profiles)
  BY <1>1
<1> QED
  BY <1>1, <1>3, <1>4, <1>5, <1>6, Commits

LEMMA PutRoutesKeeps ==
    ASSUME ProfilesInv, NEW q \in Requests, request[q] # Idle, PutRoutes(q)
    PROVE  ProfilesInv'
<1> DEFINE plan == request[q].body.plan
<1>1. /\ request[q].body \in Bodies /\ Checked(request[q])
      /\ \A t : Finish(q, t) /\ ~stale' => ~stale /\ request[q].seen = profiles
  BY InProgress
<1>2. /\ request[q].body.op = "routes" /\ routes' = plan /\ Finish(q, profiles)
      /\ \A r \in Roles : plan[r] \in Present(profiles) \cup {NoRoute}
  BY DEF PutRoutes
<1>3. plan \in [Roles -> Profiles \cup {NoRoute}]
  BY <1>1, <1>2, BodyCases
<1>4. profiles' = profiles
  BY <1>2 DEF Finish
<1>5. ~stale' => ~stale /\ \A r \in Roles : plan[r] \in Enabled(profiles) \cup {NoRoute}
  BY <1>1, <1>2 DEF Checked
<1> HIDE DEF plan
<1>6. RouteInv'
  BY <1>2, <1>4, <1>5 DEF RouteInv
<1>7. DefaultInv'
  BY <1>4, <1>5 DEF ProfilesInv, DefaultInv
<1>8. profiles \in [Profiles -> Row \cup {NoProfile}]
  BY DEF ProfilesInv, TypeInv
<1>9. routes' \in [Roles -> Profiles \cup {NoRoute}]
  BY <1>2, <1>3
<1> QED
  BY <1>2, <1>6, <1>7, <1>8, <1>9, Commits

LEMMA RefusedKeeps ==
    ASSUME ProfilesInv, NEW q \in Requests, Refused(q)
    PROVE  ProfilesInv'
<1>1. /\ request[q] # Idle /\ request' = [request EXCEPT ![q] = Idle]
      /\ profiles' = profiles /\ routes' = routes /\ count' = count /\ stale' = stale
  BY DEF Refused
<1>2. ReadInv' /\ NewIdInv' /\ request' \in [Requests -> Frame \cup {Idle}]
  BY <1>1, Ends
<1>3. TypeInv' /\ OneDefault' /\ RouteInv' /\ DefaultInv'
  BY <1>1, <1>2 DEF ProfilesInv, TypeInv, OneDefault, RouteInv, DefaultInv
<1> QED
  BY <1>2, <1>3 DEF ProfilesInv

LEMMA StutterKeeps == ASSUME ProfilesInv, UNCHANGED vars PROVE ProfilesInv'
BY DEF vars, ProfilesInv, TypeInv, OneDefault, ReadInv, NewIdInv, NewId, RouteInv, DefaultInv

-----------------------------------------------------------------------------
(* Losing the default                                                      *)

\* Profiles that are enabled include an oldest one.
LEMMA Oldest ==
    ASSUME NEW t \in [Profiles -> Row \cup {NoProfile}], Enabled(t) # {}
    PROVE  \E p \in Enabled(t) : \A s \in Enabled(t) : t[p].created <= t[s].created
<1> DEFINE T == {t[p].created : p \in Enabled(t)}
<1>1. \A p \in Enabled(t) : t[p].created \in Nat
  <2> SUFFICES ASSUME NEW p \in Enabled(t) PROVE t[p].created \in Nat
    OBVIOUS
  <2>1. t[p] \in Row
    BY DEF Enabled, Present
  <2>2. t[p].created \in 1 .. MaxRequests
    BY <2>1 DEF Row
  <2> QED
    BY <2>2, ProfilesAssumption
<1>2. T \subseteq Nat /\ T # {}
  BY <1>1
<1>3. PICK m \in T : \A k \in T : <<k, m>> \notin OpToRel(<, Nat)
  BY <1>2, WFMin, NatLessThanWellFounded
<1>4. \A k \in T : ~(k < m)
  BY <1>2, <1>3 DEF OpToRel
<1>5. PICK p \in Enabled(t) : t[p].created = m
  BY <1>3
<1>6. ASSUME NEW s \in Enabled(t) PROVE t[p].created <= t[s].created
  <2>1. ~(t[s].created < m)
    BY <1>4
  <2>2. t[s].created \in Nat /\ m \in Nat
    BY <1>1, <1>5
  <2> QED
    BY <1>5, <2>1, <2>2
<1> QED
  BY <1>6

\* A commit that is not a deletion leaves a default where there was one.
LEMMA OthersKeepADefault ==
    ASSUME ProfilesInv, Defaults(profiles) # {}, NEW q \in Requests, request[q] # Idle,
           Create(q) \/ SetEnabled(q) \/ SetDefault(q) \/ PutRoutes(q)
    PROVE  Defaults(profiles') # {}
<1>0. PICK d \in Defaults(profiles) : d \in Profiles
  BY Tables
<1>1. profiles \in [Profiles -> Row \cup {NoProfile}]
  BY DEF ProfilesInv, TypeInv
<1>2. profiles[d] \in Row /\ profiles[d].default
  BY <1>0, <1>1 DEF Defaults, Present
<1> DEFINE id == request[q].body.id
<1>3. ASSUME NEW p \in Profiles, profiles'[p] # NoProfile, profiles'[p].default
      PROVE  Defaults(profiles') # {}
  BY <1>3 DEF Defaults, Present
<1>4. CASE Create(q)
  <2> DEFINE default == request[q].body.default \/ Present(request[q].seen) = {}
             new == [enabled |-> TRUE, default |-> default, created |-> request[q].now]
  <2>1. /\ request[q] \in Frame /\ request[q].body \in Bodies /\ NewId(q)
    BY InProgress
  <2>2. request[q].body.op = "create"
    BY <1>4 DEF Create
  <2>3. id \in Profiles /\ default \in BOOLEAN
    BY <2>1, <2>2, BodyCases
  <2>4. new \in Row /\ new.default = default
    BY <2>1, <2>3 DEF Row, Frame
  <2>5. PICK base \in {profiles, Cleared(profiles, Present(request[q].seen)),
                       Cleared(profiles, Present(profiles))} :
          /\ profiles' = [base EXCEPT ![id] = new]
          /\ ~default => base = profiles
    BY <1>4 DEF Create, Finish
  <2>6. base \in [Profiles -> Row \cup {NoProfile}]
    BY <1>1, <2>5, MarksCleared
  <2> HIDE DEF new, default, id
  <2>7. CASE default
    <3>1. profiles'[id] = new
      BY <2>3, <2>5, <2>6
    <3>2. new # NoProfile
      BY <2>4, ProfilesAssumption
    <3> QED
      BY <1>3, <2>3, <2>4, <2>7, <3>1, <3>2
  <2>8. CASE ~default
    <3>1. d # id
      BY <1>0, <2>1, <2>2, Tables DEF NewId, id
    <3>2. profiles'[d] = profiles[d]
      BY <1>0, <1>1, <2>5, <2>6, <2>8, <3>1
    <3> QED
      BY <1>0, <1>2, <1>3, <3>2, ProfilesAssumption
  <2> QED
    BY <2>7, <2>8
<1>5. CASE SetEnabled(q)
  <2> DEFINE wish == request[q].body.set = "enable"
             new == [profiles[d] EXCEPT !.enabled = wish]
  <2>1. \/ profiles' = profiles
        \/ profiles' = [profiles EXCEPT ![id].enabled = wish]
    BY <1>5 DEF SetEnabled, Finish
  <2>2. new \in Row /\ new.default = profiles[d].default
    BY <1>2 DEF Row
  <2>3. profiles'[d] = profiles[d] \/ profiles'[d] = new
    BY <1>0, <1>1, <2>1
  <2> HIDE DEF new
  <2>4. profiles'[d] \in Row /\ profiles'[d].default
    BY <1>2, <2>2, <2>3
  <2> QED
    BY <1>0, <1>3, <2>4, ProfilesAssumption
<1>6. CASE SetDefault(q)
  <2>1. id \in Present(profiles)
    BY <1>6 DEF SetDefault
  <2>2. id \in Profiles
    BY <2>1, Tables
  <2>3. PICK base \in {Cleared(profiles, Present(request[q].seen)), Cleared(profiles, Present(profiles))} :
         profiles' = [base EXCEPT ![id].default = TRUE,
                      ![id].enabled = IF request[q].seen[id].enabled THEN @ ELSE TRUE]
    BY <1>6 DEF SetDefault, Finish
  <2>4. base \in [Profiles -> Row \cup {NoProfile}] /\ Present(base) = Present(profiles)
    BY <1>1, <2>3, MarksCleared
  <2>5. base[id] \in Row
    BY <2>1, <2>2, <2>4 DEF Present
  <2> DEFINE new == [base[id] EXCEPT !.default = TRUE,
                       !.enabled = IF request[q].seen[id].enabled THEN @ ELSE TRUE]
  <2>6. new \in Row /\ new.default = TRUE
    BY <2>5 DEF Row
  <2>7. profiles'[id] = new
    BY <2>2, <2>3, <2>4
  <2> HIDE DEF new, id
  <2> QED
    BY <1>3, <2>2, <2>6, <2>7, ProfilesAssumption
<1>7. CASE PutRoutes(q)
  BY <1>7 DEF PutRoutes, Finish
<1> QED
  BY <1>4, <1>5, <1>6, <1>7

-----------------------------------------------------------------------------
(* Theorems *)

\* However requests overlap: types, at most one default, what each handler in
\* progress has checked of what it read, fresh ids, routes to profiles that
\* exist, and enabled routes and default as long as no read was outdated.
THEOREM ProfilesSafety == Spec => []ProfilesInv
<1>1. ASSUME ProfilesInv, [Next]_vars PROVE ProfilesInv'
  <2>1. ASSUME NEW q \in Requests, NEW b \in Bodies, Begin(q, b) PROVE ProfilesInv'
    BY <1>1, <2>1, BeginKeeps
  <2>2. ASSUME NEW q \in Requests, Commit(q) PROVE ProfilesInv'
    BY <1>1, <2>2, CreateKeeps, SetEnabledKeeps, SetDefaultKeeps, DeleteKeeps, PutRoutesKeeps
       DEF Commit
  <2>3. ASSUME NEW q \in Requests, Refused(q) PROVE ProfilesInv'
    BY <1>1, <2>3, RefusedKeeps
  <2> QED
    BY <1>1, <2>1, <2>2, <2>3, StutterKeeps DEF Next
<1> QED
  BY <1>1, InitProfiles, PTL DEF Spec

\* The tables, and what a handler in progress holds, keep their types.
THEOREM ProfilesTypeOK == Spec => []TypeOK
<1>1. ASSUME ProfilesInv PROVE TypeOK
  <2>1. ASSUME NEW q \in Requests, request[q] # Idle PROVE request[q] \in Frame
    BY <1>1, <2>1 DEF ProfilesInv, TypeInv
  <2> QED
    BY <1>1, <2>1 DEF ProfilesInv, TypeInv, TypeOK, Frame
<1> QED
  BY <1>1, ProfilesSafety, PTL

\* A user never has two default profiles.
THEOREM ProfilesOneDefault == Spec => []OneDefault
<1>1. ProfilesInv => OneDefault
  BY DEF ProfilesInv
<1> QED
  BY <1>1, ProfilesSafety, PTL

\* A routed role is served by its own profile: the profile exists, and is used
\* unless handlers that overlapped outdated what one of them had read.
THEOREM ProfilesRoutesServe == Spec => []RoutesServeTheirRoles
<1>1. ASSUME ProfilesInv PROVE RoutesServeTheirRoles
  BY <1>1 DEF ProfilesInv, RouteInv, RoutesServeTheirRoles, Resolve
<1> QED
  BY <1>1, ProfilesSafety, PTL

\* Where handlers do not overlap, a user who has a default profile has a model
\* for every role.
THEOREM ProfilesDefaultServes == Spec => []DefaultServesTheRest
<1>1. ASSUME ProfilesInv PROVE DefaultServesTheRest
  <2> SUFFICES ASSUME ~stale, Defaults(profiles) # {}, NEW r \in Roles
               PROVE  Resolve(r) # NoProfile
    BY DEF DefaultServesTheRest
  <2> DEFINE usable == Defaults(profiles) \cap Enabled(profiles)
  <2>1. Defaults(profiles) \subseteq Enabled(profiles)
    BY <1>1 DEF ProfilesInv, DefaultInv
  <2>2. usable # {} /\ usable \subseteq Profiles
    BY <2>1, Tables
  <2>3. (CHOOSE p \in usable : TRUE) \in usable
    BY <2>2
  <2>4. Enabled(profiles) \subseteq Profiles
    BY Tables
  <2>5. NoProfile \notin Profiles
    BY ProfilesAssumption
  <2>6. Resolve(r) = IF routes[r] \in Enabled(profiles) THEN routes[r]
                     ELSE IF usable = {} THEN NoProfile ELSE CHOOSE p \in usable : TRUE
    BY DEF Resolve
  <2> HIDE DEF usable
  <2> QED
    BY <2>2, <2>3, <2>4, <2>5, <2>6
<1> QED
  BY <1>1, ProfilesSafety, PTL

\* The default is lost only by a deletion and, unless the deletion overlapped
\* another change, only if it leaves no enabled profile.
THEOREM ProfilesDefaultLost == Spec => DefaultLostByDeletion
<1> DEFINE lost == Defaults(profiles) # {} /\ Defaults(profiles') = {} =>
                     /\ \E q \in Requests : request[q] # Idle /\ request[q].body.op = "delete"
                                            /\ request'[q] = Idle
                     /\ stale' \/ Enabled(profiles') = {}
<1>1. ASSUME ProfilesInv, Next PROVE lost
  <2> SUFFICES ASSUME Defaults(profiles) # {}, Defaults(profiles') = {}
               PROVE  /\ \E q \in Requests : request[q] # Idle /\ request[q].body.op = "delete"
                                             /\ request'[q] = Idle
                      /\ stale' \/ Enabled(profiles') = {}
    OBVIOUS
  <2>1. PICK q \in Requests : request[q] # Idle /\ Delete(q)
    BY <1>1, OthersKeepADefault DEF Next, Begin, Refused, Commit
  <2> DEFINE id == request[q].body.id
             rest == [profiles EXCEPT ![id] = NoProfile]
  <2>2. /\ Finish(q, profiles') /\ id \in Profiles /\ request[q].body.op = "delete"
        /\ profiles' \in [Profiles -> Row \cup {NoProfile}]
        /\ Enabled(profiles') = Enabled(profiles) \ {id}
        /\ Defaults(profiles) \ {id} \subseteq Defaults(profiles')
        /\ request[q].seen[id].default =>
             \A p \in Enabled(rest) :
               (\A s \in Enabled(rest) : rest[p].created <= rest[s].created)
                 => p \in Defaults(profiles')
    BY <1>1, <2>1, Deletion
  <2>3. request'[q] = Idle
    BY <1>1, <2>2 DEF Finish, ProfilesInv, TypeInv
  <2>4. stale' \/ Enabled(profiles') = {}
    <3> SUFFICES ASSUME ~stale' PROVE Enabled(profiles') = {}
      OBVIOUS
    <3>1. request[q].seen = profiles
      BY <1>1, <2>1, <2>2, InProgress
    <3>2. id \in Defaults(profiles)
      BY <2>2
    <3>3. profiles[id].default
      BY <3>2 DEF Defaults
    <3>4. /\ rest \in [Profiles -> Row \cup {NoProfile}]
          /\ rest[id] = NoProfile /\ \A p \in Profiles \ {id} : rest[p] = profiles[p]
      BY <1>1, <2>2 DEF ProfilesInv, TypeInv
    <3> HIDE DEF rest, id
    <3>5. Enabled(rest) = {}
      BY <2>2, <3>1, <3>3, <3>4, Oldest
    <3>6. \A p \in Enabled(profiles) \ {id} : p \in Enabled(rest)
      BY <3>4 DEF Enabled, Present
    <3> QED
      BY <2>2, <3>5, <3>6
  <2> QED
    BY <2>1, <2>2, <2>3, <2>4
<1>2. ASSUME ProfilesInv, UNCHANGED vars PROVE lost
  BY <1>2 DEF vars
<1>3. ProfilesInv /\ [Next]_vars => [lost]_vars
  BY <1>1, <1>2
<1> QED
  BY <1>3, ProfilesSafety, PTL DEF Spec, DefaultLostByDeletion
=============================================================================

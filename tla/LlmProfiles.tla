---------------------------- MODULE LlmProfiles ----------------------------
(***************************************************************************)
(* The model profiles of one user, the routes of the debate's roles to     *)
(* them (api/settings.py, models/user.py) and how a role is resolved to a  *)
(* profile (llm/client.py).  A handler reads at the beginning and writes   *)
(* in one transaction at the end (READ COMMITTED), and several may overlap.*)
(* Every statement is scoped to the user, so users do not interact.        *)
(***************************************************************************)
EXTENDS Naturals, FiniteSets

CONSTANTS
    Profiles,      \* ids of llm_profiles
    Roles,         \* DEBATE_ROLE_KEYS
    Requests,      \* requests that may be in progress together
    NoProfile, NoRoute,
    MaxRequests    \* bound: requests of a behaviour

Row == [enabled: BOOLEAN, default: BOOLEAN, created: 1 .. MaxRequests]

ASSUME ProfilesAssumption ==
    /\ IsFiniteSet(Profiles)
    /\ NoProfile \notin Row
    /\ {NoProfile, NoRoute} \cap Profiles = {}
    /\ MaxRequests \in Nat

VARIABLES
    profiles,      \* table llm_profiles
    routes,        \* table llm_agent_routes, purpose debate
    request,       \* the handlers in progress and what they read
    count,
    stale          \* history: a handler wrote what another's commit had outdated

vars == <<profiles, routes, request, count, stale>>

-----------------------------------------------------------------------------
Bodies ==
    [op: {"create"}, id: Profiles, default: BOOLEAN]
    \cup [op: {"patch"}, id: Profiles, set: {"enable", "disable", "default"}]
    \cup [op: {"delete"}, id: Profiles]
    \cup [op: {"routes"}, plan: [Roles -> Profiles \cup {NoRoute}]]

Idle == [at |-> "idle"]

TypeOK ==
    /\ profiles \in [Profiles -> Row \cup {NoProfile}]
    /\ routes \in [Roles -> Profiles \cup {NoRoute}]
    /\ \A q \in Requests : request[q] # Idle =>
         /\ request[q].body \in Bodies
         /\ request[q].seen \in [Profiles -> Row \cup {NoProfile}]
         /\ request[q].used \subseteq Profiles
         /\ request[q].now \in 1 .. MaxRequests
    /\ count \in 0 .. MaxRequests
    /\ stale \in BOOLEAN

Init ==
    /\ profiles = [p \in Profiles |-> NoProfile]
    /\ routes = [r \in Roles |-> NoRoute]
    /\ request = [q \in Requests |-> Idle]
    /\ count = 0
    /\ stale = FALSE

Present(table)  == {p \in Profiles : table[p] # NoProfile}
Enabled(table)  == {p \in Present(table) : table[p].enabled}
Defaults(table) == {p \in Present(table) : table[p].default}
Routed          == {routes[r] : r \in Roles} \ {NoRoute}

\* The role's route if its profile is enabled, else the default profile if
\* that is enabled, else LlmUnavailable.
Resolve(r) ==
    LET usable == Defaults(profiles) \cap Enabled(profiles) IN
    IF routes[r] \in Enabled(profiles) THEN routes[r]
    ELSE IF usable = {} THEN NoProfile ELSE CHOOSE p \in usable : TRUE

\* Ids the handlers in progress refer to; a new uuid is none of them.
InUse == {request[q].body.id : q \in
            {s \in Requests : request[s] # Idle /\ request[s].body.op # "routes"}}

-----------------------------------------------------------------------------
(* What a handler checks of what it reads; otherwise it answers 404 or 409 *)

AcceptsMutant(b) ==
    /\ b.op = "create" => b.id \notin Present(profiles) \cup InUse
    /\ b.op \in {"patch", "delete"} => b.id \in Present(profiles)
    /\ b.op = "patch" => (b.set = "disable" =>
         b.id \notin Defaults(profiles))
    /\ b.op = "routes" => \A r \in Roles : b.plan[r] \in Enabled(profiles) \cup {NoRoute}

Accepts(b) ==
    /\ b.op = "create" => b.id \notin Present(profiles) \cup InUse
    /\ b.op \in {"patch", "delete"} => b.id \in Present(profiles)
    /\ b.op = "patch" => (b.set = "disable" =>
         b.id \notin Defaults(profiles) /\ b.id \notin Routed)
    /\ b.op = "routes" => \A r \in Roles : b.plan[r] \in Enabled(profiles) \cup {NoRoute}

Begin(q, b) ==
    /\ request[q] = Idle
    /\ count < MaxRequests
    /\ Accepts(b)
    /\ count' = count + 1
    /\ request' = [request EXCEPT ![q] =
         [body |-> b, seen |-> profiles, used |-> Routed, now |-> count + 1]]
    /\ UNCHANGED <<profiles, routes, stale>>

-----------------------------------------------------------------------------
(* The writes, each one transaction *)

\* uq_llm_profiles_one_default_per_user
IndexAllows(table)       == Cardinality(Defaults(table)) <= 1

\* UPDATE ... SET is_default = false, which may run before or after a row
\* another handler inserts is committed.
Cleared(table, reach) ==
    [p \in Profiles |-> IF p \in reach \cap Present(table)
                          THEN [table[p] EXCEPT !.default = FALSE] ELSE table[p]]

Finish(q, table) ==
    /\ IndexAllows(table)
    /\ profiles' = table
    /\ request' = [request EXCEPT ![q] = Idle]
    /\ stale' = (stale \/ profiles # request[q].seen \/ Routed # request[q].used)
    /\ UNCHANGED count

\* The first profile becomes the default whatever the request says.
Create(q) ==
    LET o == request[q]  b == o.body
        default == b.default \/ Present(o.seen) = {} IN
    /\ b.op = "create"
    /\ \E reach \in {Present(o.seen), Present(profiles)} :
         Finish(q, [(IF default THEN Cleared(profiles, reach) ELSE profiles)
                      EXCEPT ![b.id] = [enabled |-> TRUE, default |-> default,
                                        created |-> o.now]])
    /\ UNCHANGED routes

\* The session writes a column only if it differs from the value it read.
SetEnabled(q) ==
    LET o == request[q]  b == o.body  wish == b.set = "enable" IN
    /\ b.op = "patch" /\ b.set \in {"enable", "disable"}
    /\ b.id \in Present(profiles)
    /\ Finish(q, IF o.seen[b.id].enabled = wish THEN profiles
                 ELSE [profiles EXCEPT ![b.id].enabled = wish])
    /\ UNCHANGED routes

\* _set_default
SetDefaultMutant(q) ==
    LET o == request[q]  b == o.body IN
    /\ b.op = "patch" /\ b.set = "default"
    /\ b.id \in Present(profiles)
    /\ \E reach \in {Present(o.seen), Present(profiles)} :
         Finish(q, [Cleared(profiles, reach) EXCEPT ![b.id].default = TRUE])
    /\ UNCHANGED routes

SetDefault(q) ==
    LET o == request[q]  b == o.body IN
    /\ b.op = "patch" /\ b.set = "default"
    /\ b.id \in Present(profiles)
    /\ \E reach \in {Present(o.seen), Present(profiles)} :
         Finish(q, [Cleared(profiles, reach) EXCEPT
                      ![b.id].default = TRUE,
                      ![b.id].enabled = IF o.seen[b.id].enabled THEN @ ELSE TRUE])
    /\ UNCHANGED routes

\* If the deleted profile was read as the default, the oldest enabled one of
\* the rest is made the default; routes go by ON DELETE CASCADE.
DeleteMutant(q) ==
    LET id == request[q].body.id IN
    /\ request[q].body.op = "delete"
    /\ Finish(q, [profiles EXCEPT ![id] = NoProfile])
    /\ UNCHANGED routes

Delete(q) ==
    LET o == request[q]  id == o.body.id
        rest == [profiles EXCEPT ![id] = NoProfile]
        oldest == {p \in Enabled(rest) :
                     \A s \in Enabled(rest) : rest[p].created <= rest[s].created} IN
    /\ o.body.op = "delete"
    /\ Finish(q, [p \in Profiles |->
                    IF o.seen[id].default /\ p \in oldest
                      THEN [rest[p] EXCEPT !.default = TRUE] ELSE rest[p]])
    /\ routes' = [r \in Roles |-> IF routes[r] = id THEN NoRoute ELSE routes[r]]

\* All routes are replaced; a profile deleted meanwhile breaks the foreign key.
PutRoutes(q) ==
    LET plan == request[q].body.plan IN
    /\ request[q].body.op = "routes"
    /\ \A r \in Roles : plan[r] \in Present(profiles) \cup {NoRoute}
    /\ routes' = plan
    /\ Finish(q, profiles)

\* An index, a key or a vanished row refuses the transaction, or it is cut off.
Refused(q) ==
    /\ request[q] # Idle
    /\ request' = [request EXCEPT ![q] = Idle]
    /\ UNCHANGED <<profiles, routes, count, stale>>

Commit(q) ==
    /\ request[q] # Idle
    /\ Create(q) \/ SetEnabled(q) \/ SetDefault(q) \/ Delete(q) \/ PutRoutes(q)

Next == \E q \in Requests : (\E b \in Bodies : Begin(q, b)) \/ Commit(q) \/ Refused(q)

Spec == Init /\ [][Next]_vars

-----------------------------------------------------------------------------
(* Properties *)

\* Never two defaults, although first profiles may be created together and
\* defaults set while another default is inserted.
OneDefault == Cardinality(Defaults(profiles)) <= 1

\* A role that has a route is served by it: routed profiles exist, and stay
\* enabled as long as no handler's commit outdated what another had read.
RoutesServeTheirRoles == \A r \in Roles : routes[r] # NoRoute =>
    /\ routes[r] \in Present(profiles)
    /\ stale \/ Resolve(r) = routes[r]

\* Handlers that do not overlap keep the default usable for the other roles.
DefaultServesTheRest == ~stale /\ Defaults(profiles) # {} =>
    \A r \in Roles : Resolve(r) # NoProfile

\* "The default profile must remain enabled", whatever handlers overlap.
DefaultStaysEnabled == Defaults(profiles) \subseteq Enabled(profiles)

\* A user loses the default only by deleting it, and only if no other profile
\* is enabled, unless the deletion overlapped a change of the profiles.
DefaultLostByDeletion == [][
    Defaults(profiles) # {} /\ Defaults(profiles') = {} =>
        /\ \E q \in Requests : request[q] # Idle /\ request[q].body.op = "delete"
                               /\ request'[q] = Idle
        /\ stale' \/ Enabled(profiles') = {}]_vars
=============================================================================

---------------------------- MODULE MarketCache ----------------------------
(***************************************************************************)
(* The market data of the API process: the cache of the indices that a     *)
(* poller in the event loop fills (main.py, services/market.py) and that   *)
(* requests read field by field from other threads; and the manual quotes  *)
(* of the superadmin (quote_overrides), written by two requests at once.   *)
(*                                                                         *)
(* The market is a number that moves; the cached data is that number at    *)
(* the fetch, Nothing before the first.  Time stamps are set or not.  An   *)
(* override is the row of one code: a value in each column, or Nothing.    *)
(***************************************************************************)
EXTENDS Integers

CONSTANTS
    Readers, Editors,       \* requests of a snapshot, requests on an override
    Columns, Values,        \* of an override
    Nothing,
    MaxMoves, MaxTurns      \* bounds: moves; turns of open and up and edits, together

Overrides == [Columns -> Values]

\* A save as it was accepted (history): its body, and what it crossed.
Accepted == [body : Overrides, crossed : SUBSET Overrides]

ASSUME CacheAssumption == Nothing \notin Nat /\ Nothing \notin Overrides /\ Nothing \notin Accepted

VARIABLES
    level, open, up, turns, \* the market, a session open, the providers up
    cache,                  \* _cache
    poller,                 \* where _market_poller is
    failing,                \* the last refresh that ended has failed
    tried,                  \* history: the market when a fetch last ended, 0 before
    reader,                 \* requests inside get_market_snapshot
    manual,                 \* the committed override of a code
    editor,                 \* requests inside a save or a delete of it
    standing,               \* history: the last accepted save, Nothing after a delete
    edits                   \* edits begun
cacheVars == <<level, open, up, turns, cache, poller, failing, tried, reader,
               manual, editor, standing, edits>>
marketVars == <<level, open, up, turns>>
overrides == <<manual, editor, standing, edits>>

\* A request: what it found when it began, what it has read, what it answers.
Outside == [at |-> "idle", had |-> FALSE, failed |-> FALSE, due |-> 0, error |-> FALSE,
            status |-> "none", indices |-> Nothing]

\* An edit: the row it read, the body of a save, and the bodies that other saves
\* left while it was under way (history).
NoEdit == [at |-> "idle", row |-> Nothing, body |-> Nothing, crossed |-> {}]

CacheInit ==
    /\ level = 1 /\ open \in BOOLEAN /\ up \in BOOLEAN /\ turns = 0
    /\ cache = [data |-> Nothing, updated |-> FALSE, attempted |-> FALSE, error |-> FALSE]
    /\ poller = "refresh"
    /\ failing = FALSE /\ tried = 0
    /\ reader = [r \in Readers |-> Outside]
    /\ manual \in Overrides \cup {Nothing} /\ edits = 0
    /\ standing = IF manual = Nothing THEN Nothing ELSE [body |-> manual, crossed |-> {}]
    /\ editor = [e \in Editors |-> NoEdit]

Move ==
    /\ level < MaxMoves
    /\ level' = level + 1
    /\ UNCHANGED <<open, up, turns, cache, poller, failing, tried, reader, overrides>>

Turn ==
    /\ turns + edits < MaxTurns
    /\ turns' = turns + 1
    /\ \/ open' = ~open /\ up' = up
       \/ open' = open /\ up' = ~up
    /\ UNCHANGED <<level, cache, poller, failing, tried, reader, overrides>>

-----------------------------------------------------------------------------
(* _market_poller and refresh_market_cache: between two assignments a      *)
(* thread of the pool may run.                                             *)

Poll(from, to, c) == poller = from /\ poller' = to /\ cache' = c /\ UNCHANGED <<marketVars, overrides>>

Refresh ==
    /\ Poll("refresh", "fetch", [cache EXCEPT !.attempted = TRUE])
    /\ UNCHANGED <<failing, tried, reader>>

\* fetch_index_list answers rows or raises: no rows is an error there.
Fetched ==
    /\ up
    /\ Poll("fetch", "stamp", [cache EXCEPT !.data = level])
    /\ tried' = level
    /\ UNCHANGED <<failing, reader>>
Stamp ==
    /\ Poll("stamp", "clear", [cache EXCEPT !.updated = TRUE])
    /\ UNCHANGED <<failing, tried, reader>>
Clear ==
    /\ Poll("clear", "sleep", [cache EXCEPT !.error = FALSE])
    /\ failing' = FALSE
    /\ reader' = [r \in Readers |-> [reader[r] EXCEPT !.failed = FALSE]]
    /\ UNCHANGED tried

RefreshFailsMutant ==
    /\ ~up
    /\ Poll("fetch", "sleep", [cache EXCEPT !.error = (@ \/ cache.data = Nothing)])
    /\ failing' = TRUE /\ tried' = level
    /\ UNCHANGED reader
RefreshFails ==
    /\ ~up
    /\ Poll("fetch", "sleep", [cache EXCEPT !.error = TRUE])
    /\ failing' = TRUE /\ tried' = level
    /\ UNCHANGED reader

\* should_refresh_market_cache, every 30 seconds.
ShouldRefreshMutant == cache.data = Nothing
ShouldRefresh == cache.data = Nothing \/ open
Wake ==
    /\ ShouldRefresh
    /\ Poll("sleep", "refresh", cache)
    /\ UNCHANGED <<failing, tried, reader>>

Poller == Refresh \/ Fetched \/ Stamp \/ Clear \/ RefreshFails \/ Wake

-----------------------------------------------------------------------------
(* get_market_snapshot, in a thread of the pool: each field is a read.     *)

Read(r, from, answer) ==
    /\ reader[r].at = from
    /\ reader' = [reader EXCEPT ![r] = answer]
    /\ UNCHANGED <<marketVars, cache, poller, failing, tried, overrides>>

Begin(r) ==
    Read(r, "idle", [at |-> "error", had |-> cache.data # Nothing, failed |-> failing, due |-> tried,
                     error |-> FALSE, status |-> "none", indices |-> Nothing])
ReadError(r) == Read(r, "error", [reader[r] EXCEPT !.at = "status", !.error = cache.error])
ReadStatus(r) ==
    Read(r, "status", [reader[r] EXCEPT !.at = "indices",
        !.status = IF reader[r].error THEN IF cache.data # Nothing THEN "stale" ELSE "unavailable"
                   ELSE IF ~cache.attempted THEN "loading"
                   ELSE IF cache.data # Nothing THEN "ok" ELSE "empty"])
ReadIndices(r) == Read(r, "indices", [reader[r] EXCEPT !.at = "answered", !.indices = cache.data])
End(r) == Read(r, "answered", Outside)

-----------------------------------------------------------------------------
(* upsert_quote_override and delete_quote_override: the row is read, then  *)
(* written at the commit, each request in a transaction of its own.        *)

BeginEdit(e, kind, body) ==
    /\ editor[e] = NoEdit /\ turns + edits < MaxTurns
    /\ edits' = edits + 1
    /\ editor' = [editor EXCEPT ![e] = [at |-> kind, row |-> manual, body |-> body, crossed |-> {}]]
    /\ UNCHANGED <<marketVars, cache, poller, failing, tried, reader, manual, standing>>

BeginSave(e)   == \E body \in Overrides : BeginEdit(e, "save", body)
BeginDelete(e) == BeginEdit(e, "delete", Nothing)

\* The request ends and leaves the row as it is, or as written.
EndEdit(e, kind, row, end, left) ==
    /\ editor[e].at = kind
    /\ manual' = row /\ standing' = end
    /\ editor' = [x \in Editors |-> IF x = e \/ editor[x] = NoEdit THEN NoEdit
                                     ELSE [editor[x] EXCEPT !.crossed = @ \cup left]]
    /\ UNCHANGED <<marketVars, cache, poller, failing, tried, reader, edits>>

Refused(e, kind) == EndEdit(e, kind, manual, standing, {})

\* The body is assigned to the row that was read, and the flush writes the
\* columns it changed; without a row all are inserted.
Flushed(r, row) ==
    [c \in Columns |-> IF row = Nothing \/ r.body[c] # r.row[c] THEN r.body[c] ELSE row[c]]

\* The row exists where it was absent (a duplicate key) or is gone where it
\* was read (no row matched): the request is refused.
SaveMutant(e) ==
    LET r == editor[e] IN
    IF r.row = Nothing /\ manual # Nothing THEN Refused(e, "save")
    ELSE EndEdit(e, "save", IF r.row # Nothing /\ manual = Nothing THEN Nothing ELSE Flushed(r, manual),
                 [body |-> r.body, crossed |-> r.crossed], {r.body})

Save(e) ==
    LET r == editor[e] IN
    IF (r.row = Nothing) # (manual = Nothing) THEN Refused(e, "save")
    ELSE EndEdit(e, "save", Flushed(r, manual), [body |-> r.body, crossed |-> r.crossed], {r.body})

\* Nothing to delete when none was read; an ORM delete of a row that is gone
\* is accepted.
Delete(e) ==
    IF editor[e].row = Nothing THEN Refused(e, "delete")
    ELSE EndEdit(e, "delete", Nothing, Nothing, {})

CacheNext ==
    \/ Move \/ Turn \/ Poller
    \/ \E r \in Readers : Begin(r) \/ ReadError(r) \/ ReadStatus(r) \/ ReadIndices(r) \/ End(r)
    \/ \E e \in Editors : BeginSave(e) \/ BeginDelete(e) \/ Save(e) \/ Delete(e)

CacheSpec == CacheInit /\ [][CacheNext]_cacheVars
\* The event loop runs the poller: its sleep ends, a fetch answers or times out.
FairCacheSpec == CacheSpec /\ WF_cacheVars(Poller)

-----------------------------------------------------------------------------
(* Properties *)

\* Types; a cache with a time stamp has the data it stamps.
CacheTypeOK ==
    /\ cache.data \in 1 .. level \cup {Nothing} /\ {cache.updated, cache.attempted, cache.error} \subseteq BOOLEAN
    /\ cache.updated => cache.data # Nothing /\ cache.attempted
    /\ poller \in {"refresh", "fetch", "stamp", "clear", "sleep"}
    /\ \A r \in Readers : reader[r].at \in {"idle", "error", "status", "indices", "answered"}
    /\ tried \in 0 .. level
    /\ manual \in Overrides \cup {Nothing}

\* A failure keeps the old cache ("失败保留旧缓存"): once there is a market to show,
\* every later answer shows one and says so, whatever the poller does between
\* the reads of the request.
AnswersKeepTheMarket ==
    \A r \in Readers : reader[r].at = "answered" /\ reader[r].had =>
        reader[r].indices # Nothing /\ reader[r].status \in {"ok", "stale"}

\* An answer says "ok" only if at some moment of the request the last refresh
\* had not failed: an old market is never passed off as a current one.
OldMarketIsStale ==
    \A r \in Readers : reader[r].at = "answered" /\ reader[r].failed => reader[r].status \in {"stale", "unavailable"}

\* An answer that says "ok" has a market at least as late as the fetch that had
\* last ended when the request began, in success or in failure: an old market is
\* never passed off as a current one, however fields were set between the reads.
OkIsNotOlderThanTheLastFetch ==
    \A r \in Readers : reader[r].at = "answered" /\ reader[r].status = "ok" =>
        reader[r].indices # Nothing /\ reader[r].indices >= reader[r].due

\* What a request answers is never nothing in place of an old market and never
\* an old one as current; the fields keep their types.
AnswersAreHonest ==
    CacheTypeOK /\ AnswersKeepTheMarket /\ OldMarketIsStale /\ OkIsNotOlderThanTheLastFetch

\* What stands of an override is the last accepted edit: no row after a delete,
\* and after a save its body, but for the columns that it found as it wanted them
\* and another save changed while it was under way.
AcceptedEditStands ==
    /\ manual = Nothing <=> standing = Nothing
    /\ manual # Nothing =>
          \A c \in Columns : \/ manual[c] = standing.body[c]
                             \/ \E b \in standing.crossed : manual[c] = b[c]

\* The inductive invariant behind AnswersAreHonest: what the poller has done
\* where it is, and what a request that is under way may still find.
PollerInv ==
    /\ level \in Nat \ {0} /\ failing \in BOOLEAN
    /\ cache \in [data : 1 .. level \cup {Nothing}, updated : BOOLEAN, attempted : BOOLEAN, error : BOOLEAN]
    /\ poller # "refresh" \/ cache.data # Nothing => cache.attempted
    /\ poller \in {"stamp", "clear"} => cache.data # Nothing
    /\ failing => cache.error
    /\ ~cache.error /\ tried > 0 => cache.data # Nothing /\ cache.data >= tried
    /\ poller \in {"stamp", "clear"} => cache.data = tried

Request == [at : {"idle", "error", "status", "indices", "answered"},
            had : BOOLEAN, failed : BOOLEAN, due : 0 .. level, error : BOOLEAN,
            status : {"none", "loading", "empty", "unavailable", "ok", "stale"},
            indices : 1 .. level \cup {Nothing}]

\* A request that may still say "ok", or is about to.
Promising(q) == (q.at = "status" /\ ~q.error) \/ (q.at = "indices" /\ q.status = "ok")

ReaderInv ==
    /\ reader \in [Readers -> Request]
    /\ \A r \in Readers :
          /\ reader[r].had => cache.data # Nothing
          /\ reader[r].failed => cache.error
          /\ reader[r].failed /\ reader[r].at = "status" => reader[r].error
          /\ reader[r].failed /\ reader[r].at \in {"indices", "answered"} =>
                reader[r].status \in {"stale", "unavailable"}
          /\ reader[r].had /\ reader[r].at \in {"indices", "answered"} => reader[r].status \in {"ok", "stale"}
          /\ reader[r].had /\ reader[r].at = "answered" => reader[r].indices # Nothing
          /\ reader[r].due <= tried
          /\ Promising(reader[r]) /\ reader[r].due > 0 =>
                cache.data # Nothing /\ cache.data >= reader[r].due
          /\ reader[r].at = "indices" /\ reader[r].status = "ok" => cache.data # Nothing
          /\ reader[r].at = "answered" /\ reader[r].status = "ok" =>
                reader[r].indices # Nothing /\ reader[r].indices >= reader[r].due

\* What a save under way read of the row still stands, column by column, or
\* another save has changed it.
EditInv ==
    /\ edits \in Nat
    /\ editor \in [Editors -> [at : {"idle", "save", "delete"}, row : Overrides \cup {Nothing},
                               body : Overrides \cup {Nothing}, crossed : SUBSET Overrides]]
    /\ standing \in Accepted \cup {Nothing}
    /\ \A e \in Editors : editor[e].at = "save" =>
          /\ editor[e].body # Nothing
          /\ editor[e].row # Nothing /\ manual # Nothing =>
                \A c \in Columns : \/ manual[c] = editor[e].row[c]
                                   \/ \E b \in editor[e].crossed : manual[c] = b[c]

CacheInv == CacheTypeOK /\ PollerInv /\ ReaderInv /\ EditInv /\ AcceptedEditStands

\* While a session is open and the providers answer, the cache catches up.
CacheCatchesUp == <>[](open /\ up) => <>[](cache.data = level /\ ~cache.error)
=============================================================================

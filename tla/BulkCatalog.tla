---------------------------- MODULE BulkCatalog ----------------------------
(***************************************************************************)
(* GET /api/v1/repos/bulk: one payload of the whole catalogue, kept in     *)
(* memory for six hours, dropped by the writers that announce a change,    *)
(* and built by whoever misses it with several queries.  All of them share *)
(* the one connection of the pool (SetMaxOpenConns(1)) with the admin's    *)
(* rebuild of the aggregates.                                              *)
(*                                                                         *)
(* The contents of the catalogue is a version number, counting commits; a  *)
(* payload is known by the version its first query saw.  A tick is three   *)
(* hours.                                                                  *)
(***************************************************************************)
EXTENDS Integers, FiniteSets

CONSTANTS
  Clients,     \* goroutines inside HandleBulkV1
  Repos,       \* repositories that may enter github_repos
  MaxVersion   \* bound: commits

TTL == 2       \* bulkCacheTTL: six hours

Writers == {"ingest", "pins"}

ASSUME ClientsAssumption == {"free", "rebuild"} \cap Clients = {}
ASSUME BoundAssumption == MaxVersion \in Nat

VARIABLES
  conn,      \* who holds the connection between two steps
  repos,     \* table github_repos
  version,   \* commits so far
  cache,     \* BulkCache.entry
  client,    \* the requests
  writer,    \* ingest.Worker and PinsHandler.HandleReplace
  rebuild,   \* ReposHandler.HandleRebuildAggregates and the rows it goes through
  promised   \* the newest version whose Invalidate has returned

vars == <<conn, repos, version, cache, client, writer, rebuild, promised>>

NoEntry == [full |-> FALSE, low |-> 0, age |-> 0]

\* since: the version promised when the request came in.
Idle == [pc |-> "idle", low |-> 0, since |-> 0, hit |-> FALSE]

Init ==
  /\ conn = "free"
  /\ repos = {}
  /\ version = 0
  /\ cache = NoEntry
  /\ client = [c \in Clients |-> Idle]
  /\ writer = [w \in Writers |-> [pc |-> "idle", commit |-> 0]]
  /\ rebuild = [pc |-> "idle", rows |-> {}]
  /\ promised = 0
-----------------------------------------------------------------------------
(***************************************************************************)
(* HandleBulkV1.                                                           *)
(***************************************************************************)

\* BulkCache.Get hits unless the entry has outlived its time.
UsableForever(e) == e.full
Usable(e) == e.full /\ e.age <= TTL

Request(c) ==
  /\ client[c].pc \in {"idle", "answered"}
  /\ client' = [client EXCEPT ![c] =
       IF Usable(cache)
       THEN [pc |-> "answered", low |-> cache.low, since |-> promised, hit |-> TRUE]
       ELSE [pc |-> "repos", low |-> 0, since |-> promised, hit |-> FALSE]]
  /\ UNCHANGED <<conn, repos, version, cache, writer, rebuild, promised>>

\* QueryAllRepos opens its rows, ...
OpenRows(c) ==
  /\ client[c].pc = "repos"
  /\ conn = "free"
  /\ conn' = c
  /\ client' = [client EXCEPT ![c].pc = "rows", ![c].low = version]
  /\ UNCHANGED <<repos, version, cache, writer, rebuild, promised>>

\* ... and closes them before it asks for the sources of each repository.
KeptOpen(c) == c
Closed(c) == "free"

CloseRows(c) ==
  /\ client[c].pc = "rows"
  /\ conn' = Closed(c)
  /\ client' = [client EXCEPT ![c].pc = "items"]
  /\ UNCHANGED <<repos, version, cache, writer, rebuild, promised>>

FeedItems(c) ==
  /\ client[c].pc = "items"
  /\ conn = "free"
  /\ client' = [client EXCEPT ![c].pc = "rest"]
  /\ UNCHANGED <<conn, repos, version, cache, writer, rebuild, promised>>

\* GetAggregatedLanguages and GetSourceCatalog.
LanguagesAndSources(c) ==
  /\ client[c].pc = "rest"
  /\ conn = "free"
  /\ client' = [client EXCEPT ![c].pc = "built"]
  /\ UNCHANGED <<conn, repos, version, cache, writer, rebuild, promised>>

\* BulkCache.Set replaces whatever is there; the request answers with its own.
StoredForTwice(low) == [full |-> TRUE, low |-> low, age |-> -TTL]
StoredUnlessPresent(low) == IF cache.full THEN cache ELSE [full |-> TRUE, low |-> low, age |-> 0]
Stored(low) == [full |-> TRUE, low |-> low, age |-> 0]

SetAndAnswer(c) ==
  /\ client[c].pc = "built"
  /\ cache' = Stored(client[c].low)
  /\ client' = [client EXCEPT ![c].pc = "answered", ![c].low = Stored(@).low]
  /\ UNCHANGED <<conn, repos, version, writer, rebuild, promised>>
\* Any of the queries fails: an error to the client, nothing cached, and open rows
\* are closed on the way out.
QueryFails(c) ==
  /\ client[c].pc \in {"repos", "rows", "items", "rest"}
  /\ conn' = IF client[c].pc = "rows" THEN Closed(c) ELSE conn
  /\ client' = [client EXCEPT ![c] = Idle]
  /\ UNCHANGED <<repos, version, cache, writer, rebuild, promised>>
-----------------------------------------------------------------------------
(***************************************************************************)
(* Writers.                                                                *)
(***************************************************************************)

\* CompleteIngestItem: the worker announces only the commit that ends a batch.
CommitItem ==
  /\ writer["ingest"].pc = "idle"
  /\ conn = "free"
  /\ version < MaxVersion
  /\ version' = version + 1
  /\ \E r \in Repos, terminal \in BOOLEAN :
       /\ repos' = repos \cup {r}
       /\ writer' = IF terminal
                    THEN [writer EXCEPT !["ingest"] = [pc |-> "invalidate", commit |-> version + 1]]
                    ELSE writer
  /\ UNCHANGED <<conn, cache, client, rebuild, promised>>

\* ReplaceWeeklyPins.
CommitPins ==
  /\ writer["pins"].pc = "idle"
  /\ conn = "free"
  /\ version < MaxVersion
  /\ version' = version + 1
  /\ writer' = [writer EXCEPT !["pins"] = [pc |-> "invalidate", commit |-> version + 1]]
  /\ UNCHANGED <<conn, repos, cache, client, rebuild, promised>>

\* The worker drops the entry at once, HandleReplace reads the new pins back first.
Invalidate(w) ==
  /\ writer[w].pc = "invalidate"
  /\ w = "pins" => conn = "free"
  /\ cache' = NoEntry
  /\ promised' = IF writer[w].commit > promised THEN writer[w].commit ELSE promised
  /\ writer' = [writer EXCEPT ![w] = [pc |-> "idle", commit |-> 0]]
  /\ UNCHANGED <<conn, repos, version, client, rebuild>>

\* Pins that cannot be read back are an error, committed and never announced.
ReadBackFails ==
  /\ writer["pins"].pc = "invalidate"
  /\ writer' = [writer EXCEPT !["pins"] = [pc |-> "idle", commit |-> 0]]
  /\ UNCHANGED <<conn, repos, version, cache, client, rebuild, promised>>

\* RebuildAggregates opens a cursor over all repositories ...
OpenCursor ==
  /\ rebuild.pc = "idle"
  /\ conn = "free"
  /\ conn' = "rebuild"
  /\ rebuild' = [pc |-> "cursor", rows |-> repos]
  /\ UNCHANGED <<repos, version, cache, client, writer, promised>>

\* ... and, with the cursor open, begins a transaction for each of its rows.
\* The end of the rows gives the connection back.
NextRow ==
  /\ rebuild.pc = "cursor"
  /\ IF rebuild.rows = {}
     THEN /\ conn' = "free"
          /\ rebuild' = [rebuild EXCEPT !.pc = "invalidate"]
     ELSE /\ conn = "free"
          /\ \E r \in rebuild.rows : rebuild' = [rebuild EXCEPT !.rows = @ \ {r}]
          /\ UNCHANGED conn
  /\ UNCHANGED <<repos, version, cache, client, writer, promised>>

InvalidateRebuilt ==
  /\ rebuild.pc = "invalidate"
  /\ cache' = NoEntry
  /\ rebuild' = [pc |-> "idle", rows |-> {}]
  /\ UNCHANGED <<conn, repos, version, client, writer, promised>>

Tick ==
  /\ cache.full
  /\ cache.age <= TTL
  /\ cache' = [cache EXCEPT !.age = @ + 1]
  /\ UNCHANGED <<conn, repos, version, client, writer, rebuild, promised>>
-----------------------------------------------------------------------------
Build(c) ==
  \/ OpenRows(c)
  \/ CloseRows(c)
  \/ FeedItems(c)
  \/ LanguagesAndSources(c)
  \/ SetAndAnswer(c)

Rebuild == NextRow \/ InvalidateRebuilt

Next ==
  \/ \E c \in Clients : Request(c) \/ Build(c) \/ QueryFails(c)
  \/ CommitItem
  \/ CommitPins
  \/ \E w \in Writers : Invalidate(w)
  \/ ReadBackFails
  \/ OpenCursor
  \/ Rebuild
  \/ Tick

Spec == Init /\ [][Next]_vars

\* Started handlers run on; the pool hands a free connection to one of those who
\* wait for it and passes none of them over for ever; time passes.  Nothing is
\* asked of the writers: their announcements may be late or never come.
Fairness ==
  /\ \A c \in Clients : SF_vars(Build(c))
  /\ SF_vars(Rebuild)
  /\ WF_vars(Tick)

FairSpec == Spec /\ Fairness
-----------------------------------------------------------------------------
TypeOK ==
  /\ conn \in {"free", "rebuild"} \cup Clients
  /\ repos \subseteq Repos
  /\ version \in 0..MaxVersion
  /\ cache \in [full : BOOLEAN, low : 0..MaxVersion, age : 0..(TTL + 1)]
  /\ client \in [Clients -> [pc : {"idle", "repos", "rows", "items", "rest", "built", "answered"},
                             low : 0..MaxVersion, since : 0..MaxVersion, hit : BOOLEAN]]
  /\ writer \in [Writers -> [pc : {"idle", "invalidate"}, commit : 0..MaxVersion]]
  /\ rebuild \in [pc : {"idle", "cursor", "invalidate"}, rows : SUBSET Repos]
  /\ promised \in 0..MaxVersion

\* A request that had to build the payload is answered with everything that was
\* announced before it came in, even when the entry it found had only expired or
\* another request stores an older payload around it.
BuiltAnswerIsCurrent ==
  \A c \in Clients : client[c].pc = "answered" /\ ~client[c].hit => client[c].low >= client[c].since

\* The connection is held between two steps by exactly the goroutine that has
\* its rows open: nobody forgets it, nobody takes it from another.
ConnectionIsReturned ==
  /\ \A c \in Clients : conn = c <=> client[c].pc = "rows"
  /\ conn = "rebuild" <=> rebuild.pc = "cursor"

RebuildStuck == rebuild.pc = "cursor" /\ rebuild.rows # {}

\* Every bulk request is answered, with a payload or with an error, unless a rebuild that has rows to go through
\* sits on the connection.
EveryRequestIsAnswered ==
  \A c \in Clients : client[c].pc \notin {"idle", "answered"} ~>
    client[c].pc \in {"idle", "answered"} \/ RebuildStuck

\* An entry that misses a commit, announced or not, does not stay in use for
\* ever: it is dropped, replaced or too old to hit.
StaleEntryEnds ==
  \A n \in 1..MaxVersion :
    (version >= n /\ Usable(cache) /\ cache.low < n) ~> ~(Usable(cache) /\ cache.low < n)

\* bulk_cache.go:121-123: after Invalidate the next request gets the new data for
\* certain, without waiting for the six hours to pass.
NewDataAfterInvalidate ==
  \A c \in Clients : client[c].pc = "answered" => client[c].low >= client[c].since

\* server.go:235: the endpoint recomputes the aggregates and answers.
RebuildEnds == rebuild.pc = "cursor" ~> rebuild.pc = "idle"
=============================================================================

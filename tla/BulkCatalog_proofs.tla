-------------------------- MODULE BulkCatalog_proofs --------------------------
(***************************************************************************)
(* What holds of the bulk endpoint for every set of clients, every         *)
(* catalogue and every number of commits.                                  *)
(***************************************************************************)
EXTENDS BulkCatalog, TLAPS

\* Nothing is announced that is not committed,
AnnouncedIsCommitted ==
  /\ promised <= version
  /\ \A w \in Writers : writer[w].commit <= version

\* and a request knows what was announced when it came in: its payload, begun
\* later than that, has it.
BegunAfterRequest ==
  \A c \in Clients :
    /\ client[c].since <= promised
    /\ client[c].pc \in {"rows", "items", "rest", "built"} => client[c].low >= client[c].since

IInv ==
  /\ TypeOK
  /\ ConnectionIsReturned
  /\ AnnouncedIsCommitted
  /\ BegunAfterRequest
  /\ BuiltAnswerIsCurrent

ClientState == [pc : {"idle", "repos", "rows", "items", "rest", "built", "answered"},
                low : 0..MaxVersion, since : 0..MaxVersion, hit : BOOLEAN]
WriterState == [pc : {"idle", "invalidate"}, commit : 0..MaxVersion]
CacheState == [full : BOOLEAN, low : 0..MaxVersion, age : 0..(TTL + 1)]

\* Nobody has asked, nothing is committed, the connection is free.
LEMMA InitInv == Init => IInv
<1> SUFFICES ASSUME Init PROVE IInv
  OBVIOUS
<1>1. 0 \in 0..MaxVersion /\ 0 \in 0..(TTL + 1)
  BY BoundAssumption DEF TTL
<1>2. TypeOK
  BY <1>1 DEF Init, TypeOK, NoEntry, Idle, Writers
<1>3. ConnectionIsReturned
  BY ClientsAssumption DEF Init, ConnectionIsReturned, Idle
<1>4. AnnouncedIsCommitted /\ BegunAfterRequest /\ BuiltAnswerIsCurrent
  BY DEF Init, AnnouncedIsCommitted, BegunAfterRequest, BuiltAnswerIsCurrent, Idle, Writers
<1> QED BY <1>2, <1>3, <1>4 DEF IInv

\* A step of a request: what it may leave behind so that the invariant survives.
LEMMA ClientMoves ==
  ASSUME IInv, NEW c \in Clients, NEW s \in ClientState,
         client' = [client EXCEPT ![c] = s],
         conn' \in {"free", "rebuild"} \cup Clients,
         conn' = c <=> s.pc = "rows",
         \A d \in Clients \ {c} : conn' = d <=> conn = d,
         conn' = "rebuild" <=> conn = "rebuild",
         cache' \in CacheState,
         s.since <= promised,
         s.pc \in {"rows", "items", "rest", "built"} => s.low >= s.since,
         s.pc = "answered" /\ ~s.hit => s.low >= s.since,
         UNCHANGED <<repos, version, writer, rebuild, promised>>
  PROVE  IInv'
<1>1. client \in [Clients -> ClientState]
  BY DEF IInv, TypeOK, ClientState
<1>2. client' \in [Clients -> ClientState] /\ client'[c] = s
      /\ \A d \in Clients \ {c} : client'[d] = client[d]
  BY <1>1
<1>3. TypeOK'
  BY <1>2 DEF IInv, TypeOK, ClientState, CacheState
<1>4. ConnectionIsReturned'
  BY <1>2 DEF IInv, ConnectionIsReturned
<1>5. AnnouncedIsCommitted'
  BY DEF IInv, AnnouncedIsCommitted
<1>6. BegunAfterRequest'
  BY <1>2 DEF IInv, BegunAfterRequest
<1>7. BuiltAnswerIsCurrent'
  BY <1>2 DEF IInv, BuiltAnswerIsCurrent
<1> QED BY <1>3, <1>4, <1>5, <1>6, <1>7 DEF IInv

\* Each action of a request is such a step.
LEMMA ClientStep ==
  ASSUME IInv, NEW c \in Clients, Request(c) \/ Build(c) \/ QueryFails(c)
  PROVE  IInv'
<1> DEFINE r == client[c]
<1>1. r \in ClientState /\ cache \in CacheState /\ c \notin {"free", "rebuild"}
  BY ClientsAssumption DEF IInv, TypeOK, ClientState, CacheState
<1>2. /\ promised \in 0..MaxVersion /\ version \in 0..MaxVersion /\ promised <= version
      /\ r.since <= promised
      /\ r.pc \in {"rows", "items", "rest", "built"} => r.low >= r.since
      /\ conn = c <=> r.pc = "rows"
      /\ conn \in {"free", "rebuild"} \cup Clients
  BY DEF IInv, TypeOK, AnnouncedIsCommitted, BegunAfterRequest, ConnectionIsReturned
<1>3. CASE Request(c)
  <2> DEFINE s == IF Usable(cache)
                  THEN [pc |-> "answered", low |-> cache.low, since |-> promised, hit |-> TRUE]
                  ELSE [pc |-> "repos", low |-> 0, since |-> promised, hit |-> FALSE]
  <2>1. s \in ClientState
    BY <1>1, <1>2, BoundAssumption DEF ClientState, CacheState
  <2>2. s.since = promised /\ s.pc \in {"answered", "repos"} /\ (s.pc = "answered" => s.hit)
    OBVIOUS
  <2>3. client' = [client EXCEPT ![c] = s] /\ r.pc # "rows"
        /\ UNCHANGED <<conn, repos, version, cache, writer, rebuild, promised>>
    BY <1>3 DEF Request
  <2> HIDE DEF s
  <2>4. s.since <= promised /\ s.pc # "rows" /\ conn' # c /\ conn' = conn /\ cache' = cache
    BY <1>2, <2>2, <2>3
  <2>5. /\ s.pc \in {"rows", "items", "rest", "built"} => s.low >= s.since
        /\ s.pc = "answered" /\ ~s.hit => s.low >= s.since
    BY <2>2
  <2> QED BY <1>1, <1>2, <2>1, <2>3, <2>4, <2>5, ClientMoves
<1>4. CASE OpenRows(c)
  <2> DEFINE s == [r EXCEPT !.pc = "rows", !.low = version]
  <2>1. s \in ClientState /\ s.pc = "rows" /\ s.low = version /\ s.since = r.since
    BY <1>1, <1>2 DEF ClientState
  <2>2. client' = [client EXCEPT ![c] = s] /\ conn = "free" /\ conn' = c
        /\ UNCHANGED <<repos, version, cache, writer, rebuild, promised>>
    BY <1>4 DEF OpenRows
  <2>3. s.low >= s.since
    BY <1>1, <1>2, <2>1 DEF ClientState
  <2> HIDE DEF s
  <2>4. \A d \in Clients \ {c} : conn' = d <=> conn = d
    BY <2>2, ClientsAssumption
  <2> QED BY <1>1, <1>2, <2>1, <2>2, <2>3, <2>4, ClientMoves
<1>5. CASE CloseRows(c)
  <2> DEFINE s == [r EXCEPT !.pc = "items"]
  <2>1. s \in ClientState /\ s.pc = "items" /\ s.low = r.low /\ s.since = r.since
    BY <1>1 DEF ClientState
  <2>2. client' = [client EXCEPT ![c] = s] /\ conn = c /\ conn' = "free" /\ r.pc = "rows"
        /\ UNCHANGED <<repos, version, cache, writer, rebuild, promised>>
    BY <1>2, <1>5 DEF CloseRows, Closed
  <2> HIDE DEF s
  <2>3. \A d \in Clients \ {c} : conn' = d <=> conn = d
    BY <2>2, ClientsAssumption
  <2> QED BY <1>1, <1>2, <2>1, <2>2, <2>3, ClientMoves
<1>6. CASE FeedItems(c)
  <2> DEFINE s == [r EXCEPT !.pc = "rest"]
  <2>1. s \in ClientState /\ s.pc = "rest" /\ s.low = r.low /\ s.since = r.since
    BY <1>1 DEF ClientState
  <2>2. client' = [client EXCEPT ![c] = s] /\ r.pc = "items"
        /\ UNCHANGED <<conn, repos, version, cache, writer, rebuild, promised>>
    BY <1>6 DEF FeedItems
  <2> HIDE DEF s
  <2> QED BY <1>1, <1>2, <2>1, <2>2, ClientMoves
<1>7. CASE LanguagesAndSources(c)
  <2> DEFINE s == [r EXCEPT !.pc = "built"]
  <2>1. s \in ClientState /\ s.pc = "built" /\ s.low = r.low /\ s.since = r.since
    BY <1>1 DEF ClientState
  <2>2. client' = [client EXCEPT ![c] = s] /\ r.pc = "rest"
        /\ UNCHANGED <<conn, repos, version, cache, writer, rebuild, promised>>
    BY <1>7 DEF LanguagesAndSources
  <2> HIDE DEF s
  <2> QED BY <1>1, <1>2, <2>1, <2>2, ClientMoves
<1>8. CASE SetAndAnswer(c)
  <2> DEFINE s == [r EXCEPT !.pc = "answered", !.low = Stored(r.low).low]
  <2>1. s \in ClientState /\ s.pc = "answered" /\ s.low = r.low /\ s.since = r.since
    BY <1>1 DEF ClientState, Stored
  <2>2. client' = [client EXCEPT ![c] = s] /\ r.pc = "built" /\ cache' = Stored(r.low)
        /\ UNCHANGED <<conn, repos, version, writer, rebuild, promised>>
    BY <1>1, <1>8 DEF SetAndAnswer, Stored, ClientState
  <2>3. cache' \in CacheState
    BY <1>1, <2>2 DEF Stored, CacheState, ClientState, TTL
  <2> HIDE DEF s
  <2> QED BY <1>1, <1>2, <2>1, <2>2, <2>3, ClientMoves
<1>9. CASE QueryFails(c)
  <2>1. Idle \in ClientState /\ Idle.pc = "idle" /\ Idle.since = 0
    BY BoundAssumption DEF Idle, ClientState
  <2>2. client' = [client EXCEPT ![c] = Idle]
        /\ conn' = (IF r.pc = "rows" THEN "free" ELSE conn)
        /\ UNCHANGED <<repos, version, cache, writer, rebuild, promised>>
    BY <1>9 DEF QueryFails, Closed
  <2>3. \A d \in Clients \ {c} : conn' = d <=> conn = d
    BY <1>2, <2>2, ClientsAssumption
  <2>4. conn' # c /\ (conn' = "rebuild" <=> conn = "rebuild") /\ conn' \in {"free", "rebuild"} \cup Clients
    BY <1>1, <1>2, <2>2
  <2>5. Idle.since <= promised
    BY <1>2, <2>1
  <2> QED BY <1>1, <2>1, <2>2, <2>3, <2>4, <2>5, ClientMoves
<1> QED BY <1>3, <1>4, <1>5, <1>6, <1>7, <1>8, <1>9 DEF Build

\* Writers, the rebuild and time leave the requests alone, and what they announce
\* only grows.
LEMMA InvStep == IInv /\ [Next]_vars => IInv'
<1> SUFFICES ASSUME IInv, [Next]_vars PROVE IInv'
  OBVIOUS
<1> DEFINE Requests == \A c \in Clients : client[c].since \in Nat /\ client[c].low \in Nat
<1>0. Requests /\ promised \in 0..MaxVersion /\ version \in 0..MaxVersion
      /\ writer \in [Writers -> WriterState] /\ "ingest" \in Writers /\ "pins" \in Writers
  BY DEF IInv, TypeOK, WriterState, Writers
<1>1. CASE UNCHANGED vars
  BY <1>1 DEF vars, IInv, TypeOK, ConnectionIsReturned, AnnouncedIsCommitted,
              BegunAfterRequest, BuiltAnswerIsCurrent
<1>2. ASSUME NEW c \in Clients, Request(c) \/ Build(c) \/ QueryFails(c) PROVE IInv'
  BY <1>2, ClientStep
<1>3. ASSUME UNCHANGED <<conn, client, rebuild, promised>>,
             version' \in {version, version + 1}, version' \in 0..MaxVersion,
             repos' \subseteq Repos, cache' = cache,
             writer' \in [Writers -> WriterState],
             \A w \in Writers : writer'[w].commit <= version'
      PROVE  IInv'
  <2>1. TypeOK'
    BY <1>3 DEF IInv, TypeOK, WriterState
  <2>2. AnnouncedIsCommitted'
    BY <1>0, <1>3 DEF IInv, AnnouncedIsCommitted
  <2> QED BY <1>3, <2>1, <2>2 DEF IInv, ConnectionIsReturned, BegunAfterRequest, BuiltAnswerIsCurrent
<1>4. CASE CommitItem
  <2>1. PICK r \in Repos, terminal \in BOOLEAN :
          /\ repos' = repos \cup {r}
          /\ writer' = IF terminal
                       THEN [writer EXCEPT !["ingest"] = [pc |-> "invalidate", commit |-> version + 1]]
                       ELSE writer
    BY <1>4 DEF CommitItem
  <2>2. version' = version + 1 /\ version' \in 0..MaxVersion
        /\ UNCHANGED <<conn, cache, client, rebuild, promised>>
    BY <1>0, <1>4, BoundAssumption DEF CommitItem
  <2>3. \A w \in Writers : writer[w].commit \in Nat /\ writer[w].commit <= version
    BY <1>0 DEF IInv, AnnouncedIsCommitted, WriterState
  <2>4. writer' \in [Writers -> WriterState]
    BY <1>0, <2>1, <2>2 DEF WriterState
  <2>5. \A w \in Writers : writer'[w].commit <= version'
    BY <1>0, <2>1, <2>2, <2>3
  <2>6. repos' \subseteq Repos
    BY <2>1 DEF IInv, TypeOK
  <2> QED BY <1>3, <2>2, <2>4, <2>5, <2>6
<1>5. CASE CommitPins
  <2>1. writer' = [writer EXCEPT !["pins"] = [pc |-> "invalidate", commit |-> version + 1]]
        /\ version' = version + 1 /\ version' \in 0..MaxVersion
        /\ UNCHANGED <<conn, repos, cache, client, rebuild, promised>>
    BY <1>0, <1>5, BoundAssumption DEF CommitPins
  <2>2. \A w \in Writers : writer[w].commit \in Nat /\ writer[w].commit <= version
    BY <1>0 DEF IInv, AnnouncedIsCommitted, WriterState
  <2>3. writer' \in [Writers -> WriterState]
    BY <1>0, <2>1 DEF WriterState
  <2>4. \A w \in Writers : writer'[w].commit <= version'
    BY <1>0, <2>1, <2>2
  <2>5. repos' \subseteq Repos
    BY <2>1 DEF IInv, TypeOK
  <2> QED BY <1>3, <2>1, <2>3, <2>4, <2>5
<1>6. ASSUME NEW w \in Writers, Invalidate(w) PROVE IInv'
  <2>1. /\ cache' = NoEntry
        /\ promised' = IF writer[w].commit > promised THEN writer[w].commit ELSE promised
        /\ writer' = [writer EXCEPT ![w] = [pc |-> "idle", commit |-> 0]]
        /\ UNCHANGED <<conn, repos, version, client, rebuild>>
    BY <1>6 DEF Invalidate
  <2>2. writer[w].commit \in 0..MaxVersion /\ writer[w].commit <= version
    BY <1>0 DEF IInv, AnnouncedIsCommitted, WriterState
  <2>3. promised' \in 0..MaxVersion /\ promised' >= promised /\ promised' <= version
    BY <1>0, <2>1, <2>2 DEF IInv, AnnouncedIsCommitted
  <2>4. writer' \in [Writers -> WriterState] /\ \A v \in Writers : writer'[v].commit <= version
    BY <1>0, <2>1, BoundAssumption DEF IInv, AnnouncedIsCommitted, WriterState
  <2>5. cache' \in CacheState
    BY <2>1, BoundAssumption DEF NoEntry, CacheState, TTL
  <2>6. TypeOK'
    BY <2>1, <2>3, <2>4, <2>5 DEF IInv, TypeOK, WriterState, CacheState
  <2>7. AnnouncedIsCommitted'
    BY <2>1, <2>3, <2>4 DEF AnnouncedIsCommitted
  <2>8. BegunAfterRequest'
    BY <1>0, <2>1, <2>3 DEF IInv, BegunAfterRequest
  <2> QED BY <2>1, <2>6, <2>7, <2>8 DEF IInv, ConnectionIsReturned, BuiltAnswerIsCurrent
<1>7. CASE ReadBackFails
  <2>1. writer' = [writer EXCEPT !["pins"] = [pc |-> "idle", commit |-> 0]]
        /\ UNCHANGED <<conn, repos, version, cache, client, rebuild, promised>>
    BY <1>7 DEF ReadBackFails
  <2>2. writer' \in [Writers -> WriterState] /\ \A v \in Writers : writer'[v].commit <= version
    BY <1>0, <2>1, BoundAssumption DEF IInv, AnnouncedIsCommitted, WriterState
  <2>3. repos' \subseteq Repos
    BY <2>1 DEF IInv, TypeOK
  <2> QED BY <1>0, <1>3, <2>1, <2>2, <2>3
<1>8. ASSUME UNCHANGED <<repos, version, client, writer, promised>>,
             cache' \in CacheState,
             rebuild' \in [pc : {"idle", "cursor", "invalidate"}, rows : SUBSET Repos],
             conn' \in {"free", "rebuild"} \cup Clients,
             conn' = "rebuild" <=> rebuild'.pc = "cursor",
             \A c \in Clients : conn' = c <=> conn = c
      PROVE  IInv'
  <2>1. TypeOK'
    BY <1>8 DEF IInv, TypeOK, CacheState
  <2>2. ConnectionIsReturned'
    BY <1>8 DEF IInv, ConnectionIsReturned
  <2> QED BY <1>8, <2>1, <2>2 DEF IInv, AnnouncedIsCommitted, BegunAfterRequest, BuiltAnswerIsCurrent
<1>9. cache \in CacheState /\ rebuild \in [pc : {"idle", "cursor", "invalidate"}, rows : SUBSET Repos]
      /\ conn \in {"free", "rebuild"} \cup Clients
      /\ (conn = "rebuild" <=> rebuild.pc = "cursor")
      /\ repos \subseteq Repos
  BY DEF IInv, TypeOK, CacheState, ConnectionIsReturned
<1>10. CASE OpenCursor
  <2>1. conn = "free" /\ conn' = "rebuild" /\ rebuild' = [pc |-> "cursor", rows |-> repos]
        /\ UNCHANGED <<repos, version, cache, client, writer, promised>>
    BY <1>10 DEF OpenCursor
  <2> QED BY <1>8, <1>9, <2>1, ClientsAssumption
<1>11. CASE NextRow
  <2>1. rebuild.pc = "cursor" /\ UNCHANGED <<repos, version, cache, client, writer, promised>>
    BY <1>11 DEF NextRow
  <2>2. rebuild.rows = {} /\ conn' = "free" /\ rebuild' = [rebuild EXCEPT !.pc = "invalidate"]
    BY <1>9, <1>11, <2>1 DEF NextRow
  <2>3. rebuild'.pc = "invalidate"
        /\ rebuild' \in [pc : {"idle", "cursor", "invalidate"}, rows : SUBSET Repos]
    BY <1>9, <2>2
  <2> QED BY <1>8, <1>9, <2>1, <2>2, <2>3, ClientsAssumption
<1>12. CASE InvalidateRebuilt
  <2>1. rebuild.pc = "invalidate" /\ cache' = NoEntry /\ rebuild' = [pc |-> "idle", rows |-> {}]
        /\ UNCHANGED <<conn, repos, version, client, writer, promised>>
    BY <1>12 DEF InvalidateRebuilt
  <2>2. cache' \in CacheState
    BY <2>1, BoundAssumption DEF NoEntry, CacheState, TTL
  <2> QED BY <1>8, <1>9, <2>1, <2>2
<1>13. CASE Tick
  <2>1. cache' = [cache EXCEPT !.age = @ + 1] /\ cache.age <= TTL
        /\ UNCHANGED <<conn, repos, version, client, writer, rebuild, promised>>
    BY <1>13 DEF Tick
  <2>2. cache' \in CacheState
    BY <1>9, <2>1 DEF CacheState, TTL
  <2> QED BY <1>8, <1>9, <2>1, <2>2
<1> QED BY <1>1, <1>2, <1>4, <1>5, <1>6, <1>7, <1>10, <1>11, <1>12, <1>13 DEF Next, Rebuild

\* A bulk request that builds its payload answers with everything announced
\* before it came in, and the single connection is held between two steps by
\* exactly the goroutine whose rows are open.
THEOREM AnswersAreCurrent == Spec => [](TypeOK /\ BuiltAnswerIsCurrent /\ ConnectionIsReturned)
<1>1. Spec => []IInv
  BY InitInv, InvStep, PTL DEF Spec
<1> QED BY <1>1, PTL DEF IInv

\* Requests, writers, the cache and the rebuild keep their types, the versions their bound.
THEOREM TypesHold == Spec => []TypeOK
  BY AnswersAreCurrent, PTL

\* However a request, a failed query or a rebuild ends: the connection goes back, and
\* nobody else has it meanwhile (Rows.Close in ListV1 and RebuildAggregates).
THEOREM ConnectionHolds == Spec => []ConnectionIsReturned
  BY AnswersAreCurrent, PTL

\* RebuildAggregates over a catalogue that is not empty never gets past its first
\* row: it keeps the connection, and nobody commits or reads again.
StuckForGood == [][RebuildStuck => RebuildStuck' /\ UNCHANGED <<conn, repos, version>>]_vars

\* The rebuild's cursor has the connection, everyone it could wait for needs it.
THEOREM RebuildWedges == Spec => StuckForGood
<1> DEFINE Wedged == RebuildStuck => RebuildStuck' /\ UNCHANGED <<conn, repos, version>>
<1>1. ASSUME IInv, [Next]_vars PROVE [Wedged]_vars
  <2> SUFFICES ASSUME RebuildStuck, Next PROVE RebuildStuck' /\ UNCHANGED <<conn, repos, version>>
    BY <1>1
  <2>1. conn = "rebuild" /\ conn # "free" /\ \A c \in Clients : client[c].pc # "rows"
    BY <1>1, ClientsAssumption DEF IInv, ConnectionIsReturned, RebuildStuck
  <2>2. ASSUME NEW c \in Clients, Request(c) \/ Build(c) \/ QueryFails(c)
        PROVE  UNCHANGED <<conn, rebuild, repos, version>>
    BY <2>1, <2>2 DEF Request, Build, OpenRows, CloseRows, FeedItems,
                      LanguagesAndSources, SetAndAnswer, QueryFails
  <2>3. ASSUME NEW w \in Writers, Invalidate(w) PROVE UNCHANGED <<conn, rebuild, repos, version>>
    BY <2>3 DEF Invalidate
  <2>4. CASE ReadBackFails \/ Tick
    BY <2>4 DEF ReadBackFails, Tick, RebuildStuck
  <2>5. ~CommitItem /\ ~CommitPins /\ ~OpenCursor /\ ~NextRow /\ ~InvalidateRebuilt
    BY <2>1 DEF CommitItem, CommitPins, OpenCursor, NextRow, InvalidateRebuilt, RebuildStuck
  <2> QED BY <2>2, <2>3, <2>4, <2>5 DEF Next, Rebuild, RebuildStuck
<1>2. Spec => []IInv
  BY InitInv, InvStep, PTL DEF Spec
<1> QED BY <1>1, <1>2, PTL DEF Spec, StuckForGood
=============================================================================

------------------------------- MODULE Query -------------------------------
(***************************************************************************)
(* What the API reads of the traces table while ingest and retention write *)
(* it: TracesQueryService.search under the trace explorer that pages       *)
(* through it, and TraceDetailService.getDetail with the payload hydration *)
(* of one request.  One user, with one page open at a time.                *)
(***************************************************************************)
EXTENDS Retention, SequencesExt

CONSTANTS
  Projects,
  ProjectOf,   \* trace -> its project
  Limit,       \* traces of a page, 25
  NoTrace,
  Refs,        \* the payload references of a trace's events
  CacheMax     \* REQUEST_CACHE_MAX, 128

ASSUME QueryAssumption ==
  /\ Limit \in Nat \ {0} /\ CacheMax \in Nat \ {0}
  /\ ProjectOf \in [Ids -> Projects] /\ IsFiniteSet(Refs)
  /\ NoTrace \notin [id : Ids, startedAt : Nat]

VARIABLES
  explorer,   \* the state of TraceExplorerPage and the search it waits for
  detail      \* the getDetail under way or answered; `overtaken` is history: the plan
              \* was raised under it, or under a run of the compaction beside it

queryVars == <<explorer, detail>>
allVars == <<retentionVars, queryVars>>

\* A row of the list.
Row(i) == [id |-> i, startedAt |-> startedAt[i]]

\* orderBy started_at desc, id desc.
Newer(a, b) ==
  a.startedAt > b.startedAt \/ (a.startedAt = b.startedAt /\ a.id > b.id)

\* An encoded cursor holds two fields of a row, the time to the millisecond as stored.
Cursor(r) == [id |-> r.id, startedAt |-> r.startedAt]

NoData == [traces |-> <<>>, next |-> NoTrace]

\* `pc`: "shown", or the statement of search that comes next.  `unlisted` are the
\* traces that were live and within the window at every fetch and are not listed yet.
NoExplorer(p) ==
  [pc |-> "org", project |-> p, cursor |-> NoTrace, extra |-> <<>>, data |-> NoData,
   from |-> 0, unlisted |-> Ids, mixed |-> FALSE]

NoDetail == [pc |-> "idle", trace |-> NoTrace, parts |-> {}, readable |-> {},
             payloads |-> {}, overtaken |-> FALSE]

QueryInit ==
  /\ RetentionInit
  /\ explorer \in {NoExplorer(p) : p \in Projects}
  /\ detail = NoDetail

-----------------------------------------------------------------------------
\* search reads the organization, and with it the window.
SearchWindow ==
  /\ explorer.pc = "org"
  /\ explorer' = [explorer EXCEPT !.pc = "find", !.from = Cutoff(plan)]
  /\ UNCHANGED <<retentionVars, detail>>

\* A plausible slip: the cursor is the time alone.
AfterCursorByTime(i) ==
  explorer.cursor = NoTrace \/ startedAt[i] < explorer.cursor.startedAt

\* The predicate a cursor adds: the trace it names may be gone by now.
AfterCursor(i) == explorer.cursor = NoTrace \/ Newer(explorer.cursor, Row(i))

Matching == {i \in Live : ProjectOf[i] = explorer.project /\ startedAt[i] >= explorer.from}

\* The n-th row is the one that n - 1 rows are newer than.
SortedRows(S) ==
  [n \in 1..Cardinality(S) |->
     CHOOSE r \in S : Cardinality({q \in S : Newer(q, r)}) = n - 1]

\* One row more than the page is asked for, to know whether there is a next page.
PageOf(rows) ==
  LET sorted == SortedRows({Row(i) : i \in rows})
  IN  IF Len(sorted) <= Limit THEN [traces |-> sorted, next |-> NoTrace]
      ELSE [traces |-> SubSeq(sorted, 1, Limit), next |-> Cursor(sorted[Limit])]

SearchRows ==
  /\ explorer.pc = "find"
  /\ LET page == PageOf({i \in Matching : AfterCursor(i)})
     IN  explorer' = [explorer EXCEPT
           !.pc = "shown", !.from = 0, !.data = page,
           !.unlisted = {i \in @ \cap Matching : Row(i) \notin ToSet(page.traces)}]
  /\ UNCHANGED <<retentionVars, detail>>

\* useTraceSearch under another key: nothing is known of its answer before it is
\* fetched.
Fetching(e) == [e EXCEPT !.pc = "org", !.data = NoData]

\* The button is there while the page has a next one.
LoadMore ==
  /\ explorer.pc = "shown" /\ explorer.data.next # NoTrace
  /\ explorer' = Fetching([explorer EXCEPT !.extra = @ \o explorer.data.traces,
                                           !.cursor = explorer.data.next])
  /\ UNCHANGED <<retentionVars, detail>>

\* applyFilters starts the listing over, and so does opening the page.
ApplyFilters ==
  /\ detail.pc \in {"idle", "answered"}
  /\ explorer' = NoExplorer(explorer.project)
  /\ detail' = NoDetail
  /\ UNCHANGED retentionVars

\* The project switcher changes the project of the search and nothing else: the
\* cursor, and what was loaded before it, stay.
SwitchProject(p) ==
  /\ detail.pc = "idle" /\ p # explorer.project
  /\ explorer' = IF explorer.cursor = NoTrace
                   THEN NoExplorer(p)
                   ELSE Fetching([explorer EXCEPT !.project = p, !.mixed = TRUE])
  /\ UNCHANGED <<retentionVars, detail>>

Listed == explorer.extra \o explorer.data.traces

\* What TraceTable has a row for.
ListedIds == {Listed[n].id : n \in DOMAIN Listed}

-----------------------------------------------------------------------------
\* What an answer is made of.
Parts == {"trace", "snapshot", "spans", "events"}

\* The user opens a listed trace.
OpenTrace(i) ==
  /\ detail.pc = "idle" /\ explorer.pc = "shown"
  /\ i \in ListedIds
  /\ detail' = IF row[i] = "live"
                 THEN [NoDetail EXCEPT !.pc = "snapshot", !.trace = Row(i),
                                       !.parts = {"trace"}, !.overtaken = upgraded # {}]
                 ELSE NoDetail
  /\ explorer' = NoExplorer(explorer.project)
  /\ UNCHANGED retentionVars

\* Prisma loads what is included with a statement each, in this order, and no
\* transaction around them.
After == [snapshot |-> "spans", spans |-> "events", events |-> "check"]

ReadPart ==
  /\ detail.pc \in DOMAIN After
  /\ detail' = [detail EXCEPT
       !.pc = After[@],
       !.parts = IF row[detail.trace.id] = "live" THEN @ \cup {detail.pc} ELSE @]
  /\ UNCHANGED <<retentionVars, explorer>>

\* A plausible slip: the cache is full one payload late.
StoreInCacheLate(cache, ref) ==
  Append(IF Len(cache) > CacheMax THEN Tail(cache) ELSE cache, ref)

\* A full cache drops its oldest payload.
StoreInCache(cache, ref) ==
  Append(IF Len(cache) >= CacheMax THEN Tail(cache) ELSE cache, ref)

\* A payload that was read is stored, unless the cache has it already.
HydratePayload(cache, ref) ==
  IF ref \in ToSet(cache) THEN cache ELSE StoreInCache(cache, ref)

RequestCache == <<>>

\* hydrateMany: the gets run at once and end in any order, `order`; those that fail
\* store nothing, and the answer is what the cache holds when all have ended.
Hydrated(order) == ToSet(FoldLeft(HydratePayload, RequestCache, order))

\* The organization is read after the trace, and the clock after both.  The cache is
\* the request's own, so that its payloads are read in one step.
AnswerDetail(readable) ==
  /\ detail.pc = "check"
  /\ IF WithinRetention(detail.trace.startedAt, plan)
       THEN \E order \in SetToSeqs(IF "events" \in detail.parts THEN readable ELSE {}) :
              detail' = [detail EXCEPT !.pc = "answered", !.readable = ToSet(order),
                                       !.payloads = Hydrated(order)]
       ELSE detail' = NoDetail
  /\ UNCHANGED <<retentionVars, explorer>>

-----------------------------------------------------------------------------
TableStep ==
  /\ RetentionNext
  /\ detail' = IF detail.pc # "idle" /\ RetentionDays[plan'] > RetentionDays[plan]
                 THEN [detail EXCEPT !.overtaken = TRUE] ELSE detail
  /\ UNCHANGED explorer

QueryNext ==
  \/ TableStep
  \/ SearchWindow \/ SearchRows \/ LoadMore \/ ApplyFilters
  \/ \E p \in Projects : SwitchProject(p)
  \/ \E i \in Ids : OpenTrace(i)
  \/ ReadPart
  \/ \E readable \in SUBSET Refs : AnswerDetail(readable)

QuerySpec == QueryInit /\ [][QueryNext]_allVars

-----------------------------------------------------------------------------
\* The explorer lists newest first and no trace twice, and once there is no next page
\* no trace that each of its fetches could see is left out, whatever ingest and
\* retention did between the pages.
PagingIsExact ==
  ~explorer.mixed =>
    /\ \A m, n \in DOMAIN Listed : m < n => Newer(Listed[m], Listed[n])
    /\ explorer.pc = "shown" /\ explorer.data.next = NoTrace
         => explorer.unlisted = {}

\* A trace is never shown in part: when retention deletes it between the statements
\* of getDetail, the check that comes after them refuses it.
DetailIsWhole ==
  detail.pc = "answered" /\ ~detail.overtaken
    => detail.parts = Parts

\* Every payload that could be read is in the answer, but for those beyond the size of
\* the cache, in whichever order the reads ended.
PayloadsAreShown ==
  detail.pc = "answered" =>
    Cardinality(detail.payloads) = IF Cardinality(detail.readable) < CacheMax
                                     THEN Cardinality(detail.readable) ELSE CacheMax

=============================================================================

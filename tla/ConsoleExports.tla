--------------------------- MODULE ConsoleExports ---------------------------
(***************************************************************************)
(* The exports of the web console: ExportsPage, which lists the newest     *)
(* exports and polls while one of them is under way, and the ExportDialog  *)
(* of TraceDetailPage.  One user has one of the two pages open; the rows   *)
(* are those of ExportRows, and other clients request exports as well.     *)
(*                                                                         *)
(* The query ["exports"] of React Query outlives the page: its data, the   *)
(* fetch under way and the marks it carries.                               *)
(***************************************************************************)
EXTENDS Naturals, FiniteSets

CONSTANTS
  MaxExports,   \* bound: export_jobs rows of a behaviour, numbered as created
  ListLimit,    \* listExports' limit, 20
  NoData        \* the query has never been answered

Exports == 1..MaxExports

\* The answer of GET /v1/exports, by the row.
Listings ==
  UNION {[S -> {"pending", "processing", "completed", "failed"}] : S \in SUBSET Exports}

ASSUME ConsoleExportsAssumption ==
  /\ {MaxExports, ListLimit} \subseteq Nat \ {0}
  /\ NoData \notin Listings

VARIABLES
  exportStatus,  \* export_jobs.status
  page,        \* "exports" | "detail"
  data,        \* what the query was answered last: export -> status
  stale,       \* invalidated, or older than staleTime
  fetchFailed, \* whether the query's error is set, which the page shows instead
  fetch,       \* pc: "none" | "sent" | "read"; `overtaken`: see below
  polling,     \* whether the refetch timer runs
  posts,       \* POST /v1/exports not answered yet, by the row each created
  submitting,  \* the one the open page's button waits for, or 0
  told,        \* history: the exports this user was told of
  missed       \* history: the data were read before an export this user was told of
               \* by the time they arrived

fetchVars == <<data, stale, fetchFailed, fetch, polling>>
postVars == <<posts, submitting, told>>
consoleExportVars == <<exportStatus, page, fetchVars, postVars, missed>>

\* The console does not look at the hash.
Rows == INSTANCE ExportRows WITH status <- exportStatus, recorded <- {}

NoFetch == [pc |-> "none", answer |-> NoData, retried |-> FALSE, overtaken |-> FALSE]

NewFetch == [NoFetch EXCEPT !.pc = "sent"]

ConsoleExportsInit ==
  /\ Rows!RowsInit
  /\ page = "detail"
  /\ data = NoData
  /\ stale = FALSE
  /\ fetchFailed = FALSE
  /\ fetch = NoFetch
  /\ polling = FALSE
  /\ posts = {}
  /\ submitting = 0
  /\ told = {}
  /\ missed = FALSE

-----------------------------------------------------------------------------
\* refetchInterval, which React Query asks again at every change of the query.
RefetchInterval(d) == d # NoData /\ \E e \in DOMAIN d : d[e] \in {"pending", "processing"}

\* ExportsPage is mounted.  A fetch that is under way is joined.
OpenExports ==
  /\ page = "detail"
  /\ page' = "exports"
  /\ submitting' = 0
  /\ polling' = RefetchInterval(data)
  /\ fetch' = IF fetch.pc = "none" /\ (data = NoData \/ stale) THEN NewFetch ELSE fetch
  /\ UNCHANGED <<exportStatus, data, stale, fetchFailed, posts, told, missed>>

\* The fetch goes on without the page.
OpenDetail ==
  /\ page = "exports"
  /\ page' = "detail"
  /\ submitting' = 0
  /\ polling' = FALSE
  /\ UNCHANGED <<exportStatus, data, stale, fetchFailed, fetch, posts, told, missed>>

\* staleTime has passed.
GrowStale ==
  /\ data # NoData /\ ~stale
  /\ stale' = TRUE
  /\ UNCHANGED <<exportStatus, page, data, fetchFailed, fetch, polling, postVars, missed>>

\* Nobody has used the query for gcTime.
Collected ==
  /\ page = "detail" /\ fetch.pc = "none" /\ data # NoData
  /\ data' = NoData
  /\ stale' = FALSE
  /\ fetchFailed' = FALSE
  /\ missed' = FALSE
  /\ UNCHANGED <<exportStatus, page, fetch, polling, postVars>>

Poll ==
  /\ polling /\ fetch.pc = "none"
  /\ fetch' = NewFetch
  /\ UNCHANGED <<exportStatus, page, data, stale, fetchFailed, polling, postVars, missed>>

\* ExportsService.listExports: the newest rows of the organization.
Newest ==
  LET Made == {e \in Exports : exportStatus[e] # "none"}
  IN  {e \in Made : Cardinality({f \in Made : f > e}) < ListLimit}

ListRows ==
  /\ fetch.pc = "sent"
  /\ fetch' = [fetch EXCEPT !.pc = "read", !.answer = [e \in Newest |-> exportStatus[e]]]
  /\ UNCHANGED <<exportStatus, page, data, stale, fetchFailed, polling, postVars, missed>>

\* A plausible slip: the timer is one of a single shot.
FetchSucceedsOnce ==
  /\ fetch.pc = "read"
  /\ data' = fetch.answer
  /\ stale' = FALSE
  /\ fetchFailed' = FALSE
  /\ fetch' = NoFetch
  /\ polling' = (page = "exports" /\ ~polling /\ RefetchInterval(fetch.answer))
  /\ missed' = fetch.overtaken
  /\ UNCHANGED <<exportStatus, page, postVars>>

FetchSucceeds ==
  /\ fetch.pc = "read"
  /\ data' = fetch.answer
  /\ stale' = FALSE
  /\ fetchFailed' = FALSE
  /\ fetch' = NoFetch
  /\ polling' = (page = "exports" /\ RefetchInterval(fetch.answer))
  /\ missed' = fetch.overtaken
  /\ UNCHANGED <<exportStatus, page, postVars>>

\* apiFetch throws.  A query is tried again once, unless its page is gone.
FetchFails ==
  /\ fetch.pc # "none"
  /\ \/ ~fetch.retried /\ fetch' = [NewFetch EXCEPT !.retried = TRUE]
        /\ UNCHANGED fetchFailed
     \/ fetch' = NoFetch /\ fetchFailed' = TRUE
  /\ UNCHANGED <<exportStatus, page, data, stale, polling, postVars, missed>>

-----------------------------------------------------------------------------
NextRow(e) == \A f \in Exports : exportStatus[f] = "none" <=> f >= e

\* Both pages have a button, the page of exports once it shows its list.  The row
\* is made on the request's way.
CreateExport(e) ==
  /\ NextRow(e)
  /\ submitting = 0
  /\ page = "exports" => data # NoData /\ ~fetchFailed
  /\ Rows!Requested(e)
  /\ posts' = posts \cup {e}
  /\ submitting' = e
  /\ UNCHANGED <<page, fetchVars, told, missed>>

Answered(e) ==
  /\ e \in posts
  /\ posts' = posts \ {e}
  /\ submitting' = IF submitting = e THEN 0 ELSE submitting

\* A plausible slip: an invalidation that lets a fetch under way finish.
InvalidateJoining ==
  /\ stale' = TRUE
  /\ fetch' = IF page = "exports" /\ fetch.pc = "none" THEN NewFetch ELSE fetch

\* invalidateQueries: an open page fetches again and drops the answer it waits for,
\* unless that is its first one.  Without the page the query is only marked, and a
\* fetch that has read the rows already takes the mark away again.
Invalidate ==
  /\ stale' = TRUE
  /\ fetch' = IF page = "exports" /\ (fetch.pc = "none" \/ data # NoData) THEN NewFetch
              ELSE [fetch EXCEPT !.overtaken = @ \/ fetch.pc = "read"]

CreateAnswered(e) ==
  /\ Answered(e)
  /\ told' = told \cup {e}
  /\ Invalidate
  /\ UNCHANGED <<exportStatus, page, data, fetchFailed, polling, missed>>

\* The POST fails, after the row was made at the worst.
CreateFails(e) ==
  /\ Answered(e)
  /\ UNCHANGED <<exportStatus, page, fetchVars, told, missed>>

\* Another client requests an export; the worker moves the rows on.
RowsMove ==
  /\ \E e \in Exports :
       (NextRow(e) /\ Rows!Requested(e)) \/ Rows!Claimed(e) \/ Rows!Settled(e)
  /\ UNCHANGED <<page, fetchVars, postVars, missed>>

ConsoleExportsNext ==
  \/ OpenExports \/ OpenDetail
  \/ GrowStale \/ Collected \/ Poll
  \/ ListRows \/ FetchSucceeds \/ FetchFails
  \/ \E e \in Exports : CreateExport(e) \/ CreateAnswered(e) \/ CreateFails(e)
  \/ RowsMove

\* The timer fires and a request is answered, or fails.
ConsoleExportsFairness ==
  /\ WF_consoleExportVars(Poll)
  /\ WF_consoleExportVars(ListRows)
  /\ WF_consoleExportVars(FetchSucceeds)

-----------------------------------------------------------------------------
Final == {"completed", "failed"}

\* The open page has a row for e.
Shown(e) == page = "exports" /\ ~fetchFailed /\ data # NoData /\ e \in DOMAIN data

\* When the page of exports shows its list and fetches no more, every export this user
\* was told of is listed as completed or failed, the status it had when the list was
\* read, or has been pushed off the list by newer ones: it never sits there as
\* processing, and is never missing, however fetches, requests and page changes overlap.
\* (A job delivered again afterwards moves the row on unseen.)
PollingIsKept ==
  /\ page = "exports" /\ data # NoData /\ ~fetchFailed
  /\ fetch.pc = "none" /\ ~polling /\ ~missed
  => \A e \in told :
      \/ e \in DOMAIN data /\ data[e] \in Final
      \/ Cardinality(DOMAIN data) = ListLimit /\ \A d \in DOMAIN data : d > e

\* An export the open page shows as under way and that has ended is shown as such in
\* the end, unless the user leaves, the page shows an error, the queue delivers the
\* job again, or newer exports push it off the list.
ShownCatchesUp ==
  \A e \in Exports :
    Shown(e) /\ data[e] \notin Final /\ exportStatus[e] \in Final
      ~> ~Shown(e) \/ data[e] \in Final \/ exportStatus[e] \notin Final

=============================================================================

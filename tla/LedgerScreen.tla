---------------------------- MODULE LedgerScreen ----------------------------
(***************************************************************************)
(* One list of the ledger app: filters drafted and then applied to the     *)
(* address, pages asked for by offset, answers kept for a while, and what  *)
(* the screen draws: the region, its pager and the filter bar. The rows of *)
(* the page or the filters being left stay, dimmed, until the next arrive. *)
(* And the search bar over every page of the app: what is typed settles,   *)
(* is asked, and is answered, while the member types on, walks the rows,   *)
(* picks, leaves and comes back.                                           *)
(***************************************************************************)
EXTENDS Integers, Sequences, FiniteSets

CONSTANTS Filters,    \* what may be filtered by
          LastPage,   \* bound: the last page of every list
          Yields(_),  \* bound: what the ledger may answer to the read of a key
          Finds(_),   \* bound: how many rows it may find for a search, 0..2, and whether it fails
          Kept        \* searches that are remembered

VARIABLES
  at,       \* what this behaviour is about: the "list", or the "search" bar
  url,      \* the applied filters: f and sort
  draft,    \* the draft: values, and the applied filters it was drafted on
  paging,   \* the page turned to, which way, and the filters it is a page of
  query,    \* per key: data, err, stale, and fetch: "no", "yes" or "paused"
  press,    \* Apply: "idle", or "done" for the second and a half it says so
  last,     \* the key whose data was last on screen, or Nothing
  online,   \* what the browser believes
  bar,      \* the search bar: its text, the text that settled, focus and the row walked to
  hits      \* per search: data, err, stale and fetch, as for the list

vars == <<at, url, draft, paging, query, press, last, online, bar, hits>>

-----------------------------------------------------------------------------
Applied == [f : Filters, sort : {"asc", "desc"}]
Keys == [f : Filters, sort : {"asc", "desc"}, off : 0 .. LastPage]
Nothing == [f |-> "none", sort |-> "none", off |-> 0]

\* Why a read failed, as far as the screen tells: the visit is not signed in, a thing a retry
\* does not mend, or one it may.
Kinds == {"denied", "refused", "failed"}

\* When the address changes underneath, the draft follows it.
Draft == IF draft.sig = url THEN draft.values ELSE url

\* useOffsetPages: other filters start at their first page.
KeyOf(u, p) == [f |-> u.f, sort |-> u.sort, off |-> IF p.base = u THEN p.off ELSE 0]
Key == KeyOf(url, paging)

\* A read starts, or waits for the network; leaving a key aborts its read.
Starts(q) == [q EXCEPT !.fetch = IF online THEN "yes" ELSE "paused"]
SearchStarts(q) == [q EXCEPT !.fetch = "yes"]

Observed(q, from, to) ==
  IF from = to THEN q
  ELSE [k \in DOMAIN q |->
          IF k = from THEN [q[k] EXCEPT !.fetch = "no"]
          ELSE IF k = to /\ (q[k].data = "no" \/ q[k].stale) THEN Starts(q[k])
          ELSE q[k]]

\* What useQuery says: an error is one until a read without data starts again; the previous
\* key's data stands in while this key has neither data nor error.
Has(k) == k # Nothing /\ query[k].data # "no"
IsError == query[Key].err # "no" /\ (Has(Key) \/ query[Key].fetch = "no")
Shown == IF Has(Key) THEN Key ELSE IF IsError THEN Nothing ELSE last
Fetching == query[Key].fetch = "yes"

\* viewState: an error always wins over old data.
Failed == IF query[Key].err = "denied" THEN "unauthenticated" ELSE "error"
Settled == IF query[Key].data = "none" THEN "empty" ELSE "ready"

ViewKeepsStill ==
  IF IsError THEN Failed ELSE IF Shown = Nothing THEN "loading" ELSE Settled

View ==
  IF IsError THEN Failed
  ELSE IF Shown = Nothing THEN "loading"
  ELSE IF Fetching THEN "refreshing" ELSE Settled

\* Region and DataState: what is drawn, and what may be pressed in it.
Drawn ==
  CASE View = "loading" -> "skeleton" [] View = "unauthenticated" -> "sign in" [] View = "error" -> "error"
    [] View = "empty" -> "nothing" [] View = "refreshing" -> "dimmed" [] View = "ready" -> "rows"

Table == Drawn \in {"dimmed", "rows"}
OffersRetry == \/ Drawn = "error" /\ query[Key].err = "failed"
               \/ Drawn \in {"sign in", "rows"}

\* The pager under the table: the page of the rows that are there, and the way that is loading.
Pager ==
  [page |-> Shown.off, busy |-> IF Fetching THEN paging.turn ELSE "no",
   previous |-> Shown.off > 0, next |-> query[Shown].data = "rows" /\ Shown.off < LastPage]

\* FilterBar: Apply is pressed by Enter too, and is there only for changes that are not applied.
Applying == Fetching /\ paging.turn = "no"
Bar == IF Applying THEN "applying" ELSE IF Draft # url THEN "dirty" ELSE "clean"

\* The screen moves to other filters or another page.
Moves(u, p) ==
  /\ url' = u /\ paging' = p
  /\ query' = Observed(query, Key, KeyOf(u, p))
  /\ last' = IF Has(KeyOf(u, p)) THEN KeyOf(u, p) ELSE last
  /\ UNCHANGED online

FirstPage(u) == [base |-> u, off |-> 0, turn |-> "no"]
Navigates(u) == Moves(u, IF u = url THEN paging ELSE FirstPage(u))

-----------------------------------------------------------------------------
Type ==
  /\ \E v \in Applied : v # Draft /\ draft' = [sig |-> url, values |-> v]
  /\ UNCHANGED <<url, paging, query, press, last, online>>

Apply ==
  /\ Bar = "dirty" /\ press = "idle"
  /\ press' = "done" /\ Navigates(Draft) /\ UNCHANGED draft

ApplyRests == press = "done" /\ press' = "idle" /\ UNCHANGED <<url, draft, paging, query, last, online>>

\* A column's header, over the table, turns its order round right away, on top of what is applied;
\* the rest of the draft is kept.
Turned(dir) == IF dir = "asc" THEN "desc" ELSE "asc"

ApplyNow ==
  /\ Table
  /\ LET dir == Turned(url.sort)
     IN  /\ draft' = [sig |-> [url EXCEPT !.sort = dir], values |-> [Draft EXCEPT !.sort = dir]]
         /\ Navigates([url EXCEPT !.sort = dir])
  /\ UNCHANGED press

Reset ==
  /\ Bar # "applying"
  /\ LET first == [f |-> CHOOSE f \in Filters : TRUE, sort |-> "desc"]
     IN  draft' = [sig |-> url, values |-> first] /\ Navigates(first)
  /\ UNCHANGED press

\* A link, or the back button.
Follow == (\E u \in Applied : u # url /\ Navigates(u)) /\ UNCHANGED <<draft, press>>

NextPage ==
  /\ Table /\ Pager.next /\ Pager.busy = "no" /\ ~Fetching
  /\ Moves(url, [base |-> url, off |-> Pager.page + 1, turn |-> "next"]) /\ UNCHANGED <<draft, press>>

PreviousPage ==
  /\ Table /\ Pager.previous /\ Pager.busy = "no" /\ ~Fetching
  /\ Moves(url, [base |-> url, off |-> Pager.page - 1, turn |-> "previous"]) /\ UNCHANGED <<draft, press>>

\* Retry, Try again, or Refresh.
Refetch ==
  /\ OffersRetry /\ query[Key].fetch = "no"
  /\ query' = [query EXCEPT ![Key] = Starts(@)]
  /\ UNCHANGED <<url, draft, paging, press, last, online>>

Answer ==
  /\ Fetching
  /\ \E data \in Yields(Key) \cap {"rows", "none"} :
       query' = [query EXCEPT ![Key] = [data |-> data, err |-> "no", stale |-> FALSE, fetch |-> "no"]]
  /\ last' = Key
  /\ UNCHANGED <<url, draft, paging, press, online>>

Fails ==
  /\ Fetching
  /\ \E err \in Yields(Key) \cap Kinds : query' = [query EXCEPT ![Key].err = err, ![Key].fetch = "no"]
  /\ UNCHANGED <<url, draft, paging, press, last, online>>

\* Fifteen seconds on, an answer is stale; five minutes on, one nobody looks at is dropped.
Age ==
  /\ \E k \in Keys : Has(k) /\ ~query[k].stale /\ query' = [query EXCEPT ![k].stale = TRUE]
  /\ UNCHANGED <<url, draft, paging, press, last, online>>

Collect ==
  /\ \E k \in Keys \ {Key} :
       /\ Has(k) \/ query[k].err # "no"
       /\ query' = [query EXCEPT ![k] = [data |-> "no", err |-> "no", stale |-> FALSE, fetch |-> "no"]]
  /\ UNCHANGED <<url, draft, paging, press, last, online>>

GoOffline == online /\ online' = FALSE /\ UNCHANGED <<url, draft, paging, query, press, last>>

\* What waited goes on; what is stale is read again.
GoOnline ==
  /\ ~online /\ online' = TRUE
  /\ query' = [query EXCEPT ![Key].fetch = IF @ = "paused" \/ query[Key].stale THEN "yes" ELSE @]
  /\ UNCHANGED <<url, draft, paging, press, last>>

-----------------------------------------------------------------------------
\* The search bar.  A text is empty, blanks, too short, a property's short id, or long enough.
Texts == {"", "blanks", "ab", "77", "abc"}
Trim(t) == IF t = "blanks" THEN "" ELSE t
Short(t) == t \in {"ab", "77"}
Ready == {"77", "abc"}

Unread == [data |-> -1, err |-> FALSE, stale |-> FALSE, fetch |-> "no"]

\* The search that is asked for the text that settled: none, if it is too short and no id.
Asked == IF bar.settled \in Ready THEN bar.settled ELSE "none"
Found == IF Asked = "none" THEN <<>> ELSE [i \in 1 .. hits[Asked].data |-> [of |-> Asked, n |-> i]]
Wanting == Asked # "none" /\ (hits[Asked].data = -1 \/ hits[Asked].fetch = "yes")
Broken == Asked # "none" /\ hits[Asked].err /\ hits[Asked].fetch = "no"

\* Mutant of Status: what stands in the box may differ from what settled.
StatusUntyped ==
  CASE Trim(bar.text) = "" -> "idle"
    [] Broken -> "error"
    [] Wanting -> "loading"
    [] Found = <<>> -> "empty"
    [] OTHER -> "results"

Status ==
  CASE Trim(bar.text) = "" -> "idle"
    [] Trim(bar.text) # bar.settled -> "loading"
    [] Broken -> "error"
    [] Wanting -> "loading"
    [] Found = <<>> -> "empty"
    [] OTHER -> "results"

\* The rows of the popover: what was searched for before, or what is found now.
Open == bar.focus /\ (bar.text # "" \/ bar.recent # <<>>)
Pickable ==
  IF bar.text = "" THEN bar.recent
  ELSE IF ~Short(bar.text) /\ Status \notin {"loading", "error"} THEN Found ELSE <<>>
Rows == IF Open THEN Pickable ELSE <<>>
Cur == IF Open /\ bar.active < Len(Pickable) THEN bar.active ELSE -1

\* Into the box, by "/" or a press; and out of it, which closes the popover a moment later.
Enters == ~bar.in /\ bar' = [bar EXCEPT !.in = TRUE, !.focus = TRUE, !.leaving = FALSE] /\ UNCHANGED hits
Leaves == bar.in /\ bar' = [bar EXCEPT !.in = FALSE, !.leaving = TRUE] /\ UNCHANGED hits
Gone == bar.leaving /\ bar' = [bar EXCEPT !.leaving = FALSE, !.focus = FALSE] /\ UNCHANGED hits
Escape == bar.in /\ bar' = [bar EXCEPT !.focus = FALSE, !.active = -1] /\ UNCHANGED hits

Search ==
  /\ bar.in
  /\ \E t \in Texts \ {bar.text} : bar' = [bar EXCEPT !.text = t, !.active = -1, !.focus = TRUE]
  /\ UNCHANGED hits

Arrow ==
  /\ bar.in
  /\ LET n == Len(Pickable)
     IN  \E dir \in {1, -1} :
           bar' = [bar EXCEPT !.focus = TRUE,
                     !.active = IF n = 0 THEN @ ELSE IF Cur >= 0 THEN (Cur + dir + n) % n
                                ELSE IF dir = 1 THEN 0 ELSE n - 1]
  /\ UNCHANGED hits

\* pick: the row is remembered first of its like, the box is emptied, and its page is opened.
Picked(row) ==
  LET other(r) == r # row
      next == <<row>> \o SelectSeq(bar.recent, other)
  IN  [bar EXCEPT !.recent = SubSeq(next, 1, IF Len(next) < Kept THEN Len(next) ELSE Kept), !.text = ""]

Enter == bar.in /\ Cur >= 0 /\ bar' = Picked(Pickable[Cur + 1]) /\ UNCHANGED hits
Click == (\E i \in 1 .. Len(Rows) : bar' = Picked(Rows[i])) /\ UNCHANGED hits

\* useDebouncedValue: a quarter of a second after the last change; the search follows.
Settles ==
  /\ Trim(bar.text) # bar.settled
  /\ bar' = [bar EXCEPT !.settled = Trim(bar.text)]
  /\ LET to == Trim(bar.text)
         left == [k \in Ready |-> IF k = Asked THEN [hits[k] EXCEPT !.fetch = "no"] ELSE hits[k]]
     IN  hits' = [k \in Ready |-> IF k = to /\ (left[k].data = -1 \/ left[k].stale)
                                  THEN SearchStarts(left[k]) ELSE left[k]]

SearchRetry ==
  /\ Open /\ ~Short(bar.text) /\ Status = "error"
  /\ hits' = [hits EXCEPT ![Asked] = SearchStarts(@)] /\ UNCHANGED bar

SearchAnswered ==
  /\ Asked # "none" /\ hits[Asked].fetch = "yes"
  /\ \E n \in Finds(Asked) \ {-1} :
       hits' = [hits EXCEPT ![Asked] = [data |-> n, err |-> FALSE, stale |-> FALSE, fetch |-> "no"]]
  /\ UNCHANGED bar

SearchFails ==
  /\ Asked # "none" /\ hits[Asked].fetch = "yes" /\ -1 \in Finds(Asked)
  /\ hits' = [hits EXCEPT ![Asked].err = TRUE, ![Asked].fetch = "no"]
  /\ UNCHANGED bar

SearchAges ==
  /\ \E k \in Ready :
       \/ hits[k].data # -1 /\ ~hits[k].stale /\ hits' = [hits EXCEPT ![k].stale = TRUE]
       \/ k # Asked /\ (hits[k].data # -1 \/ hits[k].err) /\ hits' = [hits EXCEPT ![k] = Unread]
  /\ UNCHANGED bar

-----------------------------------------------------------------------------
Init ==
  /\ url \in Applied /\ online = TRUE
  /\ draft = [sig |-> url, values |-> url] /\ paging = FirstPage(url)
  /\ query = [k \in Keys |-> [data |-> "no", err |-> "no", stale |-> FALSE,
                              fetch |-> IF k = KeyOf(url, FirstPage(url)) THEN "yes" ELSE "no"]]
  /\ last = Nothing /\ press = "idle"
  /\ at \in {"list", "search"} /\ (at = "search" => url.sort = "desc")
  /\ bar = [text |-> "", settled |-> "", in |-> FALSE, focus |-> FALSE, leaving |-> FALSE, active |-> -1, recent |-> <<>>]
  /\ hits = [k \in Ready |-> Unread]

ListNext ==
  \/ Type \/ Apply \/ ApplyRests \/ ApplyNow \/ Reset \/ Follow \/ NextPage \/ PreviousPage
  \/ Refetch \/ Answer \/ Fails \/ Age \/ Collect \/ GoOffline \/ GoOnline

SearchNext ==
  \/ Enters \/ Leaves \/ Gone \/ Escape \/ Search \/ Arrow \/ Enter \/ Click
  \/ Settles \/ SearchRetry \/ SearchAnswered \/ SearchFails \/ SearchAges

Next ==
  \/ at = "list" /\ ListNext /\ UNCHANGED <<at, bar, hits>>
  \/ at = "search" /\ SearchNext /\ UNCHANGED <<at, url, draft, paging, query, press, last, online>>

Spec == Init /\ [][Next]_vars

-----------------------------------------------------------------------------
TypeOK ==
  /\ url \in Applied /\ draft \in [sig : Applied, values : Applied]
  /\ paging \in [base : Applied, off : 0 .. LastPage, turn : {"no", "next", "previous"}]
  /\ press \in {"idle", "done"} /\ last \in Keys \cup {Nothing}
  /\ query \in [Keys -> [data : {"no", "rows", "none"}, err : Kinds \cup {"no"}, stale : BOOLEAN, fetch : {"no", "yes", "paused"}]]
  /\ at \in {"list", "search"} /\ bar.text \in Texts /\ bar.settled \in {Trim(t) : t \in Texts}
  /\ bar.active \in -1 .. 1 /\ bar.in \in BOOLEAN /\ bar.focus \in BOOLEAN /\ bar.leaving \in BOOLEAN
  /\ Len(bar.recent) <= Kept
  /\ hits \in [Ready -> [data : -1 .. 2, err : BOOLEAN, stale : BOOLEAN, fetch : {"no", "yes"}]]

\* The rows the search bar offers answer what stands in it now, never an older search, but while
\* only blanks stand there; what was searched for before is offered for an empty box alone, each
\* row of it once; and a search is under way for the settled text alone.
SearchAnswersText ==
  /\ \A i \in 1 .. Len(Rows) : bar.text = "" \/ Rows[i].of = bar.text \/ bar.text = "blanks"
  /\ \A k \in Ready : hits[k].fetch = "yes" => k = bar.settled
  /\ \A i, j \in 1 .. Len(bar.recent) : bar.recent[i] = bar.recent[j] => i = j

\* While the browser believes it is online, rows that are not dimmed are those of the filters and
\* the page asked for, whatever was left, aborted, failed or kept; only their read is under way; and no row is drawn for a visit the ledger refused.
ShownIsAsked ==
  /\ Drawn = "rows" /\ query[Key].fetch # "paused" => Shown = Key /\ query[Key].err = "no"
  /\ \A k \in Keys : query[k].fetch # "no" => k = Key
  /\ query[Key].err = "denied" /\ query[Key].fetch = "no" => ~Table
  /\ SearchAnswersText
=============================================================================

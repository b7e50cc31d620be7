------------------------------ MODULE PagedList ------------------------------
(***************************************************************************)
(* A list that is read page by page (usePagedList): what is searched and   *)
(* the page are in the address, answers come in any order, and a page that *)
(* has become empty gives way to one before it.  The list at the server    *)
(* changes meanwhile; counting it and reading it are two queries.          *)
(***************************************************************************)
EXTENDS Integers, FiniteSets, FiniteSetsExt

CONSTANTS Searches,      \* what is searched for; one of them is Nothing
          Nothing,
          PageSize, MaxRows,
          MaxActs,       \* bound: of the user
          MaxChanges,    \* bound: of the list
          None

VARIABLES
    size,       \* how many rows match each search
    url,        \* the parameters in the address
    input,      \* the search field
    data,       \* the answer on the screen
    latest,     \* number of the last request
    loading, failed,
    flights,    \* requests under way
    redirect,   \* the page an effect has asked for
    deletion,   \* the address at which a deletion was begun that is under way
    acts, changes,
    wanted,     \* history: the page the user asked for
    least,      \* history: the fewest pages there were since
    astray      \* history: whether an answer that counted failed to come, or the
                \* list was reloaded for an address that was left

vars == <<size, url, input, data, latest, loading, failed, flights, redirect, deletion, acts, changes,
          wanted, least, astray>>
-----------------------------------------------------------------------------
LastPage(count) == Max({1, (count + PageSize - 1) \div PageSize})
Pages == 1..(LastPage(MaxRows) + 1)

Url == [page: Pages, search: Searches]
Page == [page: Pages, search: Searches, rows: 0..PageSize, totalPages: Pages]

TypeOK ==
    /\ size \in [Searches -> 0..MaxRows]
    /\ url \in Url /\ input \in Searches
    /\ data \in Page \cup {None}
    /\ latest \in Nat /\ loading \in BOOLEAN /\ failed \in BOOLEAN
    /\ flights \subseteq [id: Nat, url: Url, count: (0..MaxRows) \cup {None}, rows: (0..PageSize) \cup {None}]
    /\ redirect \in Pages \cup {None} /\ deletion \in Url \cup {None}
    /\ acts \in 0..MaxActs /\ changes \in 0..MaxChanges
    /\ wanted \in Pages /\ least \in Pages /\ astray \in BOOLEAN

Init ==
    /\ size = [s \in Searches |-> MaxRows]
    /\ url \in [page: Pages, search: {Nothing}]
    /\ input = Nothing /\ data = None /\ failed = FALSE
    /\ latest = 1 /\ loading = TRUE
    /\ flights = {[id |-> 1, url |-> url, count |-> None, rows |-> None]}
    /\ redirect = None /\ deletion = None
    /\ acts = 0 /\ changes = 0
    /\ wanted = url.page /\ least = LastPage(size[url.search])
    /\ astray = FALSE
-----------------------------------------------------------------------------
(* The effects of a render *)

\* Mutant of PageIsEmpty: the answer may be that of another page.
PageIsEmptyOfAny(isLoading, shown, to) ==
    ~isLoading /\ shown # None /\ shown.rows = 0 /\ to.page > 1

PageIsEmpty(isLoading, shown, to) ==
    ~isLoading /\ shown # None /\ shown.page = to.page /\ shown.rows = 0 /\ to.page > 1

\* With what the render had: the loading that begins is not seen yet.
Adjust(isLoading, shown, to) ==
    redirect' = IF PageIsEmpty(isLoading, shown, to) THEN Min({to.page - 1, shown.totalPages}) ELSE None

\* An address that is no other starts nothing.
GoTo(to) ==
    /\ url' = to
    /\ IF to = url THEN UNCHANGED <<latest, loading, failed, flights>>
       ELSE /\ latest' = latest + 1 /\ loading' = TRUE /\ failed' = FALSE
            /\ flights' = flights \cup {[id |-> latest + 1, url |-> to, count |-> None, rows |-> None]}
    /\ Adjust(loading, data, to)
    /\ UNCHANGED <<size, data, deletion, astray>>

Redirect ==
    /\ redirect # None
    /\ GoTo([url EXCEPT !.page = redirect])
    /\ UNCHANGED <<input, acts, changes, wanted, least>>

Act == redirect = None /\ acts < MaxActs /\ acts' = acts + 1 /\ UNCHANGED changes
Wanted(to) ==
    IF to = url THEN UNCHANGED <<wanted, least>>
    ELSE wanted' = to.page /\ least' = LastPage(size[to.search])

SetPage(p) ==
    /\ Act
    /\ p \in 1..(IF data = None THEN 1 ELSE data.totalPages)
    /\ GoTo([url EXCEPT !.page = p]) /\ Wanted([url EXCEPT !.page = p])
    /\ UNCHANGED input

\* Back, forward or a link: the field follows a search that changed.
Navigate(to) ==
    /\ Act
    /\ GoTo(to) /\ Wanted(to)
    /\ input' = IF to.search # url.search THEN to.search ELSE input

Type(s) ==
    /\ Act
    /\ input' = s
    /\ UNCHANGED <<size, url, data, latest, loading, failed, flights, redirect, deletion, wanted, least,
                   astray>>

\* The pause in typing is over: on the first page.
Debounce ==
    /\ redirect = None /\ input # url.search
    /\ LET to == [page |-> 1, search |-> input] IN GoTo(to) /\ Wanted(to)
    /\ UNCHANGED <<input, acts, changes>>

Delete ==
    /\ Act
    /\ deletion = None /\ size[url.search] > 0 /\ deletion' = url
    /\ UNCHANGED <<size, url, input, data, latest, loading, failed, flights, redirect, wanted, least, astray>>

\* The handler reloads what was in the address when it began.
Deleted ==
    /\ deletion # None /\ redirect = None
    /\ size' = [size EXCEPT ![deletion.search] = Max({0, @ - 1})]
    /\ least' = Min({least, LastPage(size'[url.search])})
    /\ latest' = latest + 1 /\ loading' = TRUE /\ failed' = FALSE
    /\ flights' = flights \cup {[id |-> latest + 1, url |-> deletion, count |-> None, rows |-> None]}
    /\ deletion' = None
    /\ astray' = (astray \/ deletion # url)
    /\ UNCHANGED <<url, input, data, redirect, acts, changes, wanted>>

DeleteFails ==
    /\ deletion # None /\ redirect = None /\ deletion' = None
    /\ UNCHANGED <<size, url, input, data, latest, loading, failed, flights, redirect, acts, changes,
                   wanted, least, astray>>
-----------------------------------------------------------------------------
(* The server and its answers *)

ChangeList(s, count) ==
    /\ changes < MaxChanges /\ changes' = changes + 1
    /\ size' = [size EXCEPT ![s] = count]
    /\ least' = Min({least, LastPage(size'[url.search])})
    /\ UNCHANGED <<url, input, data, latest, loading, failed, flights, redirect, deletion, acts, wanted,
                   astray>>

\* The count and the rows of a page, in either order; what the server answers to
\* a request that is not the last one does not matter.
RowsOf(to) == Max({0, Min({PageSize, size[to.search] - (to.page - 1) * PageSize})})

Query(f) ==
    /\ f.id = latest
    /\ \/ /\ f.count = None
          /\ flights' = (flights \ {f}) \cup {[f EXCEPT !.count = size[f.url.search]]}
       \/ /\ f.rows = None
          /\ flights' = (flights \ {f}) \cup {[f EXCEPT !.rows = RowsOf(f.url)]}
    /\ UNCHANGED <<size, url, input, data, latest, loading, failed, redirect, deletion, acts, changes, wanted,
                   least, astray>>

PageOf(f) == [page |-> f.url.page, search |-> f.url.search, rows |-> f.rows, totalPages |-> LastPage(f.count)]

\* Only the last request counts.
Arrive(f) ==
    /\ f.id = latest => f.count # None /\ f.rows # None
    /\ redirect = None
    /\ flights' = flights \ {f}
    /\ IF f.id = latest
         THEN /\ data' = PageOf(f) /\ loading' = FALSE
              /\ Adjust(FALSE, PageOf(f), url)
         ELSE UNCHANGED <<data, loading, redirect>>
    /\ UNCHANGED <<size, url, input, latest, failed, deletion, acts, changes, wanted, least, astray>>

LoadFails(f) ==
    /\ redirect = None
    /\ flights' = flights \ {f}
    /\ IF f.id = latest
         THEN /\ failed' = TRUE /\ astray' = TRUE /\ loading' = FALSE
              /\ Adjust(FALSE, data, url)
         ELSE UNCHANGED <<failed, astray, loading, redirect>>
    /\ UNCHANGED <<size, url, input, data, latest, deletion, acts, changes, wanted, least>>
-----------------------------------------------------------------------------
Next ==
    \/ Redirect \/ Debounce \/ Delete \/ Deleted \/ DeleteFails
    \/ \E p \in Pages : SetPage(p)
    \/ \E to \in Url : Navigate(to)
    \/ \E s \in Searches : Type(s) \/ \E count \in {0, PageSize, MaxRows} : ChangeList(s, count)
    \/ \E f \in flights : Query(f) \/ Arrive(f) \/ LoadFails(f)

Spec == Init /\ [][Next]_vars
-----------------------------------------------------------------------------
(* Properties *)

\* The guard of the adjustment is to keep it from going down too far: to no page
\* before both the one the user asked for and the last one there was at some time
\* since.
NeverTooFarDown == url.page >= Min({wanted, least})

\* Only the answer to the last query counts: once nothing is under way, the list
\* shows what is searched and the page in the address.
AnswersAreNotMixed ==
    (flights = {} /\ redirect = None /\ ~failed) =>
        ~loading /\ data.page = url.page /\ data.search = url.search

Last == {f \in flights : f.id = latest}

\* Inductive: while the list is loading one request is the last one.
LastIsOne ==
    /\ \A f \in flights : f.id <= latest
    /\ \A f, g \in Last : f = g
    /\ loading <=> Last # {}
    /\ least <= LastPage(size[url.search])

\* Inductive: the last request is for the address, and what it has been told keeps
\* to the fewest pages there were; at rest the data are of the address, and an
\* empty page is about to give way to one that is no further down than that.
LastIsWanted == ~astray =>
    /\ ~failed /\ NeverTooFarDown
    /\ \A f \in Last :
         /\ f.url = url
         /\ f.count # None => least <= LastPage(f.count)
         /\ (f.rows = 0 /\ url.page > 1) => least <= url.page - 1
    /\ ~loading => data # None /\ data.page = url.page /\ data.search = url.search
    /\ IF redirect = None THEN ~PageIsEmpty(loading, data, url)
       ELSE ~loading /\ least <= redirect /\ redirect < url.page

\* Both hold, unless an answer failed to come (the empty page still on the screen
\* may then be taken for the one in the address) or a deletion ended after its
\* page was left; and at rest a page behind the first is not empty.
PageIsTheOneWanted == ~astray =>
    /\ NeverTooFarDown
    /\ AnswersAreNotMixed
    /\ (flights = {} /\ redirect = None /\ data.rows = 0) => url.page = 1
=============================================================================

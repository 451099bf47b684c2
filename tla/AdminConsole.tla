---------------------------- MODULE AdminConsole ----------------------------
(***************************************************************************)
(* The administration pages of the web application, inside the session of  *)
(* AuthSession: users, static data, audit log, execution and portfolio     *)
(* (Admin*Page.tsx, admin/*-api.ts, AdminShell.tsx).  AdminShell mounts    *)
(* one page at a time; a page starts anew whenever it is mounted, and what *)
(* it had asked for is no longer heard.                                    *)
(*                                                                         *)
(* All pages are one pattern: a load of rows with the filter the user      *)
(* submitted, a selected row, a form filled from it, a write whose answer  *)
(* changes the rows.  A call and its answer are separate steps, so loads   *)
(* and writes overlap as far as the page's buttons allow.  An account, a   *)
(* listing or a portfolio is an item, and its content its revision, 0 when *)
(* it does not exist.                                                      *)
(***************************************************************************)
EXTENDS AuthSession, AuditPages, SequencesExt

CONSTANTS
    Items,
    Filters, NoFilter,
    Listed,            \* per filter, the listings it matches, one to a page
    Logs, NoLog,       \* the audit logs there may be while the audit page is shown
    MaxRevision,       \* bound on the writes of one item
    MaxLoads,          \* bound on loads in progress
    None

ASSUME ConsoleAssumption ==
    /\ NoFilter \in Filters /\ None \notin Items /\ Items \cap Filters = {}
    /\ Listed \in [Filters -> Seq(Items)]
    /\ Logs \subseteq Seq(Sources) /\ NoLog \in Seq(Sources)
    /\ MaxRevision \in Nat \ {0} /\ MaxLoads \in Nat \ {0}

VARIABLES
    route,             \* the page that is mounted
    revision,          \* the services: the revision of each item
    log,               \* the services: the audit log
    filter, applied,   \* the filter in the form, and the one last submitted
    loads,             \* loads in progress, answered in any order
    loading, failed,   \* the page's flag, and whether the last load failed
    rows,              \* the revisions of the rows shown, 0: not shown
    shown,             \* what was loaded last
    selected, editingNew,
    draft,             \* the form
    saving             \* the write in progress

page == <<filter, applied, loads, loading, failed, rows, shown, selected, editingNew, draft>>
vars == <<sessionVars, route, revision, log, page, saving>>

Routes   == {"users", "static", "audit", "execution", "portfolio"}
Revs     == 0..MaxRevision
RowSets  == [Items -> Revs]
NoRows   == [i \in Items |-> 0]
NoShown  == [filter |-> NoFilter, page |-> 0, last |-> TRUE, events |-> {}, answered |-> {}]
NoDraft  == [id |-> None, base |-> 0, dirty |-> FALSE]

\* A load of page p with filter f, after which item i is selected; "new" is what
\* loadUsers has captured of editingNew.
Asked(f, p, i, new) ==
    [arg |-> f, page |-> p, select |-> i, new |-> new, served |-> FALSE, rows |-> NoRows,
     events |-> {}, answered |-> {}]

TypeOK ==
    /\ SessionTypeOK
    /\ route \in Routes \cup {"none"}
    /\ revision \in RowSets /\ log \in Logs \cup {NoLog}
    /\ filter \in Filters /\ applied \in Filters
    /\ Len(loads) <= MaxLoads
    /\ \A s \in DOMAIN loads :
         /\ loads[s].arg \in Filters \cup Items /\ loads[s].page \in Nat
         /\ loads[s].rows \in RowSets
    /\ loading \in BOOLEAN /\ failed \in BOOLEAN
    /\ rows \in RowSets /\ \A i \in Items : rows[i] <= revision[i]
    /\ shown.filter \in Filters \cup Items /\ shown.page \in Nat
    /\ selected \in Items \cup {None} /\ editingNew \in BOOLEAN
    /\ draft \in [id : Items \cup {None}, base : Revs, dirty : BOOLEAN]
    /\ saving = None \/
         /\ saving.kind \in {"account", "listing", "import", "provision"}
         /\ saving.id \in Items \cup {None} /\ saving.got \in Revs
         /\ saving.status \in {"sent", "ok", "refused", "reload"}
         /\ saving.heard \in BOOLEAN /\ saving.more \in BOOLEAN

FreshPage(r) ==
    /\ filter' = NoFilter /\ applied' = NoFilter
    /\ LET first == r \in {"users", "static", "audit", "execution"} IN
           /\ loading' = first
           /\ loads' = IF first THEN <<Asked(NoFilter, 0, None, FALSE)>> ELSE <<>>
    /\ failed' = FALSE /\ rows' = NoRows /\ shown' = NoShown
    /\ selected' = None /\ editingNew' = FALSE /\ draft' = NoDraft

Init ==
    /\ SessionInit /\ route = "none"
    /\ \E i \in Items : revision = [NoRows EXCEPT ![i] = 1]
    /\ log = NoLog
    /\ filter = NoFilter /\ applied = NoFilter
    /\ loads = <<>> /\ loading = FALSE /\ failed = FALSE
    /\ rows = NoRows /\ shown = NoShown
    /\ selected = None /\ editingNew = FALSE /\ draft = NoDraft
    /\ saving = None

----------------------------------------------------------------------------
(* The shell.                                                              *)

\* (mutant) any signed-in user passes.
ShellAdmitsAnyone == doc = "app" /\ ~authLoading /\ user # "none"

\* AdminShell shows its pages to an authenticated administrator.
ShellAdmits == doc = "app" /\ ~authLoading /\ user = "admin"

\* The page of a write is gone: its answers show nowhere, but what its handler has yet
\* to ask for is asked for all the same, unless the document is gone with the page.
NobodyHears(w, documentLives) ==
    IF w = None THEN None
    ELSE IF w.status # "sent" /\ ~(w.status = "ok" /\ w.more /\ documentLives) THEN None
    ELSE [w EXCEPT !.heard = FALSE, !.more = @ /\ documentLives, !.filter = NoFilter, !.page = 0]

\* The side navigation: the page that was shown is unmounted.
Navigate(r) ==
    /\ ShellAdmits /\ r # route
    /\ route' = r /\ FreshPage(r) /\ saving' = NobodyHears(saving, TRUE)
    /\ log' \in IF r = "audit" THEN Logs ELSE {NoLog}
    /\ UNCHANGED <<sessionVars, revision>>

\* The user leaves for another part of the application.
Leave ==
    /\ route # "none" /\ route' = "none" /\ log' = NoLog
    /\ FreshPage("none") /\ saving' = NobodyHears(saving, TRUE)
    /\ UNCHANGED <<sessionVars, revision>>

\* The session goes on; a page stays only as long as AdminShell admits its user.
ChangeSession ==
    /\ SessionStep
    /\ IF ShellAdmits' THEN UNCHANGED <<route, page, saving, log>>
       ELSE /\ route' = "none" /\ FreshPage("none") /\ log' = NoLog
            /\ saving' = NobodyHears(saving, doc' = "app")
    /\ UNCHANGED revision

On(R) == route \in R /\ UNCHANGED <<sessionVars, route>>

----------------------------------------------------------------------------
(* Loading.                                                                *)

Start(l)   == Len(loads) < MaxLoads /\ loads' = Append(loads, l) /\ loading' = TRUE
Load(f, p) == Start(Asked(f, p, None, editingNew))

EditFilter ==
    /\ On({"static", "audit", "execution"})
    /\ \E f \in Filters \ {filter} : filter' = f
    /\ UNCHANGED <<revision, log, applied, loads, loading, failed, rows, shown, selected,
                   editingNew, draft, saving>>

Keeps == UNCHANGED <<revision, log, failed, rows, shown, selected, editingNew, draft, saving>>

\* (mutant) the buttons stay enabled while rows are loaded.
MayLoadAlways == TRUE

\* The buttons that load are disabled while the page loads.
MayLoad == ~loading

Submit ==
    /\ On({"static", "audit", "execution"}) /\ MayLoad
    /\ applied' = filter /\ Load(filter, 0)
    /\ UNCHANGED filter /\ Keeps

ClearFilters ==
    /\ On({"static", "audit"}) /\ MayLoad
    /\ filter' = NoFilter /\ applied' = NoFilter /\ Load(NoFilter, 0)
    /\ Keeps

\* movePage, and changePageSize, which starts over at the first page.
MovePage ==
    /\ On({"static", "audit"}) /\ MayLoad
    /\ \/ ~shown.last /\ Load(applied, shown.page + 1)
       \/ shown.page > 0 /\ Load(applied, shown.page - 1)
       \/ Load(applied, 0)
    /\ UNCHANGED <<filter, applied>> /\ Keeps

RefreshUsers ==
    /\ On({"users"}) /\ MayLoad /\ Load(NoFilter, 0)
    /\ UNCHANGED <<filter, applied>> /\ Keeps

\* The portfolio of a client, or nothing if the input is not a client's number.
LoadPortfolio ==
    /\ On({"portfolio"}) /\ MayLoad
    /\ \/ (\E c \in Items : Load(c, 0)) /\ UNCHANGED rows
       \/ rows' = NoRows /\ UNCHANGED <<loads, loading>>
    /\ UNCHANGED <<revision, log, filter, applied, failed, shown, selected, editingNew,
                   draft, saving>>

\* What the services answer.
RowsFor(l) ==
    CASE route = "users"     -> revision
      [] route = "portfolio" -> [i \in Items |-> IF i = l.arg THEN revision[i] ELSE 0]
      [] route = "static" /\ l.page < Len(Listed[l.arg]) ->
             [i \in Items |-> IF i = Listed[l.arg][l.page + 1] THEN revision[i] ELSE 0]
      [] OTHER -> NoRows

ServeLoad(s) ==
    /\ ~loads[s].served
    /\ \E answered \in (IF route = "audit" THEN SUBSET Sources \ {{}} ELSE {{}}) :
          loads' = [loads EXCEPT ![s].served = TRUE, ![s].rows = RowsFor(loads[s]),
                                 ![s].answered = answered,
                                 ![s].events = Combined(log, answered, loads[s].page)]
    /\ UNCHANGED <<sessionVars, route, revision, log, filter, applied, loading, failed, rows,
                   shown, selected, editingNew, draft, saving>>

Shown(r, i) == i # None /\ r[i] > 0
FirstOf(r) == IF \E i \in Items : r[i] > 0 THEN {i \in Items : r[i] > 0} ELSE {None}
Form(r, i) == [id |-> i, base |-> r[i], dirty |-> FALSE]

\* A form for a new account stays as it is until a row is selected or given up.
NewForm(sel, r) ==
    IF editingNew /\ ~Shown(rows, selected) /\ ~Shown(r, sel) THEN draft ELSE NoDraft

\* (mutant) the form follows the selected id, and not the row it selects.
FormById(sel, new, r) ==
    IF new THEN NewForm(sel, r) ELSE IF Shown(r, sel) /\ sel # draft.id THEN Form(r, sel) ELSE draft

\* The effect that fills the form when the selected row has changed.
FormOf(sel, new, r) ==
    IF new THEN NewForm(sel, r)
    ELSE IF Shown(r, sel) THEN Form(r, sel)
    ELSE IF route = "users" THEN draft ELSE NoDraft

LastPage(l) ==
    CASE route = "audit"  -> IsLast(log, l.answered, l.page)
      [] route = "static" -> l.page + 1 >= Len(Listed[l.arg])
      [] OTHER            -> TRUE

\* importListings ends with the reload it waits for, and selects what was imported.
AfterReload(s) == IF loads[s].select = None THEN saving ELSE None

\* The rows, the page they are of and the selection change together.
LoadDone(s) ==
    /\ On(Routes) /\ loads[s].served
    /\ route = "portfolio" => Shown(loads[s].rows, loads[s].arg)
    /\ loads' = RemoveAt(loads, s) /\ loading' = FALSE /\ failed' = FALSE
    /\ rows' = loads[s].rows
    /\ shown' = [filter |-> loads[s].arg, page |-> loads[s].page, last |-> LastPage(loads[s]),
                 events |-> loads[s].events, answered |-> loads[s].answered]
    /\ selected' \in IF loads[s].select # None THEN {loads[s].select}
                     ELSE IF loads[s].new \/ Shown(rows', selected) THEN {selected}
                     ELSE FirstOf(rows')
    /\ draft' = FormOf(selected', editingNew, rows')
    /\ saving' = AfterReload(s)
    /\ UNCHANGED <<revision, log, filter, applied, editingNew>>

LoadFails(s) ==
    /\ On(Routes)
    /\ loads' = RemoveAt(loads, s) /\ loading' = FALSE /\ failed' = TRUE
    /\ rows' = IF route = "portfolio" THEN NoRows ELSE rows
    /\ selected' = IF loads[s].select = None THEN selected ELSE loads[s].select
    /\ draft' = IF selected' = selected THEN draft ELSE FormOf(selected', editingNew, rows')
    /\ saving' = AfterReload(s)
    /\ UNCHANGED <<revision, log, filter, applied, shown, editingNew>>

----------------------------------------------------------------------------
(* The form.                                                               *)

\* loadUsers depends on editingNew: when that changes, the users are loaded again.
Toggle(new) ==
    /\ editingNew' = new
    /\ IF new = editingNew THEN UNCHANGED <<loads, loading>> ELSE Start(Asked(NoFilter, 0, None, new))

Select(i) ==
    /\ On({"users", "static"}) /\ Shown(rows, i)
    /\ i # selected \/ editingNew
    /\ selected' = i /\ draft' = FormOf(i, FALSE, rows)
    /\ Toggle(FALSE)
    /\ UNCHANGED <<revision, log, filter, applied, failed, rows, shown, saving>>

CreateNew ==
    /\ On({"users"})
    /\ selected' = None /\ draft' = FormOf(None, TRUE, rows)
    /\ Toggle(TRUE)
    /\ UNCHANGED <<revision, log, filter, applied, failed, rows, shown, saving>>

EditDraft ==
    /\ On({"users", "static"}) /\ ~draft.dirty /\ (route = "static" => draft.id # None)
    /\ draft' = [draft EXCEPT !.dirty = TRUE]
    /\ UNCHANGED <<revision, log, filter, applied, loads, loading, failed, rows, shown,
                   selected, editingNew, saving>>

\* Whether a request follows the first one; an import remembers the page it was clicked on.
Write(kind, i, more) ==
    saving' = [kind |-> kind, id |-> i, more |-> more, got |-> 0, status |-> "sent",
               heard |-> TRUE, filter |-> IF kind = "import" THEN applied ELSE NoFilter,
               page |-> IF kind = "import" THEN shown.page ELSE 0]

Writes == saving = None /\ UNCHANGED <<revision, log, page>>

SaveUser ==
    /\ On({"users"}) /\ Writes
    /\ draft.id = None => draft.dirty
    /\ \E password \in BOOLEAN : Write("account", draft.id, password /\ draft.id # None)

SaveListing == On({"static"}) /\ Writes /\ Shown(rows, selected) /\ Write("listing", selected, FALSE)

ImportListings ==
    /\ On({"static"}) /\ Writes /\ ~loading
    /\ \E i \in Items : Write("import", i, TRUE)

Provision ==
    /\ On({"portfolio"}) /\ Writes /\ ~loading
    /\ \E c \in Items : Write("provision", c, FALSE)

----------------------------------------------------------------------------
(* Writes, one at a time, whether their page is still mounted or not.      *)

Sent(kinds) == saving # None /\ saving.kind \in kinds /\ saving.status = "sent"
Quiet == UNCHANGED <<sessionVars, route, log, page>>

\* (mutant) the answer shows what the database does not keep.
WrittenInVain(i) ==
    /\ revision[i] < MaxRevision
    /\ saving' = [saving EXCEPT !.id = i, !.got = revision[i] + 1, !.status = "ok"]
    /\ UNCHANGED revision /\ Quiet

Written(i) ==
    /\ revision[i] < MaxRevision
    /\ revision' = [revision EXCEPT ![i] = @ + 1]
    /\ saving' = [saving EXCEPT !.id = i, !.got = revision[i] + 1, !.status = "ok"]
    /\ Quiet

\* An existing item is changed, or created by an import.
ServeChange ==
    /\ Sent({"account", "listing", "import"}) /\ saving.id # None
    /\ saving.kind # "import" => revision[saving.id] > 0
    /\ Written(saving.id)

\* An account or a portfolio is created unless it is there already.
ServeCreate ==
    /\ Sent({"account", "provision"})
    /\ \E i \in Items : revision[i] = 0 /\ saving.id \in {None, i} /\ Written(i)

ServeRefuse ==
    /\ Sent({"account", "listing", "import", "provision"})
    /\ saving' = [saving EXCEPT !.status = "refused"]
    /\ UNCHANGED revision /\ Quiet

\* saveUser: with a new password the update is followed by a second request.
SendPassword ==
    /\ saving # None /\ saving.kind = "account" /\ saving.status = "ok" /\ saving.more
    /\ saving' = [saving EXCEPT !.status = "sent", !.more = FALSE]
    /\ UNCHANGED revision /\ Quiet

Answered(kinds) ==
    /\ saving # None /\ saving.heard /\ saving.kind \in kinds
    /\ saving.status = "ok" /\ ~saving.more
    /\ UNCHANGED <<sessionVars, route, revision, log, filter, applied, failed, shown>>

UserSaved ==
    /\ Answered({"account"}) /\ saving' = None
    /\ rows' = [rows EXCEPT ![saving.id] = saving.got]
    /\ selected' = saving.id /\ draft' = Form(rows', saving.id)
    /\ Toggle(FALSE)

ListingSaved ==
    /\ Answered({"listing"}) /\ saving' = None
    /\ rows' = [rows EXCEPT ![saving.id] = IF @ > 0 THEN saving.got ELSE 0]
    /\ selected' = saving.id /\ draft' = FormOf(selected', FALSE, rows')
    /\ UNCHANGED <<loads, loading, editingNew>>

Provisioned ==
    /\ Answered({"provision"}) /\ saving' = None
    /\ rows' = [i \in Items |-> IF i = saving.id THEN saving.got ELSE 0]
    /\ UNCHANGED <<selected, draft, loads, loading, editingNew>>

\* importListings waits for a reload with the filter of when Import was clicked, and asks
\* for it when the page is gone as well; its answer is then of no use.
Imported ==
    /\ saving # None /\ saving.kind = "import" /\ saving.status = "ok" /\ saving.more
    /\ saving' = [saving EXCEPT !.status = "reload", !.more = FALSE]
    /\ IF saving.heard THEN Start(Asked(saving.filter, saving.page, saving.id, editingNew))
       ELSE UNCHANGED <<loads, loading>>
    /\ UNCHANGED <<sessionVars, route, revision, log, filter, applied, failed, shown, rows,
                   selected, draft, editingNew>>

\* A refused write, a request or an answer that is lost, whether the service has written
\* or not, or one that nobody hears.
WriteOver ==
    /\ saving # None /\ (saving.status = "reload" => ~saving.heard)
    /\ saving' = None
    /\ rows' = IF route = "portfolio" /\ saving.heard THEN NoRows ELSE rows
    /\ UNCHANGED <<sessionVars, route, revision, log, filter, applied, loads, loading, failed,
                   shown, selected, editingNew, draft>>

----------------------------------------------------------------------------

PageStep ==
    \/ EditFilter \/ Submit \/ ClearFilters \/ MovePage \/ RefreshUsers \/ LoadPortfolio
    \/ CreateNew \/ EditDraft \/ SaveUser \/ SaveListing \/ ImportListings \/ Provision
    \/ UserSaved \/ ListingSaved \/ Provisioned \/ Imported \/ WriteOver
    \/ \E i \in Items : Select(i)
    \/ \E s \in DOMAIN loads : ServeLoad(s) \/ LoadDone(s) \/ LoadFails(s)

WriteStep == ServeChange \/ ServeCreate \/ ServeRefuse \/ SendPassword

Next == ChangeSession \/ Leave \/ (\E r \in Routes : Navigate(r)) \/ PageStep \/ WriteStep

Spec == Init /\ [][Next]_vars

----------------------------------------------------------------------------
\* No page of the shell is there without the session of an administrator, in memory and
\* in the storage (AdminShell; the browser test "blocks non-admin sessions before the
\* user-management API loads").  It speaks of pages, not of requests: a handler that was
\* started on a page still sends the password of saveUser and the reload of
\* importListings, with the token it holds, when the page and the session are gone.
PagesNeedAdministrator == route # "none" => doc = "app" /\ user = "admin" /\ stored = "admin"

\* The form holds the row that the list shows as selected, in the revision shown, or
\* a new account: however loads, selections and answers of saves interleave, a save
\* never sends one item's fields under the name of another.
FormMatchesSelection ==
    /\ route = "users" /\ editingNew => draft.id = None
    /\ route = "users" /\ ~editingNew /\ Shown(rows, selected) =>
           draft.id = selected /\ draft.base = rows[selected]
    /\ route = "static" /\ draft.id # None =>
           draft.id = selected /\ draft.base = rows[selected]

\* Once its loads are over, and unless the last one failed, a page shows what the
\* filter last submitted matches: the answer of an earlier load never replaces that
\* of a later one (loadAudit, loadExecution).
ShownIsApplied ==
    route \in {"audit", "execution"} /\ ~loading /\ ~failed => shown.filter = applied

\* A page of the combined audit log, when every service answered and it lies within
\* what each was asked for, is that page of all events in the order of time.
PageOfTheWholeLog ==
    route = "audit" /\ shown.answered = Sources /\ (shown.page + 1) * PageSize <= BroadSize =>
        shown.events = Cut(DOMAIN log, shown.page, PageSize)
=============================================================================

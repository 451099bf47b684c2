----------------------------- MODULE AdminProofs -----------------------------
(***************************************************************************)
(* What holds of the administration pages for any items, filters, audit    *)
(* logs and numbers of writes and of loads in progress.                    *)
(***************************************************************************)
EXTENDS AdminConsole, FiniteSetTheorems, SequenceTheorems, TLAPS

\* A page is mounted only where the shell admits its user.
MountedByShell == route # "none" => ShellAdmits

SessionInv == SessionIsStored /\ MountedByShell

LEMMA SessionStarts == Init => SessionInv
  BY DEF Init, SessionInit, SessionInv, SessionIsStored, MountedByShell

\* What the session does to its user it does to the storage.
LEMMA SessionStepKeepsStored ==
  ASSUME SessionIsStored, SessionStep
  PROVE  SessionIsStored'
  <1> USE DEF SessionIsStored
  <1>1. CASE Restore
    BY <1>1 DEF Restore
  <1>2. CASE Login \/ Logout
    BY <1>2 DEF Login, Logout
  <1>3. CASE Redirect
    BY <1>3 DEF Redirect, Open
  <1>4. CASE RedirectFails
    BY <1>4 DEF RedirectFails
  <1>5. CASE AskToSignIn \/ SignedIn \/ SubmitLogin
    BY <1>5 DEF AskToSignIn, SignedIn, SubmitLogin, Open
  <1>6. CASE FetchCsrf \/ ReturnHome \/ CallbackFails
    BY <1>6 DEF FetchCsrf, ReturnHome, CallbackFails
  <1>7. CASE CompleteSignIn
    BY <1>7 DEF CompleteSignIn
  <1>8. CASE CompleteSignOut
    BY <1>8 DEF CompleteSignOut
  <1>9. CASE Expire
    BY <1>9 DEF Expire
  <1> QED
    BY <1>1, <1>2, <1>3, <1>4, <1>5, <1>6, <1>7, <1>8, <1>9 DEF SessionStep

\* The pages and the services leave the session and the mounted page alone.
LEMMA PagesKeepSession ==
  ASSUME PageStep \/ WriteStep
  PROVE  UNCHANGED <<sessionVars, route>>
  <1> USE DEF On
  <1>1. CASE EditFilter \/ Submit \/ ClearFilters \/ MovePage \/ RefreshUsers \/ LoadPortfolio
    BY <1>1 DEF EditFilter, Submit, ClearFilters, MovePage, RefreshUsers, LoadPortfolio
  <1>2. CASE CreateNew \/ EditDraft \/ SaveUser \/ SaveListing \/ ImportListings \/ Provision
    BY <1>2 DEF CreateNew, EditDraft, SaveUser, SaveListing, ImportListings, Provision
  <1>3. CASE UserSaved \/ ListingSaved \/ Provisioned \/ Imported \/ WriteOver
    BY <1>3 DEF UserSaved, ListingSaved, Provisioned, Imported, WriteOver, Answered
  <1>4. ASSUME NEW i \in Items, Select(i) PROVE UNCHANGED <<sessionVars, route>>
    BY <1>4 DEF Select
  <1>5. ASSUME NEW s \in DOMAIN loads, ServeLoad(s) \/ LoadDone(s) \/ LoadFails(s)
        PROVE  UNCHANGED <<sessionVars, route>>
    BY <1>5 DEF ServeLoad, LoadDone, LoadFails
  <1>6. CASE WriteStep
    BY <1>6 DEF WriteStep, ServeChange, ServeCreate, ServeRefuse, SendPassword, Written, Quiet
  <1> QED
    BY <1>1, <1>2, <1>3, <1>4, <1>5, <1>6 DEF PageStep

LEMMA SessionGoesOn == SessionInv /\ [Next]_vars => SessionInv'
  <1> SUFFICES ASSUME SessionInv, [Next]_vars PROVE SessionInv'
    OBVIOUS
  <1> USE DEF SessionInv
  <1>1. CASE ChangeSession
    <2>1. SessionIsStored'
      BY <1>1, SessionStepKeepsStored DEF ChangeSession
    <2>2. MountedByShell'
      BY <1>1 DEF ChangeSession, MountedByShell
    <2> QED
      BY <2>1, <2>2
  <1>2. CASE Leave
    BY <1>2 DEF Leave, MountedByShell, SessionIsStored, sessionVars
  <1>3. ASSUME NEW r \in Routes, Navigate(r) PROVE SessionInv'
    BY <1>3 DEF Navigate, MountedByShell, SessionIsStored, ShellAdmits, sessionVars
  <1>4. CASE PageStep \/ WriteStep \/ UNCHANGED vars
    <2>1. UNCHANGED <<sessionVars, route>>
      BY <1>4, PagesKeepSession DEF vars
    <2> QED
      BY <2>1 DEF MountedByShell, SessionIsStored, ShellAdmits, sessionVars
  <1> QED
    BY <1>1, <1>2, <1>3, <1>4 DEF Next

\* Who the application takes its user to be is who the storage restores, however reloads,
\* redirects that fail, callbacks and expiry interleave (AuthProvider, oidc.ts).
THEOREM SessionRestores == Spec => []SessionIsStored
  <1>1. SessionInv => SessionIsStored
    BY DEF SessionInv
  <1> QED
    BY <1>1, SessionStarts, SessionGoesOn, PTL DEF Spec

\* No administration page is there without the session of an administrator, in memory
\* and in the storage (AdminShell, AuthProvider).
THEOREM AdministratorsOnly == Spec => []PagesNeedAdministrator
  <1>1. SessionInv => PagesNeedAdministrator
    BY DEF SessionInv, SessionIsStored, MountedByShell, ShellAdmits, PagesNeedAdministrator
  <1> QED
    BY <1>1, SessionStarts, SessionGoesOn, PTL DEF Spec

----------------------------------------------------------------------------
(* The form.                                                               *)

\* The page that is there when the answer of a write is heard.
PageOf(kind) ==
    CASE kind = "account" -> "users" [] kind = "provision" -> "portfolio" [] OTHER -> "static"

HeardOnItsPage ==
    saving # None =>
        /\ DOMAIN saving =
               {"kind", "id", "more", "got", "status", "heard", "filter", "page"}
        /\ saving.heard => route = PageOf(saving.kind)

NewFormOfUsers == editingNew \in BOOLEAN /\ (editingNew => route = "users")
DraftIsForm    == draft = [id |-> draft.id, base |-> draft.base, dirty |-> draft.dirty]

FormInv == HeardOnItsPage /\ NewFormOfUsers /\ DraftIsForm /\ FormMatchesSelection

LEMMA FormStarts == Init => FormInv
  BY DEF Init, FormInv, HeardOnItsPage, NewFormOfUsers, DraftIsForm, FormMatchesSelection, NoDraft,
         NoRows, Shown

\* A page that is mounted has no form yet, and the answer under way is not heard.
LEMMA FreshForm ==
  ASSUME FormInv, NEW r, FreshPage(r), NEW lives \in BOOLEAN, saving' = NobodyHears(saving, lives)
  PROVE  FormInv'
  <1>1. HeardOnItsPage'
    BY DEF FormInv, HeardOnItsPage, NobodyHears
  <1>2. NewFormOfUsers' /\ DraftIsForm'
    BY DEF FreshPage, NewFormOfUsers, DraftIsForm, NoDraft
  <1>3. FormMatchesSelection'
    BY DEF FreshPage, FormMatchesSelection, NoDraft, NoRows, Shown
  <1> QED
    BY <1>1, <1>2, <1>3 DEF FormInv

\* What the effect makes of the form.
LEMMA FormFollows ==
  ASSUME FormInv, NEW sel, NEW new \in BOOLEAN, NEW r, new => route = "users"
  PROVE  LET d == FormOf(sel, new, r) IN
           /\ d = [id |-> d.id, base |-> d.base, dirty |-> d.dirty]
           /\ new => d.id = None
           /\ ~new /\ Shown(r, sel) => d.id = sel /\ d.base = r[sel]
           /\ route = "static" /\ d.id # None => d.id = sel /\ d.base = r[sel]
  <1>1. /\ NoDraft = [id |-> None, base |-> 0, dirty |-> FALSE] /\ NoDraft.id = None
        /\ Form(r, sel) = [id |-> sel, base |-> r[sel], dirty |-> FALSE]
    BY DEF NoDraft, Form
  <1>2. CASE new
    <2>1. NewForm(sel, r).id = None
      BY <1>1, <1>2 DEF NewForm, FormInv, NewFormOfUsers, FormMatchesSelection
    <2>2. NewForm(sel, r) = draft \/ NewForm(sel, r) = NoDraft
      BY DEF NewForm
    <2> QED
      BY <1>1, <1>2, <2>1, <2>2 DEF FormOf, FormInv, DraftIsForm
  <1>3. CASE ~new /\ Shown(r, sel)
    <2>1. FormOf(sel, new, r) = Form(r, sel)
      BY <1>3 DEF FormOf
    <2> QED
      BY <1>1, <1>3, <2>1
  <1>4. CASE ~new /\ ~Shown(r, sel)
    <2>1. CASE route = "users"
      <3>1. FormOf(sel, new, r) = draft
        BY <1>4, <2>1 DEF FormOf
      <3> QED
        BY <1>4, <2>1, <3>1 DEF FormInv, DraftIsForm
    <2>2. CASE route # "users"
      <3>1. FormOf(sel, new, r) = NoDraft
        BY <1>4, <2>2 DEF FormOf
      <3> QED
        BY <1>1, <1>4, <3>1
    <2> QED
      BY <2>1, <2>2
  <1> QED
    BY <1>2, <1>3, <1>4

\* A step after which the form is what the effect makes of it.
LEMMA FormRefilled ==
  ASSUME FormInv, UNCHANGED route, HeardOnItsPage',
         NEW new \in BOOLEAN, new => route = "users", editingNew' = new,
         draft' = FormOf(selected', new, rows')
  PROVE  FormInv'
  <1> DEFINE d == FormOf(selected', new, rows')
  <1>1. /\ d = [id |-> d.id, base |-> d.base, dirty |-> d.dirty]
        /\ new => d.id = None
        /\ ~new /\ Shown(rows', selected') => d.id = selected' /\ d.base = rows'[selected']
        /\ route = "static" /\ d.id # None => d.id = selected' /\ d.base = rows'[selected']
    BY FormFollows
  <1> HIDE DEF d
  <1>2. draft' = d
    BY DEF d
  <1>3. DraftIsForm' /\ NewFormOfUsers'
    BY <1>1, <1>2 DEF DraftIsForm, NewFormOfUsers
  <1>4. FormMatchesSelection'
    BY <1>1, <1>2 DEF FormMatchesSelection, Shown
  <1> QED
    BY <1>3, <1>4 DEF FormInv

\* A step that leaves the form and the rows alone.
LEMMA FormLeft ==
  ASSUME FormInv, UNCHANGED <<route, rows, selected, editingNew, draft>>, HeardOnItsPage'
  PROVE  FormInv'
  BY DEF FormInv, NewFormOfUsers, DraftIsForm, FormMatchesSelection, Shown

\* The answer under way keeps its kind, and is heard no more than before.
LEMMA StillHeard ==
  ASSUME FormInv, UNCHANGED route,
         saving' = saving \/ saving' = None
         \/ (saving # None /\ saving' # None /\ DOMAIN saving' = DOMAIN saving
              /\ saving'.kind = saving.kind /\ saving'.heard = saving.heard)
  PROVE  HeardOnItsPage'
  BY DEF FormInv, HeardOnItsPage

LEMMA WriteHeard ==
  ASSUME NEW kind, NEW i, NEW password, Write(kind, i, password), UNCHANGED route,
         route = PageOf(kind)
  PROVE  HeardOnItsPage'
  BY DEF Write, HeardOnItsPage

LEMMA PagesKeepForm == FormInv /\ PageStep => FormInv'
  <1> SUFFICES ASSUME FormInv, PageStep PROVE FormInv'
    OBVIOUS
  <1>1. CASE EditFilter \/ Submit \/ ClearFilters \/ MovePage \/ RefreshUsers
    <2>1. UNCHANGED <<route, rows, selected, editingNew, draft, saving>>
      BY <1>1 DEF EditFilter, Submit, ClearFilters, MovePage, RefreshUsers, Keeps, On
    <2> QED
      BY <2>1, StillHeard, FormLeft
  <1>2. CASE LoadPortfolio
    <2>1. /\ route = "portfolio" /\ UNCHANGED <<route, selected, editingNew, draft, saving>>
      BY <1>2 DEF LoadPortfolio, On
    <2>2. HeardOnItsPage'
      BY <2>1, StillHeard
    <2> QED
      BY <2>1, <2>2 DEF FormInv, NewFormOfUsers, DraftIsForm, FormMatchesSelection
  <1>3. ASSUME NEW i \in Items, Select(i) PROVE FormInv'
    <2>1. UNCHANGED <<route, rows, saving>> /\ selected' = i /\ draft' = FormOf(i, FALSE, rows)
          /\ editingNew' = FALSE
      BY <1>3 DEF Select, On, Toggle
    <2>2. HeardOnItsPage'
      BY <2>1, StillHeard
    <2>3. draft' = FormOf(selected', FALSE, rows')
      BY <2>1
    <2> QED
      BY <2>1, <2>2, <2>3, FormRefilled
  <1>4. CASE CreateNew
    <2>1. UNCHANGED <<route, rows, saving>> /\ selected' = None /\ draft' = FormOf(None, TRUE, rows)
          /\ editingNew' = TRUE /\ route = "users"
      BY <1>4 DEF CreateNew, On, Toggle
    <2>2. HeardOnItsPage'
      BY <2>1, StillHeard
    <2>3. draft' = FormOf(selected', TRUE, rows')
      BY <2>1
    <2> QED
      BY <2>1, <2>2, <2>3, FormRefilled
  <1>5. CASE EditDraft
    <2>1. UNCHANGED <<route, rows, selected, editingNew, saving>>
          /\ draft' = [draft EXCEPT !.dirty = TRUE]
      BY <1>5 DEF EditDraft, On
    <2>2. HeardOnItsPage'
      BY <2>1, StillHeard
    <2>3. draft' = [id |-> draft.id, base |-> draft.base, dirty |-> TRUE]
      BY <2>1 DEF FormInv, DraftIsForm
    <2>4. draft'.id = draft.id /\ draft'.base = draft.base /\ draft'.dirty = TRUE
      BY <2>3
    <2> QED
      BY <2>1, <2>2, <2>3, <2>4
         DEF FormInv, NewFormOfUsers, DraftIsForm, FormMatchesSelection, Shown
  <1>6. CASE SaveUser \/ SaveListing \/ ImportListings \/ Provision
    <2>1. UNCHANGED <<route, rows, selected, editingNew, draft>>
      BY <1>6 DEF SaveUser, SaveListing, ImportListings, Provision, On, Writes, page
    <2>2. HeardOnItsPage'
      <3>1. CASE SaveUser
        BY <3>1, WriteHeard DEF SaveUser, On, PageOf
      <3>2. CASE SaveListing
        BY <3>2, WriteHeard DEF SaveListing, On, PageOf
      <3>3. CASE ImportListings
        BY <3>3, WriteHeard DEF ImportListings, On, PageOf
      <3>4. CASE Provision
        BY <3>4, WriteHeard DEF Provision, On, PageOf
      <3> QED
        BY <1>6, <3>1, <3>2, <3>3, <3>4
    <2> QED
      BY <2>1, <2>2, FormLeft
  <1>7. CASE UserSaved
    <2>1. saving # None /\ saving.kind = "account" /\ saving.heard /\ UNCHANGED route
          /\ saving' = None /\ editingNew' = FALSE
          /\ selected' = saving.id /\ draft' = Form(rows', saving.id)
      BY <1>7 DEF UserSaved, Answered, Toggle
    <2>2. route = "users"
      BY <2>1 DEF FormInv, HeardOnItsPage, PageOf
    <2>3. HeardOnItsPage'
      BY <2>1, StillHeard
    <2>4. draft' = [id |-> selected', base |-> rows'[selected'], dirty |-> FALSE]
      BY <2>1 DEF Form
    <2>5. draft'.id = selected' /\ draft'.base = rows'[selected'] /\ draft'.dirty = FALSE
      BY <2>4
    <2> QED
      BY <2>1, <2>2, <2>3, <2>4, <2>5
         DEF FormInv, NewFormOfUsers, DraftIsForm, FormMatchesSelection
  <1>8. CASE ListingSaved
    <2>1. saving # None /\ saving.kind = "listing" /\ saving.heard
          /\ UNCHANGED <<route, editingNew>> /\ saving' = None
          /\ draft' = FormOf(selected', FALSE, rows')
      BY <1>8 DEF ListingSaved, Answered
    <2>2. route = "static"
      BY <2>1 DEF FormInv, HeardOnItsPage, PageOf
    <2>3. editingNew' = FALSE
      BY <2>1, <2>2 DEF FormInv, NewFormOfUsers
    <2>4. HeardOnItsPage'
      BY <2>1, StillHeard
    <2> QED
      BY <2>1, <2>3, <2>4, FormRefilled
  <1>9. CASE Provisioned
    <2>1. saving # None /\ saving.kind = "provision" /\ saving.heard /\ saving' = None
          /\ UNCHANGED <<route, selected, draft, editingNew>>
      BY <1>9 DEF Provisioned, Answered
    <2>2. route = "portfolio"
      BY <2>1 DEF FormInv, HeardOnItsPage, PageOf
    <2>3. HeardOnItsPage'
      BY <2>1, StillHeard
    <2> QED
      BY <2>1, <2>2, <2>3 DEF FormInv, NewFormOfUsers, DraftIsForm, FormMatchesSelection
  <1>10. CASE Imported
    <2>1. saving # None /\ saving' = [saving EXCEPT !.status = "reload", !.more = FALSE]
          /\ UNCHANGED <<route, rows, selected, draft, editingNew>>
      BY <1>10 DEF Imported, Answered
    <2>2. HeardOnItsPage'
      BY <2>1 DEF FormInv, HeardOnItsPage
    <2> QED
      BY <2>1, <2>2, FormLeft
  <1>11. CASE WriteOver
    <2>1. saving' = None /\ UNCHANGED <<route, selected, draft, editingNew>>
          /\ (route # "portfolio" => rows' = rows)
      BY <1>11 DEF WriteOver
    <2>2. HeardOnItsPage'
      BY <2>1, StillHeard
    <2> QED
      BY <2>1, <2>2 DEF FormInv, NewFormOfUsers, DraftIsForm, FormMatchesSelection, Shown
  <1>12. ASSUME NEW s \in DOMAIN loads, ServeLoad(s) PROVE FormInv'
    <2>1. UNCHANGED <<route, rows, selected, editingNew, draft, saving>>
      BY <1>12 DEF ServeLoad
    <2> QED
      BY <2>1, StillHeard, FormLeft
  <1>13. ASSUME NEW s \in DOMAIN loads, LoadDone(s) PROVE FormInv'
    <2>1. UNCHANGED <<route, editingNew>> /\ saving' \in {saving, None}
          /\ draft' = FormOf(selected', editingNew, rows')
      BY <1>13 DEF LoadDone, On, AfterReload
    <2>2. HeardOnItsPage'
      BY <2>1, StillHeard
    <2> QED
      BY <2>1, <2>2, FormRefilled DEF FormInv, NewFormOfUsers
  <1>14. ASSUME NEW s \in DOMAIN loads, LoadFails(s) PROVE FormInv'
    <2>1. UNCHANGED <<route, editingNew>> /\ saving' \in {saving, None}
          /\ (route # "portfolio" => rows' = rows)
          /\ draft' = IF selected' = selected THEN draft ELSE FormOf(selected', editingNew, rows')
      BY <1>14 DEF LoadFails, On, AfterReload
    <2>2. HeardOnItsPage'
      BY <2>1, StillHeard
    <2>3. CASE selected' = selected
      BY <2>1, <2>2, <2>3 DEF FormInv, NewFormOfUsers, DraftIsForm, FormMatchesSelection, Shown
    <2>4. CASE selected' # selected
      BY <2>1, <2>2, <2>4, FormRefilled DEF FormInv, NewFormOfUsers
    <2> QED
      BY <2>3, <2>4
  <1> QED
    BY <1>1, <1>2, <1>3, <1>4, <1>5, <1>6, <1>7, <1>8, <1>9, <1>10, <1>11, <1>12, <1>13, <1>14
       DEF PageStep

LEMMA ServicesKeepForm == FormInv /\ WriteStep => FormInv'
  <1> SUFFICES ASSUME FormInv, WriteStep PROVE FormInv'
    OBVIOUS
  <1>1. UNCHANGED <<route, rows, selected, editingNew, draft>>
    BY DEF WriteStep, ServeChange, ServeCreate, ServeRefuse, SendPassword, Written, Quiet, page
  <1>2. saving # None
    BY DEF WriteStep, ServeChange, ServeCreate, ServeRefuse, SendPassword, Sent
  <1>3. HeardOnItsPage'
    <2>1. CASE ServeChange \/ ServeCreate
      <3>1. PICK i : saving' = [saving EXCEPT !.id = i, !.got = revision[i] + 1, !.status = "ok"]
        BY <2>1 DEF ServeChange, ServeCreate, Written
      <3> QED
        BY <1>1, <1>2, <3>1 DEF FormInv, HeardOnItsPage
    <2>2. CASE ServeRefuse \/ SendPassword
      BY <1>1, <1>2, <2>2 DEF ServeRefuse, SendPassword, FormInv, HeardOnItsPage
    <2> QED
      BY <2>1, <2>2 DEF WriteStep
  <1> QED
    BY <1>1, <1>3, FormLeft

LEMMA FormGoesOn == FormInv /\ [Next]_vars => FormInv'
  <1> SUFFICES ASSUME FormInv, [Next]_vars PROVE FormInv'
    OBVIOUS
  <1>1. CASE ChangeSession
    <2>1. CASE UNCHANGED <<route, page, saving, log>>
      BY <2>1, StillHeard, FormLeft DEF page
    <2>2. CASE FreshPage("none") /\ saving' = NobodyHears(saving, doc' = "app")
      BY <2>2, FreshForm
    <2> QED
      BY <1>1, <2>1, <2>2 DEF ChangeSession
  <1>2. CASE Leave
    BY <1>2, FreshForm DEF Leave
  <1>3. ASSUME NEW r \in Routes, Navigate(r) PROVE FormInv'
    BY <1>3, FreshForm DEF Navigate
  <1>4. CASE UNCHANGED vars
    BY <1>4, StillHeard, FormLeft DEF vars, page
  <1> QED
    BY <1>1, <1>2, <1>3, <1>4, PagesKeepForm, ServicesKeepForm DEF Next

\* However loads, selections and answers of saves interleave, the form holds the row shown as
\* selected or a new account: a save never sends the fields of one item under the name of
\* another (AdminUsersPage, AdminStaticDataPage).
THEOREM FormFollowsSelection == Spec => []FormMatchesSelection
  <1>1. FormInv => FormMatchesSelection
    BY DEF FormInv
  <1> QED
    BY <1>1, FormStarts, FormGoesOn, PTL DEF Spec

----------------------------------------------------------------------------
(* What is shown.                                                          *)

\* The pages that show nothing but what they loaded have one load at a time.
OneLoad ==
    route \in {"audit", "execution"} =>
        \/ /\ loading = TRUE
           /\ \E l : loads = <<l>> /\ "arg" \in DOMAIN l /\ l.arg = applied
        \/ /\ loading = FALSE /\ loads = <<>>
           /\ failed = FALSE => shown.filter = applied

ShownInv == OneLoad /\ FormInv /\ failed \in BOOLEAN

LEMMA RemoveOnly ==
  ASSUME NEW l
  PROVE  RemoveAt(<<l>>, 1) = <<>>
  <1>1. SubSeq(<<l>>, 1, 0) = <<>> /\ SubSeq(<<l>>, 2, 1) = <<>>
    OBVIOUS
  <1>2. Len(<<l>>) = 1
    OBVIOUS
  <1> QED
    BY <1>1, <1>2 DEF RemoveAt

LEMMA ShownStarts == Init => ShownInv
  BY FormStarts DEF Init, ShownInv, OneLoad

\* The only load of a page.
LEMMA AskedLoad ==
  ASSUME NEW f, NEW p, NEW i, NEW new
  PROVE  /\ "arg" \in DOMAIN Asked(f, p, i, new) /\ Asked(f, p, i, new).arg = f
         /\ Append(<<>>, Asked(f, p, i, new)) = <<Asked(f, p, i, new)>>
  BY DEF Asked

LEMMA FreshLoad ==
  ASSUME NEW r, route' = r, FreshPage(r)
  PROVE  OneLoad' /\ failed' \in BOOLEAN
  <1>1. CASE r \in {"audit", "execution"}
    <2>1. loads' = <<Asked(NoFilter, 0, None, FALSE)>> /\ applied' = NoFilter /\ loading' = TRUE
          /\ failed' = FALSE
      BY <1>1 DEF FreshPage
    <2>2. "arg" \in DOMAIN Asked(NoFilter, 0, None, FALSE)
          /\ Asked(NoFilter, 0, None, FALSE).arg = NoFilter
      BY AskedLoad
    <2> QED
      BY <2>1, <2>2 DEF OneLoad
  <1>2. CASE r \notin {"audit", "execution"}
    BY <1>2 DEF FreshPage, OneLoad
  <1> QED
    BY <1>1, <1>2

LEMMA StartedLoad ==
  ASSUME ShownInv, NEW f, NEW p, Load(f, p), applied' = f, loading = FALSE,
         UNCHANGED <<route, failed>>
  PROVE  OneLoad' /\ failed' \in BOOLEAN
  <1>1. CASE route \in {"audit", "execution"}
    <2>1. loads = <<>>
      BY <1>1 DEF ShownInv, OneLoad
    <2>2. loads' = <<Asked(f, p, None, editingNew)>> /\ loading' = TRUE
      BY <2>1, AskedLoad DEF Load, Start
    <2> QED
      BY <2>2, AskedLoad DEF OneLoad, ShownInv
  <1>2. CASE route \notin {"audit", "execution"}
    BY <1>2 DEF OneLoad, ShownInv
  <1> QED
    BY <1>1, <1>2

LEMMA PagesKeepLoad == ShownInv /\ PageStep => OneLoad' /\ failed' \in BOOLEAN
  <1> SUFFICES ASSUME ShownInv, PageStep PROVE OneLoad' /\ failed' \in BOOLEAN
    OBVIOUS
  <1> USE DEF ShownInv
  <1>1. CASE EditFilter
    BY <1>1 DEF EditFilter, On, OneLoad
  <1>2. CASE Submit \/ ClearFilters
    <2>1. PICK f : Load(f, 0) /\ applied' = f /\ loading = FALSE /\ UNCHANGED <<route, failed>>
      BY <1>2 DEF Submit, ClearFilters, On, MayLoad, Keeps, OneLoad
    <2> QED
      BY <2>1, StartedLoad
  <1>3. CASE MovePage
    <2>1. PICK p : Load(applied, p) /\ applied' = applied /\ loading = FALSE
                   /\ UNCHANGED <<route, failed>>
      BY <1>3 DEF MovePage, On, MayLoad, Keeps, OneLoad
    <2> QED
      BY <2>1, StartedLoad
  <1>4. CASE RefreshUsers \/ LoadPortfolio
    BY <1>4 DEF RefreshUsers, LoadPortfolio, On, Keeps, OneLoad
  <1>5. CASE CreateNew \/ EditDraft
    BY <1>5 DEF CreateNew, EditDraft, On, OneLoad
  <1>6. CASE SaveUser \/ SaveListing \/ ImportListings \/ Provision
    BY <1>6 DEF SaveUser, SaveListing, ImportListings, Provision, On, Writes, page, OneLoad
  <1>7. CASE UserSaved \/ ListingSaved \/ Provisioned \/ Imported
    <2>1. /\ UNCHANGED <<route, failed>>
          /\ \/ route \notin {"audit", "execution"}
             \/ UNCHANGED <<applied, loads, loading, shown>>
      BY <1>7 DEF UserSaved, ListingSaved, Provisioned, Imported, Answered, FormInv, HeardOnItsPage,
                  PageOf
    <2> QED
      BY <2>1 DEF OneLoad
  <1>8. CASE WriteOver
    BY <1>8 DEF WriteOver, OneLoad
  <1>9. ASSUME NEW i \in Items, Select(i) PROVE OneLoad' /\ failed' \in BOOLEAN
    BY <1>9 DEF Select, On, OneLoad
  <1>10. ASSUME NEW s \in DOMAIN loads, ServeLoad(s) \/ LoadDone(s) \/ LoadFails(s)
         PROVE  OneLoad' /\ failed' \in BOOLEAN
    <2>1. route' = route /\ failed' \in BOOLEAN
      BY <1>10 DEF ServeLoad, LoadDone, LoadFails, On
    <2>2. CASE route \in {"audit", "execution"}
      <3>1. PICK l : loads = <<l>> /\ "arg" \in DOMAIN l /\ l.arg = applied /\ loading = TRUE
        BY <2>2 DEF OneLoad
      <3>2. s = 1
        BY <3>1
      <3>3. CASE ServeLoad(s)
        <4>1. PICK answered :
                loads' = [loads EXCEPT ![s].served = TRUE, ![s].rows = RowsFor(loads[s]),
                                       ![s].answered = answered,
                                       ![s].events = Combined(log, answered, loads[s].page)]
          BY <3>3 DEF ServeLoad
        <4>2. /\ Len(loads') = 1 /\ loads' = <<loads'[1]>>
              /\ "arg" \in DOMAIN loads'[1] /\ loads'[1].arg = applied
          BY <3>1, <3>2, <4>1
        <4>3. UNCHANGED <<route, loading, applied>>
          BY <3>3 DEF ServeLoad
        <4> QED
          BY <2>1, <3>1, <4>2, <4>3 DEF OneLoad
      <3>4. CASE LoadDone(s)
        <4>1. loads' = <<>> /\ loading' = FALSE /\ applied' = applied
          BY <3>1, <3>2, <3>4, RemoveOnly DEF LoadDone
        <4>2. shown'.filter = applied
          BY <3>1, <3>2, <3>4 DEF LoadDone
        <4> QED
          BY <2>1, <4>1, <4>2 DEF OneLoad
      <3>5. CASE LoadFails(s)
        <4>1. loads' = <<>> /\ loading' = FALSE /\ failed' = TRUE
          BY <3>1, <3>2, <3>5, RemoveOnly DEF LoadFails
        <4> QED
          BY <2>1, <4>1 DEF OneLoad
      <3> QED
        BY <1>10, <2>1, <3>3, <3>4, <3>5
    <2>3. CASE route \notin {"audit", "execution"}
      BY <2>1, <2>3 DEF OneLoad
    <2> QED
      BY <2>2, <2>3
  <1> QED
    BY <1>1, <1>2, <1>3, <1>4, <1>5, <1>6, <1>7, <1>8, <1>9, <1>10 DEF PageStep

LEMMA ShownGoesOn == ShownInv /\ [Next]_vars => ShownInv'
  <1> SUFFICES ASSUME ShownInv, [Next]_vars PROVE ShownInv'
    OBVIOUS
  <1>1. FormInv'
    BY FormGoesOn DEF ShownInv
  <1>2. CASE ChangeSession
    <2>1. CASE UNCHANGED <<route, page, saving, log>>
      BY <1>1, <2>1 DEF page, ShownInv, OneLoad
    <2>2. CASE route' = "none" /\ FreshPage("none")
      BY <1>1, <2>2, FreshLoad DEF ShownInv
    <2> QED
      BY <1>2, <2>1, <2>2 DEF ChangeSession
  <1>3. CASE Leave
    BY <1>1, <1>3, FreshLoad DEF Leave, ShownInv
  <1>4. ASSUME NEW r \in Routes, Navigate(r) PROVE ShownInv'
    BY <1>1, <1>4, FreshLoad DEF Navigate, ShownInv
  <1>5. CASE WriteStep
    <2>1. UNCHANGED <<route, page>>
      BY <1>5 DEF WriteStep, ServeChange, ServeCreate, ServeRefuse, SendPassword, Written, Quiet
    <2> QED
      BY <1>1, <2>1 DEF page, ShownInv, OneLoad
  <1>6. CASE PageStep
    BY <1>1, <1>6, PagesKeepLoad DEF ShownInv
  <1>7. CASE UNCHANGED vars
    BY <1>1, <1>7 DEF vars, page, ShownInv, OneLoad
  <1> QED
    BY <1>2, <1>3, <1>4, <1>5, <1>6, <1>7 DEF Next

\* Once the loads of the audit or the execution page are over, and unless the last one failed,
\* the page shows what the filter last submitted matches (AdminAuditPage, AdminExecutionPage).
THEOREM AppliedIsShown == Spec => []ShownIsApplied
  <1>1. ShownInv => ShownIsApplied
    BY DEF ShownInv, OneLoad, ShownIsApplied
  <1> QED
    BY <1>1, ShownStarts, ShownGoesOn, PTL DEF Spec

----------------------------------------------------------------------------
(* A page of the whole audit log.                                          *)

Earlier(E, i) == {j \in E : j < i}

LEMMA EarlierCount ==
  ASSUME NEW n \in Nat, NEW E \in SUBSET (1..n), NEW i
  PROVE  IsFiniteSet(Earlier(E, i)) /\ Cardinality(Earlier(E, i)) \in Nat
  <1>1. IsFiniteSet(1..n)
    BY FS_Interval
  <1>2. Earlier(E, i) \subseteq 1..n
    BY Zenon DEF Earlier
  <1>3. IsFiniteSet(Earlier(E, i))
    BY <1>1, <1>2, FS_Subset
  <1> QED
    BY <1>3, FS_CardinalityType

\* Before event i of a log there are i - 1 others.
LEMMA EarlierInLog ==
  ASSUME NEW n \in Nat, NEW i \in 1..n
  PROVE  Cardinality(Earlier(1..n, i)) = i - 1
  <1>1. Earlier(1..n, i) = 1..(i - 1)
    BY DEF Earlier
  <1> QED
    BY <1>1, FS_Interval

\* The page cut from the newest events of every service is the page of the whole log: an
\* event among the first BroadSize of all is among the first BroadSize of its own service,
\* and one after them has that many before it.
LEMMA CombinedIsWhole ==
  ASSUME NEW L \in Seq(Sources), NEW p \in Nat, (p + 1) * PageSize <= BroadSize
  PROVE  Combined(L, Sources, p) = Cut(DOMAIN L, p, PageSize)
  <1> DEFINE n == Len(L)
             U == UNION {Cut(EventsOf(L, {s}), 0, BroadSize) : s \in Sources}
  <1>0. /\ n \in Nat /\ DOMAIN L = 1..n /\ \A i \in 1..n : L[i] \in Sources
        /\ PageSize \in Nat \ {0} /\ BroadSize \in Nat /\ BroadSize >= PageSize
    BY AuditAssumption
  <1> DEFINE lo == p * PageSize
             hi == p * PageSize + PageSize - 1
  <1>1. lo \in Nat /\ hi \in Nat /\ hi < BroadSize
    BY <1>0
  <1>2. U \subseteq 1..n
    BY <1>0 DEF Cut, EventsOf
  <1>3. ASSUME NEW i \in 1..n, i <= BroadSize PROVE i \in U
    <2> DEFINE E == EventsOf(L, {L[i]})
    <2>1. E \subseteq 1..n /\ i \in E
      BY <1>0 DEF EventsOf
    <2> HIDE DEF E
    <2>2. Earlier(E, i) \subseteq Earlier(1..n, i)
      BY <2>1 DEF Earlier
    <2>a. /\ IsFiniteSet(Earlier(E, i)) /\ Cardinality(Earlier(E, i)) \in Nat
          /\ IsFiniteSet(Earlier(1..n, i)) /\ Cardinality(Earlier(1..n, i)) = i - 1
      BY <1>0, <2>1, EarlierCount, EarlierInLog
    <2>3. Cardinality(Earlier(E, i)) <= i - 1 /\ Cardinality(Earlier(E, i)) \in Nat
      BY <2>2, <2>a, FS_Subset
    <2>4. Cardinality(Earlier(E, i)) \in (0 * BroadSize)..(0 * BroadSize + BroadSize - 1)
      BY <1>0, <1>3, <2>3
    <2>5. i \in Cut(E, 0, BroadSize)
      BY <2>1, <2>4 DEF Cut, Earlier
    <2> QED
      BY <1>0, <2>5 DEF E
  <1> HIDE DEF U, n, lo, hi
  <1>4. ASSUME NEW i \in 1..n, i <= BroadSize
        PROVE  Earlier(U, i) = Earlier(1..n, i)
    <2>1. \A j \in 1..n : j < i => j \in U
      <3> SUFFICES ASSUME NEW j \in 1..n, j < i PROVE j \in U
        OBVIOUS
      <3>1. j <= BroadSize
        BY <1>0, <1>4
      <3> QED
        BY <1>3, <3>1
    <2> QED
      BY <1>2, <2>1 DEF Earlier
  <1>5. ASSUME NEW i \in 1..n, i > BroadSize
        PROVE  /\ Cardinality(Earlier(U, i)) > hi
               /\ Cardinality(Earlier(1..n, i)) > hi
    <2>a. \A j \in 1..BroadSize : j \in 1..n /\ j < i /\ j <= BroadSize
      BY <1>0, <1>5
    <2>b. \A j \in 1..BroadSize : j \in U
      BY <1>3, <2>a
    <2>1. 1..BroadSize \subseteq Earlier(U, i) /\ Earlier(U, i) \subseteq Earlier(1..n, i)
      BY <1>2, <2>a, <2>b DEF Earlier
    <2>2. Cardinality(1..BroadSize) = BroadSize
      BY <1>0, FS_Interval
    <2>3. /\ IsFiniteSet(Earlier(U, i)) /\ Cardinality(Earlier(U, i)) \in Nat
          /\ IsFiniteSet(Earlier(1..n, i)) /\ Cardinality(Earlier(1..n, i)) \in Nat
      BY <1>0, <1>2, EarlierCount
    <2>4. BroadSize <= Cardinality(Earlier(U, i))
      <3> DEFINE B == 1..BroadSize
      <3>1. B \in SUBSET Earlier(U, i) /\ Cardinality(B) = BroadSize
        BY <2>1, <2>2
      <3> HIDE DEF B
      <3>2. Cardinality(B) <= Cardinality(Earlier(U, i))
        BY <2>3, <3>1, FS_Subset
      <3> QED
        BY <3>1, <3>2
    <2>5. Cardinality(Earlier(U, i)) <= Cardinality(Earlier(1..n, i))
      BY <2>1, <2>3, FS_Subset
    <2> QED
      BY <1>0, <1>1, <2>3, <2>4, <2>5
  <1>6. ASSUME NEW i \in 1..n
        PROVE  (i \in U /\ Cardinality(Earlier(U, i)) \in lo..hi)
                  <=> Cardinality(Earlier(1..n, i)) \in lo..hi
    <2>1. CASE i <= BroadSize
      BY <1>3, <1>4, <2>1
    <2>2. CASE i > BroadSize
      BY <1>1, <1>5, <2>2
    <2> QED
      BY <1>0, <2>1, <2>2
  <1>7. Cut(U, p, PageSize) = Cut(1..n, p, PageSize)
    BY <1>2, <1>6 DEF Cut, Earlier, lo, hi
  <1> QED
    BY <1>0, <1>7 DEF Combined, U

----------------------------------------------------------------------------
(* Types, and what an answer may say.                                      *)

LoadRecord ==
    [arg : Filters \cup Items, page : Nat, select : Items \cup {None}, new : BOOLEAN,
     served : BOOLEAN, rows : RowSets, events : SUBSET Nat, answered : SUBSET Sources]
SaveRecord ==
    [kind : {"account", "listing", "import", "provision"}, id : Items \cup {None},
     more : BOOLEAN, got : Revs, status : {"sent", "ok", "refused", "reload"},
     heard : BOOLEAN, filter : Filters, page : Nat]
Drafts == [id : Items \cup {None}, base : Revs, dirty : BOOLEAN]

\* A load shows no revision the services do not have, and the audit page only the events
\* that are cut from the log that is there.
Truthful(l) ==
    /\ \A i \in Items : l.rows[i] <= revision[i]
    /\ route = "audit" /\ l.served => l.events = Combined(log, l.answered, l.page)
Loads    == {l \in LoadRecord : Truthful(l)}
LoadsInv == loads \in Seq(Loads) /\ Len(loads) <= MaxLoads

\* A write that succeeded is of an item, and answers a revision it has had.
Confirmed(w) == w.id \in Items /\ w.got <= revision[w.id]
SavingInv    == saving = None \/ (saving \in SaveRecord /\ (saving.status = "ok" => Confirmed(saving)))

ServiceInv ==
    /\ route \in Routes \cup {"none"}
    /\ revision \in RowSets /\ log \in Logs \cup {NoLog}
FormTypes ==
    /\ filter \in Filters /\ applied \in Filters
    /\ loading \in BOOLEAN /\ failed \in BOOLEAN
    /\ selected \in Items \cup {None} /\ editingNew \in BOOLEAN /\ draft \in Drafts
RowsInv == rows \in RowSets /\ \A i \in Items : rows[i] <= revision[i]
ShownIsTrue ==
    /\ shown.filter \in Filters \cup Items /\ shown.page \in Nat
    /\ route = "audit" => shown.events = Combined(log, shown.answered, shown.page)

ConsoleInv ==
    /\ ServiceInv /\ FormTypes /\ RowsInv /\ ShownIsTrue /\ LoadsInv /\ SavingInv

LEMMA CombinedEvents ==
  ASSUME NEW L \in Seq(Sources), NEW a, NEW p
  PROVE  Combined(L, a, p) \in SUBSET Nat
  <1>1. DOMAIN L \subseteq Nat
    OBVIOUS
  <1> QED
    BY <1>1 DEF Combined, Cut, EventsOf

LEMMA NoEvents == ASSUME NEW L, NEW p PROVE Combined(L, {}, p) = {}
  BY DEF Combined, Cut

LEMMA AskedLoads ==
  ASSUME ServiceInv, NEW f \in Filters \cup Items, NEW p \in Nat, NEW i \in Items \cup {None},
         NEW new \in BOOLEAN
  PROVE  Asked(f, p, i, new) \in Loads /\ Asked(f, p, i, new).served = FALSE
  <1>1. NoRows \in RowSets /\ \A j \in Items : NoRows[j] = 0 /\ revision[j] \in Nat
    BY ConsoleAssumption DEF NoRows, RowSets, Revs, ServiceInv
  <1>2. Asked(f, p, i, new) \in LoadRecord /\ Asked(f, p, i, new).served = FALSE
        /\ Asked(f, p, i, new).rows = NoRows
    BY <1>1 DEF Asked, LoadRecord
  <1> QED
    BY <1>1, <1>2 DEF Loads, Truthful

LEMMA MoreLoads ==
  ASSUME NEW A, NEW B, A \subseteq B, NEW s \in Seq(A)
  PROVE  s \in Seq(B)
  BY ElementOfSeq, LenProperties

LEMMA RemoveLoad ==
  ASSUME NEW A, NEW s \in Seq(A), NEW i \in DOMAIN s
  PROVE  RemoveAt(s, i) \in Seq(A) /\ Len(RemoveAt(s, i)) = Len(s) - 1
  <1> DEFINE n == Len(s)
             a == SubSeq(s, 1, i - 1)
             b == SubSeq(s, i + 1, n)
  <1>1. n \in Nat /\ i \in 1..n /\ \A j \in 1..n : s[j] \in A
    BY LenProperties, ElementOfSeq
  <1>2. a \in Seq(A) /\ Len(a) = i - 1
    BY <1>1, SubSeqProperties
  <1>3. b \in Seq(A) /\ Len(b) = n - i
    BY <1>1, SubSeqProperties
  <1>4. RemoveAt(s, i) = a \o b
    BY DEF RemoveAt
  <1> HIDE DEF a, b, n
  <1>5. a \o b \in Seq(A)
    BY <1>2, <1>3, ConcatProperties
  <1>6. Len(a \o b) = Len(a) + Len(b)
    BY <1>2, <1>3, ConcatProperties
  <1>7. Len(a \o b) = n - 1
    BY <1>1, <1>2, <1>3, <1>6
  <1> QED
    BY <1>4, <1>5, <1>7 DEF n

\* What the effect makes of a form is a form.
LEMMA FormTyped ==
  ASSUME FormTypes, NEW sel \in Items \cup {None}, NEW new, NEW r \in RowSets
  PROVE  FormOf(sel, new, r) \in Drafts
  <1>1. NoDraft \in Drafts
    BY ConsoleAssumption DEF NoDraft, Drafts, Revs
  <1>2. Shown(r, sel) => Form(r, sel) \in Drafts
    BY DEF Shown, Form, Drafts, RowSets
  <1> QED
    BY <1>1, <1>2 DEF FormOf, NewForm, FormTypes

LEMMA FirstIsItem == ASSUME NEW r PROVE FirstOf(r) \subseteq Items \cup {None}
  BY DEF FirstOf

\* A page that starts anew.
LEMMA FreshConsole ==
  ASSUME ConsoleInv, NEW r \in Routes \cup {"none"}, route' = r, FreshPage(r),
         NEW lives \in BOOLEAN, saving' = NobodyHears(saving, lives), log' \in Logs \cup {NoLog}, revision' = revision
  PROVE  ConsoleInv'
  <1>1. ServiceInv'
    BY DEF ConsoleInv, ServiceInv
  <1>2. \A j \in Items : NoRows[j] = 0 /\ revision[j] \in Nat
    BY ConsoleAssumption DEF NoRows, RowSets, Revs, ServiceInv, ConsoleInv
  <1>3. FormTypes' /\ RowsInv'
    <2>1. NoDraft \in Drafts /\ NoRows \in RowSets
      BY ConsoleAssumption DEF NoDraft, Drafts, Revs, NoRows, RowSets
    <2>2. /\ filter' = NoFilter /\ applied' = NoFilter /\ failed' = FALSE /\ rows' = NoRows
          /\ selected' = None /\ editingNew' = FALSE /\ draft' = NoDraft
      BY DEF FreshPage
    <2>a. loading' \in BOOLEAN
      <3>1. loading' = (r \in {"users", "static", "audit", "execution"})
        BY DEF FreshPage
      <3> QED
        BY <3>1
    <2>3. FormTypes'
      BY <2>1, <2>2, <2>a, ConsoleAssumption DEF FormTypes
    <2>4. RowsInv'
      <3> HIDE DEF NoRows
      <3> QED
        BY <1>2, <2>1, <2>2 DEF RowsInv
    <2> QED
      BY <2>3, <2>4
  <1>4. ShownIsTrue'
    <2>1. shown' = NoShown /\ NoShown.filter = NoFilter /\ NoShown.page = 0
          /\ NoShown.events = {} /\ NoShown.answered = {}
      BY DEF FreshPage, NoShown
    <2> QED
      BY <2>1, NoEvents, ConsoleAssumption DEF ShownIsTrue
  <1>5. LoadsInv'
    <2> DEFINE l == Asked(NoFilter, 0, None, FALSE)
    <2>1. l \in LoadRecord /\ l.served = FALSE /\ \A j \in Items : l.rows[j] = 0
      <3>1. l \in Loads /\ l.served = FALSE
        BY AskedLoads, ConsoleAssumption DEF ConsoleInv
      <3>2. l.rows = NoRows
        BY DEF Asked
      <3> QED
        BY <1>2, <3>1, <3>2 DEF Loads
    <2>2. l \in Loads'
      <3> HIDE DEF l
      <3> QED
        BY <1>2, <2>1 DEF Loads, Truthful
    <2>3. loads' = <<l>> \/ loads' = <<>>
      BY DEF FreshPage
    <2> HIDE DEF l
    <2>4. loads' \in Seq(Loads') /\ Len(loads') <= MaxLoads
      <3>1. Len(<<l>>) = 1 /\ Len(<<>>) = 0 /\ 1 <= MaxLoads /\ 0 <= MaxLoads
        BY ConsoleAssumption
      <3>2. <<l>> \in Seq(Loads') /\ <<>> \in Seq(Loads')
        BY <2>2
      <3> QED
        BY <2>3, <3>1, <3>2
    <2> QED
      BY <2>4 DEF LoadsInv
  <1>6. SavingInv'
    BY ConsoleAssumption DEF ConsoleInv, SavingInv, NobodyHears, SaveRecord, Confirmed
  <1> QED
    BY <1>1, <1>3, <1>4, <1>5, <1>6 DEF ConsoleInv

\* A step of a page changes neither the services nor what their answers may be.
Still == route' = route /\ revision' = revision /\ log' = log

LEMMA StillTrue ==
  ASSUME ConsoleInv, Still
  PROVE  /\ ServiceInv' /\ Loads' = Loads
         /\ rows' = rows => RowsInv'
         /\ shown' = shown => ShownIsTrue'
         /\ loads' = loads => LoadsInv'
         /\ saving' = saving \/ saving' = None => SavingInv'
  <1> USE DEF Still, ConsoleInv
  <1>1. ServiceInv'
    BY DEF ServiceInv
  <1>2. Loads' = Loads
    BY DEF Loads, Truthful
  <1>3. rows' = rows => RowsInv'
    BY DEF RowsInv
  <1>4. shown' = shown => ShownIsTrue'
    BY DEF ShownIsTrue
  <1>5. loads' = loads => LoadsInv'
    BY <1>2 DEF LoadsInv
  <1>6. saving' = saving \/ saving' = None => SavingInv'
    BY DEF SavingInv, Confirmed
  <1> QED
    BY <1>1, <1>2, <1>3, <1>4, <1>5, <1>6

LEMMA StartedTyped ==
  ASSUME ConsoleInv, Still, NEW f \in Filters \cup Items, NEW p \in Nat,
         NEW i \in Items \cup {None}, NEW new \in BOOLEAN, Start(Asked(f, p, i, new))
  PROVE  LoadsInv' /\ loading' = TRUE
  <1> DEFINE l == Asked(f, p, i, new)
  <1>1. l \in Loads
    BY AskedLoads DEF ConsoleInv
  <1>2. loads \in Seq(Loads) /\ Len(loads) < MaxLoads /\ loads' = Append(loads, l) /\ loading' = TRUE
    BY DEF Start, ConsoleInv, LoadsInv
  <1> HIDE DEF l
  <1>3. Append(loads, l) \in Seq(Loads) /\ Len(Append(loads, l)) = Len(loads) + 1
    BY <1>1, <1>2, AppendProperties
  <1>4. Len(loads) \in Nat /\ MaxLoads \in Nat
    BY <1>2, ConsoleAssumption, LenProperties
  <1>5. loads' \in Seq(Loads) /\ Len(loads') <= MaxLoads
    BY <1>2, <1>3, <1>4
  <1> QED
    BY <1>2, <1>5, StillTrue DEF LoadsInv

LEMMA ToggledTyped ==
  ASSUME ConsoleInv, Still, NEW new \in BOOLEAN, Toggle(new)
  PROVE  LoadsInv' /\ loading' \in BOOLEAN /\ editingNew' = new
  <1>1. CASE new = editingNew
    BY <1>1, StillTrue DEF Toggle, ConsoleInv, FormTypes
  <1>2. CASE new # editingNew
    <2>1. Start(Asked(NoFilter, 0, None, new)) /\ editingNew' = new
      BY <1>2 DEF Toggle
    <2> QED
      BY <2>1, StartedTyped, ConsoleAssumption
  <1> QED
    BY <1>1, <1>2

LEMMA ButtonsTyped ==
  ASSUME ConsoleInv,
         EditFilter \/ Submit \/ ClearFilters \/ MovePage \/ RefreshUsers \/ LoadPortfolio
  PROVE  ConsoleInv'
  <1>1. CASE EditFilter
    <2>1. Still /\ filter' \in Filters
          /\ UNCHANGED <<applied, loads, loading, failed, rows, shown, selected, editingNew, draft, saving>>
      BY <1>1 DEF EditFilter, On, Still
    <2> QED
      BY <2>1, StillTrue DEF ConsoleInv, FormTypes
  <1>2. CASE Submit \/ ClearFilters \/ MovePage \/ RefreshUsers
    <2>1. /\ Still /\ filter' \in Filters /\ applied' \in Filters
          /\ UNCHANGED <<failed, rows, shown, selected, editingNew, draft, saving>>
      BY <1>2, ConsoleAssumption
         DEF Submit, ClearFilters, MovePage, RefreshUsers, On, Keeps, Still, ConsoleInv, FormTypes
    <2>2. \E f \in Filters, p \in Nat : Load(f, p)
      <3>1. shown.page \in Nat /\ filter \in Filters /\ applied \in Filters /\ NoFilter \in Filters
        BY ConsoleAssumption DEF ConsoleInv, ShownIsTrue, FormTypes
      <3>2. CASE Submit \/ ClearFilters \/ RefreshUsers
        BY <3>1, <3>2 DEF Submit, ClearFilters, RefreshUsers
      <3>3. CASE MovePage
        <4>1. shown.page + 1 \in Nat /\ (shown.page > 0 => shown.page - 1 \in Nat)
          BY <3>1
        <4> QED
          BY <3>1, <3>3, <4>1 DEF MovePage
      <3> QED
        BY <1>2, <3>2, <3>3
    <2>3. editingNew \in BOOLEAN
      BY DEF ConsoleInv, FormTypes
    <2>4. LoadsInv' /\ loading' = TRUE
      BY <2>1, <2>2, <2>3, StartedTyped DEF Load
    <2> QED
      BY <2>1, <2>4, StillTrue DEF ConsoleInv, FormTypes
  <1>3. CASE LoadPortfolio
    <2>1. /\ Still
          /\ UNCHANGED <<filter, applied, failed, shown, selected, editingNew, draft, saving>>
          /\ \/ (\E c \in Items : Load(c, 0)) /\ rows' = rows
             \/ rows' = NoRows /\ loads' = loads /\ loading' = loading
      BY <1>3 DEF LoadPortfolio, On, Still
    <2>2. editingNew \in BOOLEAN
      BY DEF ConsoleInv, FormTypes
    <2>3. LoadsInv' /\ loading' \in BOOLEAN
      BY <2>1, <2>2, StartedTyped, StillTrue DEF Load, ConsoleInv, FormTypes
    <2>4. RowsInv'
      <3>1. CASE rows' = rows
        BY <2>1, <3>1, StillTrue
      <3>2. CASE rows' = NoRows
        <4>1. NoRows \in RowSets /\ \A j \in Items : NoRows[j] = 0 /\ revision[j] \in Nat
          BY ConsoleAssumption DEF NoRows, RowSets, Revs, ServiceInv, ConsoleInv
        <4> HIDE DEF NoRows
        <4> QED
          BY <2>1, <3>2, <4>1 DEF RowsInv, Still
      <3> QED
        BY <2>1, <3>1, <3>2
    <2> QED
      BY <2>1, <2>3, <2>4, StillTrue DEF ConsoleInv, FormTypes
  <1> QED
    BY <1>1, <1>2, <1>3

LEMMA EditingTyped ==
  ASSUME ConsoleInv, CreateNew \/ EditDraft \/ (\E i \in Items : Select(i))
  PROVE  ConsoleInv'
  <1>0. FormTypes /\ rows \in RowSets
    BY DEF ConsoleInv, RowsInv
  <1>1. CASE EditDraft
    <2>1. Still /\ draft' = [draft EXCEPT !.dirty = TRUE]
          /\ UNCHANGED <<filter, applied, loads, loading, failed, rows, shown, selected, editingNew, saving>>
      BY <1>1 DEF EditDraft, On, Still
    <2>2. draft' \in Drafts
      BY <1>0, <2>1 DEF FormTypes, Drafts
    <2> QED
      BY <2>1, <2>2, StillTrue DEF ConsoleInv, FormTypes
  <1>2. ASSUME NEW i \in Items \cup {None}, NEW new \in BOOLEAN,
               Still, selected' = i, draft' = FormOf(i, new, rows), Toggle(new),
               UNCHANGED <<filter, applied, failed, rows, shown, saving>>
        PROVE  ConsoleInv'
    <2>1. LoadsInv' /\ loading' \in BOOLEAN /\ editingNew' = new
      BY <1>2, ToggledTyped
    <2>2. draft' \in Drafts
      BY <1>0, <1>2, FormTyped
    <2> QED
      BY <1>2, <2>1, <2>2, StillTrue DEF ConsoleInv, FormTypes
  <1>3. CASE CreateNew
    <2>1. /\ Still /\ selected' = None /\ draft' = FormOf(None, TRUE, rows) /\ Toggle(TRUE)
          /\ UNCHANGED <<filter, applied, failed, rows, shown, saving>>
      BY <1>3 DEF CreateNew, On, Still
    <2> QED
      BY <1>2, <2>1
  <1>4. ASSUME NEW i \in Items, Select(i) PROVE ConsoleInv'
    <2>1. /\ Still /\ selected' = i /\ draft' = FormOf(i, FALSE, rows) /\ Toggle(FALSE)
          /\ UNCHANGED <<filter, applied, failed, rows, shown, saving>>
      BY <1>4 DEF Select, On, Still
    <2> QED
      BY <1>2, <2>1
  <1> QED
    BY <1>1, <1>3, <1>4

LEMMA SavesTyped ==
  ASSUME ConsoleInv, SaveUser \/ SaveListing \/ ImportListings \/ Provision
  PROVE  ConsoleInv'
  <1>1. Still /\ UNCHANGED page
    BY DEF SaveUser, SaveListing, ImportListings, Provision, On, Writes, Still
  <1>2. \E kind \in {"account", "listing", "import", "provision"}, i \in Items \cup {None},
           password \in BOOLEAN : Write(kind, i, password)
    <2>1. draft.id \in Items \cup {None} /\ selected \in Items \cup {None}
      BY DEF ConsoleInv, FormTypes, Drafts
    <2>2. CASE SaveUser
      BY <2>1, <2>2 DEF SaveUser
    <2>3. CASE SaveListing
      BY <2>1, <2>3 DEF SaveListing
    <2>4. CASE ImportListings \/ Provision
      BY <2>4 DEF ImportListings, Provision
    <2> QED
      BY <2>2, <2>3, <2>4
  <1>3. PICK kind \in {"account", "listing", "import", "provision"}, i \in Items \cup {None},
             password \in BOOLEAN : Write(kind, i, password)
    BY <1>2
  <1>4. saving' \in SaveRecord /\ saving'.status = "sent"
    BY <1>3, ConsoleAssumption DEF Write, SaveRecord, Revs, ConsoleInv, FormTypes, ShownIsTrue
  <1>5. SavingInv'
    BY <1>4 DEF SavingInv
  <1> QED
    BY <1>1, <1>5, StillTrue DEF ConsoleInv, FormTypes, page

LEMMA AnswersTyped ==
  ASSUME ConsoleInv, UserSaved \/ ListingSaved \/ Provisioned \/ Imported \/ WriteOver
  PROVE  ConsoleInv'
  <1>0. FormTypes /\ rows \in RowSets /\ SavingInv /\ \A j \in Items : rows[j] \in Nat /\ rows[j] <= revision[j] /\ revision[j] \in Nat
    BY ConsoleAssumption DEF ConsoleInv, RowsInv, RowSets, Revs, ServiceInv
  <1>1. ASSUME UserSaved \/ ListingSaved \/ Provisioned
        PROVE  /\ Still /\ saving.id \in Items /\ saving.got \in Revs /\ saving.got <= revision[saving.id]
               /\ saving' = None /\ UNCHANGED <<filter, applied, failed, shown>>
    BY <1>0, <1>1 DEF UserSaved, ListingSaved, Provisioned, Answered, Still, SavingInv, SaveRecord, Confirmed
  <1>2. 0 \in Revs /\ \A j \in Items : 0 <= revision[j]
    BY <1>0, ConsoleAssumption DEF Revs
  <1>3. CASE UserSaved
    <2>1. /\ rows' = [rows EXCEPT ![saving.id] = saving.got]
          /\ selected' = saving.id /\ draft' = Form(rows', saving.id) /\ Toggle(FALSE)
      BY <1>3 DEF UserSaved
    <2>2. rows' \in RowSets /\ \A j \in Items : rows'[j] <= revision[j]
      BY <1>0, <1>1, <1>3, <2>1 DEF RowSets
    <2>3. draft' \in Drafts
      BY <1>1, <1>3, <2>1, <2>2 DEF Form, Drafts, RowSets
    <2>4. LoadsInv' /\ loading' \in BOOLEAN /\ editingNew' = FALSE
      BY <1>1, <1>3, <2>1, ToggledTyped
    <2>5. RowsInv'
      BY <1>1, <1>3, <2>2 DEF RowsInv, Still
    <2> QED
      BY <1>1, <1>3, <2>1, <2>3, <2>4, <2>5, StillTrue DEF ConsoleInv, FormTypes
  <1>4. CASE ListingSaved
    <2>1. /\ rows' = [rows EXCEPT ![saving.id] = IF @ > 0 THEN saving.got ELSE 0]
          /\ selected' = saving.id /\ draft' = FormOf(selected', FALSE, rows')
          /\ UNCHANGED <<loads, loading, editingNew>>
      BY <1>4 DEF ListingSaved
    <2>2. rows' \in RowSets /\ \A j \in Items : rows'[j] <= revision[j]
      BY <1>0, <1>1, <1>2, <1>4, <2>1 DEF RowSets
    <2>3. draft' \in Drafts
      BY <1>0, <1>1, <1>4, <2>1, <2>2, FormTyped
    <2>5. RowsInv'
      BY <1>1, <1>4, <2>2 DEF RowsInv, Still
    <2> QED
      BY <1>1, <1>4, <2>1, <2>3, <2>5, StillTrue DEF ConsoleInv, FormTypes
  <1>5. CASE Provisioned
    <2>1. /\ rows' = [i \in Items |-> IF i = saving.id THEN saving.got ELSE 0]
          /\ UNCHANGED <<selected, draft, loads, loading, editingNew>>
      BY <1>5 DEF Provisioned
    <2>2. rows' \in RowSets /\ \A j \in Items : rows'[j] <= revision[j]
      BY <1>1, <1>2, <1>5, <2>1 DEF RowSets
    <2>3. RowsInv'
      BY <1>1, <1>5, <2>2 DEF RowsInv, Still
    <2> QED
      BY <1>1, <1>5, <2>1, <2>3, StillTrue DEF ConsoleInv, FormTypes
  <1>6. CASE Imported
    <2>1. /\ Still /\ UNCHANGED <<filter, applied, failed, shown, rows, selected, draft, editingNew>>
          /\ saving # None /\ saving' = [saving EXCEPT !.status = "reload", !.more = FALSE]
          /\ IF saving.heard THEN Start(Asked(saving.filter, saving.page, saving.id, editingNew))
             ELSE UNCHANGED <<loads, loading>>
      BY <1>6 DEF Imported, Answered, Still
    <2>2. saving \in SaveRecord /\ editingNew \in BOOLEAN
      BY <1>0, <2>1 DEF SavingInv, FormTypes
    <2>3. saving.filter \in Filters /\ saving.page \in Nat /\ saving.id \in Items \cup {None}
      BY <2>2 DEF SaveRecord
    <2>4. LoadsInv' /\ loading' \in BOOLEAN
      <3>1. CASE saving.heard
        BY <2>1, <2>2, <2>3, <3>1, StartedTyped
      <3>2. CASE ~saving.heard
        BY <1>0, <2>1, <3>2, StillTrue DEF FormTypes
      <3> QED
        BY <3>1, <3>2
    <2>5. SavingInv'
      BY <2>1, <2>2 DEF SavingInv, SaveRecord
    <2> QED
      BY <2>1, <2>4, <2>5, StillTrue DEF ConsoleInv, FormTypes
  <1>7. CASE WriteOver
    <2>1. /\ Still /\ saving' = None /\ rows' \in {rows, NoRows}
          /\ UNCHANGED <<filter, applied, loads, loading, failed, shown, selected, editingNew, draft>>
      BY <1>7 DEF WriteOver, Still
    <2>2. NoRows \in RowSets /\ \A j \in Items : NoRows[j] = 0
      BY <1>2 DEF NoRows, RowSets
    <2>3. RowsInv'
      <3> HIDE DEF NoRows
      <3> QED
        BY <1>0, <1>2, <2>1, <2>2 DEF RowsInv, Still
    <2> QED
      BY <2>1, <2>3, StillTrue DEF ConsoleInv, FormTypes
  <1> QED
    BY <1>3, <1>4, <1>5, <1>6, <1>7

\* What the services answer is what they have.
LEMMA AnswerTyped ==
  ASSUME ServiceInv, NEW l
  PROVE  RowsFor(l) \in RowSets /\ \A j \in Items : RowsFor(l)[j] <= revision[j]
  <1>1. 0 \in Revs /\ revision \in RowSets /\ \A j \in Items : revision[j] \in Nat
    BY ConsoleAssumption DEF ServiceInv, RowSets, Revs
  <1>2. \A P \in SUBSET Items : LET f == [i \in Items |-> IF i \in P THEN revision[i] ELSE 0] IN
           f \in RowSets /\ \A j \in Items : f[j] <= revision[j]
    BY <1>1 DEF RowSets
  <1>3. RowsFor(l) = revision
        \/ \E P \in SUBSET Items : RowsFor(l) = [i \in Items |-> IF i \in P THEN revision[i] ELSE 0]
    <2>1. CASE route = "users"
      BY <2>1 DEF RowsFor
    <2>2. ASSUME NEW P \in SUBSET Items,
                 RowsFor(l) = [i \in Items |-> IF i \in P THEN revision[i] ELSE 0]
          PROVE  \E Q \in SUBSET Items :
                    RowsFor(l) = [i \in Items |-> IF i \in Q THEN revision[i] ELSE 0]
      BY <2>2
    <2>3. CASE route = "portfolio"
      <3> DEFINE P == Items \cap {l.arg}
      <3>1. RowsFor(l) = [i \in Items |-> IF i \in P THEN revision[i] ELSE 0]
        BY <2>3 DEF RowsFor
      <3>2. P \in SUBSET Items
        OBVIOUS
      <3> HIDE DEF P
      <3> QED
        BY <2>2, <3>1, <3>2
    <2>4. CASE route = "static" /\ l.page < Len(Listed[l.arg])
      <3> DEFINE P == Items \cap {Listed[l.arg][l.page + 1]}
      <3>1. RowsFor(l) = [i \in Items |-> IF i \in P THEN revision[i] ELSE 0]
        BY <2>4 DEF RowsFor
      <3>2. P \in SUBSET Items
        OBVIOUS
      <3> HIDE DEF P
      <3> QED
        BY <2>2, <3>1, <3>2
    <2>5. CASE /\ route # "users" /\ route # "portfolio"
               /\ ~(route = "static" /\ l.page < Len(Listed[l.arg]))
      <3> DEFINE P == {i \in Items : FALSE}
      <3>1. RowsFor(l) = [i \in Items |-> IF i \in P THEN revision[i] ELSE 0]
        BY <2>5 DEF RowsFor, NoRows
      <3>2. P \in SUBSET Items
        OBVIOUS
      <3> HIDE DEF P
      <3> QED
        BY <2>2, <3>1, <3>2
    <2> QED
      BY <2>1, <2>3, <2>4, <2>5
  <1> QED
    BY <1>1, <1>2, <1>3

LEMMA ServedTyped ==
  ASSUME ConsoleInv, NEW s \in DOMAIN loads, ServeLoad(s)
  PROVE  ConsoleInv'
  <1>1. /\ Still
        /\ UNCHANGED <<filter, applied, loading, failed, rows, shown, selected, editingNew, draft, saving>>
    BY DEF ServeLoad, Still
  <1>2. PICK answered \in SUBSET Sources :
           loads' = [loads EXCEPT ![s].served = TRUE, ![s].rows = RowsFor(loads[s]),
                                  ![s].answered = answered,
                                  ![s].events = Combined(log, answered, loads[s].page)]
    BY DEF ServeLoad
  <1> DEFINE l == loads[s]
             v == [l EXCEPT !.served = TRUE, !.rows = RowsFor(l), !.answered = answered,
                            !.events = Combined(log, answered, l.page)]
  <1>3. loads \in Seq(Loads) /\ Len(loads) \in Nat /\ s \in 1..Len(loads) /\ l \in Loads
    BY ElementOfSeq, LenProperties DEF ConsoleInv, LoadsInv
  <1>4. RowsFor(l) \in RowSets /\ \A j \in Items : RowsFor(l)[j] <= revision[j]
    BY AnswerTyped DEF ConsoleInv
  <1>5. Combined(log, answered, l.page) \in SUBSET Nat
    BY CombinedEvents, ConsoleAssumption DEF ConsoleInv, ServiceInv
  <1>6. v \in LoadRecord /\ v.rows = RowsFor(l) /\ v.page = l.page /\ v.answered = answered
        /\ v.events = Combined(log, answered, l.page)
    BY <1>3, <1>4, <1>5 DEF Loads, LoadRecord
  <1>7. v \in Loads
    <2> HIDE DEF v, l
    <2> QED
      BY <1>4, <1>6 DEF Loads, Truthful
  <1>8. loads' = [loads EXCEPT ![s] = v]
    BY <1>2, <1>3
  <1> HIDE DEF v, l
  <1>9. [loads EXCEPT ![s] = v] \in Seq(Loads) /\ Len([loads EXCEPT ![s] = v]) = Len(loads)
    BY <1>3, <1>7, ExceptSeq
  <1>10. LoadsInv'
    BY <1>1, <1>8, <1>9, StillTrue DEF LoadsInv, ConsoleInv
  <1> QED
    BY <1>1, <1>10, StillTrue DEF ConsoleInv, FormTypes

LEMMA LoadedTyped ==
  ASSUME ConsoleInv, NEW s \in DOMAIN loads, LoadDone(s) \/ LoadFails(s)
  PROVE  ConsoleInv'
  <1> DEFINE l == loads[s]
  <1>0. /\ loads \in Seq(Loads) /\ Len(loads) \in Nat /\ s \in 1..Len(loads) /\ l \in Loads
        /\ FormTypes /\ RowsInv /\ MaxLoads \in Nat /\ Len(loads) <= MaxLoads
    BY ElementOfSeq, LenProperties, ConsoleAssumption DEF ConsoleInv, LoadsInv
  <1>1. l \in LoadRecord /\ Truthful(l)
    BY <1>0 DEF Loads
  <1>2. /\ Still /\ UNCHANGED <<filter, applied, editingNew>>
        /\ loads' = RemoveAt(loads, s) /\ loading' = FALSE /\ failed' \in BOOLEAN
        /\ saving' = saving \/ saving' = None
    BY DEF LoadDone, LoadFails, On, Still, AfterReload
  <1>3. LoadsInv'
    <2>1. RemoveAt(loads, s) \in Seq(Loads) /\ Len(RemoveAt(loads, s)) = Len(loads) - 1
      BY <1>0, RemoveLoad
    <2> QED
      BY <1>0, <1>2, <2>1, StillTrue DEF LoadsInv
  <1>4. NoRows \in RowSets /\ \A j \in Items : NoRows[j] = 0 /\ revision[j] \in Nat
    BY ConsoleAssumption DEF NoRows, RowSets, Revs, ServiceInv, ConsoleInv
  <1>5. CASE LoadDone(s)
    <2>1. /\ l.served /\ rows' = l.rows
          /\ shown'.filter = l.arg /\ shown'.page = l.page
          /\ shown'.events = l.events /\ shown'.answered = l.answered
          /\ draft' = FormOf(selected', editingNew, rows')
          /\ selected' \in {l.select} \cup {selected} \cup FirstOf(rows')
      BY <1>5 DEF LoadDone
    <2>2. RowsInv'
      BY <1>1, <1>2, <2>1 DEF RowsInv, LoadRecord, Truthful, Still
    <2>3. ShownIsTrue'
      BY <1>1, <1>2, <2>1 DEF ShownIsTrue, LoadRecord, Truthful, Still
    <2>4. selected' \in Items \cup {None}
      BY <1>0, <1>1, <2>1, FirstIsItem DEF LoadRecord, FormTypes
    <2>5. draft' \in Drafts
      <3>1. rows' \in RowSets
        BY <2>2 DEF RowsInv
      <3> QED
        BY <1>0, <2>1, <2>4, <3>1, FormTyped
    <2> QED
      BY <1>0, <1>2, <1>3, <2>2, <2>3, <2>4, <2>5, StillTrue DEF ConsoleInv, FormTypes
  <1>6. CASE LoadFails(s)
    <2>1. /\ shown' = shown /\ rows' \in {rows, NoRows}
          /\ selected' \in {l.select, selected}
          /\ draft' \in {draft, FormOf(selected', editingNew, rows')}
      BY <1>6 DEF LoadFails
    <2>2. RowsInv'
      <3> HIDE DEF NoRows
      <3> QED
        BY <1>0, <1>2, <1>4, <2>1 DEF RowsInv, Still
    <2>4. selected' \in Items \cup {None}
      BY <1>0, <1>1, <2>1 DEF LoadRecord, FormTypes
    <2>5. draft' \in Drafts
      <3>1. rows' \in RowSets
        BY <2>2 DEF RowsInv
      <3>2. FormOf(selected', editingNew, rows') \in Drafts
        BY <1>0, <2>4, <3>1, FormTyped
      <3> QED
        BY <1>0, <2>1, <3>2 DEF FormTypes
    <2> QED
      BY <1>0, <1>2, <1>3, <2>1, <2>2, <2>4, <2>5, StillTrue DEF ConsoleInv, FormTypes
  <1> QED
    BY <1>5, <1>6

\* A write makes the services newer, never the page ahead of them.
LEMMA WritesTyped ==
  ASSUME ConsoleInv, WriteStep
  PROVE  ConsoleInv'
  <1>1. route' = route /\ log' = log /\ UNCHANGED page /\ saving # None
    BY DEF WriteStep, ServeChange, ServeCreate, ServeRefuse, SendPassword, Written, Quiet, Sent
  <1>2. saving \in SaveRecord /\ (saving.status = "ok" => Confirmed(saving))
    BY <1>1 DEF ConsoleInv, SavingInv
  <1>3. CASE ServeRefuse \/ SendPassword
    <2>1. Still /\ saving' \in SaveRecord /\ saving'.status # "ok"
      BY <1>1, <1>2, <1>3 DEF ServeRefuse, SendPassword, SaveRecord, Still
    <2>2. SavingInv'
      BY <2>1 DEF SavingInv
    <2> QED
      BY <1>1, <2>1, <2>2, StillTrue DEF ConsoleInv, FormTypes, page
  <1>4. CASE ServeChange \/ ServeCreate
    <2>1. PICK i \in Items : Written(i)
      BY <1>2, <1>4 DEF ServeChange, ServeCreate, SaveRecord
    <2>2. revision \in RowSets /\ \A j \in Items : revision[j] \in 0..MaxRevision
      BY DEF ConsoleInv, ServiceInv, RowSets, Revs
    <2>3. /\ revision' = [revision EXCEPT ![i] = @ + 1] /\ revision[i] < MaxRevision
          /\ saving' = [saving EXCEPT !.id = i, !.got = revision[i] + 1, !.status = "ok"]
      BY <2>1 DEF Written
    <2>4. /\ revision' \in RowSets /\ revision'[i] = revision[i] + 1 /\ revision[i] + 1 \in Revs
          /\ \A j \in Items : revision[j] <= revision'[j] /\ revision'[j] \in Nat
      BY <2>2, <2>3, ConsoleAssumption DEF RowSets, Revs
    <2>5. ServiceInv'
      BY <1>1, <2>4 DEF ConsoleInv, ServiceInv
    <2>6. RowsInv'
      <3>1. rows \in RowSets /\ \A j \in Items : rows[j] \in 0..MaxRevision /\ rows[j] <= revision[j]
        BY DEF ConsoleInv, RowsInv, RowSets, Revs
      <3>2. rows' = rows
        BY <1>1 DEF page
      <3>3. \A j \in Items : rows[j] <= revision'[j]
        BY <2>2, <2>4, <3>1, ConsoleAssumption
      <3> QED
        BY <3>1, <3>2, <3>3 DEF RowsInv
    <2>7. LoadsInv'
      <3>1. Loads \subseteq Loads'
        <4> SUFFICES ASSUME NEW l \in Loads PROVE l \in Loads'
          OBVIOUS
        <4>1. /\ l \in LoadRecord /\ Truthful(l)
              /\ \A j \in Items : l.rows[j] \in 0..MaxRevision
          BY DEF Loads, LoadRecord, RowSets, Revs
        <4>2. \A j \in Items : l.rows[j] <= revision'[j]
          BY <2>2, <2>4, <4>1, ConsoleAssumption DEF Truthful
        <4> QED
          BY <1>1, <4>1, <4>2 DEF Loads, Truthful
      <3>2. loads \in Seq(Loads) /\ loads' = loads
        BY <1>1 DEF ConsoleInv, LoadsInv, page
      <3>3. loads \in Seq(Loads')
        BY <3>1, <3>2, MoreLoads
      <3> QED
        BY <3>2, <3>3 DEF LoadsInv, ConsoleInv
    <2>8. SavingInv'
      <3>1. saving' \in SaveRecord /\ saving'.id = i /\ saving'.got = revision[i] + 1
        BY <1>2, <2>3, <2>4 DEF SaveRecord
      <3>2. Confirmed(saving)'
        BY <2>4, <3>1 DEF Confirmed
      <3> QED
        BY <3>1, <3>2 DEF SavingInv
    <2>9. FormTypes' /\ ShownIsTrue'
      BY <1>1 DEF ConsoleInv, FormTypes, ShownIsTrue, page
    <2> QED
      BY <2>5, <2>6, <2>7, <2>8, <2>9 DEF ConsoleInv
  <1> QED
    BY <1>3, <1>4 DEF WriteStep

LEMMA ConsoleStarts == Init => ConsoleInv
  <1> SUFFICES ASSUME Init PROVE ConsoleInv
    OBVIOUS
  <1>1. PICK k \in Items : revision = [NoRows EXCEPT ![k] = 1]
    BY DEF Init
  <1>2. 0 \in Revs /\ 1 \in Revs /\ NoRows \in RowSets /\ \A j \in Items : NoRows[j] = 0
    BY ConsoleAssumption DEF Revs, RowSets, NoRows
  <1>3. revision \in RowSets /\ \A j \in Items : revision[j] \in Nat
    <2> HIDE DEF NoRows
    <2> QED
      BY <1>1, <1>2 DEF RowSets, Revs
  <1>4. ServiceInv
    BY <1>3 DEF Init, ServiceInv
  <1>5. NoDraft \in Drafts
    BY <1>2 DEF NoDraft, Drafts
  <1>6. FormTypes
    BY <1>5, ConsoleAssumption DEF Init, FormTypes
  <1>7. RowsInv
    <2>1. rows = NoRows
      BY DEF Init
    <2> HIDE DEF NoRows
    <2> QED
      BY <1>2, <1>3, <2>1 DEF RowsInv
  <1>8. ShownIsTrue
    <2>1. NoShown.filter = NoFilter /\ NoShown.page = 0
      BY DEF NoShown
    <2> QED
      BY <2>1, ConsoleAssumption DEF Init, ShownIsTrue
  <1>9. LoadsInv
    BY ConsoleAssumption DEF Init, LoadsInv
  <1> QED
    BY <1>4, <1>6, <1>7, <1>8, <1>9 DEF Init, ConsoleInv, SavingInv

LEMMA ConsoleGoesOn == ConsoleInv /\ [Next]_vars => ConsoleInv'
  <1> SUFFICES ASSUME ConsoleInv, [Next]_vars PROVE ConsoleInv'
    OBVIOUS
  <1>1. CASE ChangeSession
    <2>1. revision' = revision /\ log \in Logs \cup {NoLog}
      BY <1>1 DEF ChangeSession, ConsoleInv, ServiceInv
    <2>2. CASE UNCHANGED <<route, page, saving, log>>
      BY <2>1, <2>2, StillTrue DEF Still, ConsoleInv, FormTypes, page
    <2>3. CASE /\ route' = "none" /\ FreshPage("none") /\ log' = NoLog
               /\ saving' = NobodyHears(saving, doc' = "app")
      BY <2>1, <2>3, FreshConsole
    <2> QED
      BY <1>1, <2>2, <2>3 DEF ChangeSession
  <1>2. CASE Leave
    BY <1>2, FreshConsole DEF Leave
  <1>3. ASSUME NEW r \in Routes, Navigate(r) PROVE ConsoleInv'
    <2>1. log' \in Logs \cup {NoLog} /\ route' = r /\ FreshPage(r) /\ saving' = NobodyHears(saving, TRUE)
          /\ revision' = revision
      BY <1>3 DEF Navigate
    <2> QED
      BY <2>1, FreshConsole
  <1>4. CASE PageStep
    BY <1>4, ButtonsTyped, EditingTyped, SavesTyped, AnswersTyped, ServedTyped, LoadedTyped
       DEF PageStep
  <1>5. CASE WriteStep
    BY <1>5, WritesTyped
  <1>6. CASE UNCHANGED vars
    BY <1>6, StillTrue DEF Still, ConsoleInv, FormTypes, vars, page
  <1> QED
    BY <1>1, <1>2, <1>3, <1>4, <1>5, <1>6 DEF Next

LEMMA SessionTyped == SessionTypeOK /\ [Next]_vars => SessionTypeOK'
  <1> SUFFICES ASSUME SessionTypeOK, [Next]_vars PROVE SessionTypeOK'
    OBVIOUS
  <1> USE DEF SessionTypeOK, People
  <1>1. ASSUME SessionStep PROVE SessionTypeOK'
    <2>1. CASE Restore
      BY <2>1 DEF Restore
    <2>2. CASE Login \/ Logout
      BY <2>2 DEF Login, Logout
    <2>3. CASE Redirect
      BY <2>3 DEF Redirect, Open
    <2>4. CASE RedirectFails
      BY <2>4 DEF RedirectFails
    <2>5. CASE AskToSignIn \/ SignedIn \/ SubmitLogin
      BY <2>5 DEF AskToSignIn, SignedIn, SubmitLogin, Open
    <2>6. CASE FetchCsrf \/ ReturnHome \/ CallbackFails
      BY <2>6 DEF FetchCsrf, ReturnHome, CallbackFails
    <2>7. CASE CompleteSignIn \/ CompleteSignOut
      BY <2>7 DEF CompleteSignIn, CompleteSignOut
    <2>8. CASE Expire
      BY <2>8 DEF Expire
    <2> QED
      BY <1>1, <2>1, <2>2, <2>3, <2>4, <2>5, <2>6, <2>7, <2>8 DEF SessionStep
  <1>2. CASE UNCHANGED sessionVars
    BY <1>2 DEF sessionVars
  <1> QED
    BY <1>1, <1>2, PagesKeepSession DEF Next, ChangeSession, Leave, Navigate, vars, sessionVars

\* The state of the console keeps its types, and no row on a page is ahead of the services:
\* what is shown of an item is a revision the services have had.
THEOREM ConsoleTypeCorrect == Spec => []TypeOK
  <1>1. Init => SessionTypeOK
    BY DEF Init, SessionInit, SessionTypeOK, People
  <1>2. ConsoleInv /\ SessionTypeOK => TypeOK
    <2> SUFFICES ASSUME ConsoleInv, SessionTypeOK PROVE TypeOK
      OBVIOUS
    <2>1. ASSUME NEW s \in DOMAIN loads
          PROVE  /\ loads[s].arg \in Filters \cup Items /\ loads[s].page \in Nat
                 /\ loads[s].rows \in RowSets
      <3>1. loads[s] \in LoadRecord
        BY ElementOfSeq, LenProperties DEF ConsoleInv, LoadsInv, Loads
      <3> QED
        BY <3>1 DEF LoadRecord
    <2>2. saving = None \/
            /\ saving.kind \in {"account", "listing", "import", "provision"}
            /\ saving.id \in Items \cup {None} /\ saving.got \in Revs
            /\ saving.status \in {"sent", "ok", "refused", "reload"}
            /\ saving.heard \in BOOLEAN /\ saving.more \in BOOLEAN
      BY DEF ConsoleInv, SavingInv, SaveRecord
    <2> QED
      BY <2>1, <2>2 DEF ConsoleInv, ServiceInv, FormTypes, RowsInv, ShownIsTrue, LoadsInv, Drafts, TypeOK
  <1> QED
    BY <1>1, <1>2, ConsoleStarts, ConsoleGoesOn, SessionTyped, PTL DEF Spec

\* A page of the combined audit log that every service answered, and that lies within what
\* each was asked for, is that page of the whole log, for any number of services, sizes and
\* events (admin/audit-api.ts combinedPage).
THEOREM AuditPageIsWhole == Spec => []PageOfTheWholeLog
  <1>1. ConsoleInv => PageOfTheWholeLog
    <2> SUFFICES ASSUME ConsoleInv, route = "audit", shown.answered = Sources,
                        (shown.page + 1) * PageSize <= BroadSize
                 PROVE  shown.events = Cut(DOMAIN log, shown.page, PageSize)
      BY DEF PageOfTheWholeLog
    <2>1. log \in Seq(Sources) /\ shown.page \in Nat
          /\ shown.events = Combined(log, Sources, shown.page)
      BY ConsoleAssumption DEF ConsoleInv, ServiceInv, ShownIsTrue
    <2> QED
      BY <2>1, CombinedIsWhole
  <1> QED
    BY <1>1, ConsoleStarts, ConsoleGoesOn, PTL DEF Spec

=============================================================================

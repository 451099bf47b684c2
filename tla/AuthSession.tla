---------------------------- MODULE AuthSession ----------------------------
(***************************************************************************)
(* The session of the web application (AuthContext.tsx, oidc.ts,           *)
(* AuthCallbackPage.tsx, LoginPage.tsx): what AuthProvider holds in        *)
(* memory, what oidc-client-ts keeps in sessionStorage, and the documents  *)
(* the browser goes through.  Signing in and signing out leave the         *)
(* document; what it held in memory is lost and only the storage stays.    *)
(*                                                                         *)
(* A token is told by whose it is; "expired" stands for a stored user      *)
(* whose token has expired.                                                *)
(***************************************************************************)

VARIABLES
    doc,               \* the document in the browser
    user,              \* AuthProvider's user
    authLoading,       \* AuthProvider's isLoading
    leaving,           \* the redirect under way: "none", "login" or "logout"
    stored,            \* the user in sessionStorage
    csrf               \* LoginPage: "none", "got" or "error"

sessionVars == <<doc, user, authLoading, leaving, stored, csrf>>

People == {"plain", "admin"}

SessionTypeOK ==
    /\ doc \in {"app", "login", "signinCallback", "signoutCallback", "failed", "provider"}
    /\ user \in People \cup {"none"}
    /\ authLoading \in BOOLEAN /\ leaving \in {"none", "login", "logout"}
    /\ stored \in People \cup {"none", "expired"}
    /\ csrf \in {"none", "got", "error"}

SessionInit ==
    /\ doc = "app" /\ user = "none" /\ authLoading = TRUE /\ leaving = "none"
    /\ stored \in People \cup {"none", "expired"} /\ csrf = "none"

\* Another document is loaded; AuthProvider starts from nothing.
Open(d) ==
    doc' = d /\ user' = "none" /\ authLoading' = TRUE /\ leaving' = "none" /\ csrf' = "none"

\* AuthProvider's effect: the stored user, unless expired, before any answer of
\* the network.
Restore ==
    /\ authLoading /\ leaving = "none"
    /\ doc \in {"app", "login", "signinCallback", "signoutCallback"}
    /\ stored' = IF stored = "expired" THEN "none" ELSE stored
    /\ user' = stored'
    /\ authLoading' = FALSE
    /\ UNCHANGED <<doc, leaving, csrf>>

\* login, and logout from a page of a signed-in user, up to the redirect.
Login ==
    /\ doc = "app" /\ ~authLoading
    /\ leaving' = "login" /\ authLoading' = TRUE /\ UNCHANGED <<doc, user, stored, csrf>>

Logout ==
    /\ doc = "app" /\ ~authLoading /\ user # "none"
    /\ leaving' = "logout" /\ authLoading' = TRUE /\ UNCHANGED <<doc, user, stored, csrf>>

\* signinRedirect and signoutRedirect, which removes the user first.
Redirect ==
    \/ leaving = "login"  /\ Open("provider") /\ UNCHANGED stored
    \/ leaving = "logout" /\ Open("signoutCallback") /\ stored' = "none"

\* (mutant) the page that asked to sign out keeps its user.
RedirectFailsKeepingUser ==
    /\ leaving # "none" /\ leaving' = "none" /\ authLoading' = FALSE
    /\ stored' \in {stored} \cup (IF leaving = "logout" THEN {"none"} ELSE {})
    /\ UNCHANGED <<doc, user, csrf>>

\* The authorization server cannot be reached, before or after the user is removed.
RedirectFails ==
    /\ leaving # "none" /\ leaving' = "none" /\ authLoading' = FALSE
    /\ \/ UNCHANGED <<user, stored>>
       \/ leaving = "logout" /\ user' = "none" /\ stored' = "none"
    /\ UNCHANGED <<doc, csrf>>

\* The authorization server shows the sign-in page, or knows the browser already.
AskToSignIn == doc = "provider" /\ Open("login") /\ UNCHANGED stored
SignedIn    == doc = "provider" /\ Open("signinCallback") /\ UNCHANGED stored

\* LoginPage fetches the CSRF token; the form can be sent only with it.
FetchCsrf ==
    /\ doc = "login" /\ csrf = "none" /\ csrf' \in {"got", "error"}
    /\ UNCHANGED <<doc, user, authLoading, leaving, stored>>

SubmitLogin ==
    /\ doc = "login" /\ csrf = "got"
    /\ Open("signinCallback") \/ Open("login")
    /\ UNCHANGED stored

\* The user goes back to the overview, from the sign-in page or a failed callback.
ReturnHome ==
    /\ doc \in {"login", "failed"} /\ ~authLoading /\ doc' = "app" /\ csrf' = "none"
    /\ UNCHANGED <<user, authLoading, leaving, stored>>

\* completeSignIn: the token response is stored and the workspace shown.
CompleteSignIn ==
    /\ doc = "signinCallback" /\ ~authLoading
    /\ \E u \in People : user' = u /\ stored' = u
    /\ doc' = "app"
    /\ UNCHANGED <<authLoading, leaving, csrf>>

CompleteSignOut ==
    /\ doc = "signoutCallback" /\ ~authLoading
    /\ user' = "none" /\ stored' = "none" /\ doc' = "app"
    /\ UNCHANGED <<authLoading, leaving, csrf>>

\* The token exchange fails, or the state does not match.
CallbackFails ==
    /\ doc \in {"signinCallback", "signoutCallback"} /\ ~authLoading
    /\ doc' = "failed"
    /\ UNCHANGED <<user, authLoading, leaving, stored, csrf>>

\* The access token expires: seen at once by an open document, else when it is restored.
Expire ==
    /\ stored \in People
    /\ IF user = "none"
       THEN stored' = "expired" /\ UNCHANGED user
       ELSE stored' = "none" /\ user' = "none"
    /\ UNCHANGED <<doc, authLoading, leaving, csrf>>

SessionStep ==
    \/ Restore \/ Login \/ Logout \/ Redirect \/ RedirectFails
    \/ AskToSignIn \/ SignedIn \/ FetchCsrf \/ SubmitLogin
    \/ ReturnHome \/ CompleteSignIn \/ CompleteSignOut \/ CallbackFails \/ Expire

----------------------------------------------------------------------------
\* Who the application takes its user to be is who the storage restores: a reload
\* never brings back a user who signed out or whose token expired, nor loses one.
SessionIsStored == user = "none" \/ user = stored
=============================================================================

----------------------------- MODULE WebSession -----------------------------
(***************************************************************************)
(* Signing in to the web application and opening its pages.  The login     *)
(* route leaves a transaction cookie and sends the browser to the identity *)
(* provider; the callback route checks the transaction, exchanges the code *)
(* and leaves the session cookie; a page takes the session it finds to be  *)
(* live or not, and then asks the control plane, which judges the access   *)
(* token again.  Three machines read three clocks, which need not agree:   *)
(* the provider dates the token, the web server the session, and the       *)
(* control plane compares the token's date with its own clock.             *)
(*                                                                         *)
(* State, nonce and code verifier are drawn afresh by one login, so the    *)
(* login stands for all three.  A redirect back from the provider can be   *)
(* opened by any tab, again and again (history, a shared link).            *)
(***************************************************************************)
EXTENDS Integers, FiniteSets

CONSTANTS Logins,              \* how often anyone may press "Sign in"
          Tabs, BrowserOf,     \* open tabs, and the browser a tab belongs to
          Users, InitialRoles, LaterRoles,
          Lifetime,            \* expires_in of an access token
          TransactionLifetime, \* 600 seconds in the code
          Margin,              \* a session is dropped this early, 5 seconds
          Tolerance,           \* clockTolerance of every token check, 5 seconds
          Ahead,               \* what a clock shows beyond the web server's
          MaxTime,             \* the clocks stop here
          None

VARIABLES now, transaction, session, begunBy, code, tab, roles, changed
vars == <<now, transaction, session, begunBy, code, tab, roles, changed>>

Browsers == {BrowserOf[t] : t \in Tabs}

platformRoles ==
  {"PLATFORM_ADMIN", "AUTOMATION_OWNER", "RELEASE_APPROVER", "OPERATOR", "AUDITOR", "VIEWER"}

\* An authorization code, and the browser whose callback has exchanged it.
Code == [user : Users, spentBy : Browsers \cup {None}]

ASSUME WebSessionAssumption ==
  /\ {Lifetime, TransactionLifetime, Margin, Tolerance, MaxTime} \subseteq Nat
  /\ InitialRoles \in [Users -> SUBSET platformRoles]
  /\ LaterRoles \in [Users -> SUBSET platformRoles]
  /\ Ahead \in [{"provider", "api"} -> Int]
  /\ None \notin Browsers \cup Nat \cup Code

\* `now' is the web server's clock; the clocks of the others go along with it.
Clock(where) == now + Ahead[where]

Token == [user : Users, roles : SUBSET platformRoles, exp : Int]

Session == [login : Logins, token : Token, expiresAt : Nat]

\* A tab shows something, or its request is at one of the steps below.
TabState ==
  [at : {"login", "shown", "refused", "forbidden", "failed"}]
    \cup [at : {"exchanging"}, login : Logins, code : Logins]
    \cup [at : {"exchanged"}, login : Logins, nonce : Logins, token : Token]
    \cup [at : {"page"}, page : {"home", "detail"}, asked : Nat, session : Session,
          waits : SUBSET {"session", "resource", "audit"}]

TypeOK ==
  /\ now \in Nat
  /\ transaction \in [Browsers -> [login : Logins, until : Nat] \cup {None}]
  /\ session \in [Browsers -> Session \cup {None}]
  /\ begunBy \in [Logins -> Browsers \cup {None}]
  /\ code \in [Logins -> Code \cup {None}]
  /\ tab \in [Tabs -> TabState]
  /\ roles \in [Users -> SUBSET platformRoles]
  /\ changed \in [Users -> Nat \cup {None}]

\* A tab nothing is under way in shows the login page, a page or an error.
Rest(where) == [at |-> where]
Free(t) == tab[t].at \in {"login", "shown", "refused", "forbidden", "failed"}

Init ==
  /\ now = 0
  /\ transaction = [b \in Browsers |-> None]
  /\ session = [b \in Browsers |-> None]
  /\ begunBy = [l \in Logins |-> None]
  /\ code = [l \in Logins |-> None]
  /\ tab = [t \in Tabs |-> Rest("login")]
  /\ roles = InitialRoles
  /\ changed = [u \in Users |-> None]

(***************************************************************************)
(* The identity provider.                                                  *)
(***************************************************************************)

\* Someone signs in at the provider for a login; the redirect now exists.
Authorize(l, u) ==
  /\ begunBy[l] # None /\ code[l] = None
  /\ code' = [code EXCEPT ![l] = [user |-> u, spentBy |-> None]]
  /\ UNCHANGED <<now, transaction, session, begunBy, tab, roles, changed>>

\* An administrator changes a user's roles, once in a behaviour.
ChangeRoles(u) ==
  /\ changed[u] = None
  /\ changed' = [changed EXCEPT ![u] = now]
  /\ roles' = [roles EXCEPT ![u] = LaterRoles[u]]
  /\ UNCHANGED <<now, transaction, session, begunBy, code, tab>>

\* The token endpoint takes a code once, with the verifier of its own login.
Exchange(t) ==
  /\ tab[t].at = "exchanging"
  /\ LET l == tab[t].code  u == code[l].user IN
     IF code[l].spentBy = None /\ tab[t].login = l
     THEN tab' = [tab EXCEPT ![t] =
                    [at |-> "exchanged", login |-> tab[t].login, nonce |-> l,
                     token |-> [user |-> u, roles |-> roles[u],
                                exp |-> Clock("provider") + Lifetime]]]
     ELSE tab' = [tab EXCEPT ![t] = Rest("login")]
  /\ code' = [code EXCEPT ![tab[t].code].spentBy = IF @ = None THEN BrowserOf[t] ELSE @]
  /\ UNCHANGED <<now, transaction, session, begunBy, roles, changed>>

(***************************************************************************)
(* The web application's routes.                                           *)
(***************************************************************************)

\* Mutant: a tolerance of one whole lifetime.
TokenHoldsForLong(exp, clock) == exp > clock - Lifetime
\* What a server makes of a JWT: jose refuses exp <= clock - clockTolerance.
TokenHolds(exp, clock) == exp > clock - Tolerance

\* GET /api/auth/login.
Login(t) ==
  /\ Free(t)
  /\ \E l \in {x \in Logins : begunBy[x] = None} :
       /\ begunBy' = [begunBy EXCEPT ![l] = BrowserOf[t]]
       /\ transaction' = [transaction EXCEPT ![BrowserOf[t]] =
                            [login |-> l, until |-> now + TransactionLifetime]]
  /\ tab' = [tab EXCEPT ![t] = Rest("login")]
  /\ UNCHANGED <<now, session, code, roles, changed>>

\* GET /api/auth/callback, up to the request to the token endpoint
\* (the browser sends a cookie until its maxAge has passed).
TransactionSent(b) == transaction[b] # None /\ now < transaction[b].until
\* Mutant: any transaction will do.
TransactionAtAll(b, l) == TransactionSent(b) /\ code[l] # None
StateMatches(b, l) == TransactionSent(b) /\ transaction[b].login = l
Callback(t, l) ==
  /\ Free(t) /\ code[l] # None
  /\ tab' = [tab EXCEPT ![t] =
       IF StateMatches(BrowserOf[t], l)
       THEN [at |-> "exchanging", login |-> transaction[BrowserOf[t]].login, code |-> l]
       ELSE Rest("login")]
  /\ UNCHANGED <<now, transaction, session, begunBy, code, roles, changed>>

\* The session counts its lifetime from the moment the tokens arrived; so do
\* the seal around it and the cookie, which both outlast what getSession allows.
SealedSession(token, login) ==
  [login |-> login, token |-> token, expiresAt |-> now + Lifetime]

\* The rest of the callback.  The deletion of the transaction cookie names no
\* path, hence "/", and the cookie was set under /api/auth/callback: it stays.
FinishCallback(t) ==
  /\ tab[t].at = "exchanged"
  /\ LET good == TokenHolds(tab[t].token.exp, now) /\ tab[t].nonce = tab[t].login IN
     /\ session' = [session EXCEPT ![BrowserOf[t]] =
                      IF good THEN SealedSession(tab[t].token, tab[t].login) ELSE @]
     /\ tab' = [tab EXCEPT ![t] = Rest(IF good THEN "shown" ELSE "login")]
  /\ UNCHANGED <<now, transaction, begunBy, code, roles, changed>>

\* The token endpoint, or the way to it, fails.
ExchangeFails(t) ==
  /\ tab[t].at \in {"exchanging", "exchanged"}
  /\ tab' = [tab EXCEPT ![t] = Rest("login")]
  /\ UNCHANGED <<now, transaction, session, begunBy, code, roles, changed>>

\* POST /api/auth/logout.
Logout(t) ==
  /\ Free(t)
  /\ session' = [session EXCEPT ![BrowserOf[t]] = None]
  /\ tab' = [tab EXCEPT ![t] = Rest("login")]
  /\ UNCHANGED <<now, transaction, begunBy, code, roles, changed>>

(***************************************************************************)
(* Pages, and the control plane's guard they go through.                   *)
(***************************************************************************)

\* Mutant: a session is live to its last second.
LiveToTheEnd(b) == session[b] # None /\ session[b].expiresAt > now
\* getSession: the cookie is there and its session expires later than the margin.
Live(b) == session[b] # None /\ session[b].expiresAt > now + Margin

HasRequiredRole(held, required) ==
  "PLATFORM_ADMIN" \in held \/ required = {} \/ held \cap required # {}
CanViewCatalogAudit(held) == HasRequiredRole(held, {"AUDITOR", "AUTOMATION_OWNER"})
RequiredByApi(call) == IF call = "audit" THEN {"AUDITOR", "AUTOMATION_OWNER"} ELSE {}

\* The overview ("home") and an automation's page ("detail") begin with two calls
\* at once; then the detail asks for the audit trail if the principal may see it.
FirstCalls == {"session", "resource"}
AsksForAudit(page, call, token) ==
  page = "detail" /\ call # "audit" /\ CanViewCatalogAudit(token.roles)

\* A page renders only with a live session; it reads it once.
OpenPage(t, page) ==
  /\ Free(t)
  /\ tab' = [tab EXCEPT ![t] =
       IF Live(BrowserOf[t])
       THEN [at |-> "page", page |-> page, asked |-> now,
             session |-> session[BrowserOf[t]], waits |-> FirstCalls]
       ELSE Rest("login")]
  /\ UNCHANGED <<now, transaction, session, begunBy, code, roles, changed>>

\* The control plane judges one call by the token and its own clock.
Accepts(token) == TokenHolds(token.exp, Clock("api"))
Admits(token, call) == Accepts(token) /\ HasRequiredRole(token.roles, RequiredByApi(call))

\* A call is answered; after the last, the page is shown.  "refused" is the 401
\* of an expired token.  A call may as well fail for what this model does not see,
\* at any time: the guard answers 401 to every error of the verification (the
\* provider's keys not reachable, or not there), and any status but 2xx and any
\* failure of the network fail the page.
Answer(t) ==
  /\ tab[t].at = "page"
  /\ \/ tab' = [tab EXCEPT ![t] = Rest("failed")]
     \/ \E call \in tab[t].waits :
          LET token == tab[t].session.token
              left  == tab[t].waits \ {call}
              audit == AsksForAudit(tab[t].page, call, token)
          IN tab' = [tab EXCEPT ![t] =
               IF ~Accepts(token) THEN Rest("refused")
               ELSE IF ~Admits(token, call) THEN Rest("forbidden")
               ELSE IF left # {} THEN [@ EXCEPT !.waits = left]
               ELSE IF audit THEN [@ EXCEPT !.waits = {"audit"}]
               ELSE Rest("shown")]
  /\ UNCHANGED <<now, transaction, session, begunBy, code, roles, changed>>

\* Time passes, whatever is under way.
Tick ==
  /\ now < MaxTime /\ now' = now + 1
  /\ UNCHANGED <<transaction, session, begunBy, code, tab, roles, changed>>

Next ==
  \/ Tick
  \/ \E u \in Users : ChangeRoles(u) \/ \E l \in Logins : Authorize(l, u)
  \/ \E t \in Tabs :
       \/ Login(t) \/ Logout(t) \/ Exchange(t) \/ ExchangeFails(t) \/ FinishCallback(t)
       \/ Answer(t)
       \/ \E l \in Logins : Callback(t, l)
       \/ \E page \in {"home", "detail"} : OpenPage(t, page)

Spec == Init /\ [][Next]_vars

-----------------------------------------------------------------------------

\* A code is spent by no browser but the one that began its login, and a
\* browser holds no session but of a login it began, whatever redirects are
\* opened where and in which order (the callback route's comparisons).
OwnLoginOnly ==
  /\ \A l \in Logins : code[l] # None => code[l].spentBy \in {None, begunBy[l]}
  /\ \A b \in Browsers : session[b] # None => begunBy[session[b].login] = b

\* What a token lasts longer at the control plane than its lifetime.
Skew == Ahead["provider"] - Ahead["api"]

\* A page that found a live session is never forbidden anything, and its token is
\* found expired only when the code's exchange and the page together took longer
\* than the margin, the tolerance and the skew of the clocks allow for.  (That a call
\* fails for another reason is excluded by nothing.)
PagesAreServed ==
  [][\A t \in Tabs : tab[t].at = "page" =>
       /\ tab'[t].at # "forbidden"
       /\ tab'[t].at = "refused" =>
            LET s == tab[t].session
                exchange == s.expiresAt - (s.token.exp - Ahead["provider"])
                page     == now - tab[t].asked
            IN exchange + page > Margin + Tolerance + Skew]_vars

\* A page is shown with the roles a user no longer has for one token lifetime,
\* the tolerance and the difference of the clocks at most, however slowly the
\* session was sealed.
FormerRolesFade ==
  [][\A t \in Tabs : tab[t].at = "page" /\ tab'[t].at = "shown" =>
       LET token == tab[t].session.token IN
       token.roles # roles[token.user] =>
         now < changed[token.user] + Lifetime + Tolerance + Skew]_vars
=============================================================================

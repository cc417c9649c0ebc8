-------------------------- MODULE WebSessionProofs --------------------------
(***************************************************************************)
(* Theorems about WebSession, for every set of tabs, browsers and users and*)
(* for all lifetimes: a session belongs to the browser that began its      *)
(* login, and what the control plane makes of a token is bounded by the    *)
(* margins and by how far the three clocks are apart.                      *)
(***************************************************************************)
EXTENDS WebSession, TLAPS

\* A token runs out in a lifetime at most.  Its roles are those the user has, or
\* it was issued before they changed.
Current(token) ==
  /\ token.exp <= Clock("provider") + Lifetime
  /\ \/ token.roles = roles[token.user]
     \/ /\ changed[token.user] # None
        /\ token.exp <= changed[token.user] + Ahead["provider"] + Lifetime

\* What a browser keeps is of logins that it began.
CookiesFit(b) ==
  /\ transaction[b] # None => begunBy[transaction[b].login] = b
  /\ session[b] # None =>
       begunBy[session[b].login] = b /\ Current(session[b].token)

\* A callback that has passed the comparison of states is one of a login of its
\* browser, and its code is of that login.  A page began with a live session, and
\* asks for the audit trail only if it may.
TabFits(t) ==
  /\ tab[t].at = "exchanging" =>
       /\ tab[t].code = tab[t].login /\ code[tab[t].code] # None
       /\ begunBy[tab[t].login] = BrowserOf[t]
  /\ tab[t].at = "exchanged" =>
       begunBy[tab[t].login] = BrowserOf[t] /\ Current(tab[t].token)
  /\ tab[t].at = "page" =>
       /\ Current(tab[t].session.token)
       /\ tab[t].session.expiresAt > tab[t].asked + Margin
       /\ "audit" \in tab[t].waits => CanViewCatalogAudit(tab[t].session.token.roles)

\* A code was spent by nobody, or by the browser that began its login.
CodeFits(l) == code[l] # None => code[l].spentBy \in {None, begunBy[l]}

WebInv ==
  /\ TypeOK
  /\ \A b \in Browsers : CookiesFit(b)
  /\ \A t \in Tabs : TabFits(t)
  /\ \A l \in Logins : CodeFits(l)

-----------------------------------------------------------------------------
(* Types.                                                                  *)

\* A tab belongs to a browser.
LEMMA TabsHaveBrowsers ==
  \A t \in Tabs : BrowserOf[t] \in Browsers /\ BrowserOf[t] # None
  BY WebSessionAssumption DEF Browsers

\* What a tab remembers at a step of the callback, or at a page.
LEMMA AtStep ==
  ASSUME TypeOK, NEW t \in Tabs
  PROVE  /\ tab[t].at = "exchanging" =>
              tab[t].login \in Logins /\ tab[t].code \in Logins
         /\ tab[t].at = "exchanged" =>
              tab[t].login \in Logins /\ tab[t].nonce \in Logins /\ tab[t].token \in Token
         /\ tab[t].at = "page" =>
              /\ tab[t] \in [at : {"page"}, page : {"home", "detail"}, asked : Nat,
                             session : Session, waits : SUBSET {"session", "resource", "audit"}]
              /\ tab[t].session \in Session /\ tab[t].asked \in Nat
              /\ tab[t].waits \subseteq {"session", "resource", "audit"}
<1>1. tab[t] \in TabState
  BY DEF TypeOK
<1> QED
  BY <1>1 DEF TabState

\* A tab at rest.
LEMMA AtRest ==
  \A where \in {"login", "shown", "refused", "forbidden", "failed"} :
    Rest(where) \in TabState /\ Rest(where).at = where
  BY DEF Rest, TabState

-----------------------------------------------------------------------------
(* What time and the other actors do to what a tab or a browser has.       *)

\* A login stays with the browser that began it, a code is not forgotten, and a
\* token stays current: roles change once, and then it is older than the change.
LEMMA Stands ==
  ASSUME WebInv, Next
  PROVE  /\ \A l \in Logins : begunBy[l] # None => begunBy'[l] = begunBy[l]
         /\ \A l \in Logins : code[l] # None => code'[l] # None
         /\ \A token \in Token : Current(token) => Current(token)'
<1>1. ASSUME UNCHANGED <<now, roles, changed>>, NEW token \in Token, Current(token)
      PROVE  Current(token)'
  BY <1>1 DEF Current, Clock
<1>2. CASE Tick
  <2>1. ASSUME NEW token \in Token, Current(token) PROVE Current(token)'
    BY <1>2, <2>1, WebSessionAssumption DEF Tick, Current, Clock, Token, WebInv, TypeOK
  <2> QED
    BY <1>2, <2>1 DEF Tick
<1>3. CASE \E u \in Users : ChangeRoles(u)
  <2>1. PICK u \in Users : ChangeRoles(u)
    BY <1>3
  <2>2. ASSUME NEW token \in Token, Current(token) PROVE Current(token)'
    <3>1. CASE token.user = u
      BY <2>1, <2>2, <3>1, WebSessionAssumption
         DEF ChangeRoles, Current, Clock, Token, WebInv, TypeOK
    <3>2. CASE token.user # u
      BY <2>1, <2>2, <3>2 DEF ChangeRoles, Current, Clock, Token, WebInv, TypeOK
    <3> QED
      BY <3>1, <3>2
  <2> QED
    BY <2>1, <2>2 DEF ChangeRoles
<1>4. CASE \E u \in Users, l \in Logins : Authorize(l, u)
  <2>1. UNCHANGED <<now, roles, changed, begunBy>>
    BY <1>4 DEF Authorize
  <2>2. \A l \in Logins : code[l] # None => code'[l] # None
    BY <1>4 DEF Authorize, WebInv, TypeOK
  <2> QED
    BY <1>1, <2>1, <2>2
<1>5. ASSUME NEW t \in Tabs, Login(t)
      PROVE  /\ \A l \in Logins : begunBy[l] # None => begunBy'[l] = begunBy[l]
             /\ UNCHANGED <<now, roles, changed, code>>
  BY <1>5 DEF Login, WebInv, TypeOK
<1>6. ASSUME NEW t \in Tabs, Exchange(t)
      PROVE  /\ \A l \in Logins : code[l] # None => code'[l] # None
             /\ UNCHANGED <<now, roles, changed, begunBy>>
  <2> DEFINE m == tab[t].code
  <2>1. code' = [code EXCEPT ![m].spentBy = IF @ = None THEN BrowserOf[t] ELSE @]
    BY <1>6 DEF Exchange
  <2>2. m \in Logins /\ code[m] \in Code
    BY <1>6, AtStep DEF Exchange, WebInv, TypeOK, TabFits
  <2>3. code'[m] \in Code
    BY <2>1, <2>2, TabsHaveBrowsers DEF Code, WebInv, TypeOK
  <2> QED
    BY <1>6, <2>1, <2>3, WebSessionAssumption DEF Exchange, WebInv, TypeOK
<1>7. ASSUME NEW t \in Tabs,
             \/ Logout(t) \/ ExchangeFails(t) \/ FinishCallback(t) \/ Answer(t)
             \/ \E l \in Logins : Callback(t, l)
             \/ \E page \in {"home", "detail"} : OpenPage(t, page)
      PROVE  UNCHANGED <<now, roles, changed, code, begunBy>>
  BY <1>7 DEF Logout, ExchangeFails, FinishCallback, Answer, Callback, OpenPage
<1> QED
  BY <1>1, <1>2, <1>3, <1>4, <1>5, <1>6, <1>7 DEF Next

\* So who does not take part in a step keeps what it has in order.
LEMMA Others ==
  ASSUME WebInv, Next
  PROVE  /\ \A t \in Tabs : tab'[t] = tab[t] => TabFits(t)'
         /\ \A b \in Browsers :
              transaction'[b] = transaction[b] /\ session'[b] = session[b]
                => CookiesFit(b)'
<1>1. ASSUME NEW t \in Tabs, tab'[t] = tab[t]
      PROVE  TabFits(t)'
  <2>1. BrowserOf[t] # None
    BY TabsHaveBrowsers
  <2>2. CASE tab[t].at = "exchanging"
    BY <1>1, <2>1, <2>2, AtStep, Stands DEF WebInv, TabFits
  <2>3. CASE tab[t].at = "exchanged"
    BY <1>1, <2>1, <2>3, AtStep, Stands DEF WebInv, TabFits
  <2>4. CASE tab[t].at = "page"
    <3>1. tab[t].session.token \in Token
      BY <2>4, AtStep DEF WebInv, Session
    <3>2. Current(tab[t].session.token)'
      BY <1>1, <2>4, <3>1, Stands DEF WebInv, TabFits
    <3> QED
      BY <1>1, <2>4, <3>2 DEF WebInv, TabFits
  <2> QED
    BY <1>1, <2>2, <2>3, <2>4 DEF TabFits
<1>2. ASSUME NEW b \in Browsers, transaction'[b] = transaction[b], session'[b] = session[b]
      PROVE  CookiesFit(b)'
  <2>1. b # None
    BY WebSessionAssumption
  <2>2. transaction[b] # None => begunBy'[transaction[b].login] = b
    BY <2>1, Stands DEF WebInv, TypeOK, CookiesFit
  <2>3. ASSUME session[b] # None
        PROVE  begunBy'[session[b].login] = b /\ Current(session[b].token)'
    <3>1. session[b] \in Session
      BY <2>3 DEF WebInv, TypeOK
    <3> QED
      BY <1>2, <2>1, <2>3, <3>1, Stands DEF WebInv, CookiesFit, Session
  <2> QED
    BY <1>2, <2>2, <2>3 DEF CookiesFit
<1> QED
  BY <1>1, <1>2

-----------------------------------------------------------------------------
(* The provider.                                                           *)

\* Time, another role and a new code concern nobody's login.
LEMMA ProviderKeeps ==
  ASSUME WebInv, Next,
         Tick \/ \E u \in Users : ChangeRoles(u) \/ \E l \in Logins : Authorize(l, u)
  PROVE  WebInv'
<1>1. UNCHANGED <<tab, transaction, session, begunBy>>
  BY DEF Tick, ChangeRoles, Authorize
<1>2. TypeOK' /\ \A l \in Logins : CodeFits(l)'
  <2>1. CASE Tick
    BY <1>1, <2>1 DEF Tick, WebInv, TypeOK, CodeFits
  <2>2. CASE \E u \in Users : ChangeRoles(u)
    <3>1. PICK u \in Users : ChangeRoles(u)
      BY <2>2
    <3> QED
      BY <1>1, <3>1, WebSessionAssumption DEF ChangeRoles, WebInv, TypeOK, CodeFits
  <2>3. CASE \E u \in Users, l \in Logins : Authorize(l, u)
    BY <1>1, <2>3 DEF Authorize, WebInv, TypeOK, CodeFits, Code
  <2> QED
    BY <2>1, <2>2, <2>3
<1> QED
  BY <1>1, <1>2, Others DEF WebInv

\* The token endpoint spends a code for the browser that began its login, since
\* the tab that brings it has compared the states, and issues a current token.
LEMMA ExchangeKeeps ==
  ASSUME WebInv, Next, NEW t \in Tabs, Exchange(t)
  PROVE  WebInv'
<1> DEFINE l == tab[t].code
           user == code[l].user
<1>1. /\ l \in Logins /\ l = tab[t].login /\ code[l] \in Code
      /\ begunBy[l] = BrowserOf[t] /\ BrowserOf[t] \in Browsers
  BY AtStep, TabsHaveBrowsers DEF Exchange, WebInv, TypeOK, TabFits
<1>2. PICK token \in Token :
        /\ token = [user |-> user, roles |-> roles[user], exp |-> Clock("provider") + Lifetime]
        /\ Current(token)'
  <2>1. PICK token \in Token :
          token = [user |-> user, roles |-> roles[user], exp |-> Clock("provider") + Lifetime]
    <3>1. user \in Users /\ roles[user] \in SUBSET platformRoles
      BY <1>1 DEF Code, WebInv, TypeOK
    <3>2. Clock("provider") + Lifetime \in Int
      BY WebSessionAssumption DEF Clock, WebInv, TypeOK
    <3> QED
      BY <3>1, <3>2 DEF Token
  <2>2. Current(token)
    BY <2>1, WebSessionAssumption DEF Current, Clock, Token, WebInv, TypeOK
  <2> QED
    BY <2>1, <2>2, Stands
<1>3. UNCHANGED <<now, transaction, session, begunBy, roles, changed>>
  BY DEF Exchange
<1>4. PICK next \in TabState :
        /\ tab' = [tab EXCEPT ![t] = next]
        /\ \/ next = Rest("login")
           \/ next = [at |-> "exchanged", login |-> l, nonce |-> l, token |-> token]
  BY <1>1, <1>2, AtRest DEF Exchange, TabState
<1>5. tab' \in [Tabs -> TabState] /\ tab'[t] = next
  BY <1>4 DEF WebInv, TypeOK
<1>6. code' \in [Logins -> Code \cup {None}] /\ \A m \in Logins : CodeFits(m)'
  <2>1. code' = [code EXCEPT ![l].spentBy = IF @ = None THEN BrowserOf[t] ELSE @]
    BY DEF Exchange
  <2>2. /\ code'[l].spentBy \in {None, begunBy[l]} /\ code'[l] \in Code
        /\ code' = [code EXCEPT ![l] = code'[l]]
    BY <1>1, <2>1, WebSessionAssumption DEF Code, CodeFits, WebInv, TypeOK
  <2> QED
    BY <1>1, <1>3, <2>1, <2>2 DEF CodeFits, WebInv, TypeOK
<1>7. TypeOK'
  BY <1>3, <1>5, <1>6 DEF WebInv, TypeOK
<1>8. TabFits(t)'
  BY <1>1, <1>2, <1>3, <1>4, <1>5, AtRest DEF TabFits
<1> QED
  BY <1>3, <1>4, <1>6, <1>7, <1>8, Others DEF WebInv, TypeOK

-----------------------------------------------------------------------------
(* The routes and the pages.                                               *)

\* A step of the web application moves one tab and at most the cookies of its
\* browser.
LEMMA TabStep ==
  ASSUME WebInv, Next, NEW t \in Tabs, NEW next \in TabState,
         tab' = [tab EXCEPT ![t] = next],
         UNCHANGED <<now, begunBy, code, roles, changed>>,
         transaction' = transaction,
         \/ session' = session
         \/ \E s \in Session \cup {None} : session' = [session EXCEPT ![BrowserOf[t]] = s],
         tab'[t] = next => TabFits(t)' /\ CookiesFit(BrowserOf[t])'
  PROVE  WebInv'
<1>1. tab' \in [Tabs -> TabState] /\ tab'[t] = next
  BY DEF WebInv, TypeOK
<1>2. /\ session' \in [Browsers -> Session \cup {None}]
      /\ \A b \in Browsers : b # BrowserOf[t] => session'[b] = session[b]
  BY TabsHaveBrowsers DEF WebInv, TypeOK
<1>3. \A l \in Logins : CodeFits(l)'
  BY DEF WebInv, CodeFits
<1>4. TypeOK'
  BY <1>1, <1>2 DEF WebInv, TypeOK
<1>5. \A q \in Tabs : TabFits(q)'
  <2> SUFFICES ASSUME NEW q \in Tabs, q # t PROVE TabFits(q)'
    BY <1>1
  <2> QED
    BY Others DEF WebInv, TypeOK
<1>6. \A b \in Browsers : CookiesFit(b)'
  <2> SUFFICES ASSUME NEW b \in Browsers, b # BrowserOf[t] PROVE CookiesFit(b)'
    BY <1>1
  <2> QED
    BY <1>2, Others
<1> QED
  BY <1>3, <1>4, <1>5, <1>6 DEF WebInv

\* A tab at rest has nothing to keep in order.
LEMMA RestFits ==
  ASSUME NEW t, NEW where \in {"login", "shown", "refused", "forbidden", "failed"},
         tab'[t] = Rest(where)
  PROVE  TabFits(t)'
  BY AtRest DEF TabFits

\* A login is begun by the browser that gets its transaction.
LEMMA LoginKeeps ==
  ASSUME WebInv, Next, NEW t \in Tabs, Login(t)
  PROVE  WebInv'
<1> DEFINE b == BrowserOf[t]
<1>1. PICK l \in Logins :
        /\ begunBy[l] = None /\ begunBy' = [begunBy EXCEPT ![l] = b]
        /\ transaction' = [transaction EXCEPT ![b] =
                             [login |-> l, until |-> now + TransactionLifetime]]
  BY DEF Login
<1>2. /\ tab' = [tab EXCEPT ![t] = Rest("login")]
      /\ UNCHANGED <<now, session, code, roles, changed>>
  BY DEF Login
<1>3. b \in Browsers
  BY TabsHaveBrowsers
<1>4. [login |-> l, until |-> now + TransactionLifetime] \in [login : Logins, until : Nat]
  BY WebSessionAssumption DEF WebInv, TypeOK
<1>5. TypeOK'
  BY <1>1, <1>2, <1>3, <1>4, AtRest DEF WebInv, TypeOK
<1>6. \A q \in Tabs : TabFits(q)'
  <2>1. tab'[t] = Rest("login") /\ \A q \in Tabs : q # t => tab'[q] = tab[q]
    BY <1>2 DEF WebInv, TypeOK
  <2> QED
    BY <2>1, RestFits, Others
<1>7. CookiesFit(b)'
  <2>1. transaction'[b].login = l /\ begunBy'[l] = b
    BY <1>1, <1>3 DEF WebInv, TypeOK
  <2>2. ASSUME session[b] # None
        PROVE  begunBy'[session[b].login] = b /\ Current(session[b].token)'
    <3>1. session[b] \in Session /\ b # None
      BY <1>3, <2>2, TabsHaveBrowsers DEF WebInv, TypeOK
    <3> QED
      BY <1>2, <1>3, <2>2, <3>1, Stands DEF WebInv, CookiesFit, Session
  <2> QED
    BY <1>2, <2>1, <2>2 DEF CookiesFit
<1>8. \A c \in Browsers : CookiesFit(c)'
  <2> SUFFICES ASSUME NEW c \in Browsers, c # b PROVE CookiesFit(c)'
    BY <1>7
  <2>1. transaction'[c] = transaction[c] /\ session'[c] = session[c]
    BY <1>1, <1>2 DEF WebInv, TypeOK
  <2> QED
    BY <2>1, Others
<1>9. \A m \in Logins : CodeFits(m)'
  BY <1>1, <1>2 DEF WebInv, TypeOK, CodeFits
<1> QED
  BY <1>5, <1>6, <1>8, <1>9 DEF WebInv

\* The callback goes on with a code only if the browser's transaction is of the
\* same login.
LEMMA CallbackKeeps ==
  ASSUME WebInv, Next, NEW t \in Tabs, NEW l \in Logins, Callback(t, l)
  PROVE  WebInv'
<1> DEFINE b == BrowserOf[t]
<1>1. /\ b \in Browsers /\ code[l] # None
      /\ UNCHANGED <<now, transaction, session, begunBy, code, roles, changed>>
  BY TabsHaveBrowsers DEF Callback
<1>2. CookiesFit(b)'
  BY <1>1, Others
<1>3. PICK next \in TabState :
        /\ tab' = [tab EXCEPT ![t] = next]
        /\ \/ next = Rest("login")
           \/ /\ next = [at |-> "exchanging", login |-> l, code |-> l]
              /\ begunBy[l] = b
  <2>1. CASE StateMatches(b, l)
    <3>1. transaction[b].login = l /\ begunBy[l] = b
      BY <1>1, <2>1 DEF StateMatches, TransactionSent, WebInv, CookiesFit
    <3>2. [at |-> "exchanging", login |-> l, code |-> l] \in TabState
      BY DEF TabState
    <3> QED
      BY <2>1, <3>1, <3>2 DEF Callback
  <2>2. CASE ~StateMatches(b, l)
    BY <2>2, AtRest DEF Callback
  <2> QED
    BY <2>1, <2>2
<1>4. tab'[t] = next => TabFits(t)'
  BY <1>1, <1>3, AtRest DEF TabFits
<1> QED
  BY <1>1, <1>2, <1>3, <1>4, TabStep

\* The callback ends with a session of the tab's own login, or with none.
LEMMA FinishKeeps ==
  ASSUME WebInv, Next, NEW t \in Tabs, FinishCallback(t)
  PROVE  WebInv'
<1> DEFINE b == BrowserOf[t]
<1>1. /\ b \in Browsers
      /\ tab[t].login \in Logins /\ tab[t].token \in Token
      /\ begunBy[tab[t].login] = b /\ Current(tab[t].token)
      /\ UNCHANGED <<now, transaction, begunBy, code, roles, changed>>
  BY TabsHaveBrowsers, AtStep DEF FinishCallback, WebInv, TabFits
<1>2. PICK s \in Session : s = SealedSession(tab[t].token, tab[t].login)
  <2>1. now + Lifetime \in Nat
    BY WebSessionAssumption DEF WebInv, TypeOK
  <2> QED
    BY <1>1, <2>1 DEF SealedSession, Session
<1>3. /\ \/ session' = session
         \/ session' = [session EXCEPT ![b] = s]
      /\ \E where \in {"shown", "login"} : tab' = [tab EXCEPT ![t] = Rest(where)]
  BY <1>2 DEF FinishCallback, WebInv, TypeOK
<1>4. CookiesFit(b)'
  <2>1. CASE session' = session
    BY <1>1, <2>1, Others
  <2>2. CASE session' = [session EXCEPT ![b] = s]
    <3>1. session'[b] = s
      BY <1>1, <2>2 DEF WebInv, TypeOK
    <3>2. s.login = tab[t].login /\ s.token = tab[t].token
      BY <1>2 DEF SealedSession
    <3>3. Current(s.token)'
      BY <1>1, <3>2, Stands
    <3>4. transaction[b] # None => begunBy[transaction[b].login] = b
      BY <1>1 DEF WebInv, CookiesFit
    <3> QED
      BY <1>1, <3>1, <3>2, <3>3, <3>4 DEF CookiesFit
  <2> QED
    BY <1>3, <2>1, <2>2
<1>5. PICK where \in {"shown", "login"} : tab' = [tab EXCEPT ![t] = Rest(where)]
  BY <1>3
<1>6. tab'[t] = Rest(where) => TabFits(t)'
  BY RestFits
<1> QED
  BY <1>1, <1>3, <1>4, <1>5, <1>6, AtRest, TabStep

\* A failed exchange and a logout leave nothing.
LEMMA LeavingKeeps ==
  ASSUME WebInv, Next, NEW t \in Tabs, ExchangeFails(t) \/ Logout(t)
  PROVE  WebInv'
<1> DEFINE b == BrowserOf[t]
<1>1. /\ b \in Browsers
      /\ tab' = [tab EXCEPT ![t] = Rest("login")]
      /\ session' = session \/ session' = [session EXCEPT ![b] = None]
      /\ UNCHANGED <<now, transaction, begunBy, code, roles, changed>>
  BY TabsHaveBrowsers DEF ExchangeFails, Logout
<1>2. CookiesFit(b)'
  <2>1. CASE session' = session
    BY <1>1, <2>1, Others
  <2>2. CASE session' = [session EXCEPT ![b] = None]
    <3>1. session'[b] = None
      BY <1>1, <2>2 DEF WebInv, TypeOK
    <3> QED
      BY <1>1, <3>1 DEF WebInv, CookiesFit
  <2> QED
    BY <1>1, <2>1, <2>2
<1>3. tab'[t] = Rest("login") => TabFits(t)'
  BY RestFits
<1> QED
  BY <1>1, <1>2, <1>3, AtRest, TabStep

\* A page takes the session as it is, and the moment it looked.
LEMMA OpenKeeps ==
  ASSUME WebInv, Next, NEW t \in Tabs, NEW page \in {"home", "detail"}, OpenPage(t, page)
  PROVE  WebInv'
<1> DEFINE b == BrowserOf[t]
<1>1. /\ b \in Browsers
      /\ UNCHANGED <<now, transaction, session, begunBy, code, roles, changed>>
  BY TabsHaveBrowsers DEF OpenPage
<1>2. CookiesFit(b)'
  BY <1>1, Others
<1>3. CASE Live(b)
  <2>1. /\ session[b] \in Session /\ session[b] # None
        /\ session[b].expiresAt > now + Margin
        /\ session[b].token \in Token /\ Current(session[b].token)
    BY <1>1, <1>3 DEF Live, WebInv, TypeOK, CookiesFit, Session
  <2>2. PICK next \in TabState :
          next = [at |-> "page", page |-> page, asked |-> now, session |-> session[b],
                  waits |-> FirstCalls]
    BY <2>1 DEF TabState, FirstCalls, WebInv, TypeOK
  <2>3. tab' = [tab EXCEPT ![t] = next]
    BY <1>3, <2>2 DEF OpenPage
  <2>4. Current(session[b].token)'
    BY <1>1, <2>1, Others, <1>2 DEF CookiesFit
  <2>5. tab'[t] = next => TabFits(t)'
    BY <1>1, <2>1, <2>2, <2>4 DEF TabFits, FirstCalls
  <2> QED
    BY <1>1, <1>2, <2>3, <2>5, TabStep
<1>4. CASE ~Live(b)
  <2>1. tab' = [tab EXCEPT ![t] = Rest("login")]
    BY <1>4 DEF OpenPage
  <2>2. tab'[t] = Rest("login") => TabFits(t)'
    BY RestFits
  <2> QED
    BY <1>1, <1>2, <2>1, <2>2, AtRest, TabStep
<1> QED
  BY <1>3, <1>4

\* The calls of a page: what it still waits for after one.
LEMMA AnswerKeeps ==
  ASSUME WebInv, Next, NEW t \in Tabs, Answer(t)
  PROVE  WebInv'
<1> DEFINE b == BrowserOf[t]
           Page == [at : {"page"}, page : {"home", "detail"}, asked : Nat,
                    session : Session, waits : SUBSET {"session", "resource", "audit"}]
<1>1. /\ b \in Browsers
      /\ tab[t] \in Page /\ TabFits(t) /\ tab[t].at = "page"
      /\ UNCHANGED <<now, transaction, session, begunBy, code, roles, changed>>
  BY TabsHaveBrowsers, AtStep DEF Answer, WebInv
<1>2. CookiesFit(b)'
  BY <1>1, Others
<1>3. \/ \E where \in {"shown", "refused", "forbidden", "failed"} :
           tab' = [tab EXCEPT ![t] = Rest(where)]
      \/ \E waits \in SUBSET {"session", "resource", "audit"} :
           /\ tab' = [tab EXCEPT ![t] = [@ EXCEPT !.waits = waits]]
           /\ "audit" \in waits =>
                "audit" \in tab[t].waits \/ CanViewCatalogAudit(tab[t].session.token.roles)
  <2> DEFINE token == tab[t].session.token
             allowed == CanViewCatalogAudit(token.roles)
  <2>1. \/ \E where \in {"shown", "refused", "forbidden", "failed"} :
             tab' = [tab EXCEPT ![t] = Rest(where)]
        \/ \E call \in tab[t].waits :
             \/ tab' = [tab EXCEPT ![t] = [@ EXCEPT !.waits = tab[t].waits \ {call}]]
             \/ /\ AsksForAudit(tab[t].page, call, token)
                /\ tab' = [tab EXCEPT ![t] = [@ EXCEPT !.waits = {"audit"}]]
    BY DEF Answer
  <2>2. tab[t].waits \in SUBSET {"session", "resource", "audit"}
    BY <1>1
  <2>3. CASE \E call \in tab[t].waits :
               tab' = [tab EXCEPT ![t] = [@ EXCEPT !.waits = tab[t].waits \ {call}]]
    <3>1. \A call : tab[t].waits \ {call} \in SUBSET {"session", "resource", "audit"}
      BY <2>2
    <3> QED
      BY <2>3, <3>1
  <2>4. CASE \E call \in tab[t].waits :
               /\ AsksForAudit(tab[t].page, call, token)
               /\ tab' = [tab EXCEPT ![t] = [@ EXCEPT !.waits = {"audit"}]]
    <3>1. allowed
      BY <2>4 DEF AsksForAudit
    <3>2. {"audit"} \in SUBSET {"session", "resource", "audit"}
      OBVIOUS
    <3> QED
      BY <2>4, <3>1, <3>2
  <2> QED
    BY <2>1, <2>3, <2>4
<1>4. CASE \E where \in {"shown", "refused", "forbidden", "failed"} :
             tab' = [tab EXCEPT ![t] = Rest(where)]
  <2>1. PICK where \in {"shown", "refused", "forbidden", "failed"} :
          tab' = [tab EXCEPT ![t] = Rest(where)]
    BY <1>4
  <2>2. tab'[t] = Rest(where) => TabFits(t)'
    BY RestFits
  <2> QED
    BY <1>1, <1>2, <2>1, <2>2, AtRest, TabStep
<1>5. ASSUME NEW waits \in SUBSET {"session", "resource", "audit"},
             tab' = [tab EXCEPT ![t] = [@ EXCEPT !.waits = waits]],
             "audit" \in waits =>
               "audit" \in tab[t].waits \/ CanViewCatalogAudit(tab[t].session.token.roles)
      PROVE  WebInv'
  <2>1. PICK next \in Page : next = [tab[t] EXCEPT !.waits = waits]
    BY <1>1
  <2>2. next \in TabState /\ tab' = [tab EXCEPT ![t] = next]
    BY <1>1, <1>5, <2>1 DEF TabState, WebInv, TypeOK
  <2>3. /\ next.at = "page" /\ next.session = tab[t].session /\ next.asked = tab[t].asked
        /\ next.waits = waits
    BY <1>1, <2>1
  <2>4. tab[t].session.token \in Token
    BY <1>1 DEF Session
  <2>5. Current(next.session.token)'
    BY <1>1, <2>3, <2>4, Stands DEF TabFits
  <2>6. tab'[t] = next => TabFits(t)'
    BY <1>1, <1>5, <2>3, <2>5 DEF TabFits
  <2> QED
    BY <1>1, <1>2, <2>2, <2>6, TabStep
<1> QED
  BY <1>3, <1>4, <1>5

-----------------------------------------------------------------------------
(* The invariant.                                                          *)

\* Nothing has begun.
LEMMA InitInv ==
  ASSUME Init
  PROVE  WebInv
<1>1. TypeOK
  BY AtRest, WebSessionAssumption DEF Init, TypeOK
<1>2. \A t \in Tabs : TabFits(t)
  BY AtRest DEF Init, TabFits
<1> QED
  BY <1>1, <1>2 DEF Init, WebInv, CookiesFit, CodeFits

\* Every step keeps it.
LEMMA StepKeeps ==
  ASSUME WebInv, [Next]_vars
  PROVE  WebInv'
<1>1. CASE UNCHANGED vars
  <2>1. TypeOK'
    BY <1>1 DEF vars, WebInv, TypeOK
  <2>2. \A b \in Browsers : CookiesFit(b)'
    BY <1>1 DEF vars, WebInv, CookiesFit, Current, Clock
  <2>3. \A t \in Tabs : TabFits(t)'
    BY <1>1 DEF vars, WebInv, TabFits, Current, Clock
  <2> QED
    BY <1>1, <2>1, <2>2, <2>3 DEF vars, WebInv, CodeFits
<1>2. ASSUME Next PROVE WebInv'
  <2>1. CASE Tick \/ \E u \in Users : ChangeRoles(u) \/ \E l \in Logins : Authorize(l, u)
    BY <1>2, <2>1, ProviderKeeps
  <2>2. ASSUME NEW t \in Tabs,
               \/ Login(t) \/ Logout(t) \/ Exchange(t) \/ ExchangeFails(t)
               \/ FinishCallback(t) \/ Answer(t)
               \/ \E l \in Logins : Callback(t, l)
               \/ \E page \in {"home", "detail"} : OpenPage(t, page)
        PROVE  WebInv'
    BY <1>2, <2>2, LoginKeeps, LeavingKeeps, ExchangeKeeps, FinishKeeps, AnswerKeeps,
       CallbackKeeps, OpenKeeps
  <2> QED
    BY <1>2, <2>1, <2>2 DEF Next
<1> QED
  BY <1>1, <1>2

\* The invariant holds in every state.
THEOREM WebInductive == Spec => []WebInv
<1>1. Init => WebInv
  BY InitInv
<1>2. WebInv /\ [Next]_vars => WebInv'
  BY StepKeeps
<1> QED
  BY <1>1, <1>2, PTL DEF Spec

\* What a browser, a tab and the provider keep has its type, and the steps of
\* the routes' handlers with it.
THEOREM TypeCorrect == Spec => []TypeOK
<1>1. WebInv => TypeOK
  BY DEF WebInv
<1> QED
  BY <1>1, WebInductive, PTL

\* No redirect, opened in whatever tab and however often, spends a code for
\* another browser or leaves a session of another browser's login.
THEOREM OwnLogins == Spec => []OwnLoginOnly
<1>1. WebInv => OwnLoginOnly
  BY DEF WebInv, OwnLoginOnly, CookiesFit, CodeFits
<1> QED
  BY <1>1, WebInductive, PTL

-----------------------------------------------------------------------------
(* What a page may run into.                                               *)

\* A page moves to another place only by an answer.
LEMMA PageMoves ==
  ASSUME WebInv, [Next]_vars, NEW t \in Tabs, tab[t].at = "page", tab'[t].at # "page"
  PROVE  Answer(t)
<1>1. tab' # tab
  OBVIOUS
<1>2. PICK q \in Tabs :
        \/ Login(q) \/ Logout(q) \/ Exchange(q) \/ ExchangeFails(q) \/ FinishCallback(q)
        \/ Answer(q)
        \/ \E l \in Logins : Callback(q, l)
        \/ \E page \in {"home", "detail"} : OpenPage(q, page)
  BY <1>1 DEF Next, vars, Tick, ChangeRoles, Authorize
<1>3. \E next : tab' = [tab EXCEPT ![q] = next]
  <2>1. CASE Login(q) \/ Logout(q) \/ ExchangeFails(q) \/ FinishCallback(q)
    BY <2>1 DEF Login, Logout, ExchangeFails, FinishCallback
  <2>2. CASE Exchange(q)
    BY <2>2 DEF Exchange
  <2>3. CASE \E l \in Logins : Callback(q, l)
    BY <2>3 DEF Callback
  <2>4. CASE \E page \in {"home", "detail"} : OpenPage(q, page)
    BY <2>4 DEF OpenPage
  <2>5. CASE Answer(q)
    BY <2>5 DEF Answer
  <2> QED
    BY <1>2, <2>1, <2>2, <2>3, <2>4, <2>5
<1>4. q = t
  BY <1>3 DEF WebInv, TypeOK
<1> QED
  BY <1>2, <1>4 DEF Login, Logout, Exchange, ExchangeFails, FinishCallback, Callback,
                    OpenPage, Free

\* An answer refuses a token the control plane does not accept, forbids what it
\* accepts and does not admit, and shows a page only with a token it accepts.
LEMMA Judged ==
  ASSUME WebInv, NEW t \in Tabs, Answer(t)
  PROVE  LET token == tab[t].session.token IN
         /\ tab'[t].at = "refused" => ~Accepts(token)
         /\ tab'[t].at = "shown" => Accepts(token)
         /\ tab'[t].at = "forbidden" =>
              Accepts(token) /\ \E call \in tab[t].waits : ~Admits(token, call)
<1> DEFINE token == tab[t].session.token
<1>1. CASE tab' = [tab EXCEPT ![t] = Rest("failed")]
  <2>1. tab'[t].at = "failed"
    BY <1>1, AtRest DEF WebInv, TypeOK
  <2> QED
    BY <2>1
<1>2. CASE tab' # [tab EXCEPT ![t] = Rest("failed")]
  <2>1. PICK call \in tab[t].waits :
          LET left  == tab[t].waits \ {call}
              audit == AsksForAudit(tab[t].page, call, token)
          IN tab' = [tab EXCEPT ![t] =
               IF ~Accepts(token) THEN Rest("refused")
               ELSE IF ~Admits(token, call) THEN Rest("forbidden")
               ELSE IF left # {} THEN [@ EXCEPT !.waits = left]
               ELSE IF audit THEN [@ EXCEPT !.waits = {"audit"}]
               ELSE Rest("shown")]
    BY <1>2 DEF Answer
  <2>2. tab[t] \in [at : {"page"}, page : {"home", "detail"}, asked : Nat,
                   session : Session, waits : SUBSET {"session", "resource", "audit"}]
    BY AtStep DEF Answer, WebInv
  <2>3. \A waits : [tab[t] EXCEPT !.waits = waits].at = "page"
    BY <2>2
  <2>4. tab'[t] = IF ~Accepts(token) THEN Rest("refused")
                 ELSE IF ~Admits(token, call) THEN Rest("forbidden")
                 ELSE IF tab[t].waits \ {call} # {}
                      THEN [tab[t] EXCEPT !.waits = tab[t].waits \ {call}]
                 ELSE IF AsksForAudit(tab[t].page, call, token)
                      THEN [tab[t] EXCEPT !.waits = {"audit"}]
                 ELSE Rest("shown")
    BY <2>1 DEF WebInv, TypeOK
  <2>5. CASE ~Accepts(token)
    BY <2>4, <2>5, AtRest
  <2>6. CASE Accepts(token) /\ ~Admits(token, call)
    BY <2>4, <2>6, AtRest
  <2>7. CASE Accepts(token) /\ Admits(token, call)
    <3>1. tab'[t].at \in {"page", "shown"}
      BY <2>3, <2>4, <2>7, AtRest
    <3> QED
      BY <2>7, <3>1
  <2> QED
    BY <2>5, <2>6, <2>7
<1> QED
  BY <1>1, <1>2

\* A page asks for nothing it may not have; and a token outlives the session made
\* of it but for the time the exchange took and the skew of the clocks, so it is
\* found expired only if the exchange and the page took longer than what the margin
\* and the tolerance leave of that.
THEOREM PagesServed == Spec => PagesAreServed
<1> DEFINE Served(t) ==
      tab[t].at = "page" =>
        /\ tab'[t].at # "forbidden"
        /\ tab'[t].at = "refused" =>
             LET s == tab[t].session
                 exchange == s.expiresAt - (s.token.exp - Ahead["provider"])
                 page     == now - tab[t].asked
             IN exchange + page > Margin + Tolerance + Skew
<1>1. ASSUME WebInv, [Next]_vars, NEW t \in Tabs PROVE Served(t)
  <2> SUFFICES ASSUME tab[t].at = "page", tab'[t].at \in {"forbidden", "refused"}
               PROVE  Served(t)
    OBVIOUS
  <2> DEFINE s == tab[t].session
  <2>1. Answer(t)
    BY <1>1, PageMoves
  <2>2. TabFits(t) /\ s \in Session /\ tab[t].asked \in Nat
        /\ tab[t].waits \subseteq {"session", "resource", "audit"}
    BY <1>1, AtStep DEF WebInv
  <2>3. tab'[t].at # "forbidden"
    <3> SUFFICES ASSUME tab'[t].at = "forbidden" PROVE FALSE
      OBVIOUS
    <3>1. PICK call \in tab[t].waits : Accepts(s.token) /\ ~Admits(s.token, call)
      BY <1>1, <2>1, Judged
    <3> QED
      BY <2>2, <3>1 DEF TabFits, Admits, RequiredByApi, CanViewCatalogAudit, HasRequiredRole
  <2>4. ~Accepts(s.token)
    BY <1>1, <2>1, <2>3, Judged
  <2>5. /\ s.expiresAt \in Nat /\ s.token.exp \in Int /\ now \in Nat
        /\ Ahead["provider"] \in Int /\ Ahead["api"] \in Int
    BY <1>1, <2>2, WebSessionAssumption DEF Session, Token, WebInv, TypeOK
  <2>6. /\ s.expiresAt > tab[t].asked + Margin
        /\ s.token.exp <= now + Ahead["api"] - Tolerance
    BY <2>2, <2>4, <2>5, WebSessionAssumption DEF TabFits, Accepts, TokenHolds, Clock
  <2> QED
    BY <2>2, <2>3, <2>5, <2>6, WebSessionAssumption DEF Skew
<1>2. WebInv /\ [Next]_vars => [\A t \in Tabs : Served(t)]_vars
  BY <1>1
<1> QED
  BY <1>2, WebInductive, PTL DEF Spec, PagesAreServed

\* Roles that differ from those in the token changed after it was issued, and it
\* is still accepted: that is one lifetime, the tolerance and the skew of the clocks
\* ago at most.
THEOREM RolesFade == Spec => FormerRolesFade
<1> DEFINE Fading(t) ==
      tab[t].at = "page" /\ tab'[t].at = "shown" =>
        LET token == tab[t].session.token IN
        token.roles # roles[token.user] =>
          now < changed[token.user] + Lifetime + Tolerance + Skew
<1>1. ASSUME WebInv, [Next]_vars, NEW t \in Tabs PROVE Fading(t)
  <2> DEFINE token == tab[t].session.token
  <2> SUFFICES ASSUME tab[t].at = "page", tab'[t].at = "shown",
                      token.roles # roles[token.user]
               PROVE  now < changed[token.user] + Lifetime + Tolerance + Skew
    OBVIOUS
  <2>1. Accepts(token)
    BY <1>1, PageMoves, Judged
  <2>2. Current(token) /\ token \in Token
    BY <1>1, AtStep DEF WebInv, TabFits, Session
  <2>3. /\ changed[token.user] \in Nat /\ now \in Nat /\ token.exp \in Int
        /\ Ahead["provider"] \in Int /\ Ahead["api"] \in Int
    BY <1>1, <2>2, WebSessionAssumption DEF Current, Token, WebInv, TypeOK
  <2> QED
    BY <2>1, <2>2, <2>3, WebSessionAssumption DEF Current, Accepts, TokenHolds, Clock, Skew
<1>2. WebInv /\ [Next]_vars => [\A t \in Tabs : Fading(t)]_vars
  BY <1>1
<1> QED
  BY <1>2, WebInductive, PTL DEF Spec, FormerRolesFade
=============================================================================

------------------------- MODULE AuthSessionProofs -------------------------
(***************************************************************************)
(* Proofs about the stored session, for any commands and users, any number *)
(* of tokens and callback servers.                                         *)
(***************************************************************************)
EXTENDS AuthSessionProps, TLAPS

\* A session is of an issued token and of its user, or of nobody.
Genuine(s) == s.token \in Issued /\ s.user \in {owner[s.token], Nobody}

\* A refresh has begun with such a session, the auto-refresh with one about to
\* expire, and the answer to it is for the same user.
RefreshInv ==
    /\ \A p \in Procs : pc[p] = "refresh" => loaded[p] # NoSession /\ Genuine(loaded[p])
    /\ \A p \in Procs : reply[p] # 0 => owner[reply[p]] = owner[loaded[p].token]
    /\ pc["auto"] = "refresh" => loaded["auto"].token \in expiring

AuthInv == TypeOK /\ IdentityMatchesToken /\ RefreshInv

\* Tokens are only ever added.
Grown ==
    /\ owner' \in Seq(Users) /\ Len(owner') <= MaxTokens
    /\ Issued \subseteq Issued' /\ \A n \in Issued : owner'[n] = owner[n]
    /\ expiring \subseteq expiring' /\ expiring' \subseteq Issued'

----------------------------------------------------------------------------
\* A session has a user and a token, and is not the absent one.
LEMMA SessionIs ==
    ASSUME NEW u \in Users \union {Nobody}, NEW n \in 1 .. MaxTokens
    PROVE  /\ Session(u, n) \in AllSessions /\ Session(u, n) # NoSession
           /\ Session(u, n).user = u /\ Session(u, n).token = n
  BY AuthAssumption DEF AllSessions, Session

\* Tokens are numbered from 1.
LEMMA Tokens == ASSUME TypeOK PROVE Issued = 1 .. Len(owner) /\ Issued \subseteq 1 .. MaxTokens
  BY AuthAssumption DEF TypeOK, Issued

\* A further token does not disturb those that were issued.
LEMMA Issuing ==
    ASSUME TypeOK, NEW u \in Users, Len(owner) < MaxTokens, owner' = Append(owner, u)
    PROVE  /\ owner' \in Seq(Users) /\ Len(owner') <= MaxTokens
           /\ NewToken \notin Issued /\ NewToken \in 1 .. MaxTokens /\ NewToken # 0
           /\ Issued' = Issued \union {NewToken}
           /\ owner'[NewToken] = u
           /\ \A n \in Issued : owner'[n] = owner[n]
           /\ expiring' = expiring => Grown
  BY AuthAssumption DEF TypeOK, Issued, NewToken, Grown

\* What is stored instead of a session retires its token.
LEMMA Retiring ==
    ASSUME TypeOK, IdentityMatchesToken, Grown, NEW s, Store(s)
    PROVE  stored' = s /\ retired' \in SUBSET Issued'
  BY DEF Store, TypeOK, IdentityMatchesToken, Grown

LEMMA NothingRetires ==
    ASSUME TypeOK, Grown, retired' = retired PROVE retired' \in SUBSET Issued'
  BY DEF TypeOK, Grown

LEMMA NoIssue ==
    ASSUME TypeOK, UNCHANGED <<owner, expiring>> PROVE Grown /\ Issued' = Issued
  BY DEF TypeOK, Issued, Grown

\* One that does nothing but begin keeps the invariant, if what it loads is genuine.
LEMMA BeginKeepsInv ==
    ASSUME AuthInv, NEW p \in Procs, NEW what \in Awaits, NEW s \in AllSessions,
           Begin(p, what, s), UNCHANGED <<storedVars, owner>>,
           UNCHANGED redirect,
           server' \in [Servers -> ServerStates],
           waits' \in [Callers -> Servers \union {0}],
           \A c \in Callers : (waits'[c] # 0) <=> (pc'[c] = "browser"),
           what # "idle",
           what # "refresh" => s = NoSession,
           what = "refresh" => s # NoSession /\ Genuine(s),
           p = "auto" => what = "refresh" /\ s.token \in expiring
    PROVE  AuthInv'
  <1>1. /\ pc[p] = "idle" /\ pc' = [pc EXCEPT ![p] = what]
        /\ loaded' = [loaded EXCEPT ![p] = s] /\ reply' = reply
        /\ stored' = stored /\ retired' = retired
        /\ expiring' = expiring /\ owner' = owner /\ redirect' = redirect
    BY DEF Begin, storedVars, sessionVars
  <1>2. Issued' = Issued
    BY <1>1 DEF Issued
  <1>3. reply[p] = 0
    BY <1>1 DEF AuthInv, TypeOK
  <1>4. TypeOK'
    BY <1>1, <1>2, <1>3 DEF AuthInv, TypeOK
  <1>5. IdentityMatchesToken'
    BY <1>1, <1>2 DEF AuthInv, IdentityMatchesToken
  <1>6. RefreshInv'
    <2>1. ASSUME NEW q \in Procs, pc'[q] = "refresh"
          PROVE  loaded'[q] # NoSession /\ Genuine(loaded[q])'
      BY <1>1, <1>2, <2>1 DEF AuthInv, TypeOK, RefreshInv, Genuine
    <2>2. ASSUME NEW q \in Procs, reply'[q] # 0
          PROVE  owner'[reply'[q]] = owner'[loaded'[q].token]
      BY <1>1, <1>3, <2>2 DEF AuthInv, TypeOK, RefreshInv
    <2>3. pc'["auto"] = "refresh" => loaded'["auto"].token \in expiring'
      BY <1>1 DEF AuthInv, TypeOK, RefreshInv, Procs
    <2> QED
      BY <2>1, <2>2, <2>3 DEF RefreshInv
  <1> QED
    BY <1>4, <1>5, <1>6 DEF AuthInv

\* One that ends keeps the invariant, whatever it has stored and issued.
LEMMA EndKeepsInv ==
    ASSUME AuthInv, NEW p \in Procs, End(p), Grown, redirect' = redirect,
           stored' \in AllSessions, retired' \in SUBSET Issued', IdentityMatchesToken',
           server' \in [Servers -> ServerStates],
           waits' \in [Callers -> Servers \union {0}],
           \A c \in Callers : (waits'[c] # 0) <=> (pc'[c] = "browser")
    PROVE  AuthInv'
  <1>1. /\ pc' = [pc EXCEPT ![p] = "idle"]
        /\ loaded' = [loaded EXCEPT ![p] = NoSession] /\ reply' = [reply EXCEPT ![p] = 0]
    BY DEF End
  <1>2. TypeOK'
    BY <1>1 DEF AuthInv, TypeOK, Awaits, AllSessions, Grown
  <1>3. RefreshInv'
    <2>1. ASSUME NEW q \in Procs, pc'[q] = "refresh"
          PROVE  loaded'[q] # NoSession /\ Genuine(loaded[q])'
      BY <1>1, <2>1 DEF AuthInv, TypeOK, RefreshInv, Genuine, Grown
    <2>2. ASSUME NEW q \in Procs, reply'[q] # 0
          PROVE  owner'[reply'[q]] = owner'[loaded'[q].token]
      <3>1. q # p /\ reply'[q] = reply[q] /\ loaded'[q] = loaded[q] /\ pc[q] = "refresh"
        BY <1>1, <2>2 DEF AuthInv, TypeOK
      <3>2. reply[q] \in Issued /\ loaded[q].token \in Issued
        BY <2>2, <3>1 DEF AuthInv, TypeOK, RefreshInv, Genuine
      <3> QED
        BY <2>2, <3>1, <3>2 DEF AuthInv, RefreshInv, Grown
    <2>3. pc'["auto"] = "refresh" => loaded'["auto"].token \in expiring'
      BY <1>1 DEF AuthInv, TypeOK, RefreshInv, Procs, Grown
    <2> QED
      BY <2>1, <2>2, <2>3 DEF RefreshInv
  <1> QED
    BY <1>2, <1>3 DEF AuthInv

\* A step that no command and no refresh takes part in.
LEMMA OthersKeepInv ==
    ASSUME AuthInv, UNCHANGED <<procVars, waits>>, Grown,
           stored' \in AllSessions, retired' \in SUBSET Issued', IdentityMatchesToken',
           redirect' \in [Servers -> Issued' \union {0}],
           server' \in [Servers -> ServerStates]
    PROVE  AuthInv'
  <1>1. pc' = pc /\ loaded' = loaded /\ reply' = reply /\ waits' = waits
    BY DEF procVars
  <1>2. TypeOK'
    BY <1>1 DEF AuthInv, TypeOK, Grown
  <1>3. RefreshInv'
    <2>1. ASSUME NEW q \in Procs, reply[q] # 0
          PROVE  reply[q] \in Issued /\ loaded[q].token \in Issued
      BY <2>1 DEF AuthInv, TypeOK, RefreshInv, Genuine
    <2> QED
      BY <1>1, <2>1 DEF AuthInv, RefreshInv, Genuine, Grown
  <1> QED
    BY <1>2, <1>3 DEF AuthInv

----------------------------------------------------------------------------
\* A token is issued and stored under the name of its user, or under none.
LEMMA IssueStores ==
    ASSUME AuthInv, NEW u \in Users, NEW name \in {u, Nobody}, Issue(u, name),
           expiring' \in {expiring, expiring \union {NewToken}}
    PROVE  /\ Grown /\ IdentityMatchesToken'
           /\ stored' \in AllSessions /\ retired' \in SUBSET Issued'
           /\ Issued' = Issued \union {NewToken} /\ owner'[NewToken] = u
  <1>1. /\ Len(owner) < MaxTokens /\ owner' = Append(owner, u)
        /\ Store(Session(name, NewToken)) /\ stored' = Session(name, NewToken)
    BY DEF Issue, Store
  <1>2. TypeOK
    BY DEF AuthInv
  <1>3. /\ owner' \in Seq(Users) /\ Len(owner') <= MaxTokens
        /\ NewToken \in 1 .. MaxTokens
        /\ Issued' = Issued \union {NewToken} /\ owner'[NewToken] = u
        /\ \A n \in Issued : owner'[n] = owner[n]
    BY <1>1, <1>2, Issuing
  <1>4. stored' \in AllSessions /\ stored'.user = name /\ stored'.token = NewToken
    BY <1>1, <1>3, SessionIs
  <1>5. Grown
    BY <1>2, <1>3 DEF Grown, TypeOK
  <1>6. IdentityMatchesToken'
    BY <1>3, <1>4 DEF IdentityMatchesToken
  <1>7. retired' \in SUBSET Issued'
    BY <1>1, <1>2, <1>5, Retiring DEF AuthInv
  <1> QED
    BY <1>3, <1>4, <1>5, <1>6, <1>7

\* A step of one process that leaves the callback servers alone and is not a browser login.
LEMMA CallbacksStay ==
    ASSUME AuthInv, UNCHANGED callbackVars, NEW p \in Procs, NEW what, what # "browser",
           pc' = [pc EXCEPT ![p] = what], pc[p] # "browser"
    PROVE  /\ redirect' = redirect
           /\ server' \in [Servers -> ServerStates]
           /\ waits' \in [Callers -> Servers \union {0}]
           /\ \A c \in Callers : (waits'[c] # 0) <=> (pc'[c] = "browser")
  BY DEF AuthInv, TypeOK, callbackVars, Procs

LEMMA LoginKeepsInv == ASSUME AuthInv, NEW c \in Callers, Login(c) PROVE AuthInv'
  <1>1. Begin(c, "login", NoSession) /\ UNCHANGED <<storedVars, owner, callbackVars>>
    BY DEF Login
  <1>2. NoSession \in AllSessions /\ c \in Procs /\ c # "auto" /\ "login" \in Awaits
    BY AuthAssumption DEF AllSessions, Procs, Awaits
  <1>3. pc[c] = "idle" /\ pc' = [pc EXCEPT ![c] = "login"]
    BY <1>1 DEF Begin
  <1> QED
    BY <1>1, <1>2, <1>3, CallbacksStay, BeginKeepsInv

LEMMA LogoutKeepsInv == ASSUME AuthInv, NEW c \in Callers, Logout(c) PROVE AuthInv'
  <1>1. Begin(c, "logout", NoSession) /\ UNCHANGED <<storedVars, owner, callbackVars>>
    BY DEF Logout
  <1>2. NoSession \in AllSessions /\ c \in Procs /\ c # "auto" /\ "logout" \in Awaits
    BY AuthAssumption DEF AllSessions, Procs, Awaits
  <1>3. pc[c] = "idle" /\ pc' = [pc EXCEPT ![c] = "logout"]
    BY <1>1 DEF Begin
  <1> QED
    BY <1>1, <1>2, <1>3, CallbacksStay, BeginKeepsInv

LEMMA BrowserLoginKeepsInv == ASSUME AuthInv, NEW c \in Callers, BrowserLogin(c) PROVE AuthInv'
  <1>1. PICK s \in Servers :
            /\ server' = [server EXCEPT ![s] = "listening"]
            /\ waits' = [waits EXCEPT ![c] = s]
    BY DEF BrowserLogin
  <1>2. Begin(c, "browser", NoSession) /\ UNCHANGED <<storedVars, owner, redirect>>
    BY DEF BrowserLogin
  <1>3. NoSession \in AllSessions /\ c \in Procs /\ c # "auto" /\ "browser" \in Awaits
    BY AuthAssumption DEF AllSessions, Procs, Awaits
  <1>4. s # 0
    BY AuthAssumption DEF Servers
  <1>5. pc[c] = "idle" /\ pc' = [pc EXCEPT ![c] = "browser"]
    BY <1>2 DEF Begin
  <1>6. /\ \A d \in Callers : (waits'[d] # 0) <=> (pc'[d] = "browser")
        /\ server' \in [Servers -> ServerStates]
        /\ waits' \in [Callers -> Servers \union {0}]
    BY <1>1, <1>3, <1>4, <1>5 DEF AuthInv, TypeOK, ServerStates
  <1> QED
    BY <1>2, <1>3, <1>6, BeginKeepsInv

\* What is stored is genuine, so a refresh may begin with it.
LEMMA StoredIsGenuine ==
    ASSUME AuthInv, stored # NoSession PROVE stored \in AllSessions /\ Genuine(stored)
  BY DEF AuthInv, TypeOK, IdentityMatchesToken, Genuine

LEMMA RefreshKeepsInv == ASSUME AuthInv, NEW c \in Callers, Refresh(c) PROVE AuthInv'
  <1>1. /\ Begin(c, "refresh", stored) /\ UNCHANGED <<storedVars, owner, callbackVars>>
        /\ stored # NoSession
    BY DEF Refresh
  <1>2. c \in Procs /\ c # "auto" /\ "refresh" \in Awaits
    BY AuthAssumption DEF Procs, Awaits
  <1>3. pc[c] = "idle" /\ pc' = [pc EXCEPT ![c] = "refresh"]
    BY <1>1 DEF Begin
  <1> QED
    BY <1>1, <1>2, <1>3, StoredIsGenuine, CallbacksStay, BeginKeepsInv

LEMMA AutoTickKeepsInv == ASSUME AuthInv, AutoTick PROVE AuthInv'
  <1>1. /\ Begin("auto", "refresh", stored) /\ UNCHANGED <<storedVars, owner, callbackVars>>
        /\ stored # NoSession /\ stored.token \in expiring
    BY DEF AutoTick, Due
  <1>2. "auto" \in Procs /\ "refresh" \in Awaits
    BY DEF Procs, Awaits
  <1>3. pc["auto"] = "idle" /\ pc' = [pc EXCEPT !["auto"] = "refresh"]
    BY <1>1 DEF Begin
  <1> QED
    BY <1>1, <1>2, <1>3, StoredIsGenuine, CallbacksStay, BeginKeepsInv

----------------------------------------------------------------------------
LEMMA LoginReturnsKeepsInv == ASSUME AuthInv, NEW c \in Callers, LoginReturns(c) PROVE AuthInv'
  <1>1. pc[c] = "login" /\ End(c) /\ UNCHANGED callbackVars /\ c \in Procs
    BY DEF LoginReturns, Procs
  <1>2. pc' = [pc EXCEPT ![c] = "idle"]
    BY <1>1 DEF End
  <1>3. /\ Grown /\ stored' \in AllSessions /\ retired' \in SUBSET Issued'
        /\ IdentityMatchesToken'
    <2>1. CASE \E u \in Users : Registered(u) \/ LoggedIn(u)
      <3>1. PICK u \in Users : Registered(u) \/ LoggedIn(u)
        BY <2>1
      <3>2. PICK name \in {u, Nobody} :
                Issue(u, name) /\ expiring' \in {expiring, expiring \union {NewToken}}
        BY <3>1 DEF Registered, LoggedIn, Legacy
      <3> QED
        BY <3>2, IssueStores
    <2>2. CASE UNCHANGED <<storedVars, owner>>
      <3>1. Grown /\ Issued' = Issued /\ UNCHANGED <<stored, retired, owner>>
        BY <2>2, NoIssue DEF AuthInv, storedVars, sessionVars
      <3> QED
        BY <2>2, <3>1, NothingRetires DEF AuthInv, TypeOK, IdentityMatchesToken
    <2> QED
      BY <2>1, <2>2 DEF LoginReturns
  <1> QED
    BY <1>1, <1>2, <1>3, CallbacksStay, EndKeepsInv

LEMMA LogoutReturnsKeepsInv == ASSUME AuthInv, NEW c \in Callers, LogoutReturns(c) PROVE AuthInv'
  <1>1. /\ pc[c] = "logout" /\ End(c) /\ UNCHANGED <<expiring, owner, callbackVars>>
        /\ Store(NoSession) /\ stored' = NoSession /\ c \in Procs
    BY DEF LogoutReturns, Procs, Store
  <1>2. pc' = [pc EXCEPT ![c] = "idle"]
    BY <1>1 DEF End
  <1>3. Grown /\ stored' \in AllSessions /\ IdentityMatchesToken'
    BY <1>1, NoIssue DEF AuthInv, IdentityMatchesToken, AllSessions
  <1>4. retired' \in SUBSET Issued'
    BY <1>1, <1>3, Retiring DEF AuthInv
  <1> QED
    BY <1>1, <1>2, <1>3, <1>4, CallbacksStay, EndKeepsInv

\* The answer is of the user of the session the refresh began with, and stored under the
\* name of that session.
LEMMA RefreshReturnsKeepsInv == ASSUME AuthInv, NEW p \in Procs, RefreshReturns(p) PROVE AuthInv'
  <1>1. /\ pc[p] = "refresh" /\ reply[p] # 0 /\ stored' = Session(loaded[p].user, reply[p])
        /\ Store(Session(loaded[p].user, reply[p]))
        /\ End(p) /\ UNCHANGED <<expiring, owner, callbackVars>>
    BY DEF RefreshReturns, Answered, Preserved, Store
  <1>2. pc' = [pc EXCEPT ![p] = "idle"]
    BY <1>1 DEF End
  <1>3. Grown /\ Issued' = Issued
    BY <1>1, NoIssue DEF AuthInv
  <1>4. reply[p] \in Issued /\ Issued \subseteq 1 .. MaxTokens
    BY <1>1, Tokens DEF AuthInv, TypeOK
  <1>5. loaded[p].user \in {owner[reply[p]], Nobody} /\ owner[reply[p]] \in Users
    BY <1>1, <1>4 DEF AuthInv, TypeOK, RefreshInv, Genuine, Issued
  <1>6. stored' \in AllSessions /\ stored'.user = loaded[p].user /\ stored'.token = reply[p]
    BY <1>1, <1>4, <1>5, SessionIs
  <1>7. IdentityMatchesToken'
    BY <1>1, <1>3, <1>4, <1>5, <1>6 DEF IdentityMatchesToken
  <1>8. retired' \in SUBSET Issued'
    BY <1>1, <1>3, Retiring DEF AuthInv
  <1> QED
    BY <1>1, <1>2, <1>3, <1>6, <1>7, <1>8, CallbacksStay, EndKeepsInv

LEMMA RefreshFailsKeepsInv == ASSUME AuthInv, NEW p \in Procs, RefreshFails(p) PROVE AuthInv'
  <1>1. /\ pc[p] = "refresh" /\ stored' \in {stored, NoSession} /\ Store(stored')
        /\ End(p) /\ UNCHANGED <<expiring, owner, callbackVars>>
    BY DEF RefreshFails, AfterFailure, Store
  <1>2. pc' = [pc EXCEPT ![p] = "idle"]
    BY <1>1 DEF End
  <1>3. Grown /\ stored' \in AllSessions /\ IdentityMatchesToken'
    BY <1>1, NoIssue DEF AuthInv, TypeOK, IdentityMatchesToken, AllSessions
  <1>4. retired' \in SUBSET Issued'
    BY <1>1, <1>3, Retiring DEF AuthInv
  <1> QED
    BY <1>1, <1>2, <1>3, <1>4, CallbacksStay, EndKeepsInv

LEMMA BrowserReturnsKeepsInv == ASSUME AuthInv, NEW c \in Callers, BrowserReturns(c) PROVE AuthInv'
  <1>1. /\ pc[c] = "browser" /\ waits' = [waits EXCEPT ![c] = 0] /\ c \in Procs
        /\ End(c) /\ UNCHANGED <<storedVars, owner, redirect>>
        /\ server' = [server EXCEPT ![waits[c]] = IF redirect[waits[c]] # 0 THEN "aborted" ELSE @]
    BY DEF BrowserReturns, Procs
  <1>2. pc' = [pc EXCEPT ![c] = "idle"]
    BY <1>1 DEF End
  <1>3. /\ Grown /\ stored' \in AllSessions /\ IdentityMatchesToken'
        /\ retired' \in SUBSET Issued'
    BY <1>1, NoIssue, NothingRetires DEF AuthInv, TypeOK, IdentityMatchesToken, storedVars,
                                         sessionVars
  <1>4. /\ server' \in [Servers -> ServerStates]
        /\ waits' \in [Callers -> Servers \union {0}]
        /\ \A d \in Callers : (waits'[d] # 0) <=> (pc'[d] = "browser")
    BY <1>1, <1>2 DEF AuthInv, TypeOK, ServerStates
  <1> QED
    BY <1>1, <1>3, <1>4, EndKeepsInv

----------------------------------------------------------------------------
LEMMA CloudRefreshesKeepsInv == ASSUME AuthInv, NEW p \in Procs, CloudRefreshes(p) PROVE AuthInv'
  <1>1. /\ pc[p] = "refresh" /\ reply[p] = 0 /\ Len(owner) < MaxTokens
        /\ owner' = Append(owner, owner[loaded[p].token])
        /\ reply' = [reply EXCEPT ![p] = NewToken]
        /\ UNCHANGED <<storedVars, pc, loaded, callbackVars>>
    BY DEF CloudRefreshes
  <1>2. loaded[p].token \in Issued /\ owner[loaded[p].token] \in Users
    BY <1>1 DEF AuthInv, TypeOK, RefreshInv, Genuine, Issued
  <1>3. /\ NewToken \notin Issued /\ NewToken \in 1 .. MaxTokens
        /\ Issued' = Issued \union {NewToken} /\ owner'[NewToken] = owner[loaded[p].token]
        /\ \A n \in Issued : owner'[n] = owner[n]
        /\ Grown
    BY <1>1, <1>2, Issuing DEF AuthInv, storedVars, sessionVars
  <1>4. TypeOK'
    BY <1>1, <1>3 DEF AuthInv, TypeOK, Grown, storedVars, sessionVars, callbackVars
  <1>5. IdentityMatchesToken'
    BY <1>1, <1>3 DEF AuthInv, IdentityMatchesToken, storedVars, sessionVars
  <1>6. RefreshInv'
    <2>1. ASSUME NEW q \in Procs, pc'[q] = "refresh"
          PROVE  loaded'[q] # NoSession /\ Genuine(loaded[q])'
      BY <1>1, <1>3, <2>1 DEF AuthInv, RefreshInv, Genuine
    <2>2. ASSUME NEW q \in Procs, reply'[q] # 0
          PROVE  owner'[reply'[q]] = owner'[loaded'[q].token]
      <3>1. CASE q = p
        BY <1>1, <1>2, <1>3, <3>1 DEF AuthInv, TypeOK
      <3>2. CASE q # p
        <4>1. reply'[q] = reply[q] /\ reply[q] \in Issued
          BY <1>1, <2>2, <3>2 DEF AuthInv, TypeOK
        <4>2. loaded[q].token \in Issued
          BY <2>2, <4>1 DEF AuthInv, TypeOK, RefreshInv, Genuine
        <4>3. owner[reply[q]] = owner[loaded[q].token]
          BY <2>2, <4>1 DEF AuthInv, RefreshInv
        <4>4. loaded'[q] = loaded[q] /\ \A n \in Issued : owner'[n] = owner[n]
          BY <1>1, <1>3
        <4> QED
          BY <4>1, <4>2, <4>3, <4>4
      <3> QED
        BY <3>1, <3>2
    <2>3. pc'["auto"] = "refresh" => loaded'["auto"].token \in expiring'
      BY <1>1 DEF AuthInv, RefreshInv, storedVars, sessionVars
    <2> QED
      BY <2>1, <2>2, <2>3 DEF RefreshInv
  <1> QED
    BY <1>4, <1>5, <1>6 DEF AuthInv

LEMMA CallbackKeepsInv == ASSUME AuthInv, NEW s \in Servers, Callback(s) PROVE AuthInv'
  <1>1. UNCHANGED <<expiring, procVars, server, waits>>
    BY DEF Callback
  <1>2. server' \in [Servers -> ServerStates]
    BY <1>1 DEF AuthInv, TypeOK
  <1>3. CASE \E u \in Users : Issue(u, u) /\ redirect' = [redirect EXCEPT ![s] = NewToken]
    <2>1. PICK u \in Users : Issue(u, u) /\ redirect' = [redirect EXCEPT ![s] = NewToken]
      BY <1>3
    <2>2. /\ Grown /\ IdentityMatchesToken' /\ stored' \in AllSessions
          /\ retired' \in SUBSET Issued' /\ Issued' = Issued \union {NewToken}
      BY <1>1, <2>1, IssueStores
    <2>3. redirect' \in [Servers -> Issued' \union {0}]
      BY <2>1, <2>2 DEF AuthInv, TypeOK
    <2> QED
      BY <1>1, <1>2, <2>2, <2>3, OthersKeepInv
  <1>4. CASE /\ redirect[s] # 0
             /\ Store(Session(owner[redirect[s]], redirect[s]))
             /\ UNCHANGED <<owner, redirect>>
    <2>1. redirect[s] \in Issued /\ Issued \subseteq 1 .. MaxTokens
      BY <1>4, Tokens DEF AuthInv, TypeOK
    <2>2. owner[redirect[s]] \in Users
      BY <2>1 DEF AuthInv, TypeOK, Issued
    <2>3. /\ stored' \in AllSessions
          /\ stored'.user = owner[redirect[s]] /\ stored'.token = redirect[s]
      BY <1>4, <2>1, <2>2, SessionIs DEF Store
    <2>4. Grown /\ Issued' = Issued
      BY <1>1, <1>4, NoIssue DEF AuthInv
    <2>5. IdentityMatchesToken' /\ redirect' \in [Servers -> Issued' \union {0}]
      BY <1>4, <2>1, <2>3, <2>4 DEF AuthInv, TypeOK, IdentityMatchesToken
    <2>6. retired' \in SUBSET Issued'
      BY <1>4, <2>4, Retiring DEF AuthInv
    <2> QED
      BY <1>1, <1>2, <2>3, <2>4, <2>5, <2>6, OthersKeepInv
  <1> QED
    BY <1>3, <1>4 DEF Callback

LEMMA DisconnectedKeepsInv == ASSUME AuthInv, NEW s \in Servers, Disconnected(s) PROVE AuthInv'
  <1>1. /\ server' = [server EXCEPT ![s] = "gone"]
        /\ UNCHANGED <<stored, retired, expiring, owner, procVars, waits, redirect>>
    BY DEF Disconnected, storedVars, sessionVars
  <1>2. Grown /\ Issued' = Issued
    BY <1>1, NoIssue DEF AuthInv
  <1>3. server' \in [Servers -> ServerStates]
    BY <1>1 DEF AuthInv, TypeOK, ServerStates
  <1>4. /\ stored' \in AllSessions /\ retired' \in SUBSET Issued' /\ IdentityMatchesToken'
        /\ redirect' \in [Servers -> Issued' \union {0}]
    BY <1>1, <1>2 DEF AuthInv, TypeOK, IdentityMatchesToken
  <1> QED
    BY <1>1, <1>2, <1>3, <1>4, OthersKeepInv

LEMMA AgeKeepsInv == ASSUME AuthInv, Age PROVE AuthInv'
  <1>1. /\ stored # NoSession /\ expiring' = expiring \union {stored.token}
        /\ UNCHANGED <<stored, retired, owner, procVars, callbackVars>>
    BY DEF Age, sessionVars
  <1>2. Grown /\ Issued' = Issued
    BY <1>1 DEF AuthInv, TypeOK, IdentityMatchesToken, Grown, Issued
  <1>3. stored' \in AllSessions /\ retired' \in SUBSET Issued' /\ IdentityMatchesToken'
    BY <1>1, <1>2 DEF AuthInv, TypeOK, IdentityMatchesToken
  <1>4. /\ waits' = waits /\ redirect' \in [Servers -> Issued' \union {0}]
        /\ server' \in [Servers -> ServerStates]
    BY <1>1, <1>2 DEF AuthInv, TypeOK, callbackVars
  <1> QED
    BY <1>1, <1>2, <1>3, <1>4, OthersKeepInv

LEMMA RestartKeepsInv == ASSUME AuthInv, Restart PROVE AuthInv'
  <1>1. /\ pc' = [p \in Procs |-> "idle"] /\ loaded' = [p \in Procs |-> NoSession]
        /\ reply' = [p \in Procs |-> 0] /\ waits' = [c \in Callers |-> 0]
        /\ server' = [s \in Servers |-> IF server[s] = "unused" THEN "unused" ELSE "gone"]
        /\ UNCHANGED <<stored, retired, expiring, owner, redirect>>
    BY DEF Restart, AllIdle, NothingLoaded, NoReply, storedVars, sessionVars
  <1>2. Issued' = Issued
    BY <1>1 DEF Issued
  <1>3. TypeOK'
    BY <1>1, <1>2 DEF AuthInv, TypeOK, ServerStates, Awaits, AllSessions, Procs
  <1>4. IdentityMatchesToken' /\ RefreshInv'
    BY <1>1, <1>2 DEF AuthInv, IdentityMatchesToken, RefreshInv, Procs
  <1> QED
    BY <1>3, <1>4 DEF AuthInv

----------------------------------------------------------------------------
LEMMA InitGivesInv == Init => AuthInv
  <1> SUFFICES ASSUME Init PROVE AuthInv
    OBVIOUS
  <1>1. TypeOK
    BY AuthAssumption DEF Init, TypeOK, AllIdle, NothingLoaded, NoReply, AllSessions, Awaits,
                          Procs, Issued, ServerStates
  <1>2. IdentityMatchesToken /\ RefreshInv
    BY DEF Init, IdentityMatchesToken, RefreshInv, AllIdle, NoReply, Procs
  <1> QED
    BY <1>1, <1>2 DEF AuthInv

LEMMA StepKeepsInv == AuthInv /\ [Next]_vars => AuthInv'
  <1> SUFFICES ASSUME AuthInv, [Next]_vars PROVE AuthInv'
    OBVIOUS
  <1>1. CASE \E c \in Callers : Command(c)
    BY <1>1, LoginKeepsInv, LoginReturnsKeepsInv, RefreshKeepsInv, LogoutKeepsInv,
       LogoutReturnsKeepsInv, BrowserLoginKeepsInv, BrowserReturnsKeepsInv DEF Command
  <1>2. CASE AutoTick
    BY <1>2, AutoTickKeepsInv
  <1>3. CASE \E p \in Procs : CloudRefreshes(p) \/ RefreshReturns(p) \/ RefreshFails(p)
    BY <1>3, CloudRefreshesKeepsInv, RefreshReturnsKeepsInv, RefreshFailsKeepsInv
  <1>4. CASE \E s \in Servers : Callback(s) \/ Disconnected(s)
    BY <1>4, CallbackKeepsInv, DisconnectedKeepsInv
  <1>5. CASE Age \/ Restart
    BY <1>5, AgeKeepsInv, RestartKeepsInv
  <1>6. CASE UNCHANGED vars
    BY <1>6 DEF vars, storedVars, sessionVars, procVars, callbackVars, AuthInv, TypeOK, IdentityMatchesToken,
                RefreshInv, Genuine, Issued
  <1> QED
    BY <1>1, <1>2, <1>3, <1>4, <1>5, <1>6 DEF Next

LEMMA InvHolds == Spec => []AuthInv
  BY InitGivesInv, StepKeepsInv, PTL DEF Spec

----------------------------------------------------------------------------
\* The variables keep their types, and only issued tokens are ever about.
THEOREM TypeCorrect == Spec => []TypeOK
  <1>1. AuthInv => TypeOK
    BY DEF AuthInv
  <1> QED
    BY <1>1, InvHolds, PTL

\* However commands, callback servers and the auto-refresh overlap, the user shown is the
\* one the stored token was issued for, or nobody.
THEOREM IdentityIsRight == Spec => []IdentityMatchesToken
  <1>1. AuthInv => IdentityMatchesToken
    BY DEF AuthInv
  <1> QED
    BY <1>1, InvHolds, PTL

----------------------------------------------------------------------------
\* What clears a session: LogoutReturns, and RefreshFails of the auto-refresh. It began
\* with a session about to expire, so the one it clears has come meanwhile, unless it is
\* about to expire as well.
LEMMA ClearedBy ==
    ASSUME AuthInv, Next, stored # NoSession, stored' = NoSession, stored.token \notin expiring
    PROVE  \/ \E c \in Callers : pc[c] = "logout"
           \/ loaded["auto"] # NoSession /\ loaded["auto"] # stored
  <1>1. ASSUME NEW u \in Users, NEW name \in {u, Nobody}, Issue(u, name)
        PROVE  FALSE
    <2>1. stored' = Session(name, NewToken) /\ Len(owner) < MaxTokens
      BY <1>1 DEF Issue, Store
    <2>2. NewToken \in 1 .. MaxTokens
      BY <2>1, AuthAssumption DEF AuthInv, TypeOK, NewToken
    <2> QED
      BY <2>1, <2>2, SessionIs
  <1>2. CASE \E c \in Callers : Command(c)
    <2>1. PICK c \in Callers : Command(c)
      BY <1>2
    <2>2. ~\E u \in Users : Registered(u) \/ LoggedIn(u)
      BY <1>1 DEF Registered, LoggedIn, Legacy
    <2>3. LogoutReturns(c)
      BY <2>1, <2>2 DEF Command, Login, LoginReturns, Refresh, Logout, BrowserLogin,
                        BrowserReturns, storedVars, sessionVars
    <2> QED
      BY <2>3 DEF LogoutReturns
  <1>3. CASE \E p \in Procs : CloudRefreshes(p) \/ RefreshReturns(p) \/ RefreshFails(p)
    <2>1. PICK p \in Procs : CloudRefreshes(p) \/ RefreshReturns(p) \/ RefreshFails(p)
      BY <1>3
    <2>2. ASSUME RefreshReturns(p) PROVE FALSE
      <3>1. /\ pc[p] = "refresh" /\ reply[p] # 0 /\ stored' = Session(loaded[p].user, reply[p])
        BY <2>2 DEF RefreshReturns, Answered, Preserved, Store
      <3>2. reply[p] \in 1 .. MaxTokens /\ loaded[p].user \in Users \union {Nobody}
        BY <3>1, Tokens DEF AuthInv, TypeOK, RefreshInv, Genuine, Issued
      <3> QED
        BY <3>1, <3>2, SessionIs
    <2>3. RefreshFails(p) /\ p = "auto"
      BY <2>1, <2>2 DEF CloudRefreshes, RefreshFails, AfterFailure, Store, storedVars, sessionVars
    <2>4. pc["auto"] = "refresh"
      BY <2>3 DEF RefreshFails
    <2>5. loaded["auto"] # NoSession /\ loaded["auto"].token \in expiring
      BY <2>3, <2>4 DEF AuthInv, RefreshInv
    <2> QED
      BY <2>5
  <1>4. CASE \E s \in Servers : Callback(s) \/ Disconnected(s)
    <2>1. PICK s \in Servers : Callback(s)
      BY <1>4 DEF Disconnected, storedVars, sessionVars
    <2>2. redirect[s] # 0 /\ stored' = Session(owner[redirect[s]], redirect[s])
      BY <1>1, <2>1 DEF Callback, Store
    <2>3. redirect[s] \in 1 .. MaxTokens /\ owner[redirect[s]] \in Users
      BY <2>2, Tokens DEF AuthInv, TypeOK, Issued
    <2> QED
      BY <2>2, <2>3, SessionIs
  <1>5. CASE AutoTick \/ Age \/ Restart
    BY <1>5 DEF AutoTick, Age, Restart, storedVars, sessionVars
  <1> QED
    BY <1>2, <1>3, <1>4, <1>5 DEF Next


\* The answer to a refresh is nobody else's: its token was never stored, and it is
\* neither another refresh's nor a redirect's.
Unused(n) ==
    /\ n \notin retired
    /\ stored # NoSession => stored.token # n
    /\ \A s \in Servers : redirect[s] # n

ReplyInv ==
    /\ \A p \in Procs : reply[p] # 0 => Unused(reply[p])
    /\ \A p, q \in Procs : p # q /\ reply[p] # 0 => reply[q] # reply[p]

\* A step that hands answers on at most, stores none of those left, and redirects with
\* none of them.
LEMMA RepliesStay ==
    ASSUME TypeOK, ReplyInv,
           \A p \in Procs : reply'[p] \in {reply[p], 0},
           retired' \subseteq IF stored = NoSession THEN retired ELSE retired \union {stored.token},
           \A p \in Procs : reply'[p] # 0 =>
                /\ stored' # NoSession => stored'.token # reply[p]
                /\ \A s \in Servers : redirect'[s] # reply[p]
    PROVE  ReplyInv'
  <1>1. ASSUME NEW p \in Procs, reply'[p] # 0
        PROVE  reply'[p] = reply[p] /\ Unused(reply[p])
    BY <1>1 DEF ReplyInv
  <1>2. ASSUME NEW p \in Procs, reply'[p] # 0 PROVE Unused(reply[p])'
    BY <1>1, <1>2 DEF Unused
  <1>3. ASSUME NEW p \in Procs, NEW q \in Procs, p # q, reply'[p] # 0
        PROVE  reply'[q] # reply'[p]
    BY <1>1, <1>3 DEF ReplyInv
  <1> QED
    BY <1>2, <1>3 DEF ReplyInv

\* A step that stores nothing, and one that stores a session.
LEMMA SessionStays ==
    ASSUME TypeOK, ReplyInv, UNCHANGED <<stored, retired, redirect>>,
           \A p \in Procs : reply'[p] \in {reply[p], 0}
    PROVE  ReplyInv'
  <1>1. \A p \in Procs : reply'[p] # 0 => reply'[p] = reply[p] /\ Unused(reply[p])
    BY DEF ReplyInv
  <1> QED
    BY <1>1, RepliesStay DEF Unused

LEMMA StoreReplaces ==
    ASSUME NEW s, Store(s)
    PROVE  /\ stored' = s
           /\ retired' \subseteq IF stored = NoSession THEN retired
                                 ELSE retired \union {stored.token}
  BY DEF Store

\* An issued token is none of the answers under way.
LEMMA IssueKeepsReplies ==
    ASSUME AuthInv, ReplyInv, NEW u \in Users, NEW name \in {u, Nobody}, Issue(u, name),
           \A p \in Procs : reply'[p] \in {reply[p], 0},
           \A s \in Servers : redirect'[s] \in {redirect[s], NewToken}
    PROVE  ReplyInv'
  <1>1. /\ Len(owner) < MaxTokens /\ owner' = Append(owner, u)
        /\ Store(Session(name, NewToken)) /\ stored' = Session(name, NewToken)
    BY DEF Issue, Store
  <1>2. TypeOK
    BY DEF AuthInv
  <1>3. NewToken \notin Issued /\ NewToken \in 1 .. MaxTokens
    BY <1>1, <1>2, Issuing
  <1>4. stored'.token = NewToken
    BY <1>1, <1>3, SessionIs
  <1>5. ASSUME NEW p \in Procs, reply'[p] # 0
        PROVE  reply[p] # NewToken /\ \A s \in Servers : redirect'[s] # reply[p]
    <2>1. reply[p] # 0 /\ reply[p] \in Issued
      BY <1>2, <1>5 DEF TypeOK
    <2>2. Unused(reply[p])
      BY <2>1 DEF ReplyInv
    <2> QED
      BY <1>3, <2>1, <2>2 DEF Unused
  <1> QED
    BY <1>1, <1>2, <1>4, <1>5, StoreReplaces, RepliesStay

\* The session is cleared.
LEMMA ClearingKeepsReplies ==
    ASSUME TypeOK, ReplyInv, Store(NoSession), redirect' = redirect,
           \A p \in Procs : reply'[p] \in {reply[p], 0}
    PROVE  ReplyInv'
  <1>1. \A p \in Procs : reply'[p] # 0 => reply'[p] = reply[p] /\ Unused(reply[p])
    BY DEF ReplyInv
  <1> QED
    BY <1>1, StoreReplaces, RepliesStay DEF Unused

\* An answer that is stored is none of the others.
LEMMA ReturningKeepsReplies ==
    ASSUME AuthInv, ReplyInv, NEW p \in Procs, RefreshReturns(p)
    PROVE  ReplyInv'
  <1>1. /\ pc[p] = "refresh" /\ reply[p] # 0 /\ Store(Session(loaded[p].user, reply[p]))
        /\ reply' = [reply EXCEPT ![p] = 0] /\ redirect' = redirect
    BY DEF RefreshReturns, Answered, Preserved, End, callbackVars
  <1>2. reply[p] \in 1 .. MaxTokens /\ loaded[p].user \in Users \union {Nobody}
    BY <1>1, Tokens DEF AuthInv, TypeOK, RefreshInv, Genuine, Issued
  <1>3. stored'.token = reply[p]
    BY <1>1, <1>2, StoreReplaces, SessionIs
  <1>4. \A q \in Procs : reply'[q] = IF q = p THEN 0 ELSE reply[q]
    BY <1>1 DEF AuthInv, TypeOK
  <1>5. ASSUME NEW q \in Procs, reply'[q] # 0
        PROVE  reply[q] # reply[p] /\ Unused(reply[q])
    BY <1>1, <1>4, <1>5 DEF ReplyInv
  <1> QED
    BY <1>1, <1>3, <1>4, <1>5, StoreReplaces, RepliesStay DEF AuthInv, Unused

\* A new answer is of a new token.
LEMMA AnsweringKeepsReplies ==
    ASSUME AuthInv, ReplyInv, NEW p \in Procs, CloudRefreshes(p)
    PROVE  ReplyInv'
  <1>1. /\ reply' = [reply EXCEPT ![p] = NewToken]
        /\ UNCHANGED <<stored, retired, redirect>>
    BY DEF CloudRefreshes, storedVars, sessionVars, callbackVars
  <1>2. NewToken \notin Issued /\ NewToken # 0
    BY DEF AuthInv, TypeOK, Issued, NewToken
  <1>3. Unused(NewToken)
    BY <1>2 DEF AuthInv, TypeOK, IdentityMatchesToken, Unused
  <1>4. \A q \in Procs : reply'[q] = IF q = p THEN NewToken ELSE reply[q]
    BY <1>1 DEF AuthInv, TypeOK
  <1>5. \A q \in Procs : reply[q] # NewToken
    BY <1>2 DEF AuthInv, TypeOK
  <1>6. ASSUME NEW q \in Procs, reply'[q] # 0 PROVE Unused(reply'[q])
    BY <1>3, <1>4, <1>6 DEF ReplyInv
  <1>7. ASSUME NEW q \in Procs, reply'[q] # 0 PROVE Unused(reply[q])'
    BY <1>1, <1>6, <1>7 DEF Unused
  <1>8. ASSUME NEW q \in Procs, NEW r \in Procs, q # r, reply'[q] # 0
        PROVE  reply'[r] # reply'[q]
    BY <1>4, <1>5, <1>8 DEF ReplyInv
  <1> QED
    BY <1>7, <1>8 DEF ReplyInv

\* The page is loaded again: its token is none of the answers.
LEMMA ReloadKeepsReplies ==
    ASSUME AuthInv, ReplyInv, NEW s \in Servers, redirect[s] # 0,
           Store(Session(owner[redirect[s]], redirect[s])), UNCHANGED <<redirect, reply>>
    PROVE  ReplyInv'
  <1>1. redirect[s] \in 1 .. MaxTokens /\ owner[redirect[s]] \in Users
    BY Tokens DEF AuthInv, TypeOK, Issued
  <1>2. stored'.token = redirect[s]
    BY <1>1, StoreReplaces, SessionIs
  <1>3. \A p \in Procs : reply[p] # 0 => Unused(reply[p])
    BY DEF ReplyInv
  <1> QED
    BY <1>2, <1>3, StoreReplaces, RepliesStay DEF AuthInv, Unused

LEMMA ReplyStep == ASSUME AuthInv, ReplyInv, [Next]_vars PROVE ReplyInv'
  <1>1. TypeOK
    BY DEF AuthInv
  <1>2. ASSUME NEW p \in Procs, End(p) PROVE \A q \in Procs : reply'[q] \in {reply[q], 0}
    BY <1>1, <1>2 DEF End, TypeOK
  <1>3. CASE \E c \in Callers : Command(c)
    <2>1. PICK c \in Callers : Command(c)
      BY <1>3
    <2>2. c \in Procs
      BY DEF Procs
    <2>3. CASE Login(c) \/ Refresh(c) \/ Logout(c) \/ BrowserLogin(c)
      <3>1. UNCHANGED <<stored, retired, redirect, reply>>
        BY <2>3 DEF Login, Refresh, Logout, BrowserLogin, Begin, storedVars, sessionVars,
                    callbackVars
      <3> QED
        BY <1>1, <3>1, SessionStays
    <2>4. CASE LoginReturns(c)
      <3>1. redirect' = redirect /\ \A q \in Procs : reply'[q] \in {reply[q], 0}
        BY <1>2, <2>2, <2>4 DEF LoginReturns, callbackVars
      <3>2. CASE \E u \in Users : Registered(u) \/ LoggedIn(u)
        <4>1. PICK u \in Users : Registered(u) \/ LoggedIn(u)
          BY <3>2
        <4>2. PICK name \in {u, Nobody} : Issue(u, name)
          BY <4>1 DEF Registered, LoggedIn, Legacy
        <4> QED
          BY <3>1, <4>2, IssueKeepsReplies
      <3>3. CASE UNCHANGED <<storedVars, owner>>
        BY <1>1, <3>1, <3>3, SessionStays DEF storedVars, sessionVars
      <3> QED
        BY <2>4, <3>2, <3>3 DEF LoginReturns
    <2>5. CASE LogoutReturns(c)
      BY <1>1, <1>2, <2>2, <2>5, ClearingKeepsReplies DEF LogoutReturns, callbackVars
    <2>6. CASE BrowserReturns(c)
      BY <1>1, <1>2, <2>2, <2>6, SessionStays DEF BrowserReturns, storedVars, sessionVars
    <2> QED
      BY <2>1, <2>3, <2>4, <2>5, <2>6 DEF Command
  <1>4. CASE \E p \in Procs : CloudRefreshes(p) \/ RefreshReturns(p)
    BY <1>4, AnsweringKeepsReplies, ReturningKeepsReplies
  <1>5. CASE \E p \in Procs : RefreshFails(p)
    <2>1. PICK p \in Procs : RefreshFails(p)
      BY <1>5
    <2>2. redirect' = redirect /\ \A q \in Procs : reply'[q] \in {reply[q], 0}
      BY <1>2, <2>1 DEF RefreshFails, callbackVars
    <2>3. CASE p = "auto"
      BY <1>1, <2>1, <2>2, <2>3, ClearingKeepsReplies DEF RefreshFails, AfterFailure
    <2>4. CASE p # "auto"
      BY <1>1, <2>1, <2>2, <2>4, SessionStays DEF RefreshFails, AfterFailure, Store
    <2> QED
      BY <2>3, <2>4
  <1>6. CASE \E s \in Servers : Callback(s)
    <2>1. PICK s \in Servers : Callback(s)
      BY <1>6
    <2>2. reply' = reply
      BY <2>1 DEF Callback, procVars
    <2>3. CASE \E u \in Users : Issue(u, u) /\ redirect' = [redirect EXCEPT ![s] = NewToken]
      <3>1. PICK u \in Users : Issue(u, u) /\ redirect' = [redirect EXCEPT ![s] = NewToken]
        BY <2>3
      <3>2. \A r \in Servers : redirect'[r] \in {redirect[r], NewToken}
        BY <1>1, <3>1 DEF TypeOK
      <3> QED
        BY <2>2, <3>1, <3>2, IssueKeepsReplies
    <2>4. CASE /\ redirect[s] # 0
               /\ Store(Session(owner[redirect[s]], redirect[s]))
               /\ UNCHANGED <<owner, redirect>>
      BY <2>2, <2>4, ReloadKeepsReplies
    <2> QED
      BY <2>1, <2>3, <2>4 DEF Callback
  <1>7. CASE (\E s \in Servers : Disconnected(s)) \/ AutoTick \/ Age \/ UNCHANGED vars
    <2>1. UNCHANGED <<stored, retired, redirect, reply>>
      BY <1>7 DEF Disconnected, AutoTick, Begin, Age, vars, storedVars, sessionVars, procVars,
                  callbackVars
    <2> QED
      BY <1>1, <2>1, SessionStays
  <1>8. CASE Restart
    BY <1>1, <1>8, SessionStays DEF Restart, NoReply, storedVars, sessionVars
  <1> QED
    BY <1>3, <1>4, <1>5, <1>6, <1>7, <1>8 DEF Next

\* What stores a token that was stored before: only the page of a redirect, loaded
\* again.
LEMMA BroughtBackBy ==
    ASSUME AuthInv, ReplyInv, Next, stored' \notin {stored, NoSession}, stored'.token \in retired
    PROVE  \E s \in Servers : Serves(s) /\ redirect[s] = stored'.token
  <1>1. ASSUME NEW u \in Users, NEW name \in {u, Nobody}, Issue(u, name)
        PROVE  FALSE
    <2>1. stored' = Session(name, NewToken) /\ Len(owner) < MaxTokens /\ owner' = Append(owner, u)
      BY <1>1 DEF Issue, Store
    <2>2. NewToken \notin Issued /\ NewToken \in 1 .. MaxTokens
      BY <2>1, Issuing DEF AuthInv
    <2>3. stored'.token = NewToken
      BY <2>1, <2>2, SessionIs
    <2>4. retired \subseteq Issued
      BY DEF AuthInv, TypeOK
    <2> QED
      BY <2>2, <2>3, <2>4
  <1>2. CASE \E c \in Callers : Command(c)
    <2>1. PICK c \in Callers : Command(c)
      BY <1>2
    <2>2. ~\E u \in Users : Registered(u) \/ LoggedIn(u)
      BY <1>1 DEF Registered, LoggedIn, Legacy
    <2> QED
      BY <2>1, <2>2 DEF Command, Login, LoginReturns, Refresh, Logout, LogoutReturns,
                        BrowserLogin, BrowserReturns, Store, storedVars, sessionVars
  <1>3. CASE \E p \in Procs : CloudRefreshes(p) \/ RefreshFails(p)
    BY <1>3 DEF CloudRefreshes, RefreshFails, AfterFailure, Store, storedVars, sessionVars
  <1>4. CASE \E p \in Procs : RefreshReturns(p)
    <2>1. PICK p \in Procs : RefreshReturns(p)
      BY <1>4
    <2>2. pc[p] = "refresh" /\ reply[p] # 0 /\ stored' = Session(loaded[p].user, reply[p])
      BY <2>1 DEF RefreshReturns, Answered, Preserved, Store
    <2>3. reply[p] \in 1 .. MaxTokens /\ loaded[p].user \in Users \union {Nobody}
      BY <2>2, Tokens DEF AuthInv, TypeOK, RefreshInv, Genuine, Issued
    <2>4. stored'.token = reply[p] /\ Unused(reply[p])
      BY <2>2, <2>3, SessionIs DEF ReplyInv
    <2> QED
      BY <2>4 DEF Unused
  <1>5. CASE \E s \in Servers : Callback(s)
    <2>1. PICK s \in Servers : Callback(s)
      BY <1>5
    <2>2. /\ Serves(s) /\ redirect[s] # 0
          /\ stored' = Session(owner[redirect[s]], redirect[s])
      BY <1>1, <2>1 DEF Callback, Store
    <2>3. redirect[s] \in 1 .. MaxTokens /\ owner[redirect[s]] \in Users
      BY <2>2, Tokens DEF AuthInv, TypeOK, Issued
    <2>4. stored'.token = redirect[s]
      BY <2>2, <2>3, SessionIs
    <2> QED
      BY <2>2, <2>4
  <1>6. CASE (\E s \in Servers : Disconnected(s)) \/ AutoTick \/ Age \/ Restart
    BY <1>6 DEF Disconnected, AutoTick, Age, Restart, storedVars, sessionVars
  <1> QED
    BY <1>2, <1>3, <1>4, <1>5, <1>6 DEF Next

\* A session that is not about to expire is lost only to a logout under way or to an
\* auto-refresh that began with another; and no command and no refresh stores a token
\* again that was replaced or cleared: only the browser does.
THEOREM SessionsMoveWithUsers == Spec => SessionMovesWithUser
  <1>1. Init => AuthInv /\ ReplyInv
    BY InitGivesInv DEF Init, ReplyInv, NoReply
  <1>2. AuthInv /\ ReplyInv /\ [Next]_vars => (AuthInv /\ ReplyInv)'
    BY StepKeepsInv, ReplyStep
  <1>3. AuthInv /\ ReplyInv /\ [Next]_vars =>
          [/\ stored # NoSession /\ stored' = NoSession /\ stored.token \notin expiring =>
                \/ \E c \in Callers : pc[c] = "logout"
                \/ loaded["auto"] # NoSession /\ loaded["auto"] # stored
           /\ stored' \notin {stored, NoSession} /\ stored'.token \in retired =>
                \E s \in Servers : Serves(s) /\ redirect[s] = stored'.token]_vars
    BY ClearedBy, BroughtBackBy
  <1> QED
    BY <1>1, <1>2, <1>3, PTL DEF Spec, SessionMovesWithUser
=============================================================================

---------------------------- MODULE AuthSession ----------------------------
(***************************************************************************)
(* The login of the user (auth/token.rs, client.rs, callback.rs,           *)
(* refresh.rs, commands/auth.rs): one stored session that the commands of  *)
(* the panels, the callback servers of browser logins and the auto-refresh *)
(* task read before they await the cloud and write afterwards. A server_host*)
(* is configured; without one every command and the task return early.     *)
(*                                                                         *)
(* A token is the pair of an access and a refresh token, numbered as the   *)
(* cloud issues them. The cloud is external and any answer of it may be    *)
(* lost.                                                                   *)
(***************************************************************************)
EXTENDS Naturals, Sequences

CONSTANTS
    Callers,     \* commands the user may have running at a time
    Users,
    Nobody,      \* the empty user_id of an answer without a user
    NoSession,   \* no auth_state_v1 in client_config
    MaxTokens,   \* bound: tokens the cloud issues
    MaxServers   \* bound: callback servers that are started

ASSUME AuthAssumption ==
    /\ MaxTokens \in Nat /\ MaxServers \in Nat
    /\ Nobody \notin Users
    /\ "auto" \notin Callers
    /\ NoSession \notin [user : Users \union {Nobody}, token : Nat]

VARIABLES
    stored,     \* auth_state_v1
    retired,    \* history: tokens that were stored and then replaced or cleared
    owner,      \* the users the tokens were issued for, in order of issue
    expiring,   \* tokens seen within REFRESH_BUFFER_SECS of their expiry, or past it
    pc,         \* what a command, or the auto-refresh task, awaits
    loaded,     \* the session a refresh began with
    reply,      \* the token in the answer to its refresh request
    server,     \* the callback servers
    waits,      \* the callback server whose result a browser login awaits
    redirect    \* the token in the redirect to a callback server

sessionVars == <<stored, retired>>
storedVars == <<sessionVars, expiring>>
callbackVars == <<server, waits, redirect>>
procVars == <<pc, loaded, reply>>
vars == <<storedVars, owner, procVars, callbackVars>>

Procs == Callers \union {"auto"}
Servers == 1 .. MaxServers
ServerStates == {"unused", "listening", "aborted", "gone"}
Awaits == {"idle", "login", "refresh", "logout", "browser"}
Session(u, n) == [user |-> u, token |-> n]
Issued == DOMAIN owner
NewToken == Len(owner) + 1

AllIdle == [p \in Procs |-> "idle"]
NothingLoaded == [p \in Procs |-> NoSession]
NoReply == [p \in Procs |-> 0]

Init ==
    /\ stored = NoSession
    /\ retired = {}
    /\ expiring = {}
    /\ owner = <<>>
    /\ pc = AllIdle /\ loaded = NothingLoaded /\ reply = NoReply
    /\ server = [s \in Servers |-> "unused"]
    /\ waits = [c \in Callers |-> 0]
    /\ redirect = [s \in Servers |-> 0]

\* A command begins to await the cloud, a refresh with the session it has read.
Begin(p, what, session) ==
    /\ pc[p] = "idle"
    /\ pc' = [pc EXCEPT ![p] = what]
    /\ loaded' = [loaded EXCEPT ![p] = session]
    /\ UNCHANGED reply

\* It ends.
End(p) ==
    /\ pc' = [pc EXCEPT ![p] = "idle"]
    /\ loaded' = [loaded EXCEPT ![p] = NoSession]
    /\ reply' = [reply EXCEPT ![p] = 0]

\* save_auth_state and clear_auth_state.
Store(session) ==
    /\ stored' = session
    /\ retired' = IF stored \in {NoSession, session} THEN retired
                  ELSE retired \union {stored.token}

\* The cloud issues a token to u, to be stored under a name.
Issue(u, name) ==
    /\ Len(owner) < MaxTokens
    /\ owner' = Append(owner, u)
    /\ Store(Session(name, NewToken))

----------------------------------------------------------------------------
(* Login and registration with a password.                                 *)

Login(c) ==
    /\ Begin(c, "login", NoSession)
    /\ UNCHANGED <<storedVars, owner, callbackVars>>

\* A registration is answered with the user.
Registered(u) == Issue(u, u) /\ UNCHANGED expiring

\* into_auth_state of a legacy answer: no user, no refresh token, and perhaps no time
\* of expiry, which counts as the year 1970.
Legacy(u) ==
    /\ Issue(u, Nobody)
    /\ expiring' \in {expiring, expiring \union {NewToken}}

\* A login is answered in the new format, perhaps without the user, or in the legacy
\* one.
LoggedIn(u) ==
    \/ \E name \in {u, Nobody} : Issue(u, name) /\ UNCHANGED expiring
    \/ Legacy(u)

\* The session of the answer is saved, or an error leaves the stored one.
LoginReturns(c) ==
    /\ pc[c] = "login"
    /\ \/ \E u \in Users : Registered(u) \/ LoggedIn(u)
       \/ UNCHANGED <<storedVars, owner>>
    /\ End(c)
    /\ UNCHANGED callbackVars

----------------------------------------------------------------------------
(* Refresh, by the user and by the auto-refresh task.                      *)

\* auth_refresh.
Refresh(c) ==
    /\ stored # NoSession
    /\ Begin(c, "refresh", stored)
    /\ UNCHANGED <<storedVars, owner, callbackVars>>

\* is_token_expired.
Due == stored # NoSession /\ stored.token \in expiring

\* maybe_refresh on a tick of the interval.
AutoTick ==
    /\ Due
    /\ Begin("auto", "refresh", stored)
    /\ UNCHANGED <<storedVars, owner, callbackVars>>

\* The cloud (external) issues a new pair for a refresh token; one that was used or
\* revoked before, or that a session without a user does not have, may be refused
\* (RefreshFails).
CloudRefreshes(p) ==
    /\ pc[p] = "refresh" /\ reply[p] = 0
    /\ Len(owner) < MaxTokens
    /\ owner' = Append(owner, owner[loaded[p].token])
    /\ reply' = [reply EXCEPT ![p] = NewToken]
    /\ UNCHANGED <<storedVars, pc, loaded, callbackVars>>

\* The user info of the new session is that of the one the refresh began with; a
\* faulty variant takes it from what is stored by now.
PreservedFromStored(p) == IF stored = NoSession THEN Nobody ELSE stored.user
Preserved(p) == loaded[p].user

\* An answer with tokens has come, and a faulty variant that takes any body for one
\* and the tokens that are not there for empty.
AnsweredByDefault(p) == TRUE
Answered(p) == reply[p] # 0

\* The answer arrives: the new tokens are saved.
RefreshReturns(p) ==
    /\ pc[p] = "refresh" /\ Answered(p)
    /\ Store(Session(Preserved(p), reply[p]))
    /\ End(p)
    /\ UNCHANGED <<expiring, owner, callbackVars>>

\* Any error of the request, a refused token or an unreachable cloud: the
\* auto-refresh task logs the user out, the command leaves what is stored; in
\* faulty variants the task leaves it too, and the command puts back what it read.
AfterFailureKept(p) == stored
AfterFailurePutBack(p) == IF p = "auto" THEN NoSession ELSE loaded[p]
AfterFailure(p) == IF p = "auto" THEN NoSession ELSE stored

RefreshFails(p) ==
    /\ pc[p] = "refresh"
    /\ Store(AfterFailure(p))
    /\ End(p)
    /\ UNCHANGED <<expiring, owner, callbackVars>>

----------------------------------------------------------------------------
(* Logout.                                                                 *)

Logout(c) ==
    /\ stored # NoSession
    /\ Begin(c, "logout", NoSession)
    /\ UNCHANGED <<storedVars, owner, callbackVars>>

\* The session is cleared whether the cloud has revoked the token or not.
LogoutReturns(c) ==
    /\ pc[c] = "logout"
    /\ Store(NoSession)
    /\ End(c)
    /\ UNCHANGED <<expiring, owner, callbackVars>>

----------------------------------------------------------------------------
(* Login in the browser.                                                   *)

\* start_callback_server, and the browser is opened; when it does not open, the
\* command ends at once as it does when nobody logs in (BrowserReturns).
BrowserLogin(c) ==
    /\ \E s \in Servers :
        /\ server[s] = "unused" /\ \A t \in 1 .. s - 1 : server[t] # "unused"
        /\ server' = [server EXCEPT ![s] = "listening"]
        /\ waits' = [waits EXCEPT ![c] = s]
    /\ Begin(c, "browser", NoSession)
    /\ UNCHANGED <<storedVars, owner, redirect>>

\* Connections accepted by a server are tasks of their own, which outlive its abort
\* for as long as the browser keeps them.
Serves(s) == server[s] \in {"listening", "aborted"}

\* callback_handler: the dashboard redirects with a new token, or the user loads
\* the page again; either is saved, and the first is the result of the command.
Callback(s) ==
    /\ Serves(s)
    /\ \/ \E u \in Users :
            /\ redirect[s] = 0
            /\ Issue(u, u)
            /\ redirect' = [redirect EXCEPT ![s] = NewToken]
       \/ /\ redirect[s] # 0
          /\ Store(Session(owner[redirect[s]], redirect[s]))
          /\ UNCHANGED <<owner, redirect>>
    /\ UNCHANGED <<expiring, procVars, server, waits>>

\* The result arrives and the server is aborted, which ends its accepting, or five
\* minutes pass and the command returns without an abort.
BrowserReturns(c) ==
    /\ pc[c] = "browser"
    /\ server' = [server EXCEPT ![waits[c]] = IF redirect[waits[c]] # 0 THEN "aborted" ELSE @]
    /\ waits' = [waits EXCEPT ![c] = 0]
    /\ End(c)
    /\ UNCHANGED <<storedVars, owner, redirect>>

\* The browser closes its last connection to a server that was aborted.
Disconnected(s) ==
    /\ server[s] = "aborted"
    /\ server' = [server EXCEPT ![s] = "gone"]
    /\ UNCHANGED <<storedVars, owner, procVars, waits, redirect>>

----------------------------------------------------------------------------

\* Time passes; only the expiry of the stored token is ever looked at.
Age ==
    /\ stored # NoSession /\ ~Due
    /\ expiring' = expiring \union {stored.token}
    /\ UNCHANGED <<sessionVars, owner, procVars, callbackVars>>

\* The application ends at any moment and is launched again: only the stored
\* session survives.
Restart ==
    /\ pc' = AllIdle /\ loaded' = NothingLoaded /\ reply' = NoReply
    /\ server' = [s \in Servers |-> IF server[s] = "unused" THEN "unused" ELSE "gone"]
    /\ waits' = [c \in Callers |-> 0]
    /\ UNCHANGED <<storedVars, owner, redirect>>

Command(c) ==
    \/ Login(c) \/ LoginReturns(c) \/ Refresh(c) \/ Logout(c) \/ LogoutReturns(c)
    \/ BrowserLogin(c) \/ BrowserReturns(c)

Next ==
    \/ \E c \in Callers : Command(c)
    \/ AutoTick
    \/ \E p \in Procs : CloudRefreshes(p) \/ RefreshReturns(p) \/ RefreshFails(p)
    \/ \E s \in Servers : Callback(s) \/ Disconnected(s)
    \/ Age \/ Restart

Spec == Init /\ [][Next]_vars

\* The interval ticks, and the request of the task ends, with an answer or the
\* 30 seconds of the client; strongly, for some run of the application lasts so long.
FairSpec ==
    /\ Spec
    /\ SF_vars(AutoTick)
    /\ SF_vars(RefreshReturns("auto") \/ RefreshFails("auto"))
=============================================================================

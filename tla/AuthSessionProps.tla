-------------------------- MODULE AuthSessionProps --------------------------
(***************************************************************************)
(* What the user may rely on about the stored session of AuthSession.      *)
(***************************************************************************)
EXTENDS AuthSession

AllSessions == [user : Users \union {Nobody}, token : 1 .. MaxTokens] \union {NoSession}

\* Every variable has its type, only issued tokens are about, and what a command
\* holds is gone when it has returned.
TypeOK ==
    /\ stored \in AllSessions
    /\ retired \in SUBSET Issued
    /\ owner \in Seq(Users) /\ Len(owner) <= MaxTokens
    /\ expiring \in SUBSET Issued
    /\ pc \in [Procs -> Awaits]
    /\ loaded \in [Procs -> AllSessions]
    /\ reply \in [Procs -> Issued \union {0}]
    /\ server \in [Servers -> ServerStates]
    /\ waits \in [Callers -> Servers \union {0}]
    /\ redirect \in [Servers -> Issued \union {0}]
    /\ \A p \in Procs : pc[p] # "refresh" => loaded[p] = NoSession /\ reply[p] = 0
    /\ \A c \in Callers : (waits[c] # 0) <=> (pc[c] = "browser")

\* However the commands, the callback servers and the auto-refresh overlap, the
\* user shown with the stored session is the one its token was issued for, or
\* nobody: a refresh never signs its tokens with the name of another login.
IdentityMatchesToken ==
    stored # NoSession =>
        stored.token \in Issued /\ stored.user \in {owner[stored.token], Nobody}

\* A session that is not about to expire is lost only to a logout under way or to
\* an auto-refresh that began with another session; and a token once replaced or
\* cleared is not stored again by any command or refresh that still knows it: only
\* the browser may bring back the token of its redirect, and only to a server that
\* listens or that it kept a connection to.
SessionMovesWithUser ==
    [][/\ stored # NoSession /\ stored' = NoSession /\ stored.token \notin expiring =>
            \/ \E c \in Callers : pc[c] = "logout"
            \/ loaded["auto"] # NoSession /\ loaded["auto"] # stored
       /\ stored' \notin {stored, NoSession} /\ stored'.token \in retired =>
            \E s \in Servers : Serves(s) /\ redirect[s] = stored'.token]_vars

\* A session about to expire is renewed or the user is
\* asked to log in: it never stays stored, expired, for ever.
ExpiringIsSettled ==
    Due ~> ~Due
=============================================================================

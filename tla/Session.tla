------------------------------- MODULE Session -------------------------------
(***************************************************************************)
(* One browser's session: the cookies the BFF keeps in it, the tokens the  *)
(* backend issues and revokes, and the calls of the pages, each of which   *)
(* may be answered 401, renew the session once and be sent again.  What a  *)
(* browser no longer waits for is still carried out.                       *)
(***************************************************************************)
EXTENDS Integers, Sequences, FiniteSets

CONSTANTS
    Users,
    Nobody,    \* the visitor of the login page
    Calls,     \* calls of apiFetch
    Probes,    \* those of them by which a page asks who is signed in
    MaxPairs,  \* bound on the token pairs issued
    NoToken

ASSUME SessionAssumption ==
    /\ Nobody \notin Users
    /\ Probes \subseteq Calls
    /\ MaxPairs \in Nat
    /\ NoToken \notin [kind : {"access", "refresh"}, pair : Nat]

VARIABLES
    owner,    \* pair -> the user it was issued to, in the order of issue
    expired,  \* access tokens past their fifteen minutes
    revoked,  \* tokens on the blacklist in Redis
    redis,    \* "up" or "down"; the backend goes on without it
    jar,      \* cookie -> the token the browser sends
    user,     \* whom the pages show
    pc,       \* call -> "idle", "waiting", "renewing", "retrying" or "ended"
    request,  \* call -> what the backend has made of it, and its token
    renewal,  \* call -> what the backend has made of its renewal
    answer,   \* call -> what the page was told
    exit,     \* the logout request
    session   \* "none", "open", or how the last logout ended it

backend == <<owner, expired, revoked, redis>>
browser == <<jar, user, session>>
calls   == <<pc, request, renewal, answer>>
vars    == <<backend, browser, calls, exit>>

Kinds == {"access", "refresh"}

Pairs == 1 .. MaxPairs

Token == [kind : Kinds, pair : Pairs]

Issued == [kind : Kinds, pair : 1 .. Len(owner)]

NoJar == [k \in Kinds |-> NoToken]

NoRequest == [at |-> "none", token |-> NoToken, effect |-> 0]
NoRenewal == [at |-> "none", token |-> NoToken, pair |-> 0]
NoExit    == [at |-> "none", jar |-> NoJar, whole |-> FALSE]

\* path "/" or "/api/auth": cookies.delete(name) names no path, so the framework
\* expires the cookie of that name at "/".
CookiePath == [access |-> "/", refresh |-> "/api/auth"]

Cleared(j) == [k \in Kinds |-> IF CookiePath[k] = "/" THEN NoToken ELSE j[k]]

\* A blacklist that cannot be read lists nothing.
Listed(t) == t \in revoked /\ redis = "up"

\* JWTAuthMiddleware, and the first two steps of RefreshToken.
Good(t) == t # NoToken /\ t \notin expired /\ ~Listed(t)

Revoke(ts) == revoked' = IF redis = "up" THEN revoked \cup ts ELSE revoked

OwnerOf(t) == owner[t.pair]

Access(p)  == [kind |-> "access", pair |-> p]
Refresh(p) == [kind |-> "refresh", pair |-> p]

TypeOK ==
    /\ owner \in Seq(Users) /\ Len(owner) <= MaxPairs
    /\ expired \subseteq Issued /\ revoked \subseteq Issued
    /\ redis \in {"up", "down"}
    /\ jar \in [Kinds -> Issued \cup {NoToken}]
    /\ \A k \in Kinds : jar[k] # NoToken => jar[k].kind = k
    /\ user \in Users \cup {Nobody}
    /\ pc \in [Calls -> {"idle", "waiting", "renewing", "retrying", "ended"}]
    /\ request \in [Calls -> [at : {"none", "sent", "executed", "rejected", "denied"},
                              token : Issued \cup {NoToken}, effect : 0 .. 1]]
    /\ renewal \in [Calls -> [at : {"none", "missing", "sent", "checked", "renewed", "refused"},
                              token : Issued \cup {NoToken}, pair : 0 .. Len(owner)]]
    /\ answer \in [Calls -> {"none", "ok", "unauthorized", "rejected", "lost"}]
    /\ exit \in [at : {"none", "sent", "served"}, jar : [Kinds -> Issued \cup {NoToken}],
                 whole : BOOLEAN]
    /\ session \in {"none", "open", "closing", "closed", "torn"}

Init ==
    /\ owner = <<>> /\ expired = {} /\ revoked = {} /\ redis = "up"
    /\ jar = NoJar /\ user = Nobody /\ session = "none"
    /\ pc = [c \in Calls |-> "idle"]
    /\ request = [c \in Calls |-> NoRequest]
    /\ renewal = [c \in Calls |-> NoRenewal]
    /\ answer = [c \in Calls |-> "none"]
    /\ exit = NoExit

(***************************************************************************)
(* Signing in.  A refused or failed login changes nothing.                 *)
(***************************************************************************)
SignedIn(u) == user' = u /\ session' = "open"

Login(u) ==
    /\ user = Nobody
    /\ Len(owner) < MaxPairs
    /\ owner' = Append(owner, u)
    /\ jar' = [access |-> Access(Len(owner) + 1), refresh |-> Refresh(Len(owner) + 1)]
    /\ SignedIn(u)
    /\ UNCHANGED <<expired, revoked, redis, calls, exit>>

(***************************************************************************)
(* A call.  The token it carries is the cookie of the moment it is sent.   *)
(***************************************************************************)
Send(c, step) ==
    /\ pc' = [pc EXCEPT ![c] = step]
    /\ request' = [request EXCEPT ![c].at = "sent", ![c].token = jar.access]

\* The login page asks who is signed in and nothing else.
apiFetch(c) ==
    /\ pc[c] = "idle"
    /\ user # Nobody \/ c \in Probes
    /\ Send(c, "waiting")
    /\ UNCHANGED <<backend, browser, renewal, answer, exit>>

\* The backend authenticates the request and runs its handler, or refuses it.
Serve(c) ==
    /\ request[c].at = "sent"
    /\ \/ /\ Good(request[c].token)
          /\ request' = [request EXCEPT ![c] = [at |-> "executed", token |-> NoToken, effect |-> @.effect + 1]]
       \/ /\ Good(request[c].token)
          /\ request' = [request EXCEPT ![c].at = "rejected", ![c].token = NoToken]
       \/ /\ ~Good(request[c].token)
          /\ request' = [request EXCEPT ![c].at = "denied", ![c].token = NoToken]
    /\ UNCHANGED <<backend, browser, pc, renewal, answer, exit>>

Awaits(c) == pc[c] \in {"waiting", "retrying"}

\* A page that cannot learn who is signed in shows the login page; the session,
\* if there is one, goes on.
Shown(c, a) == user' = IF c \in Probes /\ a # "ok" THEN Nobody ELSE user

End(c, a) ==
    /\ pc' = [pc EXCEPT ![c] = "ended"]
    /\ answer' = [answer EXCEPT ![c] = a]
    /\ Shown(c, a)

Receive(c) ==
    /\ Awaits(c)
    /\ \/ request[c].at = "executed" /\ End(c, "ok")
       \/ request[c].at = "rejected" /\ End(c, "rejected")
       \/ request[c].at = "denied" /\ pc[c] = "retrying" /\ End(c, "unauthorized")
    /\ UNCHANGED <<backend, jar, session, request, renewal, exit>>

\* Mutant of GiveUp: a request that was lost is sent again.
GiveUpLater(c) ==
    /\ pc[c] = "waiting"
    /\ Send(c, "retrying")
    /\ UNCHANGED <<backend, browser, renewal, answer, exit>>

\* The BFF loses the backend, or the browser loses the BFF; the request may be
\* anywhere on its way.
GiveUp(c) ==
    /\ Awaits(c)
    /\ End(c, "lost")
    /\ UNCHANGED <<backend, jar, session, request, renewal, exit>>

(***************************************************************************)
(* Renewal: one attempt per call, no two calls wait for one another.       *)
(***************************************************************************)
AskRenewal(c) ==
    /\ pc[c] = "waiting"
    /\ request[c].at = "denied"
    /\ pc' = [pc EXCEPT ![c] = "renewing"]
    /\ renewal' = [renewal EXCEPT ![c] = [NoRenewal EXCEPT
                       !.at = IF jar.refresh = NoToken THEN "missing" ELSE "sent",
                       !.token = jar.refresh]]
    /\ UNCHANGED <<backend, browser, request, answer, exit>>

\* RefreshToken reads the blacklist and the user's row ...
CheckRenewal(c) ==
    /\ renewal[c].at = "sent"
    /\ \/ Good(renewal[c].token) /\ renewal' = [renewal EXCEPT ![c].at = "checked"]
       \/ renewal' = [renewal EXCEPT ![c].at = "refused", ![c].token = NoToken]
    /\ UNCHANGED <<backend, browser, pc, request, answer, exit>>

\* ... and lists the token when it has issued the next pair.
Renew(c) ==
    /\ renewal[c].at = "checked"
    /\ Len(owner) < MaxPairs
    /\ owner' = Append(owner, OwnerOf(renewal[c].token))
    /\ Revoke({renewal[c].token})
    /\ renewal' = [renewal EXCEPT ![c] = [at |-> "renewed", token |-> NoToken, pair |-> Len(owner) + 1]]
    /\ UNCHANGED <<expired, redis, browser, pc, request, answer, exit>>

\* Mutant of Renewed: the pair's other token ends up in the access cookie.
RenewedSwapped(c) ==
    /\ pc[c] = "renewing"
    /\ renewal[c].at = "renewed"
    /\ jar' = [jar EXCEPT !.access = Refresh(renewal[c].pair)]
    /\ pc' = [pc EXCEPT ![c] = "retrying"]
    /\ request' = [request EXCEPT ![c].at = "sent", ![c].token = Refresh(renewal[c].pair)]
    /\ UNCHANGED <<backend, user, session, renewal, answer, exit>>

\* The BFF stores the new access token; the new refresh token it leaves unread.
Renewed(c) ==
    /\ pc[c] = "renewing"
    /\ renewal[c].at = "renewed"
    /\ jar' = [jar EXCEPT !.access = Access(renewal[c].pair)]
    /\ pc' = [pc EXCEPT ![c] = "retrying"]
    /\ request' = [request EXCEPT ![c].at = "sent", ![c].token = Access(renewal[c].pair)]
    /\ UNCHANGED <<backend, user, session, renewal, answer, exit>>

\* The first answer stands: the renewal was refused or is lost.  Only a refusal
\* that the backend gave expires the cookies.
NotRenewed(c) ==
    /\ pc[c] = "renewing"
    /\ End(c, "unauthorized")
    /\ \/ /\ renewal[c].at = "refused"
          /\ jar' = Cleared(jar)
       \/ UNCHANGED jar
    /\ UNCHANGED <<backend, session, request, renewal, exit>>

(***************************************************************************)
(* Logout.                                                                 *)
(***************************************************************************)
AskLogout ==
    /\ user # Nobody
    /\ exit.at = "none"
    /\ exit' = [NoExit EXCEPT !.at = "sent", !.jar = jar]
    /\ session' = "closing"
    /\ UNCHANGED <<backend, jar, user, calls>>

\* The backend lists the two tokens, if the access token still lets it in and both
\* belong to one user.
SameUser(j) == j.refresh # NoToken /\ OwnerOf(j.refresh) = OwnerOf(j.access)

\* Mutant of LogoutTokens: the body that names the refresh token is not sent.
AccessOnly(j) == {j.access}

LogoutTokens(j) == {j.access} \cup (IF SameUser(j) THEN {j.refresh} ELSE {})

\* A renewal the browser waits for that the logout comes too late to stop.
Underway ==
    \E c \in Calls :
        /\ pc[c] = "renewing"
        /\ \/ renewal[c].at \in {"checked", "renewed"}
           \/ renewal[c].at = "sent" /\ renewal[c].token # exit.jar.refresh

ServeLogout ==
    /\ exit.at = "sent"
    /\ \/ /\ Good(exit.jar.access)
          /\ Revoke(LogoutTokens(exit.jar))
          /\ exit' = [exit EXCEPT !.at = "served", !.whole = SameUser(exit.jar) /\ ~Underway]
       \/ exit' = [exit EXCEPT !.at = "served"] /\ UNCHANGED revoked
    /\ UNCHANGED <<owner, expired, redis, browser, calls>>

LogoutArrives ==
    /\ exit.at = "served"
    /\ jar' = Cleared(jar)
    /\ user' = Nobody
    /\ session' = IF session = "closing" THEN (IF exit.whole THEN "closed" ELSE "torn") ELSE session
    /\ exit' = NoExit
    /\ UNCHANGED <<backend, calls>>

\* The page goes to the login page all the same.
LogoutLost ==
    /\ exit.at # "none"
    /\ user' = Nobody
    /\ session' = IF session = "closing" THEN "torn" ELSE session
    /\ exit' = NoExit
    /\ UNCHANGED <<backend, jar, calls>>

(***************************************************************************)
(* Time and the environment.                                               *)
(***************************************************************************)
Expire(t) ==
    /\ t \in Issued \ expired
    /\ t.kind = "access"
    /\ expired' = expired \cup {t}
    /\ jar' = IF jar.access = t THEN [jar EXCEPT !.access = NoToken] ELSE jar
    /\ UNCHANGED <<owner, revoked, redis, user, session, calls, exit>>

RedisFails ==
    /\ redis = "up"
    /\ redis' = "down"
    /\ UNCHANGED <<owner, expired, revoked, browser, calls, exit>>

Proceed(c) ==
    \/ Receive(c)
    \/ GiveUp(c)
    \/ AskRenewal(c)
    \/ Renewed(c)
    \/ NotRenewed(c)

Next ==
    \/ \E u \in Users : Login(u)
    \/ \E c \in Calls :
          \/ apiFetch(c)
          \/ Serve(c)
          \/ CheckRenewal(c)
          \/ Renew(c)
          \/ Proceed(c)
    \/ AskLogout \/ ServeLogout \/ LogoutArrives \/ LogoutLost
    \/ \E t \in Token : Expire(t)
    \/ RedisFails

Spec == Init /\ [][Next]_vars

\* A browser hears from the server or gives the request up.
FairSpec == Spec /\ \A c \in Calls : WF_vars(Proceed(c))

(***************************************************************************)
(* Properties.                                                             *)
(***************************************************************************)
\* Whatever is renewed, refused, lost or sent again, apiFetch keeps the promise
\* of CallPromise: one effect at most, an answer that tells of it, in the end.
Promised == INSTANCE CallPromise WITH
    phase  <- [c \in Calls |-> IF pc[c] \in {"idle", "ended"} THEN pc[c] ELSE "open"],
    effect <- [c \in Calls |-> request[c].effect],
    answer <- answer

KeepsPromise == Promised!Spec

\* A logout that the backend carried out whole, and that no renewal overlapped,
\* leaves nothing in the browser that would be accepted again.
LogoutHolds ==
    session = "closed" /\ redis = "up" => \A k \in Kinds : ~Good(jar[k])

\* docs/API_SPECIFICATION.md: a refresh answers "the same token-pair envelope as
\* login" because it rotates the refresh token, so a renewal that arrives leaves the
\* browser a refresh token the backend accepts.
RenewalCanBeRepeated ==
    [][\A c \in Calls :
           pc[c] = "renewing" /\ pc'[c] = "retrying" => Good(jar.refresh)']_vars

(***************************************************************************)
(* The inductive invariant.                                                *)
(***************************************************************************)
\* A renewal that was let in carries a token, and has a pair when it is through.
RenewalsOK ==
    \A c \in Calls :
        /\ renewal[c].at = "checked" => renewal[c].token # NoToken
        /\ renewal[c].at = "renewed" => renewal[c].pair >= 1

\* What a call's request may have come to at each point of apiFetch.
CallsOK ==
    \A c \in Calls :
        /\ request[c].effect = 1 <=> request[c].at = "executed"
        /\ pc[c] = "idle" => request[c].at = "none"
        /\ pc[c] = "renewing" => request[c].at = "denied"
        /\ pc[c] # "ended" => answer[c] = "none"
        /\ pc[c] # "idle" => request[c].at # "none"
        /\ pc[c] = "ended" /\ request[c].at = "sent" => answer[c] = "lost"

\* No renewal the browser waits for can succeed but with the token t.
Stale(t) ==
    \A c \in Calls : pc[c] = "renewing" =>
        /\ renewal[c].at \notin {"checked", "renewed"}
        /\ renewal[c].at = "sent" => renewal[c].token = t

\* From the moment a logout is asked for until the next login.
LogoutOK ==
    /\ session = "closing" => exit.at # "none" /\ jar.refresh = exit.jar.refresh
    /\ session = "closed" => exit.at = "none" /\ user = Nobody
    /\ exit.whole => exit.at = "served"
    /\ redis = "up" /\ exit.whole /\ session = "closing" =>
          exit.jar.refresh \in revoked /\ Stale(exit.jar.refresh)
    /\ redis = "up" /\ session = "closed" =>
          jar.access = NoToken /\ jar.refresh \in revoked /\ Stale(jar.refresh)

\* Tokens, calls and cookies hang together so that a logout is final and every
\* answer tells of its call, whatever expires, overlaps or is lost.
IInv == TypeOK /\ RenewalsOK /\ CallsOK /\ LogoutOK
=============================================================================

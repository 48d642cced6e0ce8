--------------------------- MODULE Session_proofs ---------------------------
(***************************************************************************)
(* The browser's session for any number of users, calls and token pairs:   *)
(* the types, the steps that apiFetch takes as a client of CallPromise,    *)
(* and what a logout leaves behind.                                        *)
(***************************************************************************)
EXTENDS Session, TLAPS

-----------------------------------------------------------------------------
LEMMA InvInit == Init => IInv
<1> SUFFICES ASSUME Init PROVE IInv
  OBVIOUS
<1>1. TypeOK
  BY SessionAssumption DEF Init, TypeOK, NoJar, NoRequest, NoRenewal, NoExit, Kinds, Issued
<1>2. RenewalsOK /\ CallsOK /\ LogoutOK
  BY DEF Init, RenewalsOK, CallsOK, LogoutOK, NoRequest, NoRenewal, NoExit
<1> QED  BY <1>1, <1>2 DEF IInv

\* A login and a renewal issue one more pair, and take none back.
LEMMA IssuedGrows ==
    ASSUME TypeOK, NEW u \in Users, Len(owner) < MaxPairs, owner' = Append(owner, u)
    PROVE  /\ owner' \in Seq(Users) /\ Len(owner') = Len(owner) + 1 /\ Len(owner') <= MaxPairs
           /\ Issued \subseteq Issued'
           /\ \A k \in Kinds : [kind |-> k, pair |-> Len(owner) + 1] \in Issued'
<1>1. owner \in Seq(Users) /\ Len(owner) \in Nat /\ MaxPairs \in Nat
  BY SessionAssumption DEF TypeOK
<1>2. owner' \in Seq(Users) /\ Len(owner') = Len(owner) + 1
  BY <1>1
<1>3. 1 .. Len(owner) \subseteq 1 .. Len(owner') /\ Len(owner) + 1 \in 1 .. Len(owner')
  BY <1>1, <1>2
<1> QED  BY <1>1, <1>2, <1>3 DEF Issued

\* NoToken is none of the tokens issued.
LEMMA NoTokenIssued == TypeOK => NoToken \notin Issued
<1> SUFFICES ASSUME TypeOK PROVE NoToken \notin Issued
  OBVIOUS
<1>1. Len(owner) \in Nat
  BY DEF TypeOK
<1>2. 1 .. Len(owner) \subseteq Nat
  BY <1>1
<1> QED  BY <1>2, SessionAssumption DEF Issued, Kinds
-----------------------------------------------------------------------------
(***************************************************************************)
(* The types.                                                              *)
(***************************************************************************)
Types == TypeOK /\ RenewalsOK

\* The types of what is in the browser and on its way, given the tokens issued.
RequestType(tokens) ==
    [at : {"none", "sent", "executed", "rejected", "denied"}, token : tokens, effect : 0 .. 1]

RenewalType(tokens, n) ==
    [at : {"none", "missing", "sent", "checked", "renewed", "refused"}, token : tokens, pair : 0 .. n]

ExitType(tokens) ==
    [at : {"none", "sent", "served"}, jar : [Kinds -> tokens], whole : BOOLEAN]

\* Types survive a step that issues more tokens.
LEMMA TypesGrow ==
    ASSUME TypeOK, Issued \subseteq Issued', Len(owner) <= Len(owner'), Len(owner') \in Nat
    PROVE  /\ expired \subseteq Issued' /\ revoked \subseteq Issued'
           /\ jar \in [Kinds -> Issued' \cup {NoToken}]
           /\ request \in [Calls -> RequestType(Issued' \cup {NoToken})]
           /\ renewal \in [Calls -> RenewalType(Issued' \cup {NoToken}, Len(owner'))]
           /\ exit \in ExitType(Issued' \cup {NoToken})
<1>1. Len(owner) \in Nat /\ 0 .. Len(owner) \subseteq 0 .. Len(owner')
  BY DEF TypeOK
<1>2. expired \subseteq Issued' /\ revoked \subseteq Issued' /\ jar \in [Kinds -> Issued' \cup {NoToken}]
  BY DEF TypeOK
<1>3. request \in [Calls -> RequestType(Issued' \cup {NoToken})]
  BY DEF TypeOK, RequestType
<1>4. renewal \in [Calls -> RenewalType(Issued' \cup {NoToken}, Len(owner'))]
  BY <1>1 DEF TypeOK, RenewalType
<1>5. exit \in ExitType(Issued' \cup {NoToken})
  BY DEF TypeOK, ExitType
<1> QED  BY <1>2, <1>3, <1>4, <1>5

LEMMA TypesLogin == ASSUME Types, NEW u \in Users, Login(u) PROVE Types'
<1> USE DEF Types
<1>1. Len(owner) < MaxPairs /\ owner' = Append(owner, u)
  BY DEF Login
<1>2. /\ Len(owner') \in Nat /\ Len(owner) <= Len(owner')
      /\ Issued \subseteq Issued'
  BY <1>1, IssuedGrows DEF TypeOK
<1>3. /\ jar' \in [Kinds -> Issued' \cup {NoToken}]
      /\ \A k \in Kinds : jar'[k] # NoToken => jar'[k].kind = k
  BY <1>1, IssuedGrows DEF Login, Access, Refresh, Kinds
<1>4. TypeOK'
  BY <1>1, <1>2, <1>3, IssuedGrows, TypesGrow
  DEF TypeOK, Login, SignedIn, calls, RequestType, RenewalType, ExitType
<1>5. RenewalsOK'
  BY DEF Login, calls, RenewalsOK
<1> QED  BY <1>4, <1>5

LEMMA TypesRenew == ASSUME Types, NEW c \in Calls, Renew(c) PROVE Types'
<1> USE DEF Types
<1>1. /\ renewal[c].at = "checked" /\ renewal[c].token \in Issued
      /\ OwnerOf(renewal[c].token) \in Users
  BY DEF Renew, TypeOK, RenewalsOK, Issued, OwnerOf
<1>2. Len(owner) < MaxPairs /\ owner' = Append(owner, OwnerOf(renewal[c].token))
  BY DEF Renew
<1>3. /\ Len(owner') = Len(owner) + 1 /\ Len(owner) \in Nat /\ Len(owner') <= MaxPairs
      /\ owner' \in Seq(Users) /\ Issued \subseteq Issued'
  BY <1>1, <1>2, IssuedGrows DEF TypeOK
<1>4. /\ expired \subseteq Issued' /\ revoked \subseteq Issued'
      /\ jar \in [Kinds -> Issued' \cup {NoToken}]
      /\ request \in [Calls -> RequestType(Issued' \cup {NoToken})]
      /\ renewal \in [Calls -> RenewalType(Issued' \cup {NoToken}, Len(owner'))]
      /\ exit \in ExitType(Issued' \cup {NoToken})
  <2>1. Len(owner) <= Len(owner') /\ Len(owner') \in Nat
    BY <1>3
  <2> QED  BY <1>3, <2>1, TypesGrow
<1>5. renewal' \in [Calls -> RenewalType(Issued' \cup {NoToken}, Len(owner'))]
  BY <1>3, <1>4 DEF Renew, RenewalType
<1>6. revoked' \subseteq Issued'
  BY <1>1, <1>3, <1>4 DEF Renew, Revoke
<1>7. TypeOK'
  BY <1>3, <1>4, <1>5, <1>6 DEF TypeOK, Renew, browser, RequestType, RenewalType, ExitType
<1>8. RenewalsOK'
  BY <1>3 DEF RenewalsOK, Renew, TypeOK
<1> QED  BY <1>7, <1>8

\* Every other step leaves the pairs alone.
LEMMA SamePairs == owner' = owner => Issued' = Issued
BY DEF Issued

\* The step sets how far a request has come, and the token it carries.
Requested(c, at, t) == request' = [request EXCEPT ![c].at = at, ![c].token = t]

\* What an assignment to two fields of a request or a renewal does.
LEMMA RequestUpdate ==
    ASSUME TypeOK, NEW c \in Calls,
           NEW at \in {"none", "sent", "executed", "rejected", "denied"}, NEW t \in Issued \cup {NoToken},
           Requested(c, at, t)
    PROVE  /\ request' \in [Calls -> RequestType(Issued \cup {NoToken})]
           /\ request'[c] = [at |-> at, token |-> t, effect |-> request[c].effect]
           /\ \A d \in Calls : d # c => request'[d] = request[d]
<1>1. request \in [Calls -> RequestType(Issued \cup {NoToken})]
  BY DEF TypeOK, RequestType
<1>2. request' = [request EXCEPT ![c] = [at |-> at, token |-> t, effect |-> request[c].effect]]
  <2> DEFINE half == [request EXCEPT ![c].at = at]
  <2>1. /\ half \in [Calls -> RequestType(Issued \cup {NoToken})]
        /\ half[c] = [at |-> at, token |-> request[c].token, effect |-> request[c].effect]
        /\ \A d \in Calls : d # c => half[d] = request[d]
    BY <1>1 DEF RequestType
  <2>2. request' = [half EXCEPT ![c].token = t]
    BY DEF Requested
  <2> HIDE DEF half
  <2>3. request' = [half EXCEPT ![c] = [at |-> at, token |-> t, effect |-> request[c].effect]]
    <3>1. [half[c] EXCEPT !.token = t] = [at |-> at, token |-> t, effect |-> request[c].effect]
      BY <2>1
    <3>2. request' = [half EXCEPT ![c] = [half[c] EXCEPT !.token = t]]
      BY <2>2
    <3> QED  BY <3>1, <3>2
  <2> QED  BY <1>1, <2>1, <2>3
<1>3. [at |-> at, token |-> t, effect |-> request[c].effect] \in RequestType(Issued \cup {NoToken})
  BY <1>1 DEF RequestType
<1> HIDE DEF RequestType
<1> QED  BY <1>1, <1>2, <1>3

LEMMA RenewalUpdate ==
    ASSUME TypeOK, NEW c \in Calls,
           NEW r \in RenewalType(Issued \cup {NoToken}, Len(owner)),
           renewal' = [renewal EXCEPT ![c] = r]
    PROVE  /\ renewal' \in [Calls -> RenewalType(Issued \cup {NoToken}, Len(owner))]
           /\ renewal'[c] = r
           /\ \A d \in Calls : d # c => renewal'[d] = renewal[d]
<1>1. renewal \in [Calls -> RenewalType(Issued \cup {NoToken}, Len(owner))]
  BY DEF TypeOK, RenewalType
<1> QED  BY <1>1

\* Steps of one call change its own entries only, and issue nothing.
CallTypes ==
    /\ pc' \in [Calls -> {"idle", "waiting", "renewing", "retrying", "ended"}]
    /\ request' \in [Calls -> RequestType(Issued \cup {NoToken})]
    /\ renewal' \in [Calls -> RenewalType(Issued \cup {NoToken}, Len(owner))]
    /\ answer' \in [Calls -> {"none", "ok", "unauthorized", "rejected", "lost"}]
    /\ jar' \in [Kinds -> Issued \cup {NoToken}]
    /\ \A k \in Kinds : jar'[k] # NoToken => jar'[k].kind = k
    /\ user' \in Users \cup {Nobody}
    /\ UNCHANGED <<owner, expired, revoked, redis, exit, session>>

LEMMA FromCallTypes == TypeOK /\ CallTypes => TypeOK'
<1> SUFFICES ASSUME TypeOK, CallTypes PROVE TypeOK'
  OBVIOUS
<1>1. Issued' = Issued /\ owner' = owner
  BY SamePairs DEF CallTypes
<1> QED  BY <1>1 DEF TypeOK, CallTypes, RequestType, RenewalType

LEMMA TypesSend ==
    ASSUME Types, NEW c \in Calls, apiFetch(c)
    PROVE  Types'
<1> USE DEF Types
<1>1. jar.access \in Issued \cup {NoToken}
  BY DEF TypeOK, Kinds
<1>2. request' \in [Calls -> RequestType(Issued \cup {NoToken})]
  <2>1. Requested(c, "sent", jar.access)
    BY DEF Requested, apiFetch, Send
  <2> QED  BY <1>1, <2>1, RequestUpdate
<1>3. CallTypes
  BY <1>2 DEF CallTypes, TypeOK, apiFetch, Send, backend, browser, RenewalType
<1>4. RenewalsOK'
  BY DEF apiFetch, RenewalsOK
<1> QED  BY <1>3, <1>4, FromCallTypes

LEMMA TypesServe ==
    ASSUME Types, NEW c \in Calls, CallsOK, Serve(c)
    PROVE  Types'
<1> USE DEF Types
<1>1. request \in [Calls -> RequestType(Issued \cup {NoToken})]
  BY DEF TypeOK, RequestType
<1>2. request' \in [Calls -> RequestType(Issued \cup {NoToken})]
  <2>1. CASE request' = [request EXCEPT ![c] = [at |-> "executed", token |-> NoToken, effect |-> @.effect + 1]]
    <3>1. request[c].effect = 0
      BY <1>1 DEF Serve, CallsOK, RequestType
    <3> QED  BY <1>1, <2>1, <3>1 DEF RequestType
  <2>2. CASE request' = [request EXCEPT ![c].at = "rejected", ![c].token = NoToken]
    <3>1. Requested(c, "rejected", NoToken)
      BY <2>2 DEF Requested
    <3> QED  BY <3>1, RequestUpdate
  <2>3. CASE request' = [request EXCEPT ![c].at = "denied", ![c].token = NoToken]
    <3>1. Requested(c, "denied", NoToken)
      BY <2>3 DEF Requested
    <3> QED  BY <3>1, RequestUpdate
  <2> QED  BY <2>1, <2>2, <2>3 DEF Serve
<1>3. CallTypes
  BY <1>2 DEF CallTypes, TypeOK, Serve, backend, browser, RenewalType
<1>4. RenewalsOK'
  BY DEF Serve, RenewalsOK
<1> QED  BY <1>3, <1>4, FromCallTypes

LEMMA TypesEnd ==
    ASSUME Types, NEW c \in Calls, Receive(c) \/ GiveUp(c) \/ NotRenewed(c)
    PROVE  Types'
<1> USE DEF Types
<1>1. PICK a \in {"ok", "unauthorized", "rejected", "lost"} : End(c, a)
  BY DEF Receive, GiveUp, NotRenewed
<1>2. /\ jar' \in {jar, Cleared(jar)}
      /\ UNCHANGED <<owner, expired, revoked, redis, session, request, renewal, exit>>
  BY DEF Receive, GiveUp, NotRenewed, backend
<1>3. jar' \in [Kinds -> Issued \cup {NoToken}] /\ \A k \in Kinds : jar'[k] # NoToken => jar'[k].kind = k
  BY <1>2 DEF TypeOK, Cleared, CookiePath
<1>4. CallTypes
  BY <1>1, <1>2, <1>3 DEF CallTypes, TypeOK, End, Shown, RequestType, RenewalType
<1>5. RenewalsOK'
  BY <1>2 DEF RenewalsOK
<1> QED  BY <1>4, <1>5, FromCallTypes

LEMMA TypesRenewing ==
    ASSUME Types, NEW c \in Calls, AskRenewal(c) \/ CheckRenewal(c)
    PROVE  Types'
<1> USE DEF Types
<1>1. renewal \in [Calls -> RenewalType(Issued \cup {NoToken}, Len(owner))] /\ Len(owner) \in Nat
  BY DEF TypeOK, RenewalType
<1>2. PICK r \in RenewalType(Issued \cup {NoToken}, Len(owner)) :
         /\ renewal' = [renewal EXCEPT ![c] = r]
         /\ r.at \in {"missing", "sent", "refused", "checked"}
         /\ r.at = "checked" => r.token # NoToken
  <2>1. CASE AskRenewal(c)
    <3> DEFINE r == [NoRenewal EXCEPT !.at = IF jar.refresh = NoToken THEN "missing" ELSE "sent",
                                      !.token = jar.refresh]
    <3>1. jar.refresh \in Issued \cup {NoToken}
      BY DEF TypeOK, Kinds
    <3>2. r \in RenewalType(Issued \cup {NoToken}, Len(owner)) /\ r.at \in {"missing", "sent"}
      <4>1. r = [at |-> IF jar.refresh = NoToken THEN "missing" ELSE "sent",
                 token |-> jar.refresh, pair |-> 0]
        <5> DEFINE state == IF jar.refresh = NoToken THEN "missing" ELSE "sent"
                   half == [NoRenewal EXCEPT !.at = state]
        <5> HIDE DEF state
        <5>1. half = [at |-> state, token |-> NoToken, pair |-> 0]
          BY DEF NoRenewal
        <5>2. r = [half EXCEPT !.token = jar.refresh]
          BY DEF state
        <5> HIDE DEF half, r
        <5>3. r = [at |-> state, token |-> jar.refresh, pair |-> 0]
          BY <5>1, <5>2
        <5> QED  BY <5>3 DEF state
      <4>2. 0 \in 0 .. Len(owner)
        BY <1>1
      <4> HIDE DEF r
      <4> QED  BY <3>1, <4>1, <4>2 DEF RenewalType
    <3>3. renewal' = [renewal EXCEPT ![c] = r]
      BY <2>1 DEF AskRenewal
    <3> HIDE DEF r
    <3> QED  BY <3>2, <3>3
  <2>2. CASE CheckRenewal(c) /\ Good(renewal[c].token) /\ renewal' = [renewal EXCEPT ![c].at = "checked"]
    <3> DEFINE r == [renewal[c] EXCEPT !.at = "checked"]
    <3>1. r \in RenewalType(Issued \cup {NoToken}, Len(owner)) /\ r.at = "checked" /\ r.token # NoToken
      BY <1>1, <2>2 DEF RenewalType, Good
    <3>2. renewal' = [renewal EXCEPT ![c] = r]
      BY <2>2
    <3> HIDE DEF r
    <3> QED  BY <3>1, <3>2
  <2>3. CASE renewal' = [renewal EXCEPT ![c].at = "refused", ![c].token = NoToken]
    <3> DEFINE r == [renewal[c] EXCEPT !.at = "refused", !.token = NoToken]
    <3>1. r \in RenewalType(Issued \cup {NoToken}, Len(owner)) /\ r.at = "refused"
      BY <1>1 DEF RenewalType
    <3> DEFINE half == [renewal EXCEPT ![c].at = "refused"]
    <3> HIDE DEF r
    <3>2. renewal' = [renewal EXCEPT ![c] = r]
      <4>1. /\ half \in [Calls -> RenewalType(Issued \cup {NoToken}, Len(owner))]
            /\ [half[c] EXCEPT !.token = NoToken] = r
            /\ \A d \in Calls : d # c => half[d] = renewal[d]
        BY <1>1 DEF RenewalType, r
      <4>2. renewal' = [half EXCEPT ![c].token = NoToken]
        BY <2>3
      <4> HIDE DEF half
      <4>3. renewal' = [half EXCEPT ![c] = r]
        BY <4>1, <4>2
      <4> QED  BY <1>1, <4>1, <4>3
    <3> QED  BY <3>1, <3>2
  <2> QED  BY <2>1, <2>2, <2>3 DEF CheckRenewal
<1>3. /\ renewal' \in [Calls -> RenewalType(Issued \cup {NoToken}, Len(owner))]
      /\ renewal'[c] = r /\ \A d \in Calls : d # c => renewal'[d] = renewal[d]
  BY <1>2, RenewalUpdate
<1>4. CallTypes
  BY <1>3 DEF CallTypes, TypeOK, AskRenewal, CheckRenewal, backend, browser, RequestType
<1>5. RenewalsOK'
  BY <1>2, <1>3 DEF RenewalsOK
<1> QED  BY <1>4, <1>5, FromCallTypes

LEMMA TypesRenewed ==
    ASSUME Types, CallsOK, NEW c \in Calls, Renewed(c)
    PROVE  Types'
<1> USE DEF Types
<1>1. renewal[c].pair \in 1 .. Len(owner)
  <2>1. renewal[c].pair \in 0 .. Len(owner) /\ Len(owner) \in Nat /\ renewal[c].pair >= 1
    BY DEF Renewed, TypeOK, RenewalsOK
  <2> QED  BY <2>1
<1>2. Access(renewal[c].pair) \in Issued /\ Access(renewal[c].pair).kind = "access"
  BY <1>1 DEF Access, Issued, Kinds
<1>3. request' \in [Calls -> RequestType(Issued \cup {NoToken})]
  <2>1. Requested(c, "sent", Access(renewal[c].pair))
    BY DEF Requested, Renewed
  <2> QED  BY <1>2, <2>1, RequestUpdate
<1>4. jar' \in [Kinds -> Issued \cup {NoToken}] /\ \A k \in Kinds : jar'[k] # NoToken => jar'[k].kind = k
  BY <1>2 DEF Renewed, TypeOK, Kinds
<1>5. CallTypes
  BY <1>3, <1>4 DEF CallTypes, TypeOK, Renewed, backend, RenewalType
<1>6. RenewalsOK'
  BY DEF Renewed, RenewalsOK
<1> QED  BY <1>5, <1>6, FromCallTypes

LEMMA TypesLogout ==
    ASSUME Types, AskLogout \/ ServeLogout \/ LogoutArrives \/ LogoutLost
    PROVE  Types'
<1> USE DEF Types
<1>1. Issued' = Issued /\ UNCHANGED <<owner, expired, redis, calls>>
  BY SamePairs DEF AskLogout, ServeLogout, LogoutArrives, LogoutLost, backend
<1>2. exit' \in ExitType(Issued \cup {NoToken})
  <2>1. exit \in ExitType(Issued \cup {NoToken}) /\ jar \in [Kinds -> Issued \cup {NoToken}]
    BY DEF TypeOK, ExitType
  <2>2. NoExit \in ExitType(Issued \cup {NoToken})
    BY DEF NoExit, NoJar, ExitType
  <2>3. CASE AskLogout
    <3>1. exit' = [at |-> "sent", jar |-> jar, whole |-> FALSE]
      BY <2>3 DEF AskLogout, NoExit
    <3> QED  BY <2>1, <3>1 DEF ExitType
  <2>4. CASE ServeLogout
    <3>1. \E w \in BOOLEAN : exit' = [at |-> "served", jar |-> exit.jar, whole |-> w]
      BY <2>1, <2>4 DEF ServeLogout, ExitType
    <3> QED  BY <2>1, <3>1 DEF ExitType
  <2>5. CASE LogoutArrives \/ LogoutLost
    BY <2>2, <2>5 DEF LogoutArrives, LogoutLost
  <2> QED  BY <2>3, <2>4, <2>5
<1>3. revoked' \subseteq Issued
  <2>1. CASE ServeLogout /\ Good(exit.jar.access) /\ Revoke(LogoutTokens(exit.jar))
    <3>1. exit.jar.access \in Issued
      BY <2>1 DEF Good, TypeOK, Kinds
    <3>2. SameUser(exit.jar) => exit.jar.refresh \in Issued
      BY DEF SameUser, TypeOK, Kinds
    <3>3. LogoutTokens(exit.jar) \subseteq Issued
      BY <3>1, <3>2 DEF LogoutTokens
    <3> QED  BY <2>1, <3>3 DEF Revoke, TypeOK
  <2>2. CASE UNCHANGED revoked
    BY <2>2 DEF TypeOK
  <2> QED  BY <2>1, <2>2 DEF AskLogout, ServeLogout, LogoutArrives, LogoutLost, backend
<1>4. jar' \in [Kinds -> Issued \cup {NoToken}] /\ \A k \in Kinds : jar'[k] # NoToken => jar'[k].kind = k
  <2>1. jar' \in {jar, Cleared(jar)}
    BY DEF AskLogout, ServeLogout, LogoutArrives, LogoutLost, browser
  <2> QED  BY <2>1 DEF TypeOK, Cleared, CookiePath
<1>5. user' \in Users \cup {Nobody} /\ session' \in {"none", "open", "closing", "closed", "torn"}
  BY DEF TypeOK, AskLogout, ServeLogout, LogoutArrives, LogoutLost, browser
<1>6. TypeOK'
  BY <1>1, <1>2, <1>3, <1>4, <1>5 DEF TypeOK, calls, ExitType
<1>7. RenewalsOK'
  BY <1>1 DEF RenewalsOK, calls
<1> QED  BY <1>6, <1>7

LEMMA TypesEnvironment ==
    ASSUME Types, (\E t \in Token : Expire(t)) \/ RedisFails \/ UNCHANGED vars
    PROVE  Types'
<1> USE DEF Types
<1>1. CASE \E t \in Token : Expire(t)
  <2>1. PICK t \in Issued :
           /\ expired' = expired \cup {t}
           /\ jar' = IF jar.access = t THEN [jar EXCEPT !.access = NoToken] ELSE jar
           /\ UNCHANGED <<owner, revoked, redis, user, session, calls, exit>>
    BY <1>1 DEF Expire
  <2>2. Issued' = Issued
    BY <2>1, SamePairs
  <2>3. jar' \in [Kinds -> Issued \cup {NoToken}] /\ \A k \in Kinds : jar'[k] # NoToken => jar'[k].kind = k
    BY <2>1 DEF TypeOK, Kinds
  <2>4. TypeOK'
    BY <2>1, <2>2, <2>3 DEF TypeOK, calls
  <2> QED  BY <2>1, <2>4 DEF RenewalsOK, calls
<1>2. CASE RedisFails \/ UNCHANGED vars
  <2>1. UNCHANGED <<owner, expired, revoked, jar, user, session, pc, request, renewal, answer, exit>>
        /\ redis' \in {"up", "down"}
    BY <1>2 DEF RedisFails, vars, backend, browser, calls, TypeOK
  <2>2. Issued' = Issued
    BY <2>1, SamePairs
  <2> QED  BY <2>1, <2>2 DEF TypeOK, RenewalsOK
<1> QED  BY <1>1, <1>2

-----------------------------------------------------------------------------
(***************************************************************************)
(* The calls, and what each step is to the pages that made them.           *)
(***************************************************************************)
Kept == TypeOK /\ CallsOK

\* The two variables of CallPromise that are not the session's own.
Phase  == [c \in Calls |-> IF pc[c] \in {"idle", "ended"} THEN pc[c] ELSE "open"]
Effect == [c \in Calls |-> request[c].effect]

PromiseStep == [Promised!Next]_(Promised!vars)

\* Two steps of the promise in the terms of the session.
LEMMA SubmitMaps ==
    ASSUME NEW c \in Calls, Phase[c] = "idle", Phase' = [Phase EXCEPT ![c] = "open"],
           Effect' = Effect, answer' = answer
    PROVE  Promised!Submit(c)
BY DEF Promised!Submit, Phase, Effect

LEMMA TakeEffectMaps ==
    ASSUME NEW c \in Calls, Phase[c] = "open" \/ answer[c] = "lost", Effect[c] = 0,
           Effect' = [Effect EXCEPT ![c] = 1], Phase' = Phase, answer' = answer
    PROVE  Promised!TakeEffect(c)
BY DEF Promised!TakeEffect, Phase, Effect

\* A step that no page could notice.
LEMMA Unnoticed ==
    ASSUME answer' = answer,
           \A c \in Calls : /\ request'[c].effect = request[c].effect
                            /\ pc'[c] = "idle" <=> pc[c] = "idle"
                            /\ pc'[c] = "ended" <=> pc[c] = "ended"
    PROVE  PromiseStep
<1>1. UNCHANGED Promised!vars
  BY DEF Promised!vars
<1> QED  BY <1>1 DEF PromiseStep

LEMMA CallsSend == ASSUME Kept, NEW c \in Calls, apiFetch(c) PROVE CallsOK' /\ PromiseStep
<1> USE DEF Kept
<1>1. jar.access \in Issued \cup {NoToken}
  BY DEF TypeOK, Kinds
<1>2. /\ request'[c] = [at |-> "sent", token |-> jar.access, effect |-> request[c].effect]
      /\ \A d \in Calls : d # c => request'[d] = request[d]
  <2>1. Requested(c, "sent", jar.access)
    BY DEF Requested, apiFetch, Send
  <2> QED  BY <1>1, <2>1, RequestUpdate
<1>3. /\ pc[c] = "idle" /\ pc'[c] = "waiting"
      /\ \A d \in Calls : d # c => pc'[d] = pc[d]
      /\ answer' = answer
  BY DEF apiFetch, Send, TypeOK
<1>4. request[c].effect # 1
  BY <1>3 DEF CallsOK
<1>5. CallsOK'
  BY <1>2, <1>3, <1>4 DEF CallsOK
<1>6. Promised!Submit(c)
  <2>1. Phase[c] = "idle" /\ Phase' = [Phase EXCEPT ![c] = "open"]
    BY <1>3 DEF Phase
  <2>2. Effect' = Effect
    BY <1>2 DEF Effect
  <2>3. answer' = answer
    BY <1>3
  <2> QED  BY <2>1, <2>2, <2>3, SubmitMaps
<1> QED  BY <1>5, <1>6 DEF PromiseStep, Promised!Next

LEMMA CallsServe == ASSUME Kept, NEW c \in Calls, Serve(c) PROVE CallsOK' /\ PromiseStep
<1> USE DEF Kept
<1>1. request[c].at = "sent" /\ UNCHANGED <<pc, answer>>
  BY DEF Serve
<1>2. request \in [Calls -> RequestType(Issued \cup {NoToken})]
  BY DEF TypeOK, RequestType
<1>3. request[c].effect = 0
  BY <1>1, <1>2 DEF CallsOK, RequestType
<1>4. CASE request' = [request EXCEPT ![c] = [at |-> "executed", token |-> NoToken, effect |-> @.effect + 1]]
  <2>1. /\ request'[c] = [at |-> "executed", token |-> NoToken, effect |-> 1]
        /\ \A d \in Calls : d # c => request'[d] = request[d]
    BY <1>2, <1>3, <1>4
  <2>2. CallsOK'
    BY <1>1, <2>1 DEF CallsOK
  <2>3. Promised!TakeEffect(c)
    <3>1. Phase' = Phase /\ (Phase[c] = "open" \/ answer[c] = "lost")
      <4>1. Phase' = Phase
        BY <1>1 DEF Phase
      <4>2. pc[c] # "idle" /\ (pc[c] = "ended" => answer[c] = "lost")
        BY <1>1 DEF CallsOK
      <4>3. Phase[c] = "open" \/ answer[c] = "lost"
        BY <4>2 DEF Phase
      <4> QED  BY <4>1, <4>3
    <3>2. Effect[c] = 0
      BY <1>3 DEF Effect
    <3>3. Effect' = [Effect EXCEPT ![c] = 1]
      <4>1. \A d \in Calls : request'[d].effect = IF d = c THEN 1 ELSE request[d].effect
        BY <2>1
      <4> QED  BY <4>1 DEF Effect
    <3>4. answer' = answer
      BY <1>1
    <3> QED  BY <3>1, <3>2, <3>3, <3>4, TakeEffectMaps
  <2> QED  BY <2>2, <2>3 DEF PromiseStep, Promised!Next
<1>5. CASE \E at \in {"rejected", "denied"} : request' = [request EXCEPT ![c].at = at, ![c].token = NoToken]
  <2>1. PICK at \in {"rejected", "denied"} : request' = [request EXCEPT ![c].at = at, ![c].token = NoToken]
    BY <1>5
  <2>2. /\ request'[c] = [at |-> at, token |-> NoToken, effect |-> request[c].effect]
        /\ \A d \in Calls : d # c => request'[d] = request[d]
    <3>1. Requested(c, at, NoToken)
      BY <2>1 DEF Requested
    <3> QED  BY <3>1, RequestUpdate
  <2>3. CallsOK'
    BY <1>1, <1>3, <2>2 DEF CallsOK
  <2> QED  BY <1>1, <2>2, <2>3, Unnoticed
<1> QED  BY <1>4, <1>5 DEF Serve

LEMMA CallsEnd ==
    ASSUME Kept, NEW c \in Calls, Receive(c) \/ GiveUp(c) \/ NotRenewed(c)
    PROVE  CallsOK' /\ PromiseStep
<1> USE DEF Kept
<1>1. PICK a \in {"ok", "unauthorized", "rejected", "lost"} :
         /\ End(c, a)
         /\ pc[c] \in {"waiting", "retrying", "renewing"}
         /\ a = "ok" => request[c].at = "executed"
         /\ a \in {"unauthorized", "rejected"} => request[c].at \in {"rejected", "denied"}
  BY DEF Receive, GiveUp, NotRenewed, Awaits, CallsOK
<1>2. UNCHANGED request
  BY DEF Receive, GiveUp, NotRenewed
<1>3. /\ pc' = [pc EXCEPT ![c] = "ended"] /\ answer' = [answer EXCEPT ![c] = a]
      /\ pc'[c] = "ended" /\ answer'[c] = a
      /\ \A d \in Calls : d # c => pc'[d] = pc[d] /\ answer'[d] = answer[d]
  BY <1>1 DEF End, TypeOK
<1>4. request[c].effect \in {0, 1}
  BY DEF TypeOK
<1>5. CallsOK'
  BY <1>1, <1>2, <1>3 DEF CallsOK
<1>6. /\ a = "ok" => request[c].effect = 1
      /\ a \in {"unauthorized", "rejected"} => request[c].effect = 0
  BY <1>1, <1>4 DEF CallsOK
<1>7. Promised!Answer(c, a)
  BY <1>1, <1>2, <1>3, <1>6 DEF Promised!Answer
<1> QED  BY <1>5, <1>7 DEF PromiseStep, Promised!Next, Promised!Answers

LEMMA CallsAsk == ASSUME Kept, NEW c \in Calls, AskRenewal(c) PROVE CallsOK' /\ PromiseStep
<1> USE DEF Kept
<1>1. /\ pc[c] = "waiting" /\ request[c].at = "denied" /\ pc'[c] = "renewing"
      /\ \A d \in Calls : d # c => pc'[d] = pc[d]
      /\ UNCHANGED <<request, answer>>
  BY DEF AskRenewal, TypeOK
<1>2. CallsOK'
  BY <1>1 DEF CallsOK
<1> QED  BY <1>1, <1>2, Unnoticed

LEMMA CallsRenewed ==
    ASSUME Kept, RenewalsOK, NEW c \in Calls, Renewed(c)
    PROVE  CallsOK' /\ PromiseStep
<1> USE DEF Kept
<1>1. Access(renewal[c].pair) \in Issued
  <2>1. renewal[c].pair \in 0 .. Len(owner) /\ Len(owner) \in Nat /\ renewal[c].pair >= 1
    BY DEF Renewed, TypeOK, RenewalsOK
  <2> QED  BY <2>1 DEF Access, Issued, Kinds
<1>2. /\ request'[c] = [at |-> "sent", token |-> Access(renewal[c].pair), effect |-> request[c].effect]
      /\ \A d \in Calls : d # c => request'[d] = request[d]
  <2>1. Requested(c, "sent", Access(renewal[c].pair))
    BY DEF Requested, Renewed
  <2> QED  BY <1>1, <2>1, RequestUpdate
<1>3. /\ pc[c] = "renewing" /\ pc'[c] = "retrying" /\ request[c].at = "denied"
      /\ \A d \in Calls : d # c => pc'[d] = pc[d]
      /\ answer' = answer
  BY DEF Renewed, TypeOK, CallsOK
<1>4. request[c].effect # 1
  BY <1>3 DEF CallsOK
<1>5. CallsOK'
  BY <1>2, <1>3, <1>4 DEF CallsOK
<1> QED  BY <1>2, <1>3, <1>5, Unnoticed

\* Everything else leaves the calls as they are.
LEMMA CallsRest ==
    ASSUME Kept, UNCHANGED <<pc, request, answer>>
    PROVE  CallsOK' /\ PromiseStep
<1>1. CallsOK'
  BY DEF Kept, CallsOK
<1> QED  BY <1>1, Unnoticed

-----------------------------------------------------------------------------
(***************************************************************************)
(* The logout.                                                             *)
(***************************************************************************)
\* Steps of calls that do not touch the cookies, the tokens or the logout: what
\* they may do is ask for a renewal with the cookie there is.
LEMMA LogoutCall ==
    ASSUME IInv, NEW c \in Calls,
           \/ apiFetch(c) \/ Serve(c) \/ Receive(c) \/ GiveUp(c) \/ AskRenewal(c) \/ NotRenewed(c)
    PROVE  LogoutOK'
<1> USE DEF IInv
<1>1. UNCHANGED <<owner, expired, revoked, redis, session, exit>>
  BY DEF apiFetch, Serve, Receive, GiveUp, AskRenewal, NotRenewed, backend, browser
<1>2. jar' \in {jar, Cleared(jar)} /\ user' \in {user, Nobody}
  BY DEF apiFetch, Serve, Receive, GiveUp, AskRenewal, NotRenewed, browser, End, Shown
<1>3. jar'.refresh = jar.refresh /\ jar'.access \in {jar.access, NoToken}
  BY <1>2 DEF TypeOK, Cleared, CookiePath, Kinds
<1>4. \A d \in Calls : pc'[d] = "renewing" =>
          \/ pc[d] = "renewing" /\ renewal'[d] = renewal[d]
          \/ renewal'[d].at \in {"missing", "sent"} /\ renewal'[d].token = jar.refresh
  <2>1. CASE AskRenewal(c)
    <3>1. /\ renewal'[c].at \in {"missing", "sent"} /\ renewal'[c].token = jar.refresh
          /\ \A d \in Calls : d # c => pc'[d] = pc[d] /\ renewal'[d] = renewal[d]
      BY <2>1 DEF AskRenewal, TypeOK, NoRenewal
    <3> QED  BY <3>1
  <2>2. CASE ~AskRenewal(c)
    <3>1. renewal' = renewal
      BY <2>2 DEF apiFetch, Serve, Receive, GiveUp, NotRenewed
    <3>2. \A d \in Calls : pc'[d] = "renewing" => pc[d] = "renewing"
      BY <2>2 DEF apiFetch, Send, Serve, Receive, GiveUp, NotRenewed, End, TypeOK
    <3> QED  BY <3>1, <3>2
  <2> QED  BY <2>1, <2>2
<1>5. Stale(jar.refresh) => Stale(jar.refresh)'
  BY <1>3, <1>4 DEF Stale
<1>6. session = "closing" => (Stale(exit.jar.refresh) => Stale(exit.jar.refresh)')
  BY <1>1, <1>3, <1>4 DEF Stale, LogoutOK
<1> QED  BY <1>1, <1>2, <1>3, <1>5, <1>6 DEF LogoutOK

LEMMA LogoutRenewal ==
    ASSUME IInv, NEW c \in Calls, CheckRenewal(c) \/ Renew(c)
    PROVE  LogoutOK'
<1> USE DEF IInv
<1>1. UNCHANGED <<redis, jar, user, session, exit, pc>> /\ revoked \subseteq revoked'
  BY DEF CheckRenewal, Renew, backend, browser, Revoke
<1>2. \A t \in revoked : redis = "up" /\ Stale(t) => Stale(t)'
  <2> SUFFICES ASSUME NEW t \in revoked, redis = "up", Stale(t),
                      NEW d \in Calls, pc[d] = "renewing"
               PROVE  /\ renewal'[d].at \notin {"checked", "renewed"}
                      /\ renewal'[d].at = "sent" => renewal'[d].token = t
    BY <1>1 DEF Stale
  <2>1. /\ renewal[d].at \notin {"checked", "renewed"}
        /\ renewal[d].at = "sent" => renewal[d].token = t
    BY DEF Stale
  <2>2. ~Good(t)
    BY DEF Good, Listed
  <2>3. CASE d = c
    <3>1. CheckRenewal(c) /\ renewal[c].token = t
      BY <2>1, <2>3 DEF CheckRenewal, Renew
    <3>2. renewal' = [renewal EXCEPT ![c].at = "refused", ![c].token = NoToken]
      BY <2>2, <3>1 DEF CheckRenewal
    <3>3. renewal'[c].at = "refused"
      BY <3>2 DEF TypeOK
    <3> QED  BY <2>3, <3>3
  <2>4. CASE d # c
    <3>1. renewal'[d] = renewal[d]
      BY <2>4 DEF CheckRenewal, Renew, TypeOK
    <3> QED  BY <2>1, <3>1
  <2> QED  BY <2>3, <2>4
<1> QED  BY <1>1, <1>2 DEF LogoutOK

\* A renewal that arrives is one that no whole logout has overlapped.
LEMMA LogoutRenewed ==
    ASSUME IInv, NEW c \in Calls, Renewed(c)
    PROVE  LogoutOK'
<1> USE DEF IInv
<1>1. /\ UNCHANGED <<owner, expired, revoked, redis, user, session, exit, renewal>>
      /\ pc[c] = "renewing" /\ renewal[c].at = "renewed"
      /\ jar'.refresh = jar.refresh
  BY DEF Renewed, backend, TypeOK, Kinds
<1>2. \A t : ~Stale(t)
  BY <1>1 DEF Stale
<1> QED  BY <1>1, <1>2 DEF LogoutOK

LEMMA LogoutLogin ==
    ASSUME IInv, NEW u \in Users, Login(u)
    PROVE  LogoutOK'
BY DEF IInv, Login, SignedIn, LogoutOK, calls

LEMMA LogoutSteps ==
    ASSUME IInv, AskLogout \/ ServeLogout \/ LogoutArrives \/ LogoutLost
    PROVE  LogoutOK'
<1> USE DEF IInv
<1>1. CASE AskLogout
  <2>1. exit' = [at |-> "sent", jar |-> jar, whole |-> FALSE]
    BY <1>1 DEF AskLogout, NoExit
  <2>2. exit'.at = "sent" /\ exit'.jar = jar /\ exit'.whole = FALSE
    BY <2>1
  <2>3. session' = "closing" /\ UNCHANGED jar
    BY <1>1 DEF AskLogout
  <2> QED  BY <2>2, <2>3 DEF LogoutOK
<1>2. CASE ServeLogout
  <2>1. /\ exit.at = "sent" /\ UNCHANGED <<redis, jar, user, session, pc, renewal>>
        /\ exit'.at = "served" /\ exit'.jar = exit.jar /\ revoked \subseteq revoked'
    BY <1>2 DEF ServeLogout, TypeOK, backend, browser, calls, Revoke
  <2>2. exit.whole = FALSE
    BY <2>1 DEF LogoutOK, TypeOK
  <2>3. redis = "up" /\ exit'.whole => exit.jar.refresh \in revoked' /\ Stale(exit.jar.refresh)'
    <3> SUFFICES ASSUME redis = "up", exit'.whole
                 PROVE  exit.jar.refresh \in revoked' /\ Stale(exit.jar.refresh)'
      OBVIOUS
    <3>1. /\ Revoke(LogoutTokens(exit.jar))
          /\ exit' = [exit EXCEPT !.at = "served", !.whole = SameUser(exit.jar) /\ ~Underway]
      BY <1>2, <2>2 DEF ServeLogout, TypeOK
    <3>2. SameUser(exit.jar) /\ ~Underway
      BY <3>1 DEF TypeOK
    <3>3. exit.jar.refresh \in revoked'
      BY <3>1, <3>2 DEF Revoke, LogoutTokens
    <3>4. Stale(exit.jar.refresh)'
      BY <2>1, <3>2 DEF Stale, Underway
    <3> QED  BY <3>3, <3>4
  <2> QED  BY <2>1, <2>3 DEF LogoutOK
<1>3. CASE LogoutArrives
  <2>1. /\ jar'.refresh = jar.refresh /\ jar'.access = NoToken
        /\ user' = Nobody /\ exit' = NoExit /\ UNCHANGED <<revoked, redis, pc, renewal>>
        /\ session' = IF session = "closing" THEN (IF exit.whole THEN "closed" ELSE "torn") ELSE session
    BY <1>3 DEF LogoutArrives, Cleared, CookiePath, Kinds, backend, calls
  <2>2. session # "closed"
    BY <1>3 DEF LogoutArrives, LogoutOK
  <2>3. \A t : Stale(t) => Stale(t)'
    BY <2>1 DEF Stale
  <2> QED  BY <2>1, <2>2, <2>3 DEF LogoutOK, NoExit
<1>4. CASE LogoutLost
  <2>1. session \notin {"closed"} /\ session' \notin {"closed", "closing"} /\ exit' = NoExit
    BY <1>4 DEF LogoutLost, LogoutOK
  <2> QED  BY <2>1 DEF LogoutOK, NoExit
<1> QED  BY <1>1, <1>2, <1>3, <1>4

LEMMA LogoutEnvironment ==
    ASSUME IInv, (\E t \in Token : Expire(t)) \/ RedisFails \/ UNCHANGED vars
    PROVE  LogoutOK'
<1> USE DEF IInv
<1>1. /\ UNCHANGED <<revoked, user, session, exit, pc, renewal>>
      /\ redis' = "up" => redis = "up"
      /\ jar'.refresh = jar.refresh /\ jar'.access \in {jar.access, NoToken}
  BY DEF Expire, RedisFails, vars, backend, browser, calls, TypeOK, Kinds
<1>2. \A t : Stale(t) => Stale(t)'
  BY <1>1 DEF Stale
<1> QED  BY <1>1, <1>2 DEF LogoutOK

-----------------------------------------------------------------------------
LEMMA InvNext == IInv /\ [Next]_vars => IInv' /\ PromiseStep
<1> SUFFICES ASSUME IInv, [Next]_vars PROVE IInv' /\ PromiseStep
  OBVIOUS
<1>0. Types /\ Kept /\ RenewalsOK /\ CallsOK
  BY DEF IInv, Types, Kept
<1>1. ASSUME NEW u \in Users, Login(u) PROVE IInv' /\ PromiseStep
  <2>1. UNCHANGED <<pc, request, answer>>
    BY <1>1 DEF Login, calls
  <2> QED  BY <1>0, <1>1, <2>1, TypesLogin, CallsRest, LogoutLogin DEF IInv, Types
<1>2. ASSUME NEW c \in Calls, apiFetch(c) PROVE IInv' /\ PromiseStep
  BY <1>0, <1>2, TypesSend, CallsSend, LogoutCall DEF IInv, Types
<1>3. ASSUME NEW c \in Calls, Serve(c) PROVE IInv' /\ PromiseStep
  BY <1>0, <1>3, TypesServe, CallsServe, LogoutCall DEF IInv, Types
<1>4. ASSUME NEW c \in Calls, Receive(c) \/ GiveUp(c) \/ NotRenewed(c)
      PROVE  IInv' /\ PromiseStep
  BY <1>0, <1>4, TypesEnd, CallsEnd, LogoutCall DEF IInv, Types
<1>5. ASSUME NEW c \in Calls, AskRenewal(c) PROVE IInv' /\ PromiseStep
  BY <1>0, <1>5, TypesRenewing, CallsAsk, LogoutCall DEF IInv, Types
<1>6. ASSUME NEW c \in Calls, CheckRenewal(c) PROVE IInv' /\ PromiseStep
  <2>1. UNCHANGED <<pc, request, answer>>
    BY <1>6 DEF CheckRenewal
  <2> QED  BY <1>0, <1>6, <2>1, TypesRenewing, CallsRest, LogoutRenewal DEF IInv, Types
<1>7. ASSUME NEW c \in Calls, Renew(c) PROVE IInv' /\ PromiseStep
  <2>1. UNCHANGED <<pc, request, answer>>
    BY <1>7 DEF Renew
  <2> QED  BY <1>0, <1>7, <2>1, TypesRenew, CallsRest, LogoutRenewal DEF IInv, Types
<1>8. ASSUME NEW c \in Calls, Renewed(c) PROVE IInv' /\ PromiseStep
  BY <1>0, <1>8, TypesRenewed, CallsRenewed, LogoutRenewed DEF IInv, Types
<1>9. CASE AskLogout \/ ServeLogout \/ LogoutArrives \/ LogoutLost
  <2>1. UNCHANGED <<pc, request, answer>>
    BY <1>9 DEF AskLogout, ServeLogout, LogoutArrives, LogoutLost, calls
  <2> QED  BY <1>0, <1>9, <2>1, TypesLogout, CallsRest, LogoutSteps DEF IInv, Types
<1>10. CASE (\E t \in Token : Expire(t)) \/ RedisFails \/ UNCHANGED vars
  <2>1. UNCHANGED <<pc, request, answer>>
    BY <1>10 DEF Expire, RedisFails, vars, calls
  <2> QED  BY <1>0, <1>10, <2>1, TypesEnvironment, CallsRest, LogoutEnvironment DEF IInv, Types
<1> QED
  BY <1>1, <1>2, <1>3, <1>4, <1>5, <1>6, <1>7, <1>8, <1>9, <1>10 DEF Next, Proceed

THEOREM Inductive == Spec => []IInv
<1>1. IInv /\ [Next]_vars => IInv'
  BY InvNext
<1> QED  BY <1>1, InvInit, PTL DEF Spec

\* Cookies, requests and renewals carry tokens that were issued, and an access
\* cookie never holds a refresh token.
THEOREM TypeCorrect == Spec => []TypeOK
<1>1. IInv => TypeOK
  BY DEF IInv
<1> QED  BY <1>1, Inductive, PTL

\* header.tsx, route.ts, handler.go: a logout that was carried out whole leaves
\* nothing in the browser that the backend accepts, until somebody signs in.
THEOREM LoggedOutIsOut == Spec => []LogoutHolds
<1>1. IInv => LogoutHolds
  <2> SUFFICES ASSUME IInv, session = "closed", redis = "up", NEW k \in Kinds
               PROVE  ~Good(jar[k])
    BY DEF LogoutHolds
  <2>1. jar.access = NoToken /\ jar.refresh \in revoked
    BY DEF IInv, LogoutOK
  <2> QED  BY <2>1 DEF Kinds, Good, Listed
<1> QED  BY <1>1, Inductive, PTL

\* lib/api.ts: every step of the session is a step of CallPromise or one that no
\* page could notice, however many calls renew the session side by side.
THEOREM StepsOfPromise == Spec => Promised!Init /\ [][Promised!Next]_(Promised!vars)
<1>1. Init => Promised!Init
  BY DEF Init, Promised!Init, NoRequest
<1>2. IInv /\ [Next]_vars => [Promised!Next]_(Promised!vars)
  BY InvNext DEF PromiseStep
<1> QED  BY <1>1, <1>2, Inductive, PTL DEF Spec
=============================================================================

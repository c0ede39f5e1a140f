----------------------------- MODULE TenantGuards -----------------------------
(***************************************************************************)
(* The life of the two tokens that most endpoints ask for: a user signs in *)
(* and is given an auth token, asks for the tenants and is given a token   *)
(* for each, and sends both with later requests, where TokenAuthGuard and  *)
(* TokenTenantGuard read them.  A token is good for TokenLife.             *)
(***************************************************************************)
EXTENDS Naturals

CONSTANTS
    Users,         \* accounts; none is ever removed
    MemberTenants, \* pairs of user and tenant
    TokenLife,     \* 10 days
    MaxTime,       \* bounds the clock
    None

VARIABLES
    now,
    authTokens,    \* signed by signIn: [user, exp]
    tenantTokens,  \* signed by findAllTenantsForUser: [member, exp]
    request        \* the request at its guards, or the one they decided last:
                   \* its transport, the tokens it brings, the guard it is at
                   \* or its fate, and the tenantId it is given

vars == <<now, authTokens, tenantTokens, request>>

Init ==
    /\ now = 0 /\ authTokens = {} /\ tenantTokens = {}
    /\ request = [transport |-> "http", auth |-> None, tenant |-> None,
                  step |-> "rejected", tenantId |-> None]
-----------------------------------------------------------------------------
\* decodeJwt: expired is exp <= now.
Valid(token) == token # None /\ now < token.exp

SignIn(u) ==
    /\ authTokens' = authTokens \cup {[user |-> u, exp |-> now + TokenLife]}
    /\ UNCHANGED <<now, tenantTokens, request>>

\* Behind TokenAuthGuard.
FindAllTenants(t) ==
    /\ Valid(t)
    /\ tenantTokens' = tenantTokens \cup
         {[member |-> m, exp |-> now + TokenLife] :
            m \in {n \in MemberTenants : n[1] = t.user}}
    /\ UNCHANGED <<now, authTokens, request>>

\* The gateway's messages and the blockchain and candidate endpoints have the
\* second guard only, the others both.  None stands for a missing or a
\* malformed token.
Send(transport, auth, tenant) ==
    /\ request.step \in {"passed", "rejected"}
    /\ \E guard \in {"authGuard", "tenantGuard"} :
         /\ transport = "ws" => guard = "tenantGuard"
         /\ request' = [transport |-> transport, auth |-> auth, tenant |-> tenant,
                        step |-> guard, tenantId |-> None]
    /\ UNCHANGED <<now, authTokens, tenantTokens>>

\* TokenAuthGuard.
CheckAuth ==
    /\ request.step = "authGuard"
    /\ request' = [request EXCEPT !.step =
                     IF Valid(request.auth) THEN "tenantGuard" ELSE "rejected"]
    /\ UNCHANGED <<now, authTokens, tenantTokens>>

\* What both getRequest and getClient return, the first argument of the
\* handler, has: a request of express its headers, a socket its handshake.
Properties(transport) == IF transport = "http" THEN {"headers"} ELSE {"handshake"}

\* isWs is the method switchToWs itself, which is never falsy, so that headers
\* and handshake are both read, and the one that is not there throws.
ReadsBoth == {"headers", "handshake"} \subseteq Properties(request.transport)

\* TokenTenantGuard.
CheckTenant ==
    /\ request.step = "tenantGuard"
    /\ request' = IF ReadsBoth /\ Valid(request.tenant)
                  THEN [request EXCEPT !.step = "passed",
                                       !.tenantId = request.tenant.member[2]]
                  ELSE [request EXCEPT !.step = "rejected"]
    /\ UNCHANGED <<now, authTokens, tenantTokens>>

Tick ==
    /\ now < MaxTime
    /\ now' = now + 1
    /\ UNCHANGED <<authTokens, tenantTokens, request>>

Next ==
    \/ \E u \in Users : SignIn(u)
    \/ \E t \in authTokens : FindAllTenants(t)
    \/ \E transport \in {"http", "ws"}, a \in authTokens \cup {None},
          t \in tenantTokens \cup {None} : Send(transport, a, t)
    \/ CheckAuth \/ CheckTenant \/ Tick

Spec == Init /\ [][Next]_vars
-----------------------------------------------------------------------------
\* TokenTenantGuard.canActivate, "Valida si una solicitud (HTTP o WebSocket)
\* contiene un token de tenant válido": a request that comes to it with a
\* token that is still good passes.
ValidTokenPasses ==
    [][request.step = "tenantGuard" /\ request'.step = "rejected" =>
         ~Valid(request.tenant)]_vars
=============================================================================

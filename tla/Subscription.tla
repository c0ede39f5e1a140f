----------------------------- MODULE Subscription -----------------------------
(***************************************************************************)
(* From the subscription form to a provisioned tenant: the checkout        *)
(* (createSuscription) and the webhook that Stripe calls once a checkout   *)
(* is paid (webhookPayment), which creates the tenant and its owner in     *)
(* MongoDB, deploys the two contracts through the Hardhat service and      *)
(* registers one in the other.  Stripe delivers an event at least once,    *)
(* also while an earlier delivery is still handled; the endpoint takes     *)
(* whatever is posted, of any type and with any metadata.  Each action is  *)
(* the code from one await to the next.  The session of the transaction    *)
(* that webhookPayment opens is passed to no operation: each write is      *)
(* visible at once, and aborting takes nothing back.                       *)
(***************************************************************************)
EXTENDS Naturals, FiniteSets

CONSTANTS
    Checkouts,    \* subscription forms that are sent
    Deliveries,   \* POSTs to the webhook
    Users,        \* those registered; no operation deletes one
    Names, Domains,  \* a missing one is looked up and saved like a value
    None

VARIABLES
    stage,           \* of each checkout: "idle", "check", "stripe", "open", "paid", "refused"
    order,           \* who subscribes, under which name and domain
    metadata,        \* the order each delivery brings
    step,            \* the await its handler is at
    answer,          \* "none", "ok" (201), "ignored" (201, empty) or "error" (4xx, 5xx)
    configurations,  \* the deliveries that saved a Configuration document
    tenants,         \* the deliveries that saved a Tenant document
    owners,          \* the deliveries that saved a MemberTenant with role owner
    elections,       \* the Election contracts deployed, by delivery
    detailed,        \* those whose details are set
    electionAddress, \* of each MemberTenant
    tenantAddress,   \* of each MemberTenant
    registry         \* of each Tenant contract: the election under its domain

checkoutVars == <<stage, order>>
deliveryVars == <<metadata, step, answer>>
mongoVars == <<configurations, tenants, owners, electionAddress, tenantAddress>>
chainVars == <<elections, detailed, registry>>
vars == <<checkoutVars, deliveryVars, mongoVars, chainVars>>

Order == [user : Users, name : Names, domain : Domains]

\* What a POST may bring; None is an id that no user has.
Metadata == [user : Users \cup {None}, name : Names, domain : Domains]

\* The awaits of webhookPayment, in their order.
InFlight == {"check", "user", "recheck", "configuration", "tenant", "owner",
             "deployElection", "saveElection", "details", "deployTenant",
             "saveTenant", "register"}

TypeOK ==
    /\ stage \in [Checkouts -> {"idle", "check", "stripe", "open", "paid", "refused"}]
    /\ order \in [Checkouts -> Order \cup {None}]
    /\ \A c \in Checkouts : stage[c] # "idle" => order[c] \in Order
    /\ metadata \in [Deliveries -> Metadata \cup {None}]
    /\ step \in [Deliveries -> InFlight \cup {"idle", "done", "lost"}]
    /\ answer \in [Deliveries -> {"none", "ok", "ignored", "error"}]
    /\ tenants \subseteq configurations
    /\ configurations \subseteq Deliveries
    /\ owners \subseteq tenants
    /\ elections \subseteq owners
    /\ detailed \subseteq elections
    /\ electionAddress \in [Deliveries -> Deliveries \cup {None}]
    /\ tenantAddress \in [Deliveries -> Deliveries \cup {None}]
    /\ registry \in [Deliveries -> Deliveries \cup {None}]

Init ==
    /\ stage = [c \in Checkouts |-> "idle"]
    /\ order = [c \in Checkouts |-> None]
    /\ metadata = [d \in Deliveries |-> None]
    /\ step = [d \in Deliveries |-> "idle"]
    /\ answer = [d \in Deliveries |-> "none"]
    /\ configurations = {} /\ tenants = {} /\ owners = {}
    /\ elections = {} /\ detailed = {}
    /\ electionAddress = [d \in Deliveries |-> None]
    /\ tenantAddress = [d \in Deliveries |-> None]
    /\ registry = [d \in Deliveries |-> None]
-----------------------------------------------------------------------------
\* A document is known by the delivery that saved it, a contract by the
\* delivery it was deployed for; their contents are in the delivery's metadata.
OrderOf(d) == metadata[d]

\* findOrTenant: the tenants with the name or with the domain.
Matches(o) == {t \in tenants : OrderOf(t).name = o.name \/ OrderOf(t).domain = o.domain}

\* Mutant of Taken: the disjunction read as a conjunction.
TakenInFull(o) ==
    \E t \in tenants : OrderOf(t).name = o.name /\ OrderOf(t).domain = o.domain

Taken(o) == Matches(o) # {}

\* Mutant of OwnerDocuments: the owner is looked up without the tenant.
UserDocuments(d) == {m \in owners : OrderOf(m).user = OrderOf(d).user}

\* The MemberTenant found by user, tenant and role.
OwnerDocuments(d) == {m \in owners : OrderOf(m).user = OrderOf(d).user /\ m = d}
-----------------------------------------------------------------------------
(* The checkout.                                                           *)

GoToStage(c, s) == stage' = [stage EXCEPT ![c] = s]

\* The fields that pass createTenantDto and validateGoldPlan, which refuses a
\* Gold plan for 500 voters or fewer before the first await.
Subscribe(c) ==
    /\ stage[c] = "idle"
    /\ \E o \in Order : order' = [order EXCEPT ![c] = o]
    /\ GoToStage(c, "check")
    /\ UNCHANGED <<deliveryVars, mongoVars, chainVars>>

\* "Ingrese otro nombre o subdominio, ya se encuentra en uso."
CheckCheckout(c) ==
    /\ stage[c] = "check"
    /\ GoToStage(c, IF Taken(order[c]) THEN "refused" ELSE "stripe")
    /\ UNCHANGED <<order, deliveryVars, mongoVars, chainVars>>

\* Stripe opens the session or refuses it; the user pays it or does not.
OpenSession(c) ==
    /\ stage[c] = "stripe"
    /\ GoToStage(c, "open") \/ GoToStage(c, "refused")
    /\ UNCHANGED <<order, deliveryVars, mongoVars, chainVars>>

Pay(c) ==
    /\ stage[c] = "open"
    /\ GoToStage(c, "paid")
    /\ UNCHANGED <<order, deliveryVars, mongoVars, chainVars>>
-----------------------------------------------------------------------------
(* The webhook.                                                            *)

GoTo(d, s) == step' = [step EXCEPT ![d] = s] /\ UNCHANGED <<metadata, answer>>

Answer(d, a) ==
    /\ step' = [step EXCEPT ![d] = "done"]
    /\ answer' = [answer EXCEPT ![d] = a]
    /\ UNCHANGED metadata

\* A write took place; the handler goes on, or its acknowledgement is lost and
\* the handler throws.
Proceed(d, s) == GoTo(d, s) \/ Answer(d, "error")

\* checkout.session.completed, with metadata.
Deliver(d, m) ==
    /\ step[d] = "idle"
    /\ metadata' = [metadata EXCEPT ![d] = m]
    /\ step' = [step EXCEPT ![d] = "check"]
    /\ UNCHANGED <<answer, checkoutVars, mongoVars, chainVars>>

\* Stripe's own event: the order of a checkout that was paid.
DeliverPaid(d, c) == stage[c] = "paid" /\ Deliver(d, order[c])

\* An event of another type is answered, one without metadata is refused:
\* "La metadata es necesaria para procesar la suscripción".
DeliverOther(d) ==
    /\ step[d] = "idle"
    /\ Answer(d, "ignored") \/ Answer(d, "error")
    /\ UNCHANGED <<checkoutVars, mongoVars, chainVars>>

\* checkTenantExistence, and the same query again in createTenant.
RefuseTaken(d) ==
    /\ step[d] \in {"check", "recheck"}
    /\ Taken(OrderOf(d))
    /\ Answer(d, "error")
    /\ UNCHANGED <<checkoutVars, mongoVars, chainVars>>

\* Mutant of PassFree: the tenant is saved without its configuration.
PassToTenant(d) ==
    /\ step[d] \in {"check", "recheck"}
    /\ ~Taken(OrderOf(d))
    /\ GoTo(d, IF step[d] = "check" THEN "user" ELSE "tenant")
    /\ UNCHANGED <<checkoutVars, mongoVars, chainVars>>

\* Mutant of PassFree: createTenant does not throw when its query finds one.
PassTaken(d) ==
    /\ step[d] \in {"check", "recheck"}
    /\ step[d] = "check" => ~Taken(OrderOf(d))
    /\ GoTo(d, IF step[d] = "check" THEN "user" ELSE "configuration")
    /\ UNCHANGED <<checkoutVars, mongoVars, chainVars>>

PassFree(d) ==
    /\ step[d] \in {"check", "recheck"}
    /\ ~Taken(OrderOf(d))
    /\ GoTo(d, IF step[d] = "check" THEN "user" ELSE "configuration")
    /\ UNCHANGED <<checkoutVars, mongoVars, chainVars>>

\* "Usuario no encontrado.", or an id that is none.
RefuseStranger(d) ==
    /\ step[d] = "user"
    /\ OrderOf(d).user \notin Users
    /\ Answer(d, "error")
    /\ UNCHANGED <<checkoutVars, mongoVars, chainVars>>

\* Mutant of FindUser: a user that is not found is not refused.
FindNobody(d) ==
    /\ step[d] = "user"
    /\ GoTo(d, "recheck")
    /\ UNCHANGED <<checkoutVars, mongoVars, chainVars>>

FindUser(d) ==
    /\ step[d] = "user"
    /\ OrderOf(d).user \in Users
    /\ GoTo(d, "recheck")
    /\ UNCHANGED <<checkoutVars, mongoVars, chainVars>>

CreateConfiguration(d) ==
    /\ step[d] = "configuration"
    /\ configurations' = configurations \cup {d}
    /\ Proceed(d, "tenant")
    /\ UNCHANGED <<checkoutVars, chainVars, tenants, owners, electionAddress, tenantAddress>>

\* No unique index stands behind the two checks.
CreateTenant(d) ==
    /\ step[d] = "tenant"
    /\ tenants' = tenants \cup {d}
    /\ Proceed(d, "owner")
    /\ UNCHANGED <<checkoutVars, chainVars, configurations, owners, electionAddress,
                   tenantAddress>>

\* The tenant is new: findAndMember finds no member of it.
CreateOwner(d) ==
    /\ step[d] = "owner"
    /\ owners' = owners \cup {d}
    /\ Proceed(d, "deployElection")
    /\ UNCHANGED <<checkoutVars, chainVars, configurations, tenants, electionAddress,
                   tenantAddress>>

DeployElection(d) ==
    /\ step[d] = "deployElection"
    /\ elections' = elections \cup {d}
    /\ Proceed(d, "saveElection")
    /\ UNCHANGED <<checkoutVars, mongoVars, detailed, registry>>

SaveElection(d) ==
    /\ step[d] = "saveElection"
    /\ \E m \in OwnerDocuments(d) : electionAddress' = [electionAddress EXCEPT ![m] = d]
    /\ Proceed(d, "details")
    /\ UNCHANGED <<checkoutVars, chainVars, configurations, tenants, owners, tenantAddress>>

\* Mutant of SetDetails: the transaction is not awaited.
SetDetailsLater(d) ==
    /\ step[d] = "details"
    /\ detailed' \in {detailed, detailed \cup {d}}
    /\ Proceed(d, "deployTenant")
    /\ UNCHANGED <<checkoutVars, mongoVars, elections, registry>>

SetDetails(d) ==
    /\ step[d] = "details"
    /\ detailed' = detailed \cup {d}
    /\ Proceed(d, "deployTenant")
    /\ UNCHANGED <<checkoutVars, mongoVars, elections, registry>>

DeployTenant(d) ==
    /\ step[d] = "deployTenant"
    /\ Proceed(d, "saveTenant")
    /\ UNCHANGED <<checkoutVars, mongoVars, chainVars>>

SaveTenant(d) ==
    /\ step[d] = "saveTenant"
    /\ \E m \in OwnerDocuments(d) : tenantAddress' = [tenantAddress EXCEPT ![m] = d]
    /\ Proceed(d, "register")
    /\ UNCHANGED <<checkoutVars, chainVars, configurations, tenants, owners, electionAddress>>

\* createElection, of the tenant contract that the document SaveTenant returned
\* points to, with the address that SaveElection returned.
Register(d) ==
    /\ step[d] = "register"
    /\ \E m \in OwnerDocuments(d) : registry' = [registry EXCEPT ![tenantAddress[m]] = d]
    /\ Answer(d, "ok") \/ Answer(d, "error")
    /\ UNCHANGED <<checkoutVars, mongoVars, elections, detailed>>

\* Any awaited call throws before it took effect: MongoDB, the Hardhat service,
\* or a transaction that reverts, is stale or is not sent.
Fail(d) ==
    /\ step[d] \in InFlight
    /\ Answer(d, "error")
    /\ UNCHANGED <<checkoutVars, mongoVars, chainVars>>

\* The process restarts under its handlers.
Restart ==
    /\ \E d \in Deliveries : step[d] \in InFlight
    /\ step' = [d \in Deliveries |-> IF step[d] \in InFlight THEN "lost" ELSE step[d]]
    /\ UNCHANGED <<metadata, answer, checkoutVars, mongoVars, chainVars>>
-----------------------------------------------------------------------------
Handle(d) ==
    \/ RefuseTaken(d) \/ PassFree(d)
    \/ RefuseStranger(d) \/ FindUser(d)
    \/ CreateConfiguration(d) \/ CreateTenant(d) \/ CreateOwner(d)
    \/ DeployElection(d) \/ SaveElection(d) \/ SetDetails(d)
    \/ DeployTenant(d) \/ SaveTenant(d) \/ Register(d)

Next ==
    \/ \E c \in Checkouts : Subscribe(c) \/ CheckCheckout(c) \/ OpenSession(c) \/ Pay(c)
    \/ \E d \in Deliveries, c \in Checkouts : DeliverPaid(d, c)
    \/ \E d \in Deliveries, m \in Metadata : Deliver(d, m)
    \/ \E d \in Deliveries : DeliverOther(d) \/ Handle(d) \/ Fail(d)
    \/ Restart

Spec == Init /\ [][Next]_vars
-----------------------------------------------------------------------------
\* webhookPayment: a delivery answered with success left a tenant with its
\* owner, who is a registered user, an election contract with details, a
\* tenant contract, and the former registered in the latter: nothing of the
\* chain of writes is missing.
ConfirmedIsProvisioned ==
    \A d \in Deliveries : answer[d] = "ok" =>
        /\ d \in tenants \cap owners \cap detailed
        /\ OrderOf(d).user \in Users
        /\ electionAddress[d] = d
        /\ tenantAddress[d] = d
        /\ registry[d] = d

\* deployElectionContract: a tenant's address of its election is never
\* replaced by another delivery's, be it a redelivery or the same user's
\* second tenant: votes would go to an empty contract.
ElectionIsNeverReplaced ==
    [][\A d \in Deliveries : electionAddress[d] # None =>
           electionAddress'[d] = electionAddress[d]]_vars

\* createElection: a registered election is the one the owner of the same
\* tenant points to, at every moment of every delivery.
RegistryAgrees ==
    \A d \in Deliveries : registry[d] # None =>
        registry[d] = electionAddress[d] /\ tenantAddress[d] = d

\* webhookPayment: a delivery that finds the name or the domain taken at either
\* of its two checks, a redelivery of an event that was handled for example,
\* creates no second tenant then or ever, however it interleaves with others.
LateDeliveryCreatesNothing ==
    \A d \in Deliveries :
        []((step[d] \in {"check", "recheck"} /\ Matches(OrderOf(d)) # {})
              => [](d \notin tenants))
-----------------------------------------------------------------------------
(* Refuted: see the findings of the README.                                *)

\* "@throws BadRequestException si ya existe un tenant con las mismas
\* caracteristicas": no two tenants have the same name or domain.
TenantsAreDistinct ==
    \A t \in tenants : Matches(OrderOf(t)) = {t}

\* "Confirmar transaccion", and an abort otherwise: a delivery that is answered
\* with an error leaves no tenant behind.
FailedDeliveryLeavesNothing ==
    \A d \in Deliveries : answer[d] = "error" => d \notin tenants
=============================================================================

--------------------------- MODULE SubscriptionProofs ---------------------------
(***************************************************************************)
(* What a delivery of the webhook leaves behind, for any number of         *)
(* checkouts and deliveries in any interleaving, with failures and         *)
(* restarts at every await.                                                *)
(***************************************************************************)
EXTENDS Subscription, TLAPS

\* The awaits that lie behind each write of webhookPayment.
FromRegister == {"register"}
FromDeployTenant == {"deployTenant", "saveTenant"} \cup FromRegister
FromDetails == {"details"} \cup FromDeployTenant
FromSaveElection == {"saveElection"} \cup FromDetails
FromDeploy == {"deployElection"} \cup FromSaveElection
FromOwner == {"owner"} \cup FromDeploy
FromTenant == {"tenant"} \cup FromOwner
FromRecheck == {"recheck", "configuration"} \cup FromTenant

\* The inductive invariant, in parts.

\* A tenant is of a delivery that got beyond the await that saves it.
TenantsAreOfDeliveries ==
    \A d \in Deliveries : d \in tenants => step[d] \in FromOwner \cup {"done", "lost"}

\* The user is one that was found, and what a handler wrote before the await it
\* is at is there.
WritesAreInOrder ==
    \A d \in Deliveries :
        /\ step[d] \in FromRecheck => OrderOf(d).user \in Users
        /\ step[d] \in FromTenant => d \in configurations
        /\ step[d] \in FromOwner => d \in tenants
        /\ step[d] \in FromDeploy => d \in owners
        /\ step[d] \in FromSaveElection => d \in elections
        /\ step[d] \in FromDetails => electionAddress[d] = d
        /\ step[d] \in FromDeployTenant => d \in detailed
        /\ step[d] \in FromRegister => tenantAddress[d] = d

\* Every address is of the tenant's own delivery, and registered last.
AddressesAreOwn ==
    \A d \in Deliveries :
        /\ electionAddress[d] \in {None, d}
        /\ tenantAddress[d] \in {None, d}
        /\ registry[d] \in {None, d}
        /\ registry[d] # None => electionAddress[d] = d /\ tenantAddress[d] = d

SubscriptionInv ==
    /\ TypeOK
    /\ TenantsAreOfDeliveries
    /\ WritesAreInOrder
    /\ AddressesAreOwn
    /\ ConfirmedIsProvisioned
-----------------------------------------------------------------------------
LEMMA SubscriptionInitInv == Init => SubscriptionInv
  BY DEF Init, SubscriptionInv, TypeOK, TenantsAreOfDeliveries, WritesAreInOrder, AddressesAreOwn,
     ConfirmedIsProvisioned, FromRecheck, FromTenant, FromOwner, FromDeploy, FromSaveElection, FromDetails,
     FromDeployTenant, FromRegister

\* Of a handler behind its owner's await, OwnerDocuments finds its own document.
LEMMA OwnDocument ==
  ASSUME NEW d \in owners
  PROVE  OwnerDocuments(d) = {d}
  BY DEF OwnerDocuments

\* The checkout changes no delivery.
LEMMA CheckoutStep ==
  ASSUME SubscriptionInv, NEW c \in Checkouts,
         Subscribe(c) \/ CheckCheckout(c) \/ OpenSession(c) \/ Pay(c)
  PROVE  SubscriptionInv'
<1> USE DEF SubscriptionInv
<1>1. /\ UNCHANGED <<deliveryVars, mongoVars, chainVars>>
      /\ stage' \in [Checkouts -> {"idle", "check", "stripe", "open", "paid", "refused"}]
      /\ order' \in [Checkouts -> Order \cup {None}]
      /\ \A k \in Checkouts : stage'[k] # "idle" => order'[k] \in Order
  BY DEF Subscribe, CheckCheckout, OpenSession, Pay, GoToStage, TypeOK
<1>2. UNCHANGED <<metadata, step, answer, configurations, tenants, owners, electionAddress,
                  tenantAddress, elections, detailed, registry>>
  BY <1>1 DEF deliveryVars, mongoVars, chainVars
<1>3. TypeOK'
  BY <1>1, <1>2 DEF TypeOK
<1>4. TenantsAreOfDeliveries'
  BY <1>1, <1>2 DEF TenantsAreOfDeliveries
<1>5. WritesAreInOrder' /\ AddressesAreOwn' /\ ConfirmedIsProvisioned'
  BY <1>2 DEF WritesAreInOrder, AddressesAreOwn, ConfirmedIsProvisioned, OrderOf
<1>6. QED
  BY <1>3, <1>4, <1>5

\* A delivery that arrives has nothing behind it.
LEMMA DeliverStep ==
  ASSUME SubscriptionInv, NEW d \in Deliveries, NEW m \in Metadata, Deliver(d, m)
  PROVE  SubscriptionInv'
<1> USE DEF SubscriptionInv
<1>1. /\ step[d] = "idle"
      /\ metadata' = [metadata EXCEPT ![d] = m] /\ step' = [step EXCEPT ![d] = "check"]
      /\ UNCHANGED <<answer, stage, order, configurations, tenants, owners, electionAddress,
                     tenantAddress, elections, detailed, registry>>
  BY DEF Deliver, checkoutVars, mongoVars, chainVars
<1>2. TypeOK'
  BY <1>1 DEF TypeOK, InFlight
<1>3. TenantsAreOfDeliveries'
  BY <1>1 DEF TenantsAreOfDeliveries, TypeOK, FromOwner, FromDeploy, FromSaveElection, FromDetails,
              FromDeployTenant, FromRegister
<1>4. WritesAreInOrder'
  BY <1>1 DEF WritesAreInOrder, OrderOf, TypeOK, FromRecheck, FromTenant, FromOwner, FromDeploy,
              FromSaveElection, FromDetails, FromDeployTenant, FromRegister
<1>5. d \notin tenants
  BY <1>1 DEF TenantsAreOfDeliveries, FromOwner, FromDeploy, FromSaveElection, FromDetails,
              FromDeployTenant, FromRegister
<1>6. AddressesAreOwn' /\ ConfirmedIsProvisioned'
  BY <1>1, <1>5 DEF AddressesAreOwn, ConfirmedIsProvisioned, OrderOf, TypeOK
<1>7. QED
  BY <1>2, <1>3, <1>4, <1>6

\* A paid checkout has an order, which is metadata.
LEMMA DeliverPaidStep ==
  ASSUME SubscriptionInv, NEW d \in Deliveries, NEW c \in Checkouts, DeliverPaid(d, c)
  PROVE  order[c] \in Metadata /\ Deliver(d, order[c])
  BY DEF DeliverPaid, SubscriptionInv, TypeOK, Order, Metadata

\* A delivery that brings no order is over at once.
LEMMA DeliverOtherStep ==
  ASSUME SubscriptionInv, NEW d \in Deliveries, DeliverOther(d)
  PROVE  SubscriptionInv'
<1> USE DEF SubscriptionInv
<1>1. /\ step[d] = "idle" /\ step' = [step EXCEPT ![d] = "done"]
      /\ answer' = [answer EXCEPT ![d] = "ignored"] \/ answer' = [answer EXCEPT ![d] = "error"]
      /\ UNCHANGED <<metadata, stage, order, configurations, tenants, owners, electionAddress,
                     tenantAddress, elections, detailed, registry>>
  BY DEF DeliverOther, Answer, checkoutVars, mongoVars, chainVars
<1>2. TypeOK'
  BY <1>1 DEF TypeOK
<1>3. TenantsAreOfDeliveries'
  BY <1>1 DEF TenantsAreOfDeliveries, TypeOK
<1>4. WritesAreInOrder'
  BY <1>1 DEF WritesAreInOrder, OrderOf, TypeOK, FromRecheck, FromTenant, FromOwner, FromDeploy,
              FromSaveElection, FromDetails, FromDeployTenant, FromRegister
<1>5. AddressesAreOwn' /\ ConfirmedIsProvisioned'
  BY <1>1 DEF AddressesAreOwn, ConfirmedIsProvisioned, OrderOf, TypeOK
<1>6. QED
  BY <1>2, <1>3, <1>4, <1>5

\* A handler that answers with an error keeps what it wrote.
Ends(d) == Answer(d, "error") /\ UNCHANGED <<checkoutVars, mongoVars, chainVars>>

LEMMA EndsStep ==
  ASSUME SubscriptionInv, NEW d \in Deliveries, step[d] \in InFlight, Ends(d)
  PROVE  SubscriptionInv'
<1> USE DEF SubscriptionInv
<1>1. /\ step' = [step EXCEPT ![d] = "done"] /\ answer' = [answer EXCEPT ![d] = "error"]
      /\ UNCHANGED <<metadata, stage, order, configurations, tenants, owners, electionAddress,
                     tenantAddress, elections, detailed, registry>>
  BY DEF Ends, Answer, checkoutVars, mongoVars, chainVars
<1>2. TypeOK'
  BY <1>1 DEF TypeOK
<1>3. TenantsAreOfDeliveries'
  BY <1>1 DEF TenantsAreOfDeliveries, TypeOK, InFlight
<1>4. WritesAreInOrder'
  BY <1>1 DEF WritesAreInOrder, OrderOf, TypeOK, FromRecheck, FromTenant, FromOwner, FromDeploy,
              FromSaveElection, FromDetails, FromDeployTenant, FromRegister
<1>5. AddressesAreOwn' /\ ConfirmedIsProvisioned'
  BY <1>1 DEF AddressesAreOwn, ConfirmedIsProvisioned, OrderOf, TypeOK
<1>6. QED
  BY <1>2, <1>3, <1>4, <1>5

\* The documents and contracts only grow, and by the delivery's own; where it
\* goes on, all that lies behind its next await is there.
Writes(d) ==
    /\ UNCHANGED <<metadata, checkoutVars>>
    /\ \E s \in InFlight : Proceed(d, s)
    /\ configurations' \in {configurations, configurations \cup {d}}
    /\ tenants' \in {tenants, tenants \cup {d}}
    /\ owners' \in {owners, owners \cup {d}}
    /\ elections' \in {elections, elections \cup {d}}
    /\ detailed' \in {detailed, detailed \cup {d}}
    /\ electionAddress' \in {electionAddress, [electionAddress EXCEPT ![d] = d]}
    /\ tenantAddress' \in {tenantAddress, [tenantAddress EXCEPT ![d] = d]}
    /\ UNCHANGED registry
    /\ d \in tenants' => step'[d] \in FromOwner \cup {"done"}
    /\ d \in tenants' => d \in configurations'
    /\ d \in owners' => d \in tenants'
    /\ d \in elections' => d \in owners'
    /\ d \in detailed' => d \in elections'
    /\ step'[d] \in FromRecheck => OrderOf(d).user \in Users
    /\ step'[d] \in FromTenant => d \in configurations'
    /\ step'[d] \in FromOwner => d \in tenants'
    /\ step'[d] \in FromDeploy => d \in owners'
    /\ step'[d] \in FromSaveElection => d \in elections'
    /\ step'[d] \in FromDetails => electionAddress'[d] = d
    /\ step'[d] \in FromDeployTenant => d \in detailed'
    /\ step'[d] \in FromRegister => tenantAddress'[d] = d

LEMMA WritesStep ==
  ASSUME SubscriptionInv, NEW d \in Deliveries, step[d] \in InFlight, Writes(d)
  PROVE  SubscriptionInv'
<1> USE DEF SubscriptionInv
<1>1. PICK s \in InFlight : Proceed(d, s)
  BY DEF Writes
<1>2. /\ step' \in [Deliveries -> InFlight \cup {"idle", "done", "lost"}]
      /\ answer' \in [Deliveries -> {"none", "ok", "ignored", "error"}]
      /\ \A e \in Deliveries \ {d} : step'[e] = step[e] /\ answer'[e] = answer[e]
      /\ answer'[d] = answer[d] \/ answer'[d] = "error"
      /\ step'[d] \in InFlight \cup {"done"}
  BY <1>1 DEF Proceed, GoTo, Answer, TypeOK
<1>3. UNCHANGED <<metadata, stage, order, registry>>
  BY DEF Writes, checkoutVars
<1>4. TypeOK'
  BY <1>2, <1>3 DEF TypeOK, Writes
<1>5. TenantsAreOfDeliveries'
  BY <1>2, <1>3 DEF TenantsAreOfDeliveries, Writes, InFlight
<1>6. WritesAreInOrder'
  BY <1>2, <1>3 DEF WritesAreInOrder, OrderOf, Writes, TypeOK
<1>7. AddressesAreOwn'
  BY <1>3 DEF AddressesAreOwn, Writes, TypeOK
<1>8. ConfirmedIsProvisioned'
  BY <1>2, <1>3 DEF ConfirmedIsProvisioned, AddressesAreOwn, OrderOf, Writes, TypeOK
<1>9. QED
  BY <1>4, <1>5, <1>6, <1>7, <1>8

\* Every await but the refusals and the last is such a write.
LEMMA HandlersWrite ==
  ASSUME SubscriptionInv, NEW d \in Deliveries,
         \/ PassFree(d) \/ FindUser(d) \/ CreateConfiguration(d) \/ CreateTenant(d)
         \/ CreateOwner(d) \/ DeployElection(d) \/ SaveElection(d) \/ SetDetails(d)
         \/ DeployTenant(d) \/ SaveTenant(d)
  PROVE  step[d] \in InFlight /\ Writes(d)
<1> USE DEF SubscriptionInv, FromRecheck, FromTenant, FromOwner, FromDeploy, FromSaveElection, FromDetails,
            FromDeployTenant, FromRegister
<1>0. /\ WritesAreInOrder /\ TenantsAreOfDeliveries /\ TypeOK
      /\ step[d] \in {"owner", "deployElection", "saveElection", "details", "deployTenant",
                      "saveTenant", "register"} => d \in tenants
  BY DEF WritesAreInOrder
<1>1. CASE PassFree(d)
  BY <1>0, <1>1 DEF PassFree, Proceed, GoTo, Writes, InFlight, TypeOK, WritesAreInOrder,
     TenantsAreOfDeliveries, checkoutVars, mongoVars, chainVars
<1>2. CASE FindUser(d)
  BY <1>0, <1>2 DEF FindUser, Proceed, GoTo, Writes, InFlight, TypeOK, WritesAreInOrder,
     TenantsAreOfDeliveries, checkoutVars, mongoVars, chainVars
<1>3. CASE CreateConfiguration(d)
  BY <1>0, <1>3 DEF CreateConfiguration, Proceed, GoTo, Answer, Writes, InFlight, TypeOK,
     WritesAreInOrder, TenantsAreOfDeliveries, checkoutVars, mongoVars, chainVars
<1>4. CASE CreateTenant(d)
  BY <1>0, <1>4 DEF CreateTenant, Proceed, GoTo, Answer, Writes, InFlight, TypeOK,
     WritesAreInOrder, TenantsAreOfDeliveries, checkoutVars, mongoVars, chainVars
<1>5. CASE CreateOwner(d)
  BY <1>0, <1>5 DEF CreateOwner, Proceed, GoTo, Answer, Writes, InFlight, TypeOK,
     WritesAreInOrder, TenantsAreOfDeliveries, checkoutVars, mongoVars, chainVars
<1>6. CASE DeployElection(d)
  BY <1>0, <1>6 DEF DeployElection, Proceed, GoTo, Answer, Writes, InFlight, TypeOK,
     WritesAreInOrder, TenantsAreOfDeliveries, checkoutVars, mongoVars, chainVars
<1>7. CASE SaveElection(d)
  <2>1. /\ step[d] = "saveElection" /\ Proceed(d, "details")
        /\ UNCHANGED <<stage, order, elections, detailed, registry, configurations, tenants,
                       owners, tenantAddress>>
        /\ \E m \in OwnerDocuments(d) : electionAddress' = [electionAddress EXCEPT ![m] = d]
    BY <1>7 DEF SaveElection, checkoutVars, chainVars
  <2>2. d \in owners
    BY <2>1 DEF WritesAreInOrder
  <2>3. electionAddress' = [electionAddress EXCEPT ![d] = d]
    BY <2>1, <2>2, OwnDocument
  <2>4. UNCHANGED metadata
    BY <2>1 DEF Proceed, GoTo, Answer
  <2>5. step'[d] \in {"details", "done"}
    BY <2>1 DEF Proceed, GoTo, Answer, TypeOK
  <2>6. QED
    BY <1>0, <2>1, <2>2, <2>3, <2>4, <2>5 DEF Writes, InFlight, TypeOK, WritesAreInOrder,
       checkoutVars
<1>8. CASE SetDetails(d)
  BY <1>0, <1>8 DEF SetDetails, Proceed, GoTo, Answer, Writes, InFlight, TypeOK,
     WritesAreInOrder, TenantsAreOfDeliveries, checkoutVars, mongoVars, chainVars
<1>9. CASE DeployTenant(d)
  BY <1>0, <1>9 DEF DeployTenant, Proceed, GoTo, Answer, Writes, InFlight, TypeOK,
     WritesAreInOrder, TenantsAreOfDeliveries, checkoutVars, mongoVars, chainVars
<1>10. CASE SaveTenant(d)
  <2>1. /\ step[d] = "saveTenant" /\ Proceed(d, "register")
        /\ UNCHANGED <<stage, order, elections, detailed, registry, configurations, tenants,
                       owners, electionAddress>>
        /\ \E m \in OwnerDocuments(d) : tenantAddress' = [tenantAddress EXCEPT ![m] = d]
    BY <1>10 DEF SaveTenant, checkoutVars, chainVars
  <2>2. d \in owners
    BY <2>1 DEF WritesAreInOrder
  <2>3. tenantAddress' = [tenantAddress EXCEPT ![d] = d]
    BY <2>1, <2>2, OwnDocument
  <2>4. UNCHANGED metadata
    BY <2>1 DEF Proceed, GoTo, Answer
  <2>5. step'[d] \in {"register", "done"}
    BY <2>1 DEF Proceed, GoTo, Answer, TypeOK
  <2>6. QED
    BY <1>0, <2>1, <2>2, <2>3, <2>4, <2>5 DEF Writes, InFlight, TypeOK, WritesAreInOrder,
       checkoutVars
<1>11. QED
  BY <1>1, <1>2, <1>3, <1>4, <1>5, <1>6, <1>7, <1>8, <1>9, <1>10

\* The last write registers the election of the delivery's own tenant contract.
LEMMA RegisterStep ==
  ASSUME SubscriptionInv, NEW d \in Deliveries, Register(d)
  PROVE  SubscriptionInv'
<1> USE DEF SubscriptionInv
<1>1. /\ step[d] = "register" /\ tenantAddress[d] = d /\ electionAddress[d] = d
      /\ d \in tenants /\ d \in owners /\ d \in detailed /\ OrderOf(d).user \in Users
  BY DEF Register, WritesAreInOrder, FromRecheck, FromTenant, FromOwner, FromDeploy, FromSaveElection,
         FromDetails, FromDeployTenant, FromRegister
<1>2. registry' = [registry EXCEPT ![d] = d]
  BY <1>1, OwnDocument DEF Register
<1>3. /\ step' = [step EXCEPT ![d] = "done"]
      /\ answer' = [answer EXCEPT ![d] = "ok"] \/ answer' = [answer EXCEPT ![d] = "error"]
      /\ UNCHANGED <<metadata, stage, order, configurations, tenants, owners, electionAddress,
                     tenantAddress, elections, detailed>>
  BY DEF Register, Answer, checkoutVars, mongoVars
<1>4. TypeOK'
  BY <1>2, <1>3 DEF TypeOK
<1>5. TenantsAreOfDeliveries'
  BY <1>1, <1>3 DEF TenantsAreOfDeliveries, TypeOK
<1>6. WritesAreInOrder'
  BY <1>3 DEF WritesAreInOrder, OrderOf, TypeOK, FromRecheck, FromTenant, FromOwner, FromDeploy,
              FromSaveElection, FromDetails, FromDeployTenant, FromRegister
<1>7. AddressesAreOwn'
  BY <1>1, <1>2, <1>3 DEF AddressesAreOwn, TypeOK
<1>8. ConfirmedIsProvisioned'
  BY <1>1, <1>2, <1>3 DEF ConfirmedIsProvisioned, OrderOf, TypeOK
<1>9. QED
  BY <1>4, <1>5, <1>6, <1>7, <1>8

\* A restart loses the handlers, not what they wrote.
LEMMA RestartStep ==
  ASSUME SubscriptionInv, Restart
  PROVE  SubscriptionInv'
<1> USE DEF SubscriptionInv
<1>1. /\ step' = [d \in Deliveries |-> IF step[d] \in InFlight THEN "lost" ELSE step[d]]
      /\ UNCHANGED <<metadata, answer, stage, order, configurations, tenants, owners,
                     electionAddress, tenantAddress, elections, detailed, registry>>
  BY DEF Restart, checkoutVars, mongoVars, chainVars
<1>2. TypeOK'
  BY <1>1 DEF TypeOK
<1>3. TenantsAreOfDeliveries' /\ WritesAreInOrder'
  BY <1>1 DEF TenantsAreOfDeliveries, WritesAreInOrder, OrderOf, TypeOK, InFlight, FromRecheck,
     FromTenant, FromOwner, FromDeploy, FromSaveElection, FromDetails, FromDeployTenant, FromRegister
<1>4. AddressesAreOwn' /\ ConfirmedIsProvisioned'
  BY <1>1 DEF AddressesAreOwn, ConfirmedIsProvisioned, OrderOf
<1>5. QED
  BY <1>2, <1>3, <1>4

\* The ways a handler goes on.
LEMMA HandlerKinds ==
  ASSUME SubscriptionInv, NEW d \in Deliveries, Handle(d) \/ Fail(d)
  PROVE  step[d] \in InFlight /\ (Ends(d) \/ Writes(d) \/ Register(d))
<1>1. CASE RefuseTaken(d) \/ RefuseStranger(d) \/ Fail(d)
  BY <1>1 DEF RefuseTaken, RefuseStranger, Fail, Ends, InFlight
<1>2. CASE Register(d)
  BY <1>2 DEF Register, InFlight
<1>3. QED
  BY <1>1, <1>2, HandlersWrite DEF Handle

LEMMA SubscriptionStepInv == SubscriptionInv /\ [Next]_vars => SubscriptionInv'
<1> SUFFICES ASSUME SubscriptionInv, [Next]_vars PROVE SubscriptionInv'
  OBVIOUS
<1>1. ASSUME NEW d \in Deliveries, Handle(d) \/ Fail(d)
      PROVE  SubscriptionInv'
  BY <1>1, HandlerKinds, EndsStep, WritesStep, RegisterStep
<1>2. CASE UNCHANGED vars
  BY <1>2 DEF SubscriptionInv, vars, checkoutVars, deliveryVars, mongoVars, chainVars, TypeOK,
     TenantsAreOfDeliveries, WritesAreInOrder, AddressesAreOwn, ConfirmedIsProvisioned, OrderOf
<1>3. QED
  BY <1>1, <1>2, CheckoutStep, DeliverStep, DeliverPaidStep, DeliverOtherStep, RestartStep
     DEF Next

\* The invariant holds in every reachable state.
THEOREM SubscriptionInvariant == Spec => []SubscriptionInv
  BY SubscriptionInitInv, SubscriptionStepInv, PTL DEF Spec

\* A document lies behind each that needs it, whatever fails in between.
THEOREM SubscriptionTypeCorrect == Spec => []TypeOK
<1>1. SubscriptionInv => TypeOK
  BY DEF SubscriptionInv
<1>2. QED
  BY <1>1, SubscriptionInvariant, PTL

\* A success leaves nothing of the chain of writes out.
THEOREM SuccessIsProvisioned == Spec => []ConfirmedIsProvisioned
<1>1. SubscriptionInv => ConfirmedIsProvisioned
  BY DEF SubscriptionInv
<1>2. QED
  BY <1>1, SubscriptionInvariant, PTL

\* Documents and contracts name the same election.
THEOREM RegistryIsOfOwner == Spec => []RegistryAgrees
<1>1. SubscriptionInv => RegistryAgrees
  BY DEF SubscriptionInv, AddressesAreOwn, RegistryAgrees
<1>2. QED
  BY <1>1, SubscriptionInvariant, PTL
-----------------------------------------------------------------------------
(* Along a behaviour.                                                      *)

\* No step of a checkout, no arrival and no restart writes anything.
LEMMA OthersWriteNothing ==
  ASSUME SubscriptionInv, [Next]_vars,
         ~\E d \in Deliveries : Handle(d) \/ Fail(d)
  PROVE  UNCHANGED <<mongoVars, chainVars>>
  BY DEF Next, vars, Subscribe, CheckCheckout, OpenSession, Pay, DeliverPaid, Deliver,
     DeliverOther, Restart

\* The one write of an address is of the delivery's own.
THEOREM ElectionsStay == Spec => ElectionIsNeverReplaced
<1> DEFINE Kept == \A d \in Deliveries : electionAddress[d] # None =>
                       electionAddress'[d] = electionAddress[d]
<1>1. SubscriptionInv /\ [Next]_vars => [Kept]_vars
  <2> SUFFICES ASSUME SubscriptionInv, [Next]_vars PROVE Kept
    OBVIOUS
  <2>1. ASSUME NEW e \in Deliveries, Handle(e) \/ Fail(e)
        PROVE  Kept
    <3>1. electionAddress' \in {electionAddress, [electionAddress EXCEPT ![e] = e]}
      BY <2>1, HandlerKinds DEF Ends, Writes, Register, mongoVars
    <3>2. QED
      BY <3>1 DEF SubscriptionInv, AddressesAreOwn, TypeOK
  <2>2. CASE ~\E e \in Deliveries : Handle(e) \/ Fail(e)
    BY <2>2, OthersWriteNothing DEF mongoVars
  <2>3. QED
    BY <2>1, <2>2
<1>2. QED
  BY <1>1, SubscriptionInvariant, PTL DEF Spec, ElectionIsNeverReplaced

\* A delivery that is too late: at a check while its name or domain is taken,
\* or answered or lost without a tenant.
TooLate(d) ==
    /\ d \notin tenants
    /\ \/ step[d] \in {"check", "recheck"} /\ Taken(OrderOf(d))
       \/ step[d] \in {"done", "lost"}

\* What is taken stays taken: no tenant is deleted and no metadata changes.
LEMMA TakenStays ==
  ASSUME SubscriptionInv, [Next]_vars, NEW d \in Deliveries,
         step[d] \in {"check", "recheck"}, Taken(OrderOf(d))
  PROVE  /\ Taken(OrderOf(d))' /\ step'[d] \in {step[d], "done", "lost"}
         /\ d \in tenants' => d \in tenants
<1> USE DEF SubscriptionInv
<1>1. /\ tenants \subseteq tenants'
      /\ \A e \in Deliveries : step[e] # "idle" => OrderOf(e)' = OrderOf(e)
      /\ step'[d] \in {step[d], "done", "lost"}
      /\ d \in tenants' => d \in tenants
  <2>1. ASSUME NEW e \in Deliveries, Handle(e) \/ Fail(e)
        PROVE  /\ tenants' \in {tenants, tenants \cup {e}} /\ UNCHANGED metadata
               /\ e # d => step'[d] = step[d]
               /\ e = d => tenants' = tenants /\ step'[d] = "done"
    <3>1. Ends(e) \/ Writes(e) \/ Register(e)
      BY <2>1, HandlerKinds
    <3>2. /\ tenants' \in {tenants, tenants \cup {e}} /\ UNCHANGED metadata
          /\ e # d => step'[d] = step[d]
      BY <3>1 DEF Ends, Writes, Register, Answer, Proceed, GoTo, checkoutVars, mongoVars, TypeOK
    <3>3. CASE e = d
      <4>1. RefuseTaken(d) \/ Fail(d)
        BY <2>1, <3>3 DEF Handle, PassFree, RefuseStranger, FindUser, CreateConfiguration, CreateTenant,
           CreateOwner, DeployElection, SaveElection, SetDetails, DeployTenant, SaveTenant,
           Register
      <4>2. QED
        BY <3>2, <3>3, <4>1 DEF RefuseTaken, Fail, Answer, mongoVars, TypeOK
    <3>4. QED
      BY <3>2, <3>3
  <2>2. ASSUME NEW c \in Checkouts,
               Subscribe(c) \/ CheckCheckout(c) \/ OpenSession(c) \/ Pay(c)
        PROVE  UNCHANGED <<tenants, step, metadata>>
    BY <2>2 DEF Subscribe, CheckCheckout, OpenSession, Pay, deliveryVars, mongoVars
  <2>3. ASSUME NEW e \in Deliveries, NEW m \in Metadata, Deliver(e, m)
        PROVE  /\ UNCHANGED tenants /\ step'[d] = step[d]
               /\ \A k \in Deliveries : step[k] # "idle" => metadata'[k] = metadata[k]
    BY <2>3 DEF Deliver, mongoVars, TypeOK
  <2>4. ASSUME NEW e \in Deliveries, DeliverOther(e)
        PROVE  UNCHANGED <<tenants, metadata>> /\ step'[d] = step[d]
    BY <2>4 DEF DeliverOther, Answer, mongoVars, TypeOK
  <2>5. CASE Restart
    BY <2>5 DEF Restart, mongoVars, OrderOf, InFlight
  <2>6. CASE UNCHANGED vars
    BY <2>6 DEF vars, deliveryVars, mongoVars, OrderOf
  <2>7. QED
    BY <2>1, <2>2, <2>3, <2>4, <2>5, <2>6, DeliverPaidStep DEF Next, OrderOf
<1>2. \A t \in tenants : t \in Deliveries /\ step[t] # "idle"
  BY DEF TypeOK, TenantsAreOfDeliveries, FromOwner, FromDeploy, FromSaveElection, FromDetails,
         FromDeployTenant, FromRegister
<1>3. Matches(OrderOf(d)) \subseteq Matches(OrderOf(d))'
  BY <1>1, <1>2 DEF Matches
<1>4. QED
  BY <1>1, <1>3 DEF Taken

\* An answered or lost delivery does nothing more.
LEMMA EndedStays ==
  ASSUME SubscriptionInv, [Next]_vars, NEW d \in Deliveries,
         step[d] \in {"done", "lost"}, d \notin tenants
  PROVE  step'[d] = step[d] /\ d \notin tenants'
<1> USE DEF SubscriptionInv
<1>1. ASSUME NEW e \in Deliveries, Handle(e) \/ Fail(e)
      PROVE  step'[d] = step[d] /\ d \notin tenants'
  <2>1. step[e] \in InFlight /\ (Ends(e) \/ Writes(e) \/ Register(e))
    BY <1>1, HandlerKinds
  <2>2. e # d
    BY <2>1 DEF InFlight
  <2>3. QED
    BY <2>1, <2>2 DEF Ends, Writes, Register, Answer, Proceed, GoTo, mongoVars, TypeOK
<1>2. CASE ~\E e \in Deliveries : Handle(e) \/ Fail(e)
  <2>1. tenants' = tenants
    BY <1>2, OthersWriteNothing DEF mongoVars
  <2>2. step'[d] = step[d]
    BY <1>2 DEF Next, vars, deliveryVars, Subscribe, CheckCheckout, OpenSession, Pay,
       DeliverPaid, Deliver, DeliverOther, Answer, Restart, InFlight, TypeOK
  <2>3. QED
    BY <2>1, <2>2
<1>3. QED
  BY <1>1, <1>2

\* A late delivery creates no tenant then or ever after.
THEOREM LateDeliveries == Spec => LateDeliveryCreatesNothing
<1> SUFFICES ASSUME NEW d \in Deliveries
             PROVE  Spec => []((step[d] \in {"check", "recheck"} /\ Matches(OrderOf(d)) # {})
                                  => [](d \notin tenants))
  BY DEF LateDeliveryCreatesNothing
<1>1. SubscriptionInv /\ step[d] \in {"check", "recheck"} /\ Matches(OrderOf(d)) # {} => TooLate(d)
  BY DEF SubscriptionInv, TenantsAreOfDeliveries, TooLate, Taken, FromOwner, FromDeploy,
     FromSaveElection, FromDetails, FromDeployTenant, FromRegister
<1>2. SubscriptionInv /\ [Next]_vars /\ TooLate(d) => TooLate(d)'
  BY TakenStays, EndedStays DEF TooLate
<1>3. TooLate(d) => d \notin tenants
  BY DEF TooLate
<1>4. QED
  BY <1>1, <1>2, <1>3, SubscriptionInvariant, PTL DEF Spec
=============================================================================

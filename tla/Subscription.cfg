SPECIFICATION Spec
CONSTANTS
    Checkouts = {c1}
    Deliveries = {d1, d2}
    Users = {u1}
    Names = {n1, n2}
    Domains = {x1, x2}
    None = None
INVARIANT TypeOK
INVARIANT ConfirmedIsProvisioned
INVARIANT RegistryAgrees
PROPERTY ElectionIsNeverReplaced
PROPERTY LateDeliveryCreatesNothing
\* every delivery may be answered and nothing be left to do
CHECK_DEADLOCK FALSE

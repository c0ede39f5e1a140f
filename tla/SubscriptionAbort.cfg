SPECIFICATION Spec
CONSTANTS
    Checkouts = {c1}
    Deliveries = {d1, d2}
    Users = {u1}
    Names = {n1}
    Domains = {x1}
    None = None
INVARIANT FailedDeliveryLeavesNothing
\* every delivery may be answered and nothing be left to do
CHECK_DEADLOCK FALSE

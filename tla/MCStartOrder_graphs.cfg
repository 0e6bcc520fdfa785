\* Every dependency graph of four services, walked in every order.  Requests end, so
\* the system stops.
CONSTANTS
    Services = {database, web, cache, job}
SPECIFICATION Spec
SYMMETRY ServiceSymmetry
INVARIANTS ExactlyCyclesRefused DependenciesFirst VisitsApart
CHECK_DEADLOCK FALSE

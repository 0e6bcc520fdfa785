\* Two instances, two ports: the ports run out.
CONSTANTS
    alpha = alpha
    beta = beta
    a1 = a1
    a2 = a2
    b1 = b1
    web = web
    api = api
    Instances = {alpha, beta}
    Previews = {alpha}
    Stagings = {beta}
    Hostnames = {a1, a2, b1}
    Owner <- OwnerOfName
    Endpoints = {web, api}
    ServiceOf <- ServiceOfEndpoint
    PortStart = 20000
    PortEnd = 20001
    MaxRoutes = 2
    NoInstance = NoInstance
SPECIFICATION Spec
SYMMETRY RouteSymmetry
VIEW AllButLive
INVARIANTS LeasesDisjoint ReadyRoutesWritten ReplayIsCurrent
PROPERTIES PortsKept

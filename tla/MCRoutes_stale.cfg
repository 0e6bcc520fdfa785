\* A port leased again while Caddy still serves its last owner.
CONSTANTS
    alpha = alpha
    beta = beta
    a1 = a1
    a2 = a2
    b1 = b1
    web = web
    api = api
    Instances = {alpha, beta}
    Previews = {alpha, beta}
    Stagings = {}
    Hostnames = {a1, a2, b1}
    Owner <- OwnerOfName
    Endpoints = {web, api}
    ServiceOf <- ServiceOfEndpoint
    PortStart = 20000
    PortEnd = 20001
    MaxRoutes = 2
    NoInstance = NoInstance
SPECIFICATION Spec
INVARIANTS NamesReachOwner

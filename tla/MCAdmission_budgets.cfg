\* Two environments that together ask for more than the host has.
CONSTANTS
    Staging = stag
    Preview = prev
    Instances <- MCInstances
    Environment <- MCEnvironment
    Envelope <- MCEnvelope
    MaximumTotal = 5
    Services = {web, api, job}
    Sizes = {1, 2}
    NoInstance = NoInstance
    NoService = NoService
SPECIFICATION Spec
SYMMETRY ServiceSymmetry
INVARIANTS ReservationBounds WithinEnvelopes SameShapeFits
PROPERTY ReservationsHeld

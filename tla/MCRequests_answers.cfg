\* Two runs of vpsctl for a preview with three generations and a production with one.
CONSTANTS
    Words <- MCWords
    Numbers <- MCNumbers
    Instances <- MCInstances
    Documents <- MCDocuments
    Hostnames <- MCHostnames
    Deliveries <- MCDeliveries
    Actors = {"ci", "operator"}
    Runs = {r1, r2}
    MaxGeneration = 3
    NoInstance = NoInstance
SPECIFICATION Spec
SYMMETRY RunSymmetry
INVARIANTS OneOwner NamesApart ReadyAnswersHold
PROPERTY OperatorsReachOneFurther
CONSTRAINT FewProductions

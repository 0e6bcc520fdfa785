---------------------------- MODULE RequestsProofs ----------------------------
(***************************************************************************)
(* Names and Requests, proved for any applications, documents, runs and    *)
(* generations: no name has two owners or two records, no answer becomes   *)
(* false of its generation, and an operator reaches the delivery that was  *)
(* read or, destroying, the next one.                                      *)
(***************************************************************************)
EXTENDS Requests, SequenceTheorems, TLAPS

Operations == {"none", "apply", "destroy", "renew"}

DeliveryType == [generation: Nat, routes: SUBSET UNION Deliveries]

TypeInv ==
    /\ record \in [Instances -> [status: {"absent", "ready", "failed", "deleting"},
                                 generation: Nat, routes: SUBSET UNION Deliveries]]
    /\ tombstone \in [Instances -> Nat]
    /\ run \in [Runs -> [operation: Operations, instance: Instances \cup {NoInstance},
                         generation: Nat, routes: SUBSET UNION Deliveries,
                         reopen: BOOLEAN, read: DeliveryType]]
    /\ \A r \in Runs : ~Waits(r, "none") => run[r].instance \in Instances /\ run[r].generation > 0
    /\ told \subseteq [instance: Instances, generation: Nat \ {0}, routes: SUBSET UNION Deliveries]

\* What a record and a tombstone say of each other.
RegistryInv ==
    \A i \in Instances :
        /\ ~Registered(i) => record[i].generation = 0 /\ record[i].routes = {}
        /\ Registered(i) => record[i].generation > 0 /\ tombstone[i] <= record[i].generation

\* Nothing was told or read of a generation that is still to come.
Past(i, g) == g <= record[i].generation \/ g <= tombstone[i]
ToldInv == \A t \in told : Past(t.instance, t.generation)
\* A record of that generation is of that delivery.
Still(i, delivery) == record[i].generation = delivery.generation => record[i].routes = delivery.routes
ReadInv ==
    \A r \in Runs :
        run[r].read # NoDelivery =>
            /\ run[r].read.generation > 0
            /\ Past(run[r].instance, run[r].read.generation)
            /\ Still(run[r].instance, run[r].read)
            /\ Waits(r, "renew") => run[r].generation = run[r].read.generation
            /\ Waits(r, "destroy") => run[r].generation = run[r].read.generation + 1
            /\ Waits(r, "renew") \/ Waits(r, "destroy")

Inv == TypeInv /\ RegistryInv /\ ToldInv /\ ReadInv /\ NamesApart /\ ReadyAnswersHold

-----------------------------------------------------------------------------
LEMMA InitInv == Init => Inv
<1> SUFFICES ASSUME Init PROVE Inv
  OBVIOUS
<1>1. NoRequest.read = NoDelivery /\ NoRequest.operation = "none"
  BY DEF NoRequest, Request
<1>2. \A r \in Runs : run[r] = NoRequest
  BY DEF Init
<1>3. TypeInv
  <2>1. NoDelivery \in DeliveryType
    BY DEF NoDelivery, DeliveryType
  <2>2. run \in [Runs -> [operation: Operations, instance: Instances \cup {NoInstance},
                          generation: Nat, routes: SUBSET UNION Deliveries,
                          reopen: BOOLEAN, read: DeliveryType]]
    BY <2>1 DEF Init, NoRequest, Request, Operations
  <2> QED BY <1>1, <1>2, <2>2 DEF Init, TypeInv, Absent, Waits
<1>4. ReadInv
  BY <1>1, <1>2 DEF ReadInv
<1> QED BY <1>3, <1>4
        DEF Init, Inv, RegistryInv, ToldInv, NamesApart, ReadyAnswersHold, Absent, Registered

\* A run that ends leaves the others as they were.
LEMMA DoneKept ==
  ASSUME TypeInv, NEW r \in Runs, Done(r)
  PROVE  /\ run' \in [Runs -> [operation: Operations, instance: Instances \cup {NoInstance},
                               generation: Nat, routes: SUBSET UNION Deliveries,
                               reopen: BOOLEAN, read: DeliveryType]]
         /\ run'[r] = NoRequest
         /\ \A q \in Runs \ {r} : run'[q] = run[q]
  BY DEF TypeInv, Done, NoRequest, Request, Operations, NoDelivery, DeliveryType

\* So does one that starts with a proper request.
LEMMA StartKept ==
  ASSUME Inv, NEW r \in Runs, NEW operation \in Operations \ {"none"}, NEW i \in Instances,
         NEW g \in Generations, NEW routes \in SUBSET UNION Deliveries, NEW reopen \in BOOLEAN,
         NEW read \in DeliveryType,
         run' = [run EXCEPT ![r] = Request(operation, i, g, routes, reopen, read)],
         UNCHANGED <<registryVars, told>>,
         read # NoDelivery => /\ read.generation > 0 /\ Past(i, read.generation) /\ Still(i, read)
                              /\ operation = "renew" => g = read.generation
                              /\ operation = "destroy" => g = read.generation + 1
                              /\ operation # "apply"
  PROVE  Inv'
<1>1. UNCHANGED <<record, tombstone, told>>
  BY DEF registryVars
<1>2. g \in Nat /\ g > 0
  BY DEF Generations
<1>3. /\ run' \in [Runs -> [operation: Operations, instance: Instances \cup {NoInstance},
                            generation: Nat, routes: SUBSET UNION Deliveries,
                            reopen: BOOLEAN, read: DeliveryType]]
      /\ run'[r].operation = operation /\ run'[r].instance = i /\ run'[r].generation = g
      /\ run'[r].read = read
      /\ \A q \in Runs \ {r} : run'[q] = run[q]
  BY <1>2 DEF Inv, TypeInv, Request, Operations
<1>4. TypeInv'
  BY <1>1, <1>2, <1>3 DEF Inv, TypeInv, Waits
<1>5. (RegistryInv /\ ToldInv /\ NamesApart /\ ReadyAnswersHold)'
  BY <1>1 DEF Inv, RegistryInv, ToldInv, NamesApart, ReadyAnswersHold, Registered, Past
<1>6. ReadInv'
  BY <1>1, <1>3 DEF Inv, ReadInv, Past, Still, Waits, Operations
<1> QED BY <1>4, <1>5, <1>6 DEF Inv

\* A run that ends without an effect.
LEMMA EndKept ==
  ASSUME Inv, NEW r \in Runs, Done(r), UNCHANGED registryVars, UNCHANGED told
  PROVE  Inv'
<1>1. TypeInv'
  BY DoneKept DEF Inv, TypeInv, registryVars, Waits, NoRequest, Request
<1>2. (RegistryInv /\ ToldInv /\ NamesApart /\ ReadyAnswersHold)'
  BY DEF Inv, RegistryInv, ToldInv, NamesApart, ReadyAnswersHold, Registered, Past, registryVars
<1>3. ReadInv'
  BY DoneKept DEF Inv, ReadInv, Past, Still, Waits, registryVars, NoRequest, Request
<1> QED BY <1>1, <1>2, <1>3 DEF Inv

\* A step that only raises what is past, and makes no other delivery of a past generation,
\* keeps what was read.
LEMMA ReadKept ==
  ASSUME Inv, NEW r \in Runs, Done(r),
         \A i \in Instances, g \in Nat : Past(i, g) => Past(i, g)',
         \A i \in Instances, g \in Nat \ {0} :
            Past(i, g) /\ record'[i].generation = g
              => record[i].generation = g /\ record'[i].routes = record[i].routes
  PROVE  ReadInv'
<1> SUFFICES ASSUME NEW q \in Runs, run'[q].read # NoDelivery
             PROVE  (/\ run[q].read.generation > 0
                     /\ Past(run[q].instance, run[q].read.generation)
                     /\ Still(run[q].instance, run[q].read)
                     /\ Waits(q, "renew") => run[q].generation = run[q].read.generation
                     /\ Waits(q, "destroy") => run[q].generation = run[q].read.generation + 1
                     /\ Waits(q, "renew") \/ Waits(q, "destroy"))'
  BY DEF ReadInv
<1>1. run'[q] = run[q]
  <2>1. NoRequest.read = NoDelivery
    BY DEF NoRequest, Request
  <2> QED BY <2>1, DoneKept DEF Inv
<1>2. PICK i, read : i = run[q].instance /\ read = run[q].read
  OBVIOUS
<1>3. /\ read.generation \in Nat \ {0} /\ Past(i, read.generation) /\ Still(i, read)
      /\ Waits(q, "renew") => run[q].generation = read.generation
      /\ Waits(q, "destroy") => run[q].generation = read.generation + 1
      /\ Waits(q, "renew") \/ Waits(q, "destroy")
  BY <1>1, <1>2 DEF Inv, TypeInv, ReadInv, DeliveryType
<1>4. i \in Instances
  BY <1>2, <1>3 DEF Inv, TypeInv, Waits
<1>5. record'[i].generation >= read.generation \/ tombstone'[i] >= read.generation
  BY <1>3, <1>4 DEF Past
<1>6. record'[i].generation = read.generation => record'[i].routes = read.routes
  BY <1>3, <1>4 DEF Still
<1>7. run'[q].instance = i /\ run'[q].read = read /\ run'[q].generation = run[q].generation
      /\ run'[q].operation = run[q].operation
  BY <1>1, <1>2
<1>8. Past(run[q].instance, run[q].read.generation)' /\ Still(run[q].instance, run[q].read)'
  BY <1>5, <1>6, <1>7 DEF Past, Still
<1> QED BY <1>3, <1>7, <1>8 DEF Waits

LEMMA DeliverInv ==
  ASSUME Inv, NEW r \in Runs, Deliver(r)
  PROVE  Inv'
<1>0. PICK i, g, routes : i = run[r].instance /\ g = run[r].generation /\ routes = run[r].routes
  OBVIOUS
<1> DEFINE new == [status |-> "ready", generation |-> g, routes |-> routes]
<1>1. /\ i \in Instances /\ g \in Nat /\ g > 0 /\ routes \in SUBSET UNION Deliveries
      /\ record[i].generation \in Nat /\ tombstone[i] \in Nat
  BY <1>0 DEF Inv, TypeInv, Deliver, Waits
<1>2. /\ NewerThanTombstone(i, g, run[r].reopen) /\ g > record[i].generation
      /\ NamesFree(i, routes)
      /\ tombstone' = [tombstone EXCEPT ![i] = 0]
      /\ Done(r)
  BY <1>0 DEF Deliver
<1>3. g > tombstone[i]
  BY <1>1, <1>2 DEF NewerThanTombstone
<1>4. PICK status \in {"ready", "failed"} :
         /\ record' = [record EXCEPT ![i] = [status |-> status, generation |-> g, routes |-> routes]]
         /\ \/ told' = told
            \/ told' = told \cup {[instance |-> i, generation |-> g, routes |-> routes]}
  <2>1. CASE record' = [record EXCEPT ![i] = new] /\ Tell(i)
    <3>1. record'[i] = new
      BY <1>1, <2>1 DEF Inv, TypeInv
    <3>2. record'[i].generation = g /\ record'[i].routes = routes
      BY <3>1
    <3> QED BY <2>1, <3>2 DEF Tell
  <2>2. CASE record' = [record EXCEPT ![i] = [new EXCEPT !.status = "failed"]] /\ told' = told
    <3>1. [new EXCEPT !.status = "failed"] = [status |-> "failed", generation |-> g, routes |-> routes]
      OBVIOUS
    <3> QED BY <2>2, <3>1
  <2> QED BY <1>0, <2>1, <2>2 DEF Deliver
<1> DEFINE now == [instance |-> i, generation |-> g, routes |-> routes]
<1> HIDE DEF new
<1>5. /\ record' \in [Instances -> [status: {"absent", "ready", "failed", "deleting"},
                                    generation: Nat, routes: SUBSET UNION Deliveries]]
      /\ record'[i].status # "absent" /\ record'[i].generation = g /\ record'[i].routes = routes
      /\ \A j \in Instances \ {i} : record'[j] = record[j]
  BY <1>1, <1>4 DEF Inv, TypeInv
<1>6. /\ tombstone' \in [Instances -> Nat] /\ tombstone'[i] = 0
      /\ \A j \in Instances \ {i} : tombstone'[j] = tombstone[j]
  BY <1>1, <1>2 DEF Inv, TypeInv
<1>7. told' \subseteq told \cup {now}
  BY <1>4
<1>8. now \in [instance: Instances, generation: Nat \ {0}, routes: SUBSET UNION Deliveries]
  BY <1>1
<1>9. TypeInv'
  <2>1. told' \subseteq [instance: Instances, generation: Nat \ {0}, routes: SUBSET UNION Deliveries]
    BY <1>7, <1>8 DEF Inv, TypeInv
  <2>2. \A q \in Runs : ~Waits(q, "none")' => run'[q].instance \in Instances /\ run'[q].generation > 0
    BY <1>2, DoneKept DEF Inv, TypeInv, Waits, NoRequest, Request
  <2> QED BY <1>2, <1>5, <1>6, <2>1, <2>2, DoneKept DEF Inv, TypeInv
<1>10. RegistryInv'
  BY <1>1, <1>5, <1>6 DEF Inv, RegistryInv, Registered
<1>11. \A j \in Instances, h \in Nat : Past(j, h) => Past(j, h)'
  BY <1>1, <1>2, <1>3, <1>5, <1>6 DEF Past
<1>12. Past(i, g)'
  BY <1>1, <1>5 DEF Past
<1>13. ToldInv'
  <2> SUFFICES ASSUME NEW t \in told' PROVE Past(t.instance, t.generation)'
    BY DEF ToldInv
  <2>1. CASE t = now
    BY <1>12, <2>1 DEF Past
  <2>2. CASE t \in told
    <3>1. t.instance \in Instances /\ t.generation \in Nat /\ Past(t.instance, t.generation)
      BY <2>2 DEF Inv, TypeInv, ToldInv
    <3> QED BY <1>1, <1>2, <1>3, <1>5, <1>6, <3>1 DEF Past
  <2> QED BY <1>7, <2>1, <2>2
<1>14. ReadInv'
  \* The generation is new: nothing past has it.
  <2>1. ASSUME NEW j \in Instances, NEW h \in Nat \ {0}, Past(j, h), record'[j].generation = h
        PROVE  j # i
    BY <1>1, <1>2, <1>3, <1>5, <2>1 DEF Past
  <2>2. \A j \in Instances, h \in Nat \ {0} :
           Past(j, h) /\ record'[j].generation = h
             => record[j].generation = h /\ record'[j].routes = record[j].routes
    BY <1>5, <2>1
  <2> QED BY <1>2, <1>11, <2>2, ReadKept
<1>15. NamesApart'
  <2>1. \A j \in Instances \ {i} : record[j].routes \cap routes = {}
    BY <1>1, <1>2 DEF Inv, RegistryInv, NamesFree
  <2> QED BY <1>5, <2>1 DEF Inv, NamesApart
<1>16. ReadyAnswersHold'
  \* The generation is new: no answer has spoken of it.
  <2>1. \A t \in told : t.instance = i => t.generation < g
    BY <1>1, <1>2, <1>3 DEF Inv, TypeInv, ToldInv, Past
  <2>2. \A t \in told : t.instance \in Instances
    BY DEF Inv, TypeInv
  <2>3. \A t \in told' : record'[t.instance].generation = t.generation
                           => record'[t.instance].routes = t.routes
    BY <1>5, <1>7, <2>1, <2>2 DEF Inv, ReadyAnswersHold
  <2>4. \A t, u \in told' : u.instance = t.instance /\ u.generation = t.generation
                              => u.routes = t.routes
    BY <1>1, <1>7, <2>1 DEF Inv, ReadyAnswersHold
  <2> QED BY <2>3, <2>4 DEF ReadyAnswersHold
<1> QED BY <1>9, <1>10, <1>13, <1>14, <1>15, <1>16 DEF Inv

LEMMA RepeatInv ==
  ASSUME Inv, NEW r \in Runs, Repeat(r)
  PROVE  Inv'
<1>0. PICK i, g : i = run[r].instance /\ g = run[r].generation
  OBVIOUS
<1> DEFINE now == [instance |-> i, generation |-> g, routes |-> record[i].routes]
<1>1. /\ i \in Instances /\ g \in Nat /\ g > 0
      /\ record[i].generation = g /\ record[i].routes \in SUBSET UNION Deliveries
      /\ told' = told \cup {now}
      /\ Done(r) /\ UNCHANGED <<record, tombstone>>
  BY <1>0 DEF Inv, TypeInv, Repeat, Waits, SameDelivery, registryVars
<1>2. now \in [instance: Instances, generation: Nat \ {0}, routes: SUBSET UNION Deliveries]
  BY <1>1
<1>3. TypeInv'
  <2>1. told' \subseteq [instance: Instances, generation: Nat \ {0}, routes: SUBSET UNION Deliveries]
    BY <1>1, <1>2 DEF Inv, TypeInv
  <2>2. \A q \in Runs : ~Waits(q, "none")' => run'[q].instance \in Instances /\ run'[q].generation > 0
    BY <1>1, DoneKept DEF Inv, TypeInv, Waits, NoRequest, Request
  <2> QED BY <1>1, <2>1, <2>2, DoneKept DEF Inv, TypeInv
<1>4. (RegistryInv /\ NamesApart)'
  BY <1>1 DEF Inv, RegistryInv, NamesApart, Registered
<1>5. ToldInv'
  BY <1>1 DEF Inv, ToldInv, Past
<1>6. ReadInv'
  <2>1. \A j \in Instances, h \in Nat : Past(j, h) => Past(j, h)'
    BY <1>1 DEF Past
  <2>2. \A j \in Instances : record'[j] = record[j]
    BY <1>1
  <2> QED BY <1>1, <2>1, <2>2, ReadKept
<1>7. ReadyAnswersHold'
  BY <1>1 DEF Inv, ReadyAnswersHold
<1> QED BY <1>3, <1>4, <1>5, <1>6, <1>7 DEF Inv

LEMMA DestroyInv ==
  ASSUME Inv, NEW r \in Runs, Destroy(r)
  PROVE  Inv'
<1>0. PICK i, g : i = run[r].instance /\ g = run[r].generation
  OBVIOUS
<1>1. /\ i \in Instances /\ g \in Nat /\ g > 0
      /\ record[i].generation \in Nat /\ tombstone[i] \in Nat
      /\ g >= tombstone[i] /\ g >= record[i].generation
      /\ tombstone' = [tombstone EXCEPT ![i] = g]
      /\ Done(r) /\ told' = told
  BY <1>0 DEF Inv, TypeInv, Destroy, Waits
<1>2. /\ tombstone' \in [Instances -> Nat] /\ tombstone'[i] = g
      /\ \A j \in Instances \ {i} : tombstone'[j] = tombstone[j]
  BY <1>1 DEF Inv, TypeInv
<1>3. /\ record' \in [Instances -> [status: {"absent", "ready", "failed", "deleting"},
                                    generation: Nat, routes: SUBSET UNION Deliveries]]
      /\ \A j \in Instances \ {i} : record'[j] = record[j]
      /\ \/ /\ record'[i].status = "absent" /\ record'[i].generation = 0
            /\ record'[i].routes = {}
         \/ /\ Registered(i)
            /\ record'[i].status = "deleting" /\ record'[i].generation = g
            /\ record'[i].routes = record[i].routes
  <2>1. CASE record' = [record EXCEPT ![i] = Absent]
    BY <1>1, <2>1 DEF Inv, TypeInv, Absent
  <2>2. CASE Registered(i) /\ record' = [record EXCEPT ![i].status = "deleting", ![i].generation = g]
    BY <1>1, <2>2 DEF Inv, TypeInv
  <2> QED BY <1>0, <2>1, <2>2 DEF Destroy
<1>4. TypeInv'
  <2>1. \A q \in Runs : ~Waits(q, "none")' => run'[q].instance \in Instances /\ run'[q].generation > 0
    BY <1>1, DoneKept DEF Inv, TypeInv, Waits, NoRequest, Request
  <2> QED BY <1>1, <1>2, <1>3, <2>1, DoneKept DEF Inv, TypeInv
<1>5. RegistryInv'
  BY <1>1, <1>2, <1>3 DEF Inv, RegistryInv, Registered
<1>6. \A j \in Instances, h \in Nat : Past(j, h) => Past(j, h)'
  BY <1>1, <1>2, <1>3 DEF Past
<1>7. ToldInv'
  <2> SUFFICES ASSUME NEW t \in told PROVE Past(t.instance, t.generation)'
    BY <1>1 DEF ToldInv
  <2>1. t.instance \in Instances /\ t.generation \in Nat /\ Past(t.instance, t.generation)
    BY DEF Inv, TypeInv, ToldInv
  <2> QED BY <1>1, <1>2, <1>3, <2>1 DEF Past
<1>8. ReadInv'
  \* A closed record has the generation of its closure: that of the delivery it closes, or
  \* one that is not past.
  <2>1. ASSUME NEW j \in Instances, NEW h \in Nat \ {0}, Past(j, h), record'[j].generation = h
        PROVE  record[j].generation = h /\ record'[j].routes = record[j].routes
    <3>1. CASE j # i
      BY <1>3, <2>1, <3>1
    <3>2. CASE j = i
      <4>1. Registered(i) /\ h = g /\ record'[i].routes = record[i].routes
        BY <1>1, <1>3, <2>1, <3>2
      <4>2. tombstone[i] <= record[i].generation
        BY <1>1, <4>1 DEF Inv, RegistryInv
      <4> QED BY <1>1, <2>1, <3>2, <4>1, <4>2 DEF Past
    <3> QED BY <3>1, <3>2
  <2> QED BY <1>1, <1>6, <2>1, ReadKept
<1>9. NamesApart'
  BY <1>1, <1>3 DEF Inv, NamesApart
<1>10. ReadyAnswersHold'
  \* Likewise, and nothing was told of a generation that is not past.
  <2> SUFFICES ASSUME NEW t \in told, t.instance = i, record'[i].generation = t.generation
               PROVE  record'[i].routes = t.routes
    BY <1>1, <1>3 DEF Inv, TypeInv, ReadyAnswersHold
  <2>1. t.generation \in Nat \ {0} /\ Past(i, t.generation)
    BY DEF Inv, TypeInv, ToldInv
  <2>2. Registered(i) /\ t.generation = g /\ record'[i].routes = record[i].routes
    BY <1>3, <2>1
  <2>3. tombstone[i] <= record[i].generation
    BY <1>1, <2>2 DEF Inv, RegistryInv
  <2>4. record[i].generation = t.generation
    BY <1>1, <2>1, <2>2, <2>3 DEF Past
  <2> QED BY <2>2, <2>4 DEF Inv, ReadyAnswersHold
<1> QED BY <1>4, <1>5, <1>7, <1>8, <1>9, <1>10 DEF Inv

LEMMA StartsInv ==
  ASSUME Inv, NEW r \in Runs, StartApply(r) \/ StartLifecycle(r) \/ OperatorReads(r)
  PROVE  Inv'
<1>1. CASE StartApply(r)
  <2>1. PICK i \in Instances, g \in Generations, reopen \in BOOLEAN, routes \in Deliveries :
           run' = [run EXCEPT ![r] = Request("apply", i, g, routes, reopen, NoDelivery)]
    BY <1>1 DEF StartApply
  <2>2. routes \in SUBSET UNION Deliveries /\ NoDelivery \in DeliveryType
    BY DEF NoDelivery, DeliveryType
  <2>3. UNCHANGED <<registryVars, told>>
    BY <1>1 DEF StartApply
  <2> QED BY <2>1, <2>2, <2>3, StartKept DEF Operations
<1>2. CASE StartLifecycle(r)
  <2>1. PICK i \in Instances, operation \in {"destroy", "renew"}, g \in Generations :
           run' = [run EXCEPT ![r] = Request(operation, i, g, {}, FALSE, NoDelivery)]
    BY <1>2 DEF StartLifecycle
  <2>2. UNCHANGED <<registryVars, told>>
    BY <1>2 DEF StartLifecycle
  <2>3. NoDelivery \in DeliveryType
    BY DEF NoDelivery, DeliveryType
  <2> QED BY <2>1, <2>2, <2>3, StartKept DEF Operations
<1>3. CASE OperatorReads(r)
  <2>1. PICK i \in Instances, operation \in {"destroy", "renew"} :
           /\ Registered(i)
           /\ LET g == IF operation = "destroy" THEN record[i].generation + 1
                                                ELSE record[i].generation
              IN  /\ g <= MaxGeneration
                  /\ run' = [run EXCEPT ![r] =
                               Request(operation, i, g, {}, FALSE, Delivery(i))]
    BY <1>3 DEF OperatorReads
  <2>2. record[i].generation \in Nat \ {0} /\ record[i].routes \in SUBSET UNION Deliveries
    BY <2>1 DEF Inv, TypeInv, RegistryInv
  <2>3. PICK g, read : /\ read = Delivery(i)
                       /\ g = IF operation = "destroy" THEN record[i].generation + 1
                                                       ELSE record[i].generation
                       /\ run' = [run EXCEPT ![r] = Request(operation, i, g, {}, FALSE, read)]
                       /\ g <= MaxGeneration
    BY <2>1
  <2>4. /\ read.generation = record[i].generation /\ read.routes = record[i].routes
        /\ read \in DeliveryType
    BY <2>2, <2>3 DEF Delivery, DeliveryType
  <2>5. g \in Generations /\ Past(i, read.generation) /\ Still(i, read)
    BY <2>2, <2>3, <2>4, BoundAssumption DEF Generations, Past, Still
  <2>6. UNCHANGED <<registryVars, told>>
    BY <1>3 DEF OperatorReads
  <2>7. operation \in Operations \ {"none"} /\ operation # "apply"
    BY DEF Operations
  <2>8. {} \in SUBSET UNION Deliveries /\ FALSE \in BOOLEAN
    OBVIOUS
  <2>9. /\ read.generation > 0
        /\ operation = "renew" => g = read.generation
        /\ operation = "destroy" => g = read.generation + 1
    BY <2>2, <2>3, <2>4
  <2> QED BY <2>3, <2>4, <2>5, <2>6, <2>7, <2>8, <2>9, StartKept
<1> QED BY <1>1, <1>2, <1>3

LEMMA NextInv == Inv /\ [Next]_vars => Inv'
<1> SUFFICES ASSUME Inv, [Next]_vars PROVE Inv'
  OBVIOUS
<1>1. CASE InstallPolicy \/ UNCHANGED vars
  BY <1>1 DEF InstallPolicy, vars, registryVars, Inv, TypeInv, RegistryInv, ToldInv, ReadInv, Past, Still,
     NamesApart, ReadyAnswersHold, Registered, Waits
<1>2. ASSUME NEW r \in Runs, StartApply(r) \/ StartLifecycle(r) \/ OperatorReads(r) PROVE Inv'
  BY <1>2, StartsInv
<1>3. ASSUME NEW r \in Runs, Deliver(r) PROVE Inv'
  BY <1>3, DeliverInv
<1>4. ASSUME NEW r \in Runs, Repeat(r) PROVE Inv'
  BY <1>4, RepeatInv
<1>5. ASSUME NEW r \in Runs, Destroy(r) PROVE Inv'
  BY <1>5, DestroyInv
<1>6. ASSUME NEW r \in Runs, Renew(r) \/ GivesUp(r) PROVE Inv'
  BY <1>6, EndKept DEF Renew, GivesUp
<1> QED BY <1>1, <1>2, <1>3, <1>4, <1>5, <1>6 DEF Next

\* The invariant above holds in every behaviour.
THEOREM Invariance == Spec => []Inv
  BY InitInv, NextInv, PTL DEF Spec

\* allocate_routes: no two records hold one name, whatever documents the runs that wrote
\* them had loaded.
THEOREM RecordsApart == Spec => []NamesApart
<1>1. Inv => NamesApart
  BY DEF Inv
<1> QED BY <1>1, Invariance, PTL

\* _repeated_delivery and _require_newer_than_tombstone: an answer "ready" stays true of its
\* generation.
THEOREM AnswersHold == Spec => []ReadyAnswersHold
<1>1. Inv => ReadyAnswersHold
  BY DEF Inv
<1> QED BY <1>1, Invariance, PTL

\* instance_payload and lifecycle_generation: what an operator has read decides what the
\* command reaches.
THEOREM OperatorsReach == Spec => OperatorsReachOneFurther
<1> DEFINE Reach(r) ==
      LET i == run[r].instance
          read == run[r].read
      IN  read # NoDelivery =>
            /\ Renew(r) => Delivery(i) = read
            /\ Destroy(r) => \/ ~Registered(i) \/ Delivery(i) = read
                             \/ record[i].generation = read.generation + 1
<1>1. ASSUME Inv, NEW r \in Runs PROVE Reach(r)
  <2>1. PICK i, g, read : i = run[r].instance /\ g = run[r].generation /\ read = run[r].read
    OBVIOUS
  \* The record has the generation that was read or a later one.
  <2>2. ASSUME read # NoDelivery, i \in Instances, Registered(i)
        PROVE  /\ record[i].generation \in Nat /\ read.generation \in Nat
               /\ record[i].generation >= read.generation
               /\ record[i].generation = read.generation => Delivery(i) = read
    <3>1. /\ record[i].generation \in Nat /\ tombstone[i] \in Nat
          /\ tombstone[i] <= record[i].generation
      BY <1>1, <2>2 DEF Inv, TypeInv, RegistryInv
    <3>2. read \in DeliveryType
      BY <1>1, <2>1 DEF Inv, TypeInv
    <3>3. Past(i, read.generation) /\ Still(i, read)
      BY <1>1, <2>1, <2>2 DEF Inv, ReadInv
    <3>4. read = [generation |-> read.generation, routes |-> read.routes]
      BY <3>2 DEF DeliveryType
    <3> QED BY <3>1, <3>2, <3>3, <3>4 DEF Past, Still, Delivery, DeliveryType
  <2>3. ASSUME read # NoDelivery, Renew(r) PROVE Delivery(i) = read
    <3>1. Waits(r, "renew") /\ g >= record[i].generation /\ Registered(i)
      BY <2>1, <2>3 DEF Renew, Registered
    <3>2. i \in Instances /\ g \in Nat /\ g = read.generation
      BY <1>1, <2>1, <2>3, <3>1 DEF Inv, TypeInv, ReadInv, Waits
    <3> QED BY <2>2, <2>3, <3>1, <3>2
  <2>4. ASSUME read # NoDelivery, Destroy(r), Registered(i)
        PROVE  Delivery(i) = read \/ record[i].generation = read.generation + 1
    <3>1. Waits(r, "destroy") /\ g >= record[i].generation
      BY <2>1, <2>4 DEF Destroy
    <3>2. i \in Instances /\ g \in Nat /\ g = read.generation + 1
      BY <1>1, <2>1, <2>4, <3>1 DEF Inv, TypeInv, ReadInv, Waits
    <3> QED BY <2>2, <2>4, <3>1, <3>2
  <2> QED BY <2>1, <2>3, <2>4
<1>2. Inv => \A r \in Runs : Reach(r)
  BY <1>1
<1>3. Spec => [][\A r \in Runs : Reach(r)]_vars
  <2> HIDE DEF Reach
  <2> QED BY <1>2, Invariance, PTL
<1> QED BY <1>3 DEF OperatorsReachOneFurther

-----------------------------------------------------------------------------
(* One owner for a name.                                                   *)

\* What IsApplicationName refuses is what the names of other instances look like.
LEMMA DerivedNames ==
  ASSUME NEW b, IsApplicationName(b), NEW n \in Numbers
  PROVE  /\ Append(b, "staging") \in Seq(Words) /\ Ends(Append(b, "staging"), "staging")
         /\ Append(b, "pr") \in Seq(Words)
         /\ Append(Append(b, "pr"), n) \in Seq(Words) /\ Preview(Append(Append(b, "pr"), n))
<1>1. /\ b \in Seq(Words) /\ b # <<>> /\ "staging" \in Words /\ "pr" \in Words /\ n \in Words
  BY WordsAssumption DEF IsApplicationName
<1>2. Len(b) \in Nat /\ Len(b) > 0
  BY <1>1
<1>3. Append(b, "staging") \in Seq(Words) /\ Ends(Append(b, "staging"), "staging")
  BY <1>1, <1>2, AppendProperties DEF Ends
<1>4. PICK c : c = Append(b, "pr")
  OBVIOUS
<1>5. c \in Seq(Words) /\ Len(c) = Len(b) + 1 /\ c[Len(b) + 1] = "pr"
  BY <1>1, <1>4, AppendProperties
<1>6. /\ Append(c, n) \in Seq(Words) /\ Len(Append(c, n)) = Len(b) + 2
      /\ Append(c, n)[Len(b) + 2] = n /\ Append(c, n)[Len(b) + 1] = "pr"
  BY <1>1, <1>2, <1>5, AppendProperties
<1>7. Preview(Append(c, n))
  BY <1>2, <1>6 DEF Preview
<1> QED BY <1>3, <1>4, <1>5, <1>6, <1>7

\* public_hostname gives two instances two names.
LEMMA PrimaryInjective ==
  ASSUME NEW applications, \A app \in applications : IsApplicationName(app),
         NEW i \in InstancesOf(applications), NEW j \in InstancesOf(applications),
         Primary(i) = Primary(j)
  PROVE  i = j
<1> DEFINE IsProd(k, app) == k = Prod(app) /\ Primary(k) = app
           IsStaging(k, app) == k = Staging(app) /\ Primary(k) = Append(app, "staging")
           IsPreview(k, app, n) ==
             k = PullRequest(app, n) /\ Primary(k) = Append(Append(app, "pr"), n)
<1>1. \A k \in InstancesOf(applications) : \E app \in applications :
         \/ IsProd(k, app)
         \/ IsStaging(k, app)
         \/ \E n \in Numbers : IsPreview(k, app, n)
  <2>1. \A app : IsProd(Prod(app), app) /\ IsStaging(Staging(app), app)
    BY DEF Primary, Prod, Staging
  <2>2. \A app, n : IsPreview(PullRequest(app, n), app, n)
    BY DEF Primary, PullRequest
  <2>3. \A k \in InstancesOf(applications) : \E app \in applications :
           k = Prod(app) \/ k = Staging(app) \/ \E n \in Numbers : k = PullRequest(app, n)
    BY DEF InstancesOf
  <2> HIDE DEF IsProd, IsStaging, IsPreview
  <2> QED BY <2>1, <2>2, <2>3
<1>2. PICK a \in applications : \/ IsProd(i, a) \/ IsStaging(i, a)
                                \/ \E n \in Numbers : IsPreview(i, a, n)
  BY <1>1
<1>3. PICK b \in applications : \/ IsProd(j, b) \/ IsStaging(j, b)
                                \/ \E n \in Numbers : IsPreview(j, b, n)
  BY <1>1
<1>4. /\ a \in Seq(Words) /\ ~Preview(a) /\ ~Ends(a, "staging")
      /\ b \in Seq(Words) /\ ~Preview(b) /\ ~Ends(b, "staging")
      /\ IsApplicationName(a) /\ IsApplicationName(b)
  BY DEF IsApplicationName
<1>5. CASE IsProd(i, a) /\ IsProd(j, b)
  BY <1>5
<1>6. CASE IsStaging(i, a) /\ IsStaging(j, b)
  <2>1. a = b
    <3>1. Append(a, "staging") = Append(b, "staging") /\ "staging" \in Words
      BY <1>6, WordsAssumption
    <3> QED BY <1>4, <3>1, AppendInjective
  <2> QED BY <1>6, <2>1
<1>7. ASSUME NEW n \in Numbers, NEW m \in Numbers, IsPreview(i, a, n), IsPreview(j, b, m)
      PROVE  i = j
  <2>1. Append(Append(a, "pr"), n) = Append(Append(b, "pr"), m)
    BY <1>7
  <2>2. /\ n \in Words /\ m \in Words /\ "pr" \in Words
        /\ Append(a, "pr") \in Seq(Words) /\ Append(b, "pr") \in Seq(Words)
    BY <1>4, <1>7, DerivedNames, WordsAssumption
  <2>3. Append(a, "pr") = Append(b, "pr") /\ n = m
    <3>1. PICK c, d : c = Append(a, "pr") /\ d = Append(b, "pr")
      OBVIOUS
    <3>2. /\ Append(c, n) = Append(d, m) /\ n \in Words /\ m \in Words
          /\ c \in Seq(Words) /\ d \in Seq(Words)
      BY <2>1, <2>2, <3>1
    <3>3. c = d /\ n = m
      BY <3>2, AppendInjective
    <3> QED BY <3>1, <3>3
  <2>4. a = b
    BY <1>4, <2>2, <2>3, AppendInjective
  <2> QED BY <1>7, <2>3, <2>4
\* A name ends in at most one of the two ways, and an application's in neither.
<1>8. ASSUME NEW n \in Numbers, NEW c, IsApplicationName(c), NEW d, IsApplicationName(d)
      PROVE  /\ c # Append(d, "staging") /\ c # Append(Append(d, "pr"), n)
             /\ Append(c, "staging") # Append(Append(d, "pr"), n)
  <2>1. c # Append(d, "staging") /\ c # Append(Append(d, "pr"), n)
    BY <1>8, DerivedNames DEF IsApplicationName
  <2>2. Append(d, "pr") \in Seq(Words) /\ c \in Seq(Words) /\ n \in Words /\ "staging" \in Words
        /\ n # "staging"
    BY <1>8, DerivedNames, WordsAssumption DEF IsApplicationName
  <2> QED BY <2>1, <2>2, AppendInjective
<1>9. ASSUME NEW c, IsApplicationName(c), NEW d, IsApplicationName(d)
      PROVE  c # Append(d, "staging")
  <2>1. /\ d \in Seq(Words) /\ d # <<>> /\ "staging" \in Words /\ ~Ends(c, "staging")
    BY <1>9, WordsAssumption DEF IsApplicationName
  <2>2. Len(Append(d, "staging")) = Len(d) + 1 /\ Append(d, "staging")[Len(d) + 1] = "staging"
        /\ Len(d) \in Nat /\ Len(d) > 0
    BY <2>1, AppendProperties
  <2> QED BY <2>1, <2>2 DEF Ends
<1> HIDE DEF IsProd, IsStaging, IsPreview
<1>10. CASE IsProd(i, a) /\ ~IsProd(j, b)
  BY <1>3, <1>4, <1>8, <1>9, <1>10 DEF IsProd, IsStaging, IsPreview
<1>11. CASE ~IsProd(i, a) /\ IsProd(j, b)
  BY <1>2, <1>4, <1>8, <1>9, <1>11 DEF IsProd, IsStaging, IsPreview
<1>12. CASE IsStaging(i, a) /\ \E n \in Numbers : IsPreview(j, b, n)
  BY <1>4, <1>8, <1>12 DEF IsStaging, IsPreview
<1>13. CASE IsStaging(j, b) /\ \E n \in Numbers : IsPreview(i, a, n)
  BY <1>4, <1>8, <1>13 DEF IsStaging, IsPreview
<1> QED BY <1>2, <1>3, <1>5, <1>6, <1>7, <1>10, <1>11, <1>12, <1>13

\* The last label of an instance's hostname is its name.
LEMMA NamespaceIsPrimary ==
  ASSUME NEW h, NEW i, IsInstanceHostname(h, i)
  PROVE  h.inDomain /\ Namespace(h) = Primary(i)
<1>1. CASE h.labels = <<Primary(i)>>
  BY <1>1 DEF IsInstanceHostname, Namespace
<1>2. ASSUME NEW word, h.labels = <<<<word>>, Primary(i)>>
      PROVE  Namespace(h) = Primary(i)
  BY <1>2 DEF Namespace
<1> QED BY <1>1, <1>2 DEF IsInstanceHostname

\* An alias that is accepted is no name of another instance.
LEMMA AliasApart ==
  ASSUME Accepted(policy), NEW i \in InstancesOf(Applications(policy)),
         NEW j \in InstancesOf(Applications(policy)), NEW h, IsInstanceHostname(h, i),
         h \in Aliases(policy, j)
  PROVE  i = j
<1>1. StealsNothing(policy, h, j)
  BY DEF Accepted, Aliases
<1>2. h.inDomain /\ Namespace(h) = Primary(i)
  BY NamespaceIsPrimary
<1>3. \A app \in Applications(policy) : IsApplicationName(app)
  BY DEF Accepted
<1>4. ASSUME NEW app \in Applications(policy), i \in {Prod(app), Staging(app)}
      PROVE  i = j
  BY <1>1, <1>4 DEF StealsNothing
<1>5. ASSUME NEW app \in Applications(policy), NEW n \in Numbers, i = PullRequest(app, n)
      PROVE  i = j
  <2>1. Primary(i) = Append(Append(app, "pr"), n)
    BY <1>5 DEF Primary, PullRequest
  <2>2. Preview(Namespace(h))
    BY <1>2, <1>3, <2>1, DerivedNames
  <2>3. IsInstanceHostname(h, j)
    BY <1>1, <1>2, <2>2 DEF StealsNothing, Reserved
  <2>4. Primary(i) = Primary(j)
    BY <1>2, <2>3, NamespaceIsPrimary
  <2> QED BY <1>3, <2>4, PrimaryInjective
<1> QED BY <1>4, <1>5 DEF InstancesOf

\* Policy.__init__ accepts no document that gives a hostname to two instances.
THEOREM NamesOwnedOnce == Spec => []OneOwner
<1>1. OneOwner
  <2> SUFFICES ASSUME Accepted(policy), NEW i \in InstancesOf(Applications(policy)),
                      NEW j \in InstancesOf(Applications(policy)), NEW h,
                      Owns(policy, h, i), Owns(policy, h, j)
               PROVE  i = j
    BY DEF OneOwner
  <2>1. CASE IsInstanceHostname(h, i) /\ IsInstanceHostname(h, j)
    <3>1. Primary(i) = Primary(j)
      BY <2>1, NamespaceIsPrimary
    <3> QED BY <3>1, PrimaryInjective DEF Accepted
  <2>2. CASE IsInstanceHostname(h, i) /\ h \in Aliases(policy, j)
    BY <2>2, AliasApart
  <2>3. CASE h \in Aliases(policy, i) /\ IsInstanceHostname(h, j)
    <3>1. j = i
      BY <2>3, AliasApart
    <3> QED BY <3>1
  <2>4. CASE h \in Aliases(policy, i) /\ h \in Aliases(policy, j)
    BY <2>4 DEF Accepted, Aliases
  <2> QED BY <2>1, <2>2, <2>3, <2>4 DEF Owns
<1> QED BY <1>1, PTL
=============================================================================

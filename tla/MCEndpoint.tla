----------------------------- MODULE MCEndpoint -----------------------------
(* The parts of an agent that this instance checks share no file and meet  *)
(* only where a call fails, which each of them models: "part" picks the    *)
(* one that a behaviour exercises.                                         *)
EXTENDS DeviceControl, EventDelivery, RuntimeLock, TLC

VARIABLE part

EndpointInit ==
    /\ part \in {"devices", "events", "lock"}
    /\ DeviceInit /\ DeliveryInit /\ LockInit
    /\ part # "events" => mode = "AUTO"
EndpointNext ==
    \/ part = "devices" /\ DeviceNext /\ UNCHANGED <<part, deliveryVars, lockVars>>
    \/ part = "events" /\ DeliveryNext /\ UNCHANGED <<part, deviceVars, lockVars>>
    \/ part = "lock" /\ LockNext /\ UNCHANGED <<part, deviceVars, deliveryVars>>
EndpointSpec == EndpointInit /\ [][EndpointNext]_<<part, deviceVars, deliveryVars, lockVars>>

Symmetry == Permutations(Devices) \cup Permutations(Hashes)

=============================================================================

------------------------------ MODULE Services ------------------------------
(***************************************************************************)
(* The services volume-manager calls while it serves a request: the        *)
(* kubernetes API (pkg/clients/kube.go) and billing                        *)
(* (pkg/clients/billing.go).  Both lie outside this repository; they are   *)
(* modelled by what the clients send them and by the answers the clients   *)
(* tell apart, nil and an error.                                           *)
(***************************************************************************)
EXTENDS PgStore

CONSTANTS
  Tariffs,       \* volume tariffs billing knows
  VolumeTariff,  \* tariff -> [active, public, limit]
  NsVolumeSize,  \* namespace -> volume size its tariff includes
  FreeTariff,    \* the zero uuid: a volume paid with the namespace
  SeedPaid,      \* seed volumes billing has a subscription for
  Faults         \* the failures that may happen, see FaultKinds

VARIABLES
  kube,          \* volumes in kubernetes: (namespace, label) -> capacity
  subs           \* ids of the volumes billing charges for

serviceVars == <<kube, subs>>

(* "kube", "billing": the service refuses the call, nothing happens there. *)
(* "lost":       the call is carried out, its answer does not arrive.      *)
(* "unreadable": the service answers an error whose body is not JSON; the  *)
(*               client leaves resp.Error() nil and returns no error.      *)
(* "unknown":    billing refuses to unsubscribe what was never subscribed. *)
(* "db":         a statement or the COMMIT fails, the connection is lost.  *)
(* "commitLost": the COMMIT is carried out, its answer does not arrive.    *)
(* "crash":      the process stops, and starts again.                      *)
FaultKinds == {"kube", "billing", "lost", "unreadable", "unknown", "db", "commitLost", "crash"}

Tariff == [active : BOOLEAN, public : BOOLEAN, limit : Int]

ASSUME ServicesTyped ==
  /\ FreeTariff \notin Tariffs
  /\ VolumeTariff \in [Tariffs -> Tariff]
  /\ NsVolumeSize \in [Namespaces -> Int]
  /\ Faults \subseteq FaultKinds

ASSUME SeedPaidLive == SeedPaid \subseteq {i \in SeedRows : Live(SeedVolumes[i])}

(* How a call that the service would accept or refuse may end: whether it  *)
(* took effect there, and whether the client returned nil.                 *)
Outcomes(service, accepted) ==
  {[done |-> accepted, ok |-> accepted]}
    \cup {[done |-> FALSE, ok |-> FALSE] : f \in Faults \cap {service}}
    \cup {[done |-> accepted, ok |-> FALSE] : f \in Faults \cap {"lost"}}
    \cup {[done |-> FALSE, ok |-> TRUE] : f \in Faults \cap {"unreadable"}}

Key(v) == <<v.ns, v.label>>

KubePut(key, capacity) == kube' = [kube EXCEPT ![key] = capacity]

(* The tariff a client returns: billing's answer, or the zero value of an  *)
(* answer it could not read.                                               *)
TariffAnswers(ns, tariff) ==
  (IF tariff = FreeTariff
   THEN {[active |-> TRUE, public |-> TRUE, limit |-> NsVolumeSize[ns]]}
   ELSE {VolumeTariff[tariff]})
  \cup {[active |-> tariff = FreeTariff, public |-> tariff = FreeTariff, limit |-> 0] :
          f \in Faults \cap {"unreadable"}}

ServicesInit ==
  /\ subs = SeedPaid
  /\ kube = [key \in Namespaces \X Labels |->
               IF \E i \in SeedRows : Live(SeedVolumes[i]) /\ Key(SeedVolumes[i]) = key
               THEN SeedVolumes[CHOOSE i \in SeedRows : /\ Live(SeedVolumes[i])
                                                        /\ Key(SeedVolumes[i]) = key].capacity
               ELSE NoRow]

ServicesTypeOK ==
  /\ kube \in [Namespaces \X Labels -> Int \cup {NoRow}]
  /\ subs \subseteq RowId
=============================================================================

------------------------------ MODULE MCStartup ------------------------------
(***************************************************************************)
(* A process that is set up as the chart does, a debug one without         *)
(* addresses and one with the image defaults (release, no billing          *)
(* address), on a new database, on one that an older release left at       *)
(* version 2, with and without rows, and on one of today.                  *)
(***************************************************************************)
EXTENDS Startup, TLC

CONSTANTS p1, p2, p3

Chart == [mode |-> "debug", level |-> 3, billing |-> "billing-manager:5005", kube |-> "kube:1214"]
Debug == [mode |-> "debug", level |-> 4, billing |-> "", kube |-> ""]
Image == [mode |-> "release", level |-> 4, billing |-> "", kube |-> "kube-api:1214"]

MCConfig == (p1 :> Chart) @@ (p2 :> Debug) @@ (p3 :> Image)

Old == {"storages", "volumes", "foreignKey", "uniqueIndex"}

MCDatabases ==
  {[schema |-> {}, version |-> 0, rows |-> FALSE],
   [schema |-> Old, version |-> 2, rows |-> FALSE],
   [schema |-> Old, version |-> 2, rows |-> TRUE],
   [schema |-> Provided(Latest), version |-> Latest, rows |-> TRUE]}
=============================================================================

------------------------------ MODULE MCListing ------------------------------
(***************************************************************************)
(* Volumes of two users in two namespaces; requests with every route and   *)
(* every kind of header, most headers on one namespace.  The caps of the   *)
(* pager are small enough for a table of three rows to be beyond them.     *)
(***************************************************************************)
EXTENDS Listing, TLC

CONSTANTS v1, v2, v3

MCVolume ==
  (v1 :> [ns |-> "n1", owner |-> "u1"]) @@
  (v2 :> [ns |-> "n1", owner |-> "u2"]) @@
  (v3 :> [ns |-> "n2", owner |-> "u1"])

(* The grants of X-User-Namespace, among them two on one namespace and one *)
(* on a namespace without a name.                                          *)
Grant(id, access) == [id |-> id, access |-> access]

MCGrants ==
  {Absent, Unreadable, <<>>} \cup
  {<<Grant("n1", access)>> : access \in {"owner", "write", "read-delete", "read", "none"}} \cup
  {<<Grant("n1", "read"), Grant("n1", "owner")>>, <<Grant("n1", "owner"), Grant("n2", "read"), Grant("n1", "read")>>,
   <<Grant("", "owner")>>}

Plain(route, id, role, granted, substitute) ==
  [route |-> route, ns |-> "n1", label |-> v1, id |-> id, role |-> role, granted |-> granted,
   substitute |-> substitute, page |-> 1, perPage |-> Absent, filters |-> {}]

MCIncoming ==
  {Plain(route, id, "user", granted, substitute) :
     route \in Routes, id \in {"u1", "no uuid"}, granted \in MCGrants, substitute \in {Absent, "u2"}}
  \cup
  {Plain(route, id, role, granted, substitute) :
     route \in Routes, id \in {"u1", "", "no uuid"}, role \in {"admin", "", "useradmin"},
     granted \in {Absent, <<Grant("n1", "read")>>}, substitute \in {Absent, "u2", "no uuid"}}
  \cup
  {[Plain("getAllVolumes", "u1", "admin", Absent, Absent) EXCEPT
      !.page = page, !.perPage = perPage, !.filters = filters] :
     page \in {0, 1, 2, NotANumber}, perPage \in {-1, 0, 1, 2, NotANumber, Absent}, filters \in {{}, {"deleted"}}}
=============================================================================

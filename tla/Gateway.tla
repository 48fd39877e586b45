------------------------------- MODULE Gateway -------------------------------
(***************************************************************************)
(* What a request passes before its handler runs (NewRouter, the two       *)
(* Setup...Handlers, pkg/router/middleware): a chain of checks on its      *)
(* headers and its query, cut at the first that fails.  It keeps no state. *)
(* A request is a record                                                   *)
(*   [route, ns, label,             what it asks, of what                  *)
(*    id, role,                     X-User-ID, X-User-Role, "" if absent   *)
(*    granted,                      X-User-Namespace: list of [id, access],*)
(*                                  Absent or Unreadable                   *)
(*    substitute,                   query user-id, or Absent               *)
(*    page, perPage, filters]       query of GET /admin/volumes            *)
(***************************************************************************)
EXTENDS Integers, Sequences

CONSTANTS
  Users,            \* what validates as a uuid
  Absent, Unreadable

(* An empty header is no uuid.                                             *)
ASSUME UsersNamed == "" \notin Users

(* Routes behind RequireAdminRole.                                         *)
AdminRoutes ==
  {"getAllVolumes", "adminResize", "createStorage", "getStorages", "updateStorage", "deleteStorage"}

(* Routes without a check of their own.                                    *)
OpenRoutes == {"deleteUser", "importVolumes", "importStorages"}

readLevels == {"owner", "write", "read-delete", "read"}
deleteLevels == {"owner", "write", "read-delete"}

writeLevels == {"owner", "write"}

(* The other routes, with the levels their access check lets pass.         *)
ReadRoutes == {"getVolume", "getNamespaceVolumes", "getUserVolumes"}
DeleteRoutes == {"delete", "deleteNs"}
WriteRoutes == {"directCreate", "create", "resize"}

Levels(route) ==
  IF route \in ReadRoutes THEN readLevels ELSE IF route \in DeleteRoutes THEN deleteLevels ELSE writeLevels

Routes == AdminRoutes \cup OpenRoutes \cup ReadRoutes \cup DeleteRoutes \cup WriteRoutes

-----------------------------------------------------------------------------
(* The middleware, each "ok" or the error it answers with.                 *)

RequireHeaders(q) == IF q.id = "" \/ q.role = "" THEN "headers" ELSE "ok"

ValidateHeaders(q) == IF q.id \in Users /\ q.role \in {"admin", "user"} THEN "ok" ELSE "validation"

SubstituteUser(q) ==
  IF q.role = "admin" /\ q.substitute \notin Users \cup {Absent} THEN "validation" ELSE "ok"

RequiredUserHeaders(q) ==
  CASE q.role = "user" /\ q.granted = Absent -> "headers"
    [] q.role = "user" /\ q.granted = Unreadable -> "validation"
    [] OTHER -> "ok"

RequireAdminRole(q) == IF q.role = "admin" THEN "ok" ELSE "adminRequired"

NoAccess == [ns \in {} |-> "none"]

(* Mutant: the first entry on a namespace counts.                          *)
MutantFirstEntry(list) ==
  LET filled[n \in 0..Len(list)] ==
        IF n = 0 THEN NoAccess
        ELSE [ns \in {list[n].id} \cup DOMAIN filled[n - 1] |->
                IF ns \in DOMAIN filled[n - 1] THEN filled[n - 1][ns] ELSE list[n].access]
  IN  filled[Len(list)]

(* The loop that fills a map from namespaces to levels with list.          *)
FilledMap(list) ==
  LET filled[n \in 0..Len(list)] ==
        IF n = 0 THEN NoAccess
        ELSE [ns \in {list[n].id} \cup DOMAIN filled[n - 1] |->
                IF ns = list[n].id THEN list[n].access ELSE filled[n - 1][ns]]
  IN  filled[Len(list)]

ParseUserHeaderData(granted) == IF granted \in {Absent, Unreadable} THEN NoAccess ELSE FilledMap(granted)

(* The namespace comes from the path; GET /volumes has none.               *)
CheckAccess(q, levels) ==
  LET ns == IF q.route = "getUserVolumes" THEN "" ELSE q.ns
      access == ParseUserHeaderData(q.granted)
  IN  CASE q.role # "user" -> "ok"
        [] q.role = "user" /\ ns \notin DOMAIN access -> "notExists"
        [] OTHER -> IF access[ns] \in levels THEN "ok" ELSE "validation"

RouteCheck(q) ==
  CASE q.route \in AdminRoutes -> RequireAdminRole(q)
    [] q.route \in OpenRoutes -> "ok"
    [] OTHER -> CheckAccess(q, Levels(q.route))

(* The answer of the first check that fails.                               *)
Gate(q) ==
  LET checks == <<RequireHeaders(q), ValidateHeaders(q), SubstituteUser(q), RequiredUserHeaders(q), RouteCheck(q)>>
      failed == {k \in DOMAIN checks : checks[k] # "ok"}
  IN  IF failed = {} THEN "ok" ELSE checks[CHOOSE k \in failed : \A j \in failed : k <= j]

(* Mutant: anybody may act for another user.                               *)
MutantContextUser(q) == IF q.substitute # Absent THEN q.substitute ELSE q.id

(* The user the operation acts for.                                        *)
ContextUser(q) == IF q.role = "admin" /\ q.substitute # Absent THEN q.substitute ELSE q.id

-----------------------------------------------------------------------------
(* The policy the checks amount to.                                        *)
WellFormed(q) ==
  /\ q.id \in Users
  /\ \/ q.role = "admin" /\ q.substitute \in Users \cup {Absent}
     \/ q.role = "user" /\ q.granted \notin {Absent, Unreadable}

Rank(access) ==
  CASE access = "owner" -> 4 [] access = "write" -> 3 [] access = "read-delete" -> 2
    [] access = "read" -> 1 [] OTHER -> 0

(* Access on a namespace grows from read over delete to write, and the     *)
(* last grant in the header is the one that is valid.                      *)
MayAct(q, need) ==
  \E k \in DOMAIN q.granted :
    /\ q.granted[k].id = q.ns
    /\ Rank(q.granted[k].access) >= need
    /\ \A j \in DOMAIN q.granted : j > k => q.granted[j].id # q.ns

Need(route) == CASE route \in ReadRoutes -> 1 [] route \in DeleteRoutes -> 2 [] route \in WriteRoutes -> 3

Permitted(q) ==
  \/ q.role = "admin"
  \/ q.route \in OpenRoutes
  \/ q.route \notin AdminRoutes /\ MayAct(q, Need(q.route))
=============================================================================

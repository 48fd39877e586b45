---------------------------- MODULE ListingProofs ----------------------------
(***************************************************************************)
(* Proofs, for every value of the constants: every request passes the      *)
(* gateway exactly if the policy permits it, for any list of grants; users *)
(* see live volumes they may see, for any table; a walk through all pages  *)
(* is complete, for any page size, number of volumes and caps of the pager. *)
(***************************************************************************)
EXTENDS Listing, TLAPS, SequenceTheorems, FiniteSetTheorems, WellFoundedInduction

-----------------------------------------------------------------------------
(* Induction, as a smallest counterexample.                                *)
LEMMA Smallest ==
  ASSUME NEW T, T \subseteq Nat, T # {}
  PROVE  \E n \in T : \A m \in T : n <= m
  <1>1. PICK n \in T : \A m \in T : <<m, n>> \notin OpToRel(<, Nat)
    BY NatLessThanWellFounded, WFMin
  <1>2. \A m \in T : ~(m < n)
    BY <1>1 DEF OpToRel
  <1> QED BY <1>2

(* The loop over the grants, as a table of the maps after each of them.    *)
IsFilling(F, list, N) ==
  F = [n \in 0..N |->
         IF n = 0 THEN NoAccess
         ELSE [ns \in {list[n].id} \cup DOMAIN F[n - 1] |->
                 IF ns = list[n].id THEN list[n].access ELSE F[n - 1][ns]]]

Extended(map, grant) ==
  [ns \in {grant.id} \cup DOMAIN map |-> IF ns = grant.id THEN grant.access ELSE map[ns]]

LEMMA FillingStep ==
  ASSUME NEW F, NEW list, NEW N \in Nat, IsFilling(F, list, N)
  PROVE  F[0] = NoAccess /\ \A n \in 1..N : n - 1 \in 0..N /\ F[n] = Extended(F[n - 1], list[n])
  <1> DEFINE value(n) == IF n = 0 THEN NoAccess ELSE Extended(F[n - 1], list[n])
  <1>1. F = [n \in 0..N |-> value(n)]
    BY DEF IsFilling, Extended
  <1> HIDE DEF value
  <1>2. \A n \in 0..N : F[n] = value(n)
    BY <1>1
  <1>3. F[0] = NoAccess
    BY <1>2 DEF value
  <1>4. ASSUME NEW n \in 1..N
        PROVE  n - 1 \in 0..N /\ F[n] = Extended(F[n - 1], list[n])
    BY <1>2 DEF value
  <1> QED BY <1>3, <1>4

LEMMA FillingExists ==
  ASSUME NEW list, NEW N \in Nat
  PROVE  \E F : IsFilling(F, list, N)
  <1> DEFINE T == {n \in Nat : ~\E F : IsFilling(F, list, n)}
  <1>1. SUFFICES ASSUME T # {} PROVE FALSE
    OBVIOUS
  <1>2. PICK n \in T : \A m \in T : n <= m
    <2>1. T \subseteq Nat
      OBVIOUS
    <2> HIDE DEF T
    <2> QED BY <1>1, <2>1, Smallest
  <1>3. CASE n = 0
    <2>1. IsFilling([k \in 0..0 |-> NoAccess], list, 0)
      BY DEF IsFilling
    <2> QED BY <1>2, <1>3, <2>1
  <1>4. CASE n # 0
    <2>1. n - 1 \in Nat /\ n \in Nat /\ n - 1 \notin T
      BY <1>2, <1>4
    <2>2. PICK G : IsFilling(G, list, n - 1)
      BY <2>1
    <2> DEFINE F == [k \in 0..n |-> IF k = n THEN Extended(G[n - 1], list[n]) ELSE G[k]]
    <2>3. G[0] = NoAccess /\ \A k \in 1..n - 1 : k - 1 \in 0..n - 1 /\ G[k] = Extended(G[k - 1], list[k])
      BY <2>1, <2>2, FillingStep
    <2>4. \A k \in 0..n : F[k] = IF k = 0 THEN NoAccess ELSE Extended(F[k - 1], list[k])
      <3> TAKE k \in 0..n
      <3>1. CASE k = 0
        BY <1>4, <2>1, <2>3, <3>1
      <3>2. CASE k # 0 /\ k # n
        <4>1. k \in 1..n - 1 /\ k - 1 \in 0..n /\ k - 1 # n
          BY <2>1, <3>2
        <4> QED BY <2>3, <3>2, <4>1
      <3>3. CASE k # 0 /\ k = n
        <4>1. n - 1 \in 0..n /\ n - 1 # n
          BY <2>1, <3>3
        <4> QED BY <3>3, <4>1
      <3> QED BY <3>1, <3>2, <3>3
    <2>5. F = [k \in 0..n |-> F[k]]
      OBVIOUS
    <2> HIDE DEF F
    <2>6. F = [k \in 0..n |-> IF k = 0 THEN NoAccess ELSE Extended(F[k - 1], list[k])]
      BY <2>4, <2>5
    <2>7. IsFilling(F, list, n)
      BY <2>6 DEF IsFilling, Extended
    <2> QED BY <1>2, <2>7
  <1> QED BY <1>3, <1>4

LEMMA FilledMapFills ==
  ASSUME NEW list
  PROVE  (\E F : IsFilling(F, list, Len(list))) =>
           \E F : IsFilling(F, list, Len(list)) /\ FilledMap(list) = F[Len(list)]
  BY DEF FilledMap, IsFilling

(* Of several grants on one namespace the last counts.                     *)
IsLast(list, n, k) == k \in 1..n /\ \A j \in 1..n : j > k => list[j].id # list[k].id

LEMMA LastGrantCounts ==
  ASSUME NEW S, NEW list \in Seq(S)
  PROVE  /\ DOMAIN FilledMap(list) = {list[k].id : k \in DOMAIN list}
         /\ \A k \in DOMAIN list : IsLast(list, Len(list), k) => FilledMap(list)[list[k].id] = list[k].access
  <1> DEFINE N == Len(list)
  <1>1. N \in Nat /\ DOMAIN list = 1..N
    OBVIOUS
  <1>2. PICK F : IsFilling(F, list, N) /\ FilledMap(list) = F[N]
    <2>1. \E F : IsFilling(F, list, N)
      BY <1>1, FillingExists
    <2> QED BY <2>1, FilledMapFills
  <1>3. F[0] = NoAccess /\ \A n \in 1..N : n - 1 \in 0..N /\ F[n] = Extended(F[n - 1], list[n])
    BY <1>1, <1>2, FillingStep
  <1> HIDE DEF N
  <1> DEFINE Good(n) == /\ DOMAIN F[n] = {list[k].id : k \in 1..n}
                        /\ \A k \in 1..n : IsLast(list, n, k) => F[n][list[k].id] = list[k].access
             T == {n \in 0..N : ~Good(n)}
  <1>4. SUFFICES ASSUME T # {} PROVE FALSE
    <2>1. T = {} => Good(N)
      BY <1>1
    <2> QED BY <1>1, <1>2, <2>1 DEF N
  <1>5. PICK n \in T : \A m \in T : n <= m
    <2>1. T \subseteq Nat
      BY <1>1
    <2> HIDE DEF T
    <2> QED BY <1>4, <2>1, Smallest
  <1>6. n \in 0..N /\ ~Good(n)
    BY <1>5
  <1>7. Good(0)
    BY <1>3 DEF NoAccess, IsLast
  <1>8. n \in 1..N /\ n - 1 \in 0..N
    <2>1. n # 0
      BY <1>6, <1>7
    <2> QED BY <1>1, <1>6, <2>1
  <1>9. Good(n - 1)
    BY <1>1, <1>5, <1>8
  <1>10. F[n] = Extended(F[n - 1], list[n])
    BY <1>3, <1>8
  <1> HIDE DEF T
  <1>11. DOMAIN F[n] = {list[k].id : k \in 1..n}
    <2>1. DOMAIN F[n] = {list[n].id} \cup {list[k].id : k \in 1..n - 1}
      BY <1>9, <1>10 DEF Extended
    <2>2. 1..n = 1..(n - 1) \cup {n}
      BY <1>1, <1>8
    <2> QED BY <2>1, <2>2
  <1>12. ASSUME NEW k \in 1..n, IsLast(list, n, k)
         PROVE  F[n][list[k].id] = list[k].access
    <2>1. list[k].id \in DOMAIN F[n]
      BY <1>11
    <2>2. F[n][list[k].id] = IF list[k].id = list[n].id THEN list[n].access ELSE F[n - 1][list[k].id]
      BY <1>10, <2>1 DEF Extended
    <2>3. CASE k = n
      BY <2>2, <2>3
    <2>4. CASE k # n
      <3>1. n > k /\ k \in 1..n - 1 /\ n \in 1..n
        BY <1>1, <1>8, <2>4
      <3>2. list[n].id # list[k].id
        BY <1>12, <3>1 DEF IsLast
      <3>3. IsLast(list, n - 1, k)
        BY <1>12, <1>1, <1>8, <3>1 DEF IsLast
      <3> QED BY <1>9, <2>2, <3>1, <3>2, <3>3
    <2> QED BY <2>3, <2>4
  <1> QED BY <1>6, <1>11, <1>12

(* Every grant on a namespace has a last one on it.                        *)
LEMMA LastExists ==
  ASSUME NEW S, NEW list \in Seq(S), NEW ns, NEW k \in DOMAIN list, list[k].id = ns
  PROVE  \E l \in DOMAIN list : list[l].id = ns /\ IsLast(list, Len(list), l)
  <1> DEFINE N == Len(list)
             T == {N - j : j \in {i \in 1..N : list[i].id = ns}}
  <1>1. N \in Nat /\ DOMAIN list = 1..N
    OBVIOUS
  <1>2. PICK n \in T : \A m \in T : n <= m
    <2>1. T \subseteq Nat /\ N - k \in T
      BY <1>1
    <2> HIDE DEF T
    <2> QED BY <2>1, Smallest
  <1>3. PICK l \in 1..N : list[l].id = ns /\ n = N - l
    BY <1>2
  <1>4. ASSUME NEW j \in 1..N, j > l
        PROVE  list[j].id # list[l].id
    <2>1. ~(n <= N - j)
      <3> HIDE DEF T
      <3> QED BY <1>1, <1>3, <1>4
    <2>2. list[j].id = ns => N - j \in T
      OBVIOUS
    <2> QED BY <1>2, <1>3, <2>1, <2>2
  <1> QED BY <1>1, <1>3, <1>4 DEF IsLast
-----------------------------------------------------------------------------
(* The chain of checks.                                                    *)

LEMMA GateIsChain ==
  ASSUME NEW q
  PROVE  Gate(q) = "ok" <=> /\ RequireHeaders(q) = "ok" /\ ValidateHeaders(q) = "ok"
                            /\ SubstituteUser(q) = "ok" /\ RequiredUserHeaders(q) = "ok"
                            /\ RouteCheck(q) = "ok"
  <1> DEFINE checks == <<RequireHeaders(q), ValidateHeaders(q), SubstituteUser(q), RequiredUserHeaders(q),
                         RouteCheck(q)>>
             failed == {k \in DOMAIN checks : checks[k] # "ok"}
             first == CHOOSE k \in failed : \A j \in failed : k <= j
  <1>1. Gate(q) = IF failed = {} THEN "ok" ELSE checks[first]
    BY DEF Gate
  <1>2. DOMAIN checks = 1..5
    OBVIOUS
  <1>3. failed = {} <=> \A k \in 1..5 : checks[k] = "ok"
    BY <1>2
  <1>4. failed # {} => first \in failed
    <2>1. failed \subseteq Nat
      BY <1>2
    <2> HIDE DEF failed
    <2> QED BY <2>1, Smallest
  <1>5. Gate(q) = "ok" <=> \A k \in 1..5 : checks[k] = "ok"
    <2> HIDE DEF checks, first
    <2> QED BY <1>1, <1>3, <1>4
  <1>6. (\A k \in 1..5 : checks[k] = "ok") <=> /\ checks[1] = "ok" /\ checks[2] = "ok" /\ checks[3] = "ok"
                                              /\ checks[4] = "ok" /\ checks[5] = "ok"
    <2> HIDE DEF checks
    <2>1. 1..5 = {1, 2, 3, 4, 5}
      OBVIOUS
    <2> QED BY <2>1
  <1> QED BY <1>5, <1>6

LEMMA LevelsRank ==
  ASSUME NEW route \in ReadRoutes \cup DeleteRoutes \cup WriteRoutes, NEW access
  PROVE  access \in Levels(route) <=> Rank(access) >= Need(route)
  BY DEF ReadRoutes, DeleteRoutes, WriteRoutes, Levels, Rank, Need, readLevels, deleteLevels, writeLevels

LEMMA HeadersChecked ==
  ASSUME NEW q
  PROVE  /\ RequireHeaders(q) = "ok" /\ ValidateHeaders(q) = "ok"
         /\ SubstituteUser(q) = "ok" /\ RequiredUserHeaders(q) = "ok"
         <=> WellFormed(q)
  BY UsersNamed DEF RequireHeaders, ValidateHeaders, SubstituteUser, RequiredUserHeaders, WellFormed

(* What a user may do on a namespace is what the last grant on it says.    *)
LEMMA AccessIsLastGrant ==
  ASSUME NEW q, IsRequest(q), q.role = "user", q.granted \notin {Absent, Unreadable},
         q.route \in ReadRoutes \cup DeleteRoutes \cup WriteRoutes, q.route # "getUserVolumes"
  PROVE  CheckAccess(q, Levels(q.route)) = "ok" <=> MayAct(q, Need(q.route))
  <1> DEFINE list == q.granted
             map == FilledMap(list)
             levels == Levels(q.route)
             S == [id : STRING, access : STRING]
             need == Need(q.route)
  <1>1. list \in Seq(S) /\ DOMAIN list = 1..Len(list)
    BY DEF IsRequest
  <1>2. CheckAccess(q, levels) = IF q.ns \notin DOMAIN map THEN "notExists"
                                 ELSE IF map[q.ns] \in levels THEN "ok" ELSE "validation"
    BY DEF CheckAccess, ParseUserHeaderData
  <1> HIDE DEF map, levels, S, need
  <1>3. DOMAIN map = {list[k].id : k \in DOMAIN list}
    BY <1>1, LastGrantCounts DEF map
  <1>4. \A k \in DOMAIN list : IsLast(list, Len(list), k) => map[list[k].id] = list[k].access
    BY <1>1, LastGrantCounts DEF map
  <1>5. \A access : access \in levels <=> Rank(access) >= need
    BY LevelsRank DEF levels, need
  <1>6. MayAct(q, need) <=>
          \E k \in DOMAIN list : list[k].id = q.ns /\ Rank(list[k].access) >= need /\ IsLast(list, Len(list), k)
    BY <1>1 DEF MayAct, IsLast
  <1>7. ASSUME MayAct(q, need)
        PROVE  q.ns \in DOMAIN map /\ map[q.ns] \in levels
    BY <1>3, <1>4, <1>5, <1>6, <1>7
  <1>8. ASSUME q.ns \in DOMAIN map, map[q.ns] \in levels
        PROVE  MayAct(q, need)
    <2>1. PICK l \in DOMAIN list : list[l].id = q.ns /\ IsLast(list, Len(list), l)
      BY <1>1, <1>3, <1>8, LastExists
    <2> QED BY <1>4, <1>5, <1>6, <1>8, <2>1
  <1>9. CheckAccess(q, levels) = "ok" <=> MayAct(q, need)
    BY <1>2, <1>7, <1>8
  <1> QED BY <1>9 DEF levels, need

LEMMA RouteSets ==
  ASSUME NEW q, IsRequest(q)
  PROVE  /\ q.route \in AdminRoutes \cup OpenRoutes \cup ReadRoutes \cup DeleteRoutes \cup WriteRoutes
         /\ q.route \in AdminRoutes => q.route \notin OpenRoutes
  BY DEF IsRequest, Routes, AdminRoutes, OpenRoutes

LEMMA GateIsPolicy ==
  ASSUME NEW q, IsRequest(q), q.route # "getUserVolumes"
  PROVE  Gate(q) = "ok" <=> WellFormed(q) /\ Permitted(q)
  <1>1. Gate(q) = "ok" <=> WellFormed(q) /\ RouteCheck(q) = "ok"
    BY GateIsChain, HeadersChecked
  <1>2. ASSUME WellFormed(q)
        PROVE  RouteCheck(q) = "ok" <=> Permitted(q)
    <2>1. CASE q.route \in AdminRoutes
      BY <1>2, <2>1, RouteSets DEF RouteCheck, RequireAdminRole, Permitted, WellFormed
    <2>2. CASE q.route \in OpenRoutes
      BY <2>2, RouteSets DEF RouteCheck, Permitted
    <2>3. CASE q.route \notin AdminRoutes \cup OpenRoutes
      <3>1. RouteCheck(q) = CheckAccess(q, Levels(q.route))
        BY <2>3 DEF RouteCheck
      <3>2. CASE q.role = "admin"
        BY <3>1, <3>2 DEF CheckAccess, Permitted
      <3>3. CASE q.role = "user" /\ q.granted \notin {Absent, Unreadable}
        BY <2>3, <3>1, <3>3, AccessIsLastGrant, RouteSets DEF Permitted
      <3> QED BY <1>2, <3>2, <3>3 DEF WellFormed
    <2> QED BY <2>1, <2>2, <2>3
  <1> QED BY <1>1, <1>2
-----------------------------------------------------------------------------
(* Counting the rows before a row.                                         *)

LEMMA BeforeTyped ==
  ASSUME NEW rows, IsFiniteSet(rows), NEW k
  PROVE  IsFiniteSet({j \in rows : j < k}) /\ Before(rows, k) \in Nat
  <1>1. {j \in rows : j < k} \in SUBSET rows
    OBVIOUS
  <1> QED BY <1>1, FS_Subset, FS_CardinalityType DEF Before

(* No row further on, unless one is exactly there.                         *)
LEMMA NoGap ==
  ASSUME NEW rows, IsFiniteSet(rows), rows \subseteq Nat, NEW bound \in Nat,
         NEW k \in rows, bound <= Before(rows, k)
  PROVE  \E m \in rows : Before(rows, m) = bound
  <1> DEFINE T == {j \in rows : bound <= Before(rows, j)}
  <1>1. PICK m \in T : \A j \in T : m <= j
    <2>1. T \subseteq Nat /\ k \in T
      OBVIOUS
    <2> HIDE DEF T
    <2> QED BY <2>1, Smallest
  <1>2. m \in rows /\ bound <= Before(rows, m) /\ Before(rows, m) \in Nat
    BY <1>1, BeforeTyped
  <1>3. \A j \in rows : j < m => Before(rows, j) < bound
    <2> TAKE j \in rows
    <2>1. j < m => j \notin T
      BY <1>1
    <2>2. Before(rows, j) \in Nat
      BY BeforeTyped
    <2> QED BY <2>1, <2>2
  <1> HIDE DEF T
  <1> DEFINE ahead == {j \in rows : j < m}
  <1>4. CASE ahead = {}
    <2>1. Before(rows, m) = 0
      BY <1>4, FS_EmptySet DEF Before
    <2> QED BY <1>2, <2>1
  <1>5. CASE ahead # {}
    <2>1. PICK p \in ahead : \A j \in ahead : j <= p
      <3> DEFINE D == {m - j : j \in ahead}
      <3>1. D \subseteq Nat /\ D # {}
        <4>1. \A j \in ahead : m - j \in Nat
          BY <1>2
        <4> QED BY <1>5, <4>1
      <3>2. PICK d \in D : \A e \in D : d <= e
        <4> HIDE DEF D
        <4> QED BY <3>1, Smallest
      <3>3. PICK p \in ahead : d = m - p
        BY <3>2
      <3>4. ASSUME NEW j \in ahead
            PROVE  j <= p
        <4>1. d <= m - j
          BY <3>2
        <4>2. j \in Nat /\ p \in Nat /\ m \in Nat
          BY <1>2
        <4> QED BY <3>3, <4>1, <4>2
      <3> QED BY <3>4
    <2>2. ahead = {j \in rows : j < p} \cup {p} /\ p \notin {j \in rows : j < p}
      <3>1. p \in Nat /\ m \in Nat /\ p < m /\ p \in rows
        BY <1>2, <2>1
      <3>2. ASSUME NEW j \in ahead
            PROVE  j = p \/ j < p
        <4>1. j \in Nat /\ j <= p
          BY <2>1
        <4> QED BY <3>1, <4>1
      <3>3. {j \in rows : j < p} \cup {p} \subseteq ahead
        <4>1. \A j \in rows : j < p => j < m
          BY <3>1
        <4> QED BY <3>1, <4>1
      <3>4. ahead \subseteq {j \in rows : j < p} \cup {p}
        BY <3>2
      <3>5. p \notin {j \in rows : j < p}
        BY <3>1
      <3> HIDE DEF ahead
      <3> QED BY <3>3, <3>4, <3>5
    <2>3. Before(rows, m) = Before(rows, p) + 1
      <3>1. IsFiniteSet({j \in rows : j < p})
        BY BeforeTyped
      <3>2. Cardinality({j \in rows : j < p} \cup {p}) = Cardinality({j \in rows : j < p}) + 1
        BY <2>2, <3>1, FS_AddElement
      <3> QED BY <2>2, <3>2 DEF Before
    <2>4. Before(rows, p) < bound /\ Before(rows, p) \in Nat
      BY <1>3, <2>1, BeforeTyped
    <2> QED BY <1>2, <2>3, <2>4
  <1> QED BY <1>4, <1>5
-----------------------------------------------------------------------------
(* Where pages begin.                                                       *)

LEMMA LimitTyped ==
  GetLimit(PageSize) \in Nat /\ GetLimit(PageSize) >= 1
  BY PagesTyped DEF GetLimit, LesserOf

LEMMA OffsetTyped ==
  ASSUME NEW page \in Nat, page >= 1
  PROVE  /\ SetPage(page, PageSize) \in Nat /\ SetPage(page, PageSize) = (page - 1) * GetLimit(PageSize)
         /\ GetOffset(page, PageSize) \in Nat
         /\ GetOffset(page, PageSize) <= SetPage(page, PageSize) /\ GetOffset(page, PageSize) <= MaxOffset
         /\ GetOffset(page, PageSize) = SetPage(page, PageSize) \/ GetOffset(page, PageSize) = MaxOffset
  <1> DEFINE m == page - 1
             lim == GetLimit(PageSize)
  <1>1. m \in Nat /\ lim \in Nat /\ GreaterOf(page, 1) - 1 = m
    BY LimitTyped DEF GreaterOf
  <1>2. SetPage(page, PageSize) = m * lim
    BY <1>1 DEF SetPage
  <1>3. m * lim \in Nat
    <2> HIDE DEF m, lim
    <2> QED BY <1>1
  <1> HIDE DEF m, lim
  <1>4. SetPage(page, PageSize) = (page - 1) * GetLimit(PageSize) /\ SetPage(page, PageSize) \in Nat
    BY <1>2, <1>3 DEF m, lim
  <1> QED BY <1>4, PagesTyped DEF GetOffset, LesserOf

(* The next page begins where a page ends, or where it did.                 *)
LEMMA NextOffset ==
  ASSUME NEW page \in Nat, page >= 1
  PROVE  /\ GetOffset(page + 1, PageSize) \in Nat
         /\ GetOffset(page + 1, PageSize) <= GetOffset(page, PageSize) + GetLimit(PageSize)
         /\ GetOffset(page, PageSize) < MaxOffset =>
              /\ SetPage(page, PageSize) = GetOffset(page, PageSize)
              /\ SetPage(page + 1, PageSize) = GetOffset(page, PageSize) + GetLimit(PageSize)
  <1> DEFINE m == page - 1
             lim == GetLimit(PageSize)
  <1>1. m \in Nat /\ lim \in Nat /\ page = m + 1
    BY LimitTyped
  <1>2. (m + 1) * lim = m * lim + lim /\ m * lim \in Nat
    <2> HIDE DEF m, lim
    <2> QED BY <1>1
  <1>3. SetPage(page, PageSize) = m * lim
    BY OffsetTyped
  <1>4. /\ page + 1 \in Nat /\ page + 1 >= 1 /\ (page + 1) - 1 = m + 1
    BY <1>1
  <1>5. SetPage(page + 1, PageSize) = (m + 1) * lim
    <2>1. SetPage(page + 1, PageSize) = ((page + 1) - 1) * lim
      BY <1>4, OffsetTyped
    <2> QED BY <1>4, <2>1
  <1>6. SetPage(page + 1, PageSize) = SetPage(page, PageSize) + lim
    BY <1>2, <1>3, <1>5
  <1> HIDE DEF m, lim
  <1>7. /\ GetOffset(page + 1, PageSize) \in Nat /\ GetOffset(page + 1, PageSize) <= MaxOffset
        /\ GetOffset(page + 1, PageSize) <= SetPage(page + 1, PageSize)
        /\ SetPage(page + 1, PageSize) \in Nat
    BY <1>4, OffsetTyped
  <1>8. /\ GetOffset(page, PageSize) \in Nat /\ SetPage(page, PageSize) \in Nat
        /\ GetOffset(page, PageSize) = SetPage(page, PageSize) \/ GetOffset(page, PageSize) = MaxOffset
    BY OffsetTyped
  <1>9. MaxOffset \in Nat
    BY PagesTyped
  <1> QED BY <1>1, <1>6, <1>7, <1>8, <1>9 DEF lim

-----------------------------------------------------------------------------
(* What the requests and the walk rely on, step by step.                   *)

LEMMA HeapTyped ==
  ASSUME TypeOK
  PROVE  /\ Len(heap) \in Nat /\ DOMAIN heap = 1..Len(heap)
         /\ \A k \in DOMAIN heap : heap[k] \in Row /\ heap[k].id \in DOMAIN Volume /\ heap[k].deleted \in BOOLEAN
         /\ LiveRows = {k \in 1..Len(heap) : ~heap[k].deleted}
         /\ IsFiniteSet(LiveRows) /\ LiveRows \subseteq Nat
  <1>1. Len(heap) \in Nat /\ DOMAIN heap = 1..Len(heap) /\ \A k \in DOMAIN heap : heap[k] \in Row
    BY DEF TypeOK
  <1>2. LiveRows = {k \in 1..Len(heap) : ~heap[k].deleted}
    BY <1>1 DEF LiveRows, Matching, StandardVolumeFilter
  <1>3. IsFiniteSet(LiveRows)
    <2>1. IsFiniteSet(1..Len(heap)) /\ LiveRows \in SUBSET (1..Len(heap))
      BY <1>1, <1>2, FS_Interval
    <2> QED BY <2>1, FS_Subset
  <1> QED BY <1>1, <1>2, <1>3 DEF Row

(* Answers do not change while the table does not.                         *)
LEMMA AnswersStay ==
  ASSUME UNCHANGED heap, NEW q
  PROVE  Answered(q)' = Answered(q)
  <1>1. LiveRows' = LiveRows /\ \A f : Matching(f)' = Matching(f)
    BY DEF LiveRows, Matching
  <1>2. Found(q)' = Found(q)
    BY <1>1 DEF Found, VolumeByLabel, NamespaceVolumes, UserVolumes, AllVolumes, Filtered
  <1>3. Answer(q)' = Answer(q)
    BY <1>2 DEF Answer
  <1> QED BY <1>2, <1>3 DEF Answered

LEMMA SameTable ==
  ASSUME UNCHANGED heap
  PROVE  LiveRows' = LiveRows /\ (IdsUnique => IdsUnique')
  BY DEF LiveRows, Matching, IdsUnique

LEMMA WalkStays ==
  ASSUME UNCHANGED <<heap, walk>>, WalkFits
  PROVE  WalkFits'
  <1>1. LiveRows' = LiveRows /\ heap' = heap /\ walk' = walk
    BY SameTable
  <1>2. InReach' = InReach /\ NoneMissed' = NoneMissed /\ NoneTwice' = NoneTwice
    BY <1>1 DEF InReach, NoneMissed, NoneTwice, Before
  <1> QED BY <1>1, <1>2 DEF WalkFits, Walking

LEMMA InitListing ==
  ASSUME Init
  PROVE  ListingInv
  <1>1. TypeOK
    BY DEF Init, TypeOK, NoWalk, NotSeen
  <1>2. IdsUnique /\ LastFits /\ WalkFits
    BY DEF Init, IdsUnique, LastFits, WalkFits, NoWalk, Walking
  <1> QED BY <1>1, <1>2 DEF ListingInv

LEMMA ArriveFits ==
  ASSUME ListingInv, NEW q \in Incoming, Arrive(q)
  PROVE  ListingInv'
  <1>1. UNCHANGED <<heap, walk>> /\ last' = Answered(q) /\ IsRequest(q)
    BY IncomingTyped DEF Arrive
  <1>2. LastFits'
    <2>1. last'.request = q
      BY <1>1 DEF Answered
    <2> QED BY <1>1, <2>1, AnswersStay DEF LastFits
  <1> QED BY <1>1, <1>2, SameTable, WalkStays DEF ListingInv, TypeOK

LEMMA LeaveFits ==
  ASSUME ListingInv, Leave
  PROVE  ListingInv'
  BY SameTable, WalkStays DEF Leave, ListingInv, TypeOK, LastFits, Nobody

(* Sequences with an entry more, and with an entry less.                    *)
IsInserted(s, k, x, t) ==
  /\ Len(t) = Len(s) + 1
  /\ \A i \in 1..Len(s) + 1 : t[i] = IF i < k THEN s[i] ELSE IF i = k THEN x ELSE s[i - 1]

IsRemoved(s, k, t) ==
  /\ Len(t) = Len(s) - 1
  /\ \A i \in 1..Len(s) - 1 : t[i] = IF i < k THEN s[i] ELSE s[i + 1]

LEMMA InsertedAt ==
  ASSUME NEW S, NEW s \in Seq(S), NEW k \in 1..Len(s) + 1, NEW x \in S
  PROVE  InsertAt(s, k, x) \in Seq(S) /\ IsInserted(s, k, x, InsertAt(s, k, x))
  <1> PICK n \in Nat : n = Len(s) /\ k \in 1..n + 1
    BY LenProperties
  <1> DEFINE a == SubSeq(s, 1, k - 1)
             c == SubSeq(s, k, n)
  <1>1. DOMAIN s = 1..n /\ \A i \in 1..n : s[i] \in S
    BY LenProperties, ElementOfSeq
  <1>2. a \in Seq(S) /\ Len(a) = k - 1 /\ \A i \in 1..k - 1 : a[i] = s[i]
    <2>1. \A i \in 1..k - 1 : s[i] \in S
      BY <1>1
    <2>2. k - 1 \in Int /\ 1 \in Int
      OBVIOUS
    <2>3. /\ SubSeq(s, 1, k - 1) \in Seq(S)
          /\ Len(SubSeq(s, 1, k - 1)) = IF 1 <= k - 1 THEN (k - 1) - 1 + 1 ELSE 0
          /\ \A i \in 1..((k - 1) - 1 + 1) : SubSeq(s, 1, k - 1)[i] = s[1 + i - 1]
      BY <2>1, <2>2, SubSeqProperties
    <2> HIDE DEF a
    <2>4. a = SubSeq(s, 1, k - 1)
      BY DEF a
    <2> QED BY <2>3, <2>4
  <1>3. c \in Seq(S) /\ Len(c) = n + 1 - k /\ \A i \in 1..n + 1 - k : c[i] = s[k + i - 1]
    <2>1. \A i \in k..n : s[i] \in S
      BY <1>1
    <2>2. k \in Int /\ n \in Int
      OBVIOUS
    <2>3. /\ SubSeq(s, k, n) \in Seq(S)
          /\ Len(SubSeq(s, k, n)) = IF k <= n THEN n - k + 1 ELSE 0
          /\ \A i \in 1..(n - k + 1) : SubSeq(s, k, n)[i] = s[k + i - 1]
      BY <2>1, <2>2, SubSeqProperties
    <2> HIDE DEF c
    <2>4. c = SubSeq(s, k, n)
      BY DEF c
    <2> QED BY <2>3, <2>4
  <1>4. <<x>> \in Seq(S) /\ Len(<<x>>) = 1 /\ <<x>>[1] = x
    OBVIOUS
  <1>5. InsertAt(s, k, x) = a \o <<x>> \o c
    BY DEF InsertAt
  <1> HIDE DEF a, c
  <1> DEFINE b == a \o <<x>>
  <1>6. b \in Seq(S) /\ Len(b) = k /\ \A i \in 1..k : b[i] = IF i < k THEN s[i] ELSE x
    <2>1. /\ b \in Seq(S) /\ Len(b) = Len(a) + Len(<<x>>)
          /\ \A i \in 1..Len(a) + Len(<<x>>) : b[i] = IF i <= Len(a) THEN a[i] ELSE <<x>>[i - Len(a)]
      BY <1>2, <1>4, ConcatProperties
    <2>2. Len(a) + Len(<<x>>) = k /\ k \in Nat
      BY <1>2, <1>4
    <2> HIDE DEF b
    <2>3. ASSUME NEW i \in 1..k
          PROVE  b[i] = IF i < k THEN s[i] ELSE x
      <3>1. CASE i < k
        <4>1. i \in 1..k - 1 /\ i <= Len(a)
          BY <1>2, <3>1
        <4> QED BY <1>2, <2>1, <2>2, <3>1, <4>1
      <3>2. CASE i = k
        <4>1. ~(i <= Len(a)) /\ i - Len(a) = 1
          BY <1>2, <3>2
        <4>2. b[i] = <<x>>[i - Len(a)]
          BY <2>1, <2>2, <4>1
        <4> QED BY <1>4, <3>2, <4>1, <4>2
      <3> QED BY <3>1, <3>2
    <2> QED BY <2>1, <2>2, <2>3
  <1>7. InsertAt(s, k, x) = b \o c
    BY <1>5
  <1> HIDE DEF b
  <1>8. /\ b \o c \in Seq(S) /\ Len(b \o c) = n + 1
        /\ \A i \in 1..n + 1 : (b \o c)[i] = IF i <= k THEN b[i] ELSE c[i - k]
    <2>1. /\ b \o c \in Seq(S) /\ Len(b \o c) = Len(b) + Len(c)
          /\ \A i \in 1..Len(b) + Len(c) : (b \o c)[i] = IF i <= Len(b) THEN b[i] ELSE c[i - Len(b)]
      BY <1>3, <1>6, ConcatProperties
    <2>2. Len(b) + Len(c) = n + 1
      BY <1>3, <1>6
    <2> QED BY <1>6, <2>1, <2>2
  <1>9. ASSUME NEW i \in 1..n + 1
        PROVE  (b \o c)[i] = IF i < k THEN s[i] ELSE IF i = k THEN x ELSE s[i - 1]
    <2>1. CASE i <= k
      <3>1. i \in 1..k
        BY <2>1
      <3> QED BY <1>6, <1>8, <2>1, <3>1
    <2>2. CASE ~(i <= k)
      <3>1. i - k \in 1..n + 1 - k /\ k + (i - k) - 1 = i - 1 /\ ~(i < k) /\ i # k
        BY <2>2
      <3> QED BY <1>3, <1>8, <2>2, <3>1
    <2> QED BY <2>1, <2>2
  <1> QED BY <1>7, <1>8, <1>9 DEF IsInserted

LEMMA RemovedAt ==
  ASSUME NEW S, NEW s \in Seq(S), NEW k \in 1..Len(s)
  PROVE  RemoveAt(s, k) \in Seq(S) /\ IsRemoved(s, k, RemoveAt(s, k))
  <1> PICK n \in Nat : n = Len(s) /\ k \in 1..n
    BY LenProperties
  <1> DEFINE a == SubSeq(s, 1, k - 1)
             b == SubSeq(s, k + 1, n)
  <1>1. DOMAIN s = 1..n /\ \A i \in 1..n : s[i] \in S
    BY LenProperties, ElementOfSeq
  <1>2. a \in Seq(S) /\ Len(a) = k - 1 /\ \A i \in 1..k - 1 : a[i] = s[i]
    <2>1. \A i \in 1..k - 1 : s[i] \in S
      BY <1>1
    <2>2. k - 1 \in Int /\ 1 \in Int
      OBVIOUS
    <2>3. /\ SubSeq(s, 1, k - 1) \in Seq(S)
          /\ Len(SubSeq(s, 1, k - 1)) = IF 1 <= k - 1 THEN (k - 1) - 1 + 1 ELSE 0
          /\ \A i \in 1..((k - 1) - 1 + 1) : SubSeq(s, 1, k - 1)[i] = s[1 + i - 1]
      BY <2>1, <2>2, SubSeqProperties
    <2> HIDE DEF a
    <2>4. a = SubSeq(s, 1, k - 1)
      BY DEF a
    <2> QED BY <2>3, <2>4
  <1>3. b \in Seq(S) /\ Len(b) = n - k /\ \A i \in 1..n - k : b[i] = s[k + i]
    <2>1. \A i \in k + 1..n : s[i] \in S
      BY <1>1
    <2>2. k + 1 \in Int /\ n \in Int
      OBVIOUS
    <2>3. /\ SubSeq(s, k + 1, n) \in Seq(S)
          /\ Len(SubSeq(s, k + 1, n)) = IF k + 1 <= n THEN n - (k + 1) + 1 ELSE 0
          /\ \A i \in 1..(n - (k + 1) + 1) : SubSeq(s, k + 1, n)[i] = s[k + 1 + i - 1]
      BY <2>1, <2>2, SubSeqProperties
    <2> HIDE DEF b
    <2>4. b = SubSeq(s, k + 1, n)
      BY DEF b
    <2>5. \A i \in 1..n - k : (k + 1) + i - 1 = k + i /\ i \in 1..(n - (k + 1) + 1)
      OBVIOUS
    <2> QED BY <2>3, <2>4, <2>5
  <1>4. RemoveAt(s, k) = a \o b
    BY DEF RemoveAt
  <1> HIDE DEF a, b
  <1>5. /\ a \o b \in Seq(S) /\ Len(a \o b) = n - 1
        /\ \A i \in 1..n - 1 : (a \o b)[i] = IF i <= k - 1 THEN a[i] ELSE b[i - (k - 1)]
    <2>1. /\ a \o b \in Seq(S) /\ Len(a \o b) = Len(a) + Len(b)
          /\ \A i \in 1..Len(a) + Len(b) : (a \o b)[i] = IF i <= Len(a) THEN a[i] ELSE b[i - Len(a)]
      BY <1>2, <1>3, ConcatProperties
    <2>2. Len(a) + Len(b) = n - 1
      BY <1>2, <1>3
    <2> QED BY <1>2, <2>1, <2>2
  <1>6. ASSUME NEW i \in 1..n - 1
        PROVE  (a \o b)[i] = IF i < k THEN s[i] ELSE s[i + 1]
    <2>1. CASE i < k
      <3>1. i \in 1..k - 1 /\ i <= k - 1
        BY <2>1
      <3> QED BY <1>2, <1>5, <2>1, <3>1
    <2>2. CASE ~(i < k)
      <3>1. ~(i <= k - 1) /\ i - (k - 1) \in 1..n - k /\ k + (i - (k - 1)) = i + 1
        BY <2>2
      <3> QED BY <1>3, <1>5, <2>2, <3>1
    <2> QED BY <2>1, <2>2
  <1> QED BY <1>4, <1>5, <1>6 DEF IsRemoved

(* Rows that come in do not bring others forward.                           *)
LEMMA BeforeGrows ==
  ASSUME NEW rows, NEW more, IsFiniteSet(more), NEW f \in [rows -> more],
         \A i, j \in rows : i < j => f[i] < f[j], NEW k \in rows,
         rows \subseteq Nat, more \subseteq Nat
  PROVE  Before(rows, k) <= Before(more, f[k])
  <1> DEFINE S == {i \in rows : i < k}
             T == {i \in more : i < f[k]}
             g == [i \in S |-> f[i]]
  <1>1. g \in [S -> T]
    OBVIOUS
  <1>2. ASSUME NEW i \in S, NEW j \in S, g[i] = g[j]
        PROVE  i = j
    <2>1. i \in Nat /\ j \in Nat /\ f[i] = f[j] /\ i \in rows /\ j \in rows /\ f[i] \in Nat
      BY <1>2
    <2>2. ~(f[i] < f[j]) /\ ~(f[j] < f[i])
      BY <2>1
    <2>3. ~(i < j) /\ ~(j < i)
      BY <2>1, <2>2
    <2> QED BY <2>1, <2>3
  <1>3. g \in Injection(S, T)
    <2> HIDE DEF g, S, T
    <2> QED BY <1>1, <1>2 DEF Injection, IsInjective
  <1>4. IsFiniteSet(T)
    BY FS_Subset
  <1>5. Cardinality(S) <= Cardinality(T)
    <2> HIDE DEF g, S, T
    <2> QED BY <1>3, <1>4, FS_Injection
  <1> QED BY <1>5 DEF Before

LEMMA InsertFits ==
  ASSUME ListingInv, NEW id \in DOMAIN Volume, NEW k \in 1..Len(heap) + 1, InsertRow(id, k)
  PROVE  ListingInv'
  <1> DEFINE n == Len(heap)
             row == [id |-> id, ns |-> Volume[id].ns, owner |-> Volume[id].owner, deleted |-> FALSE]
             new(j) == IF j < k THEN j ELSE j + 1
  <1>1. /\ TypeOK /\ IdsUnique /\ LastFits /\ WalkFits /\ UNCHANGED last /\ last = Nobody
        /\ heap' = InsertAt(heap, k, row) /\ walk' = Noted("insert") /\ \A j \in DOMAIN heap : heap[j].id # id
    BY DEF ListingInv, InsertRow, Rows
  <1>2. row \in Row
    BY DEF Row
  <1>3. /\ n \in Nat /\ DOMAIN heap = 1..n /\ k \in 1..n + 1 /\ heap \in Seq(Row)
        /\ LiveRows = {j \in 1..n : ~heap[j].deleted} /\ IsFiniteSet(LiveRows)
    BY <1>1, HeapTyped DEF TypeOK
  <1>4. /\ heap' \in Seq(Row) /\ Len(heap') = n + 1 /\ DOMAIN heap' = 1..n + 1
        /\ \A i \in 1..n + 1 : heap'[i] = IF i < k THEN heap[i] ELSE IF i = k THEN row ELSE heap[i - 1]
    <2> HIDE DEF row
    <2>1. heap' = InsertAt(heap, k, row)
      BY <1>1 DEF row
    <2>2. heap \in Seq(Row) /\ n = Len(heap) /\ k \in 1..Len(heap) + 1 /\ row \in Row
      BY <1>2, <1>3
    <2> HIDE DEF n
    <2>3. heap' \in Seq(Row) /\ IsInserted(heap, k, row, heap')
      BY <2>1, <2>2, InsertedAt
    <2> QED BY <2>2, <2>3, LenProperties DEF IsInserted
  <1>5. row.id = id /\ ~row.deleted
    OBVIOUS
  <1> HIDE DEF row, n
  <1>6. /\ heap'[k] = row
        /\ \A j \in 1..n : new(j) \in 1..n + 1 /\ heap'[new(j)] = heap[j]
        /\ \A i \in 1..n + 1 : i = k \/ \E j \in 1..n : i = new(j)
    <2>1. ASSUME NEW j \in 1..n
          PROVE  new(j) \in 1..n + 1 /\ heap'[new(j)] = heap[j]
      <3>1. CASE j < k
        BY <1>3, <1>4, <3>1
      <3>2. CASE ~(j < k)
        <4>1. /\ new(j) = j + 1 /\ j + 1 \in 1..n + 1 /\ ~(j + 1 < k) /\ j + 1 # k
              /\ (j + 1) - 1 = j
          BY <1>3, <3>2
        <4> QED BY <1>4, <4>1
      <3> QED BY <3>1, <3>2
    <2>2. ASSUME NEW i \in 1..n + 1, i # k
          PROVE  \E j \in 1..n : i = new(j)
      <3>1. CASE i < k
        <4>1. i \in 1..n /\ new(i) = i
          BY <1>3, <3>1
        <4> QED BY <4>1
      <3>2. CASE ~(i < k)
        <4>1. i - 1 \in 1..n /\ ~(i - 1 < k) /\ (i - 1) + 1 = i
          BY <1>3, <2>2, <3>2
        <4>2. new(i - 1) = i
          BY <4>1
        <4> QED BY <4>1, <4>2
      <3> QED BY <3>1, <3>2
    <2>3. heap'[k] = row
      <3>1. k \in 1..n + 1 /\ ~(k < k)
        BY <1>3
      <3> QED BY <1>4, <3>1
    <2> HIDE DEF new
    <2> QED BY <2>1, <2>2, <2>3
  <1>7. \A i, j \in 1..n : i < j => new(i) < new(j)
    BY <1>3
  <1>8. IdsUnique'
    <2> SUFFICES ASSUME NEW i \in 1..n + 1, NEW j \in 1..n + 1, heap'[i].id = heap'[j].id
                 PROVE  i = j
      BY <1>4 DEF IdsUnique
    <2> HIDE DEF new
    <2>1. ASSUME NEW x \in 1..n
          PROVE  heap'[new(x)].id # heap'[k].id
      <3>1. heap'[new(x)] = heap[x] /\ heap'[k] = row
        BY <1>6
      <3>2. heap[x].id # id
        BY <1>1, <1>3
      <3> QED BY <1>5, <3>1, <3>2
    <2>2. ASSUME NEW x \in 1..n, NEW y \in 1..n, heap'[new(x)].id = heap'[new(y)].id
          PROVE  new(x) = new(y)
      <3>1. heap'[new(x)] = heap[x] /\ heap'[new(y)] = heap[y]
        BY <1>6
      <3>2. x = y
        BY <1>1, <1>3, <2>2, <3>1 DEF IdsUnique
      <3> QED BY <3>2
    <2> QED BY <1>6, <2>1, <2>2
  <1>9. TypeOK'
    <2>1. walk' \in [page : Nat, seen : [DOMAIN Volume -> Nat], expected : SUBSET DOMAIN Volume,
                     writes : SUBSET {"insert", "update"}]
      BY <1>1 DEF TypeOK, Noted
    <2> QED BY <1>4, <2>1 DEF TypeOK
  <1>10. /\ LiveRows' = {i \in 1..n + 1 : ~heap'[i].deleted} /\ IsFiniteSet(LiveRows')
         /\ \A j \in LiveRows : new(j) \in LiveRows'
    <2>1. LiveRows' = {i \in 1..n + 1 : ~heap'[i].deleted}
      BY <1>4 DEF LiveRows, Matching, StandardVolumeFilter
    <2>2. IsFiniteSet(1..n + 1)
      BY <1>3, FS_Interval
    <2>3. IsFiniteSet(LiveRows')
      BY <2>1, <2>2, FS_Subset
    <2> HIDE DEF new
    <2> QED BY <1>3, <1>6, <2>1, <2>3
  <1>11. ASSUME NEW j \in LiveRows
         PROVE  Before(LiveRows, j) <= Before(LiveRows', new(j))
    <2> DEFINE f == [i \in LiveRows |-> new(i)]
    <2> HIDE DEF new
    <2>1. /\ f \in [LiveRows -> LiveRows'] /\ LiveRows \subseteq Nat /\ LiveRows \subseteq 1..n
          /\ LiveRows' \subseteq Nat
      BY <1>3, <1>10
    <2>2. \A i, m \in LiveRows : i < m => f[i] < f[m]
      BY <1>7, <2>1
    <2>3. f[j] = new(j)
      OBVIOUS
    <2> HIDE DEF f
    <2>4. Before(LiveRows, j) <= Before(LiveRows', f[j])
      BY <1>10, <2>1, <2>2, BeforeGrows
    <2> QED BY <2>3, <2>4
  <1>12. WalkFits'
    <2>1. CASE ~Walking
      BY <1>1, <2>1 DEF WalkFits, Walking, Noted
    <2>2. CASE Walking
      <3>1. /\ walk'.writes = walk.writes \cup {"insert"} /\ walk'.expected = walk.expected
            /\ walk'.seen = walk.seen /\ walk'.page = walk.page
        BY <1>1, <2>2 DEF Noted, TypeOK
      <3> SUFFICES ASSUME "update" \notin walk.writes, NEW x \in walk.expected
                   PROVE  \E j \in LiveRows' : heap'[j].id = x
                            /\ (walk.seen[x] >= 1 \/ GetOffset(walk.page, PageSize) <= Before(LiveRows', j))
        BY <3>1 DEF WalkFits, NoneMissed
      <3>2. PICK j \in LiveRows : heap[j].id = x
                            /\ (walk.seen[x] >= 1 \/ GetOffset(walk.page, PageSize) <= Before(LiveRows, j))
        BY <1>1, <2>2 DEF WalkFits, NoneMissed
      <3> HIDE DEF new
      <3>3. new(j) \in LiveRows' /\ heap'[new(j)].id = x
        BY <1>3, <1>6, <1>10, <3>2
      <3>4. GetOffset(walk.page, PageSize) <= Before(LiveRows, j)
              => GetOffset(walk.page, PageSize) <= Before(LiveRows', new(j))
        <4>1. Before(LiveRows, j) \in Nat /\ Before(LiveRows', new(j)) \in Nat
          BY <1>3, <1>10, BeforeTyped
        <4>2. GetOffset(walk.page, PageSize) \in Nat
          BY <1>1, <2>2, OffsetTyped DEF Walking, TypeOK
        <4> QED BY <1>11, <4>1, <4>2
      <3> QED BY <3>2, <3>3, <3>4
    <2> QED BY <2>1, <2>2
  <1>13. LastFits'
    BY <1>1 DEF LastFits
  <1> QED BY <1>8, <1>9, <1>12, <1>13 DEF ListingInv

LEMMA UpdateFits ==
  ASSUME ListingInv, NEW m \in 1..Len(heap), NEW k \in 1..Len(heap), NEW deleted \in BOOLEAN,
         UpdateRow(m, deleted, k)
  PROVE  ListingInv'
  <1> DEFINE n == Len(heap)
             row == [heap[m] EXCEPT !.deleted = deleted]
             rest == RemoveAt(heap, m)
             skip(i) == IF i < m THEN i ELSE i + 1
             old(i) == IF i < k THEN skip(i) ELSE IF i = k THEN m ELSE skip(i - 1)
  <1>1. /\ TypeOK /\ IdsUnique /\ UNCHANGED last /\ last = Nobody
        /\ heap' = InsertAt(RemoveAt(heap, m), k, row) /\ walk' = Noted("update")
    BY DEF ListingInv, UpdateRow
  <1>2. /\ heap \in Seq(Row) /\ n \in Nat /\ DOMAIN heap = 1..n /\ m \in 1..n /\ k \in 1..n
        /\ heap[m] \in Row
    BY <1>1, HeapTyped DEF TypeOK
  <1>3. row \in Row /\ row.id = heap[m].id
    BY <1>2 DEF Row
  <1> HIDE DEF row
  <1>4. /\ rest \in Seq(Row) /\ Len(rest) = n - 1
        /\ \A i \in 1..n - 1 : rest[i] = heap[skip(i)]
    <2>1. heap \in Seq(Row) /\ n = Len(heap) /\ m \in 1..Len(heap)
      BY <1>2
    <2> HIDE DEF n
    <2>2. RemoveAt(heap, m) \in Seq(Row) /\ IsRemoved(heap, m, RemoveAt(heap, m))
      BY <2>1, RemovedAt
    <2> QED BY <2>1, <2>2 DEF IsRemoved
  <1>5. heap' = InsertAt(rest, k, row)
    BY <1>1
  <1> HIDE DEF n, rest, skip
  <1>6. /\ heap' \in Seq(Row) /\ Len(heap') = n /\ DOMAIN heap' = 1..n
        /\ \A i \in 1..n : heap'[i] = IF i < k THEN rest[i] ELSE IF i = k THEN row ELSE rest[i - 1]
    <2>1. Len(rest) + 1 = n
      BY <1>2, <1>4
    <2>2. k \in 1..Len(rest) + 1 /\ rest \in Seq(Row) /\ row \in Row
      BY <1>2, <1>3, <1>4
    <2>3. heap' \in Seq(Row) /\ IsInserted(rest, k, row, heap')
      BY <1>5, <2>2, InsertedAt
    <2> QED BY <2>1, <2>3, LenProperties DEF IsInserted
  <1>7. \A i \in 1..n - 1 : skip(i) \in 1..n /\ skip(i) # m
    BY <1>2 DEF skip
  <1>8. \A i, j \in 1..n - 1 : skip(i) = skip(j) => i = j
    BY <1>2 DEF skip
  <1>9. \A i \in 1..n : (i < k => i \in 1..n - 1) /\ (~(i < k) /\ i # k => i - 1 \in 1..n - 1)
    BY <1>2
  <1>10. \A i \in 1..n : old(i) \in 1..n /\ heap'[i].id = heap[old(i)].id
    BY <1>2, <1>3, <1>4, <1>6, <1>7, <1>9
  <1>11. ASSUME NEW i \in 1..n, NEW j \in 1..n, old(i) = old(j)
         PROVE  i = j
    <2>1. CASE i = k \/ j = k
      BY <1>2, <1>7, <1>9, <1>11, <2>1
    <2>2. CASE i # k /\ j # k
      <3>1. \A x \in {i, j} : (IF x < k THEN x ELSE x - 1) \in 1..n - 1
        BY <1>9, <2>2
      <3>2. \A x \in {i, j} : old(x) = skip(IF x < k THEN x ELSE x - 1)
        BY <2>2
      <3>3. (IF i < k THEN i ELSE i - 1) = (IF j < k THEN j ELSE j - 1)
        BY <1>8, <1>11, <3>1, <3>2
      <3> QED BY <1>2, <2>2, <3>3
    <2> QED BY <2>1, <2>2
  <1> HIDE DEF old
  <1>12. IdsUnique'
    <2>1. \A i, j \in 1..n : heap[i].id = heap[j].id => i = j
      BY <1>1, <1>2 DEF IdsUnique
    <2>2. \A i, j \in 1..n : heap'[i].id = heap'[j].id => old(i) = old(j)
      BY <1>10, <2>1
    <2>3. \A i, j \in 1..n : old(i) = old(j) => i = j
      BY <1>11
    <2> QED BY <1>6, <2>2, <2>3 DEF IdsUnique
  <1>13. TypeOK'
    <2>1. walk' \in [page : Nat, seen : [DOMAIN Volume -> Nat], expected : SUBSET DOMAIN Volume,
                     writes : SUBSET {"insert", "update"}]
      BY <1>1 DEF TypeOK, Noted
    <2> QED BY <1>6, <2>1 DEF TypeOK
  <1>14. WalkFits'
    <2>1. Walking' => "update" \in walk'.writes /\ walk'.writes # {}
      BY <1>1 DEF Walking, Noted, TypeOK
    <2> QED BY <2>1 DEF WalkFits
  <1>15. LastFits'
    BY <1>1 DEF LastFits
  <1> QED BY <1>12, <1>13, <1>14, <1>15 DEF ListingInv

LEMMA StartWalkFits ==
  ASSUME ListingInv, StartWalk
  PROVE  ListingInv'
  <1>1. /\ TypeOK /\ IdsUnique /\ LastFits /\ UNCHANGED <<heap, last>> /\ last = Nobody
        /\ walk' = [page |-> 1, seen |-> NotSeen, expected |-> {heap[k].id : k \in LiveRows}, writes |-> {}]
    BY DEF ListingInv, StartWalk
  <1>2. \A k \in LiveRows : heap[k].id \in DOMAIN Volume
    BY <1>1, HeapTyped DEF LiveRows, Matching
  <1>3. TypeOK'
    BY <1>1, <1>2 DEF TypeOK, NotSeen
  <1>4. SetPage(1, PageSize) = 0 /\ GetOffset(1, PageSize) = 0
    BY LimitTyped, PagesTyped DEF SetPage, GetOffset, GreaterOf, LesserOf
  <1>5. LiveRows' = LiveRows
    BY <1>1, SameTable
  <1>6. \A k \in LiveRows : Before(LiveRows, k) \in Nat
    BY <1>1, BeforeTyped, HeapTyped
  <1>7. NoneMissed'
    <2>1. \A k \in LiveRows : 0 <= Before(LiveRows, k)
      BY <1>6
    <2> QED BY <1>1, <1>4, <1>5, <2>1 DEF NoneMissed
  <1>8. NoneTwice'
    <2>1. \A k \in LiveRows : ~(Before(LiveRows, k) < 0) /\ NotSeen[heap[k].id] = 0
      BY <1>2, <1>6 DEF NotSeen
    <2>2. \A id \in DOMAIN Volume : NotSeen[id] = 0
      BY DEF NotSeen
    <2> QED BY <1>1, <1>4, <1>5, <2>1, <2>2 DEF NoneTwice
  <1> QED BY <1>1, <1>3, <1>7, <1>8, SameTable DEF ListingInv, LastFits, WalkFits

LEMMA EndWalkFits ==
  ASSUME ListingInv, EndWalk
  PROVE  ListingInv'
  <1>1. /\ TypeOK /\ IdsUnique /\ LastFits /\ UNCHANGED <<heap, last>> /\ walk' = NoWalk
    BY DEF ListingInv, EndWalk
  <1>2. TypeOK' /\ WalkFits'
    BY <1>1 DEF TypeOK, WalkFits, NoWalk, NotSeen, Walking
  <1>3. LastFits'
    BY <1>1, AnswersStay DEF LastFits
  <1> QED BY <1>1, <1>2, <1>3, SameTable DEF ListingInv

(* The rows of a page that a request adds to what an identifier was shown.  *)
LEMMA ShownOnPage ==
  ASSUME TypeOK, IdsUnique, NEW rows \in SUBSET DOMAIN heap, NEW id
  PROVE  Cardinality({k \in rows : heap[k].id = id}) = IF \E k \in rows : heap[k].id = id THEN 1 ELSE 0
  <1>1. CASE \E k \in rows : heap[k].id = id
    <2>1. PICK k \in rows : heap[k].id = id
      BY <1>1
    <2>2. {j \in rows : heap[j].id = id} = {k}
      BY <2>1 DEF IdsUnique
    <2> QED BY <1>1, <2>2, FS_Singleton
  <1>2. CASE ~\E k \in rows : heap[k].id = id
    <2>1. {j \in rows : heap[j].id = id} = {}
      BY <1>2
    <2> QED BY <1>2, <2>1, FS_EmptySet
  <1> QED BY <1>1, <1>2

LEMMA PageRows ==
  ASSUME TypeOK, NEW n \in Nat, n >= 1
  PROVE  /\ PageOf(n) = {k \in LiveRows :
                           /\ GetOffset(n, PageSize) <= Before(LiveRows, k)
                           /\ Before(LiveRows, k) < GetOffset(n, PageSize) + GetLimit(PageSize)}
         /\ PageOf(n) \in SUBSET DOMAIN heap
  <1>1. LiveRows \subseteq DOMAIN heap
    BY DEF LiveRows, Matching
  <1>2. PageSize > 0
    BY PagesTyped
  <1> QED BY <1>1, <1>2 DEF PageOf, Filtered, OnPage, LiveRows

LEMMA NextPageFits ==
  ASSUME ListingInv, NextPage
  PROVE  ListingInv'
  <1> DEFINE p == walk.page
             page == PageOf(p)
             add(id) == Cardinality({k \in page : heap[k].id = id})
             hit(id) == \E k \in page : heap[k].id = id
             rank(k) == Before(LiveRows, k)
             off == GetOffset(p, PageSize)
             lim == GetLimit(PageSize)
  <1>1. /\ TypeOK /\ IdsUnique /\ LastFits /\ WalkFits /\ UNCHANGED <<heap, last>> /\ Walking /\ page # {}
        /\ walk' = [walk EXCEPT !.page = @ + 1, !.seen = [id \in DOMAIN Volume |-> @[id] + add(id)]]
    BY DEF ListingInv, NextPage
  <1>2. p \in Nat /\ p >= 1 /\ walk.seen \in [DOMAIN Volume -> Nat] /\ walk.expected \subseteq DOMAIN Volume
    BY <1>1 DEF TypeOK, Walking
  <1>3. /\ page = {k \in LiveRows : off <= rank(k) /\ rank(k) < off + lim}
        /\ page \in SUBSET DOMAIN heap
    BY <1>1, <1>2, PageRows
  <1>4. \A id : add(id) = IF hit(id) THEN 1 ELSE 0
    BY <1>1, <1>3, ShownOnPage
  <1>5. \A id : add(id) \in Nat
    <2> TAKE id
    <2>1. add(id) = 1 \/ add(id) = 0
      BY <1>4
    <2> QED BY <2>1
  <1>6. /\ walk'.page = p + 1 /\ walk'.expected = walk.expected /\ walk'.writes = walk.writes
        /\ walk'.seen = [id \in DOMAIN Volume |-> walk.seen[id] + add(id)]
        /\ walk' \in [page : Nat, seen : [DOMAIN Volume -> Nat], expected : SUBSET DOMAIN Volume,
                      writes : SUBSET {"insert", "update"}]
    <2> HIDE DEF add
    <2>1. [id \in DOMAIN Volume |-> walk.seen[id] + add(id)] \in [DOMAIN Volume -> Nat]
      BY <1>2, <1>5
    <2>2. walk \in [page : Nat, seen : [DOMAIN Volume -> Nat], expected : SUBSET DOMAIN Volume,
                    writes : SUBSET {"insert", "update"}]
      BY <1>1 DEF TypeOK
    <2>3. /\ walk' = [walk EXCEPT !.page = p + 1, !.seen = [id \in DOMAIN Volume |-> walk.seen[id] + add(id)]]
          /\ p + 1 \in Nat
      BY <1>1, <1>2
    <2> HIDE DEF p
    <2> QED BY <2>1, <2>2, <2>3
  <1>7. TypeOK'
    BY <1>1, <1>6 DEF TypeOK
  <1>8. LiveRows' = LiveRows /\ \A k : Before(LiveRows', k) = rank(k)
    BY <1>1, SameTable
  <1>9. \A k \in LiveRows : k \in DOMAIN heap /\ heap[k].id \in DOMAIN Volume /\ rank(k) \in Nat
    <2>1. LiveRows \subseteq DOMAIN heap
      BY DEF LiveRows, Matching
    <2> QED BY <1>1, <2>1, HeapTyped, BeforeTyped
  <1>10. /\ off \in Nat /\ lim \in Nat /\ GetOffset(p + 1, PageSize) \in Nat
         /\ GetOffset(p + 1, PageSize) <= off + lim
         /\ off < MaxOffset => SetPage(p, PageSize) = off /\ SetPage(p + 1, PageSize) = off + lim
    BY <1>2, NextOffset, OffsetTyped, LimitTyped
  <1>11. \A j, k \in LiveRows : heap[j].id = heap[k].id => j = k
    BY <1>1, <1>9 DEF IdsUnique
  <1> HIDE DEF page, add, hit, rank, off, lim
  <1>12. ASSUME NEW k \in LiveRows
         PROVE  hit(heap[k].id) <=> k \in page
    BY <1>3, <1>11 DEF hit
  <1>13. \A id \in DOMAIN Volume : walk'.seen[id] = IF hit(id) THEN walk.seen[id] + 1 ELSE walk.seen[id]
    BY <1>2, <1>4, <1>6
  <1>14. ASSUME "update" \notin walk.writes, NEW id \in walk.expected
         PROVE  \E k \in LiveRows :
                  heap[k].id = id /\ (walk'.seen[id] >= 1 \/ GetOffset(p + 1, PageSize) <= rank(k))
    <2>1. PICK k \in LiveRows : heap[k].id = id /\ (walk.seen[id] >= 1 \/ off <= rank(k))
      BY <1>1, <1>14 DEF WalkFits, NoneMissed, off, rank
    <2>2. id \in DOMAIN Volume /\ walk.seen[id] \in Nat
      BY <1>2
    <2>3. CASE walk.seen[id] >= 1
      BY <1>13, <2>1, <2>2, <2>3
    <2>4. CASE off <= rank(k) /\ rank(k) < off + lim
      <3>1. k \in page
        BY <1>3, <2>4
      <3>2. walk'.seen[id] = walk.seen[id] + 1
        BY <1>12, <1>13, <2>1, <2>2, <3>1
      <3> QED BY <2>1, <2>2, <3>2
    <2>5. CASE ~(rank(k) < off + lim)
      <3>1. GetOffset(p + 1, PageSize) <= rank(k)
        BY <1>9, <1>10, <2>5
      <3> QED BY <2>1, <3>1
    <2> QED BY <2>1, <2>3, <2>4, <2>5
  <1>15. ASSUME walk.writes = {}
         PROVE  /\ \A k \in LiveRows : heap[k].id \in walk.expected
                /\ \A id \in DOMAIN Volume \ walk.expected : walk'.seen[id] = 0
                /\ InReach => \A k \in LiveRows :
                     walk'.seen[heap[k].id] = IF rank(k) < SetPage(p + 1, PageSize) THEN 1 ELSE 0
    <2>1. /\ \A k \in LiveRows : heap[k].id \in walk.expected
          /\ \A id \in DOMAIN Volume \ walk.expected : walk.seen[id] = 0
          /\ InReach => \A k \in LiveRows :
               walk.seen[heap[k].id] = IF rank(k) < SetPage(p, PageSize) THEN 1 ELSE 0
      BY <1>1, <1>15 DEF WalkFits, NoneTwice, rank
    <2>2. ASSUME NEW id \in DOMAIN Volume \ walk.expected
          PROVE  walk'.seen[id] = 0
      <3>1. ~hit(id)
        BY <1>3, <2>1 DEF hit
      <3> QED BY <1>13, <2>1, <3>1
    <2>3. ASSUME InReach, NEW k \in LiveRows
          PROVE  walk'.seen[heap[k].id] = IF rank(k) < SetPage(p + 1, PageSize) THEN 1 ELSE 0
      <3>1. PICK j \in LiveRows : off <= rank(j)
        BY <1>1, <1>3
      <3>2. off < MaxOffset
        <4>1. rank(j) < MaxOffset
          BY <2>3 DEF InReach, rank
        <4> QED BY <1>9, <1>10, <3>1, <4>1, PagesTyped
      <3>3. /\ SetPage(p, PageSize) = off /\ SetPage(p + 1, PageSize) = off + lim
            /\ rank(k) \in Nat /\ heap[k].id \in DOMAIN Volume
        BY <1>9, <1>10, <3>2
      <3>4. walk.seen[heap[k].id] = IF rank(k) < off THEN 1 ELSE 0
        BY <2>1, <2>3, <3>3
      <3>5. CASE k \in page
        <4>1. off <= rank(k) /\ rank(k) < off + lim
          BY <1>3, <3>5
        <4>2. walk'.seen[heap[k].id] = walk.seen[heap[k].id] + 1
          BY <1>12, <1>13, <3>3, <3>5
        <4>3. ~(rank(k) < off)
          BY <1>10, <3>3, <4>1
        <4> QED BY <3>3, <3>4, <4>1, <4>2, <4>3
      <3>6. CASE k \notin page
        <4>1. walk'.seen[heap[k].id] = walk.seen[heap[k].id]
          BY <1>12, <1>13, <3>3, <3>6
        <4>2. rank(k) < off <=> rank(k) < off + lim
          BY <1>3, <1>10, <3>3, <3>6
        <4> QED BY <3>3, <3>4, <4>1, <4>2
      <3> QED BY <3>5, <3>6
    <2> QED BY <2>1, <2>2, <2>3
  <1>16. WalkFits'
    <2>1. walk'.page = p + 1 /\ walk'.expected = walk.expected /\ walk'.writes = walk.writes /\ heap' = heap
      BY <1>1, <1>6
    <2>2. "update" \notin walk'.writes => NoneMissed'
      BY <1>8, <1>14, <2>1 DEF NoneMissed
    <2>3. InReach' <=> InReach
      BY <1>8 DEF InReach, rank
    <2>4. walk'.writes = {} => NoneTwice'
      BY <1>8, <1>15, <2>1, <2>3 DEF NoneTwice
    <2> QED BY <2>2, <2>4 DEF WalkFits
  <1>17. LastFits'
    BY <1>1, AnswersStay DEF LastFits
  <1> QED BY <1>1, <1>7, <1>16, <1>17, SameTable DEF ListingInv

(* The rows keep their types and their identifiers, an answer is about the  *)
(* table it was read from, and what the pages of a walk have not shown yet  *)
(* is ahead, wherever new rows come in.                                     *)
THEOREM ListingInvariant ==
  Spec => []ListingInv
  <1>1. Init => ListingInv
    BY InitListing
  <1>2. ListingInv /\ [Next]_vars => ListingInv'
    <2> SUFFICES ASSUME ListingInv, [Next]_vars
                 PROVE  ListingInv'
      OBVIOUS
    <2>1. CASE \E q \in Incoming : Arrive(q)
      BY <2>1, ArriveFits
    <2>2. CASE Leave
      BY <2>2, LeaveFits
    <2>3. CASE \E id \in DOMAIN Volume, k \in 1..Len(heap) + 1 : InsertRow(id, k)
      BY <2>3, InsertFits
    <2>4. CASE \E j, k \in DOMAIN heap, deleted \in BOOLEAN : UpdateRow(j, deleted, k)
      <3>1. DOMAIN heap = 1..Len(heap)
        BY HeapTyped DEF ListingInv
      <3> QED BY <2>4, <3>1, UpdateFits
    <2>5. CASE StartWalk
      BY <2>5, StartWalkFits
    <2>6. CASE NextPage
      BY <2>6, NextPageFits
    <2>7. CASE EndWalk
      BY <2>7, EndWalkFits
    <2>8. CASE UNCHANGED vars
      <3>1. UNCHANGED <<heap, last, walk>>
        BY <2>8 DEF vars
      <3>2. LastFits'
        BY <3>1, AnswersStay DEF ListingInv, LastFits
      <3> QED BY <3>1, <3>2, SameTable, WalkStays DEF ListingInv, TypeOK
    <2> QED BY <2>1, <2>2, <2>3, <2>4, <2>5, <2>6, <2>7, <2>8 DEF Next
  <1> QED BY <1>1, <1>2, PTL DEF Spec

(* For every header a request can carry, the chain of checks lets it pass   *)
(* exactly if the policy does.                                              *)
THEOREM GatewayInvariant ==
  Spec => []GatewayIsPolicy
  <1>1. ListingInv => GatewayIsPolicy
    <2> SUFFICES ASSUME ListingInv, last.request # Absent, last.request.route # "getUserVolumes"
                 PROVE  last.gate = "ok" <=> WellFormed(last.request) /\ Permitted(last.request)
      BY DEF GatewayIsPolicy
    <2>1. last # Nobody
      BY DEF Nobody
    <2>2. IsRequest(last.request) /\ last = Answered(last.request)
      BY <2>1 DEF ListingInv, LastFits
    <2>3. last.gate = Gate(last.request)
      BY <2>2 DEF Answered
    <2> QED BY <2>2, <2>3, GateIsPolicy
  <1> QED BY <1>1, ListingInvariant, PTL

(* Whatever the page size, the caps of the pager and the places where rows  *)
(* are created meanwhile: a walk that comes to an empty page has shown each *)
(* volume that was there, and once if nothing was written.                  *)
THEOREM WalkInvariant ==
  Spec => []WalkComplete
  <1>1. ListingInv => WalkComplete
    <2> SUFFICES ASSUME ListingInv, WalkOver
                 PROVE  WalkComplete
      BY DEF WalkComplete
    <2> DEFINE p == walk.page
               off == GetOffset(p, PageSize)
    <2>1. TypeOK /\ WalkFits /\ Walking /\ PageOf(p) = {} /\ p \in Nat /\ p >= 1
      BY DEF ListingInv, WalkOver, TypeOK, Walking
    <2>2. IsFiniteSet(LiveRows) /\ LiveRows \subseteq Nat
      BY <2>1, HeapTyped
    <2>3. \A k \in LiveRows : Before(LiveRows, k) \in Nat
      BY <2>2, BeforeTyped
    <2>4. /\ off \in Nat /\ off <= MaxOffset /\ off <= SetPage(p, PageSize) /\ SetPage(p, PageSize) \in Nat
          /\ MaxOffset \in Nat
      BY <2>1, OffsetTyped, PagesTyped
    <2>5. ASSUME NEW k \in LiveRows
          PROVE  Before(LiveRows, k) < off
      <3>1. \A j \in LiveRows : ~(off <= Before(LiveRows, j) /\ Before(LiveRows, j) < off + GetLimit(PageSize))
        BY <2>1, PageRows
      <3> HIDE DEF off
      <3>2. \A j \in LiveRows : Before(LiveRows, j) # off
        BY <2>3, <2>4, <3>1, LimitTyped
      <3>3. ~(off <= Before(LiveRows, k))
        BY <2>2, <2>4, <3>2, NoGap
      <3> QED BY <2>3, <2>4, <3>3
    <2> HIDE DEF off
    <2>6. ASSUME "update" \notin walk.writes, NEW id \in walk.expected
          PROVE  walk.seen[id] >= 1 /\ \E k \in LiveRows : heap[k].id = id
      <3>1. PICK k \in LiveRows : heap[k].id = id /\ (walk.seen[id] >= 1 \/ off <= Before(LiveRows, k))
        BY <2>1, <2>6 DEF WalkFits, NoneMissed, off
      <3>2. ~(off <= Before(LiveRows, k))
        BY <2>3, <2>4, <2>5
      <3> QED BY <3>1, <3>2
    <2>7. ASSUME walk.writes = {}, NEW id \in DOMAIN Volume
          PROVE  walk.seen[id] = IF id \in walk.expected THEN 1 ELSE 0
      <3>1. NoneTwice
        BY <2>1, <2>7 DEF WalkFits
      <3>2. \A k \in LiveRows : Before(LiveRows, k) < SetPage(p, PageSize) /\ Before(LiveRows, k) < MaxOffset
        BY <2>3, <2>4, <2>5
      <3>3. InReach
        BY <3>2 DEF InReach
      <3>4. CASE id \in walk.expected
        <4>1. PICK k \in LiveRows : heap[k].id = id
          BY <2>6, <2>7, <3>4
        <4> QED BY <3>1, <3>2, <3>3, <3>4, <4>1 DEF NoneTwice
      <3>5. CASE id \notin walk.expected
        BY <3>1, <3>5 DEF NoneTwice
      <3> QED BY <3>4, <3>5
    <2> QED BY <2>6, <2>7 DEF WalkComplete
  <1> QED BY <1>1, ListingInvariant, PTL

(* Whatever a user asks with whatever parameters, the answer shows live     *)
(* volumes of a namespace that the last grant on it lets the user read, or  *)
(* of the user.                                                             *)
THEOREM VisibleInvariant ==
  Spec => []ShowsOnlyVisible
  <1>1. ListingInv => ShowsOnlyVisible
    <2> DEFINE q == last.request
    <2> SUFFICES ASSUME ListingInv, q # Absent, q.role = "user", NEW id \in last.shown
                 PROVE  \E row \in Rows :
                          /\ row.id = id /\ ~row.deleted
                          /\ \/ q.route # "getUserVolumes" /\ row.ns = q.ns /\ MayAct(q, 1)
                             \/ row.owner = q.id
      BY DEF ShowsOnlyVisible
    <2>1. IsRequest(q) /\ last = Answered(q)
      BY DEF ListingInv, LastFits, Nobody
    <2> HIDE DEF q
    <2>2. PICK k \in Found(q) : id = heap[k].id
      BY <2>1 DEF Answered, ToKube
    <2>3. Gate(q) = "ok"
      <3>1. Answer(q) = "ok"
        BY <2>1 DEF Answered
      <3> QED BY <3>1 DEF Answer
    <2>4. \A j \in LiveRows : heap[j] \in Rows /\ ~heap[j].deleted
      BY DEF LiveRows, Matching, StandardVolumeFilter, Rows
    <2>5. CASE q.route \in {"getVolume", "getNamespaceVolumes"}
      <3>1. k \in LiveRows /\ heap[k].ns = q.ns
        BY <2>2, <2>5 DEF Found, VolumeByLabel, NamespaceVolumes
      <3>2. Permitted(q)
        BY <2>1, <2>3, <2>5, GateIsPolicy
      <3>3. Need(q.route) = 1
        BY <2>5 DEF Need, ReadRoutes, DeleteRoutes, WriteRoutes
      <3>4. MayAct(q, 1)
        BY <2>5, <3>2, <3>3 DEF Permitted, OpenRoutes
      <3> QED BY <2>2, <2>4, <2>5, <3>1, <3>4
    <2>6. CASE q.route = "getUserVolumes"
      <3>1. k \in LiveRows /\ heap[k].owner = q.id
        BY <2>2, <2>6 DEF Found, UserVolumes, ContextUser
      <3> QED BY <2>2, <2>4, <3>1
    <2>7. CASE q.route = "getAllVolumes"
      <3>1. Permitted(q)
        BY <2>1, <2>3, <2>7, GateIsPolicy
      <3> QED BY <2>7, <3>1 DEF Permitted, OpenRoutes, AdminRoutes
    <2>8. CASE q.route \notin {"getVolume", "getNamespaceVolumes", "getUserVolumes", "getAllVolumes"}
      BY <2>2, <2>8 DEF Found
    <2> QED BY <2>5, <2>6, <2>7, <2>8
  <1> QED BY <1>1, ListingInvariant, PTL
=============================================================================

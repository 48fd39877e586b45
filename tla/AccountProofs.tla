---------------------------- MODULE AccountProofs ----------------------------
(***************************************************************************)
(* Proofs, for every value of the constants, that the counter "used" of a  *)
(* storage is the capacity of its live volumes as long as the requests     *)
(* that handle a volume keep apart in time.                                *)
(***************************************************************************)
EXTENDS Accounting, EffectProofs, FiniteSetTheorems, WellFoundedInduction

-----------------------------------------------------------------------------
(* Sums over finite sets.                                                  *)

(* Induction over a finite set, as a smallest counterexample.              *)
LEMMA SmallestSubset ==
  ASSUME NEW S, IsFiniteSet(S), NEW T, T \subseteq SUBSET S, T # {}
  PROVE  \E s \in T : \A u \in T : u \subseteq s => u = s
  <1>1. IsWellFoundedOn(StrictSubsetOrdering(S), SUBSET S)
    BY FS_StrictSubsetOrderingWellFounded, FS_FiniteSubsetsOfFinite
  <1>2. PICK s \in T : \A u \in T : <<u, s>> \notin StrictSubsetOrdering(S)
    BY <1>1, WFMin
  <1> QED BY <1>2 DEF StrictSubsetOrdering

(* The sum of g over s, as a table of the sums over all subsets of S.       *)
Chosen(s) == CHOOSE x \in s : TRUE

IsTally(F, g, S) ==
  F = [s \in SUBSET S |-> IF s = {} THEN 0 ELSE g[Chosen(s)] + F[s \ {Chosen(s)}]]

LEMMA TallyNone ==
  ASSUME NEW S, NEW F, NEW g, IsTally(F, g, S)
  PROVE  F[{}] = 0
  BY DEF IsTally

LEMMA TallyStep ==
  ASSUME NEW S, NEW F, NEW g, IsTally(F, g, S), NEW s \in SUBSET S, s # {}
  PROVE  Chosen(s) \in s /\ F[s] = g[Chosen(s)] + F[s \ {Chosen(s)}]
  BY DEF IsTally, Chosen

(* Sums of the same numbers are equal.                                     *)
LEMMA TallyAgree ==
  ASSUME NEW S, IsFiniteSet(S), NEW A, NEW B, NEW F, NEW H, NEW g, NEW h,
         IsTally(F, g, A), IsTally(H, h, B), S \subseteq A, S \subseteq B, \A x \in S : g[x] = h[x]
  PROVE  F[S] = H[S]
  <1> DEFINE T == {s \in SUBSET S : F[s] # H[s]}
  <1>1. SUFFICES ASSUME T # {} PROVE FALSE
    OBVIOUS
  <1>2. PICK s \in T : \A u \in T : u \subseteq s => u = s
    <2> HIDE DEF T
    <2>1. T \subseteq SUBSET S
      BY DEF T
    <2> QED BY <1>1, <2>1, SmallestSubset
  <1>3. s # {}
    BY <1>2, TallyNone
  <1>4. /\ Chosen(s) \in s
        /\ F[s] = g[Chosen(s)] + F[s \ {Chosen(s)}]
        /\ H[s] = h[Chosen(s)] + H[s \ {Chosen(s)}]
    <2>1. s \in SUBSET A /\ s \in SUBSET B
      BY <1>2
    <2> QED BY <1>3, <2>1, TallyStep
  <1>5. F[s \ {Chosen(s)}] = H[s \ {Chosen(s)}]
    BY <1>2, <1>4
  <1> QED BY <1>2, <1>4, <1>5

LEMMA TallyExists ==
  ASSUME NEW S, IsFiniteSet(S), NEW g
  PROVE  \E F : IsTally(F, g, S)
  <1> DEFINE T == {s \in SUBSET S : ~\E F : IsTally(F, g, s)}
             Tab(u) == CHOOSE F : IsTally(F, g, u)
  <1>1. SUFFICES ASSUME T # {} PROVE FALSE
    OBVIOUS
  <1>2. PICK s \in T : \A u \in T : u \subseteq s => u = s
    <2> HIDE DEF T
    <2>1. T \subseteq SUBSET S
      BY DEF T
    <2> QED BY <1>1, <2>1, SmallestSubset
  <1>3. ASSUME NEW u \in SUBSET s, u # s
        PROVE  IsTally(Tab(u), g, u)
    <2>1. \E F : IsTally(F, g, u)
      BY <1>2, <1>3
    <2> QED BY <2>1
  <1>4. ASSUME NEW u \in SUBSET s, u # s, NEW w \in SUBSET u
        PROVE  Tab(u)[w] = Tab(w)[w]
    <2>1. w \in SUBSET s /\ w # s /\ IsFiniteSet(w)
      BY <1>2, <1>4, FS_Subset
    <2> HIDE DEF Tab
    <2> QED BY <1>3, <1>4, <2>1, TallyAgree
  <1> HIDE DEF Tab
  <1> DEFINE x == Chosen(s)
             F == [u \in SUBSET s |-> IF u = s THEN (IF s = {} THEN 0 ELSE g[x] + Tab(s \ {x})[s \ {x}])
                                              ELSE Tab(u)[u]]
  <1>5. ASSUME NEW u \in SUBSET s
        PROVE  F[u] = IF u = {} THEN 0 ELSE g[Chosen(u)] + F[u \ {Chosen(u)}]
    <2>1. u # {} => Chosen(u) \in u
      BY DEF Chosen
    <2>2. CASE u = s
      BY <2>1, <2>2
    <2>3. CASE u # s
      <3>1. IsTally(Tab(u), g, u)
        BY <1>3, <2>3
      <3>2. F[u] = Tab(u)[u]
        BY <2>3
      <3>3. CASE u = {}
        BY <3>1, <3>2, <3>3, TallyNone
      <3>4. CASE u # {}
        <4>1. Tab(u)[u] = g[Chosen(u)] + Tab(u)[u \ {Chosen(u)}]
          <5> DEFINE G == Tab(u)
          <5>1. IsTally(G, g, u)
            BY <3>1
          <5> HIDE DEF G
          <5>2. u \in SUBSET u
            OBVIOUS
          <5>3. G[u] = g[Chosen(u)] + G[u \ {Chosen(u)}]
            BY <3>4, <5>1, <5>2, TallyStep
          <5> QED BY <5>3 DEF G
        <4>2. Tab(u)[u \ {Chosen(u)}] = Tab(u \ {Chosen(u)})[u \ {Chosen(u)}]
          BY <1>4, <2>3
        <4>3. F[u \ {Chosen(u)}] = Tab(u \ {Chosen(u)})[u \ {Chosen(u)}]
          BY <2>1, <2>3, <3>4
        <4> QED BY <3>2, <3>4, <4>1, <4>2, <4>3
      <3> QED BY <3>3, <3>4
    <2> QED BY <2>2, <2>3
  <1>6. IsTally(F, g, s)
    <2>1. F = [u \in SUBSET s |-> F[u]]
      OBVIOUS
    <2> HIDE DEF F
    <2> QED BY <1>5, <2>1 DEF IsTally
  <1> HIDE DEF F
  <1> QED BY <1>2, <1>6

(* Any element may be taken out first.                                     *)
Numbers(g, S) == \A x \in S : g[x] \in Int

LEMMA TallySplit ==
  ASSUME NEW S, IsFiniteSet(S), NEW F, NEW g, IsTally(F, g, S), Numbers(g, S), NEW all \in SUBSET S
  PROVE  F[all] \in Int /\ \A x \in all : F[all] = g[x] + F[all \ {x}]
  <1>0. F[{}] = 0
    BY TallyNone
  <1> DEFINE Splits(s) == F[s] \in Int /\ \A x \in s : F[s] = g[x] + F[s \ {x}]
             T == {s \in SUBSET S : ~Splits(s)}
  <1>1. SUFFICES ASSUME T # {} PROVE FALSE
    <2>1. T = {} => Splits(all)
      OBVIOUS
    <2> QED BY <1>1, <2>1
  <1>2. PICK s \in T : \A u \in T : u \subseteq s => u = s
    <2>1. T \subseteq SUBSET S
      OBVIOUS
    <2> HIDE DEF T
    <2> QED BY <1>1, <2>1, SmallestSubset
  <1>3. s \in SUBSET S /\ ~Splits(s)
    BY <1>2
  <1>4. ASSUME NEW u \in SUBSET s, u # s
        PROVE  u \in SUBSET S /\ Splits(u)
    BY <1>2, <1>4
  <1> HIDE DEF T, Splits
  <1>5. s # {}
    BY <1>0, <1>3 DEF Splits
  <1> DEFINE c == Chosen(s)
  <1>6. c \in s /\ F[s] = g[c] + F[s \ {c}]
    <2>1. s \in SUBSET S
      BY <1>3
    <2> QED BY <1>5, <2>1, TallyStep
  <1> HIDE DEF c
  <1>7. Splits(s \ {c}) /\ s \ {c} \in SUBSET S
    BY <1>4, <1>6
  <1>8. F[s] \in Int
    BY <1>3, <1>6, <1>7 DEF Splits, Numbers
  <1>9. ASSUME NEW x \in s
        PROVE  F[s] = g[x] + F[s \ {x}]
    <2>1. CASE x = c
      BY <1>6, <2>1
    <2>2. CASE x # c
      <3>1. Splits(s \ {x}) /\ Splits((s \ {c}) \ {x})
        BY <1>4, <1>9
      <3>2. (s \ {x}) \ {c} = (s \ {c}) \ {x}
        OBVIOUS
      <3>3. F[s \ {c}] = g[x] + F[(s \ {c}) \ {x}]
        BY <1>7, <1>9, <2>2 DEF Splits
      <3>4. F[s \ {x}] = g[c] + F[(s \ {x}) \ {c}]
        BY <1>6, <2>2, <3>1 DEF Splits
      <3>5. F[(s \ {c}) \ {x}] \in Int /\ g[x] \in Int /\ g[c] \in Int
        BY <1>3, <1>6, <3>1 DEF Splits, Numbers
      <3>6. F[(s \ {x}) \ {c}] = F[(s \ {c}) \ {x}]
        BY <3>2
      <3> DEFINE rest == F[(s \ {c}) \ {x}]
      <3>7. F[s] = g[c] + (g[x] + rest) /\ F[s \ {x}] = g[c] + rest
        BY <1>6, <3>3, <3>4, <3>6
      <3> HIDE DEF rest
      <3>8. rest \in Int
        BY <3>5 DEF rest
      <3> QED BY <3>5, <3>7, <3>8
    <2> QED BY <2>1, <2>2
  <1> QED BY <1>3, <1>8, <1>9 DEF Splits

(* The sum of smaller numbers is no larger.                                *)
LEMMA TallyBelow ==
  ASSUME NEW S, IsFiniteSet(S), NEW F, NEW H, NEW g, NEW h, IsTally(F, g, S), IsTally(H, h, S),
         Numbers(g, S), Numbers(h, S), \A x \in S : g[x] <= h[x]
  PROVE  F[S] <= H[S]
  <1> DEFINE T == {s \in SUBSET S : ~(F[s] <= H[s])}
  <1>1. SUFFICES ASSUME T # {} PROVE FALSE
    OBVIOUS
  <1>2. PICK s \in T : \A u \in T : u \subseteq s => u = s
    <2> HIDE DEF T
    <2>1. T \subseteq SUBSET S
      BY DEF T
    <2> QED BY <1>1, <2>1, SmallestSubset
  <1>3. s \in SUBSET S /\ ~(F[s] <= H[s])
    BY <1>2
  <1>4. s # {}
    BY <1>3, TallyNone
  <1> DEFINE c == Chosen(s)
             rest == s \ {c}
  <1>5. c \in s /\ F[s] = g[c] + F[rest] /\ H[s] = h[c] + H[rest]
    BY <1>3, <1>4, TallyStep
  <1>6. F[rest] <= H[rest]
    BY <1>2, <1>5
  <1> HIDE DEF T, c
  <1>7. rest \in SUBSET S
    BY <1>3
  <1> HIDE DEF rest
  <1>8. F[rest] \in Int /\ H[rest] \in Int
    BY <1>7, TallySplit
  <1>9. g[c] \in Int /\ h[c] \in Int /\ g[c] <= h[c]
    BY <1>3, <1>5 DEF Numbers
  <1>10. g[c] + F[rest] <= h[c] + H[rest]
    BY <1>6, <1>8, <1>9
  <1> QED BY <1>3, <1>5, <1>10

(* Elements that count for nothing may be left out.                        *)
Within(h, g, I, S) == \A x \in S : h[x] = IF x \in I THEN g[x] ELSE 0

LEMMA TallyWithin ==
  ASSUME NEW S, IsFiniteSet(S), NEW I \in SUBSET S, NEW F, NEW H, NEW g, NEW h,
         IsTally(F, g, S), IsTally(H, h, S), Numbers(g, S), Within(h, g, I, S)
  PROVE  H[S] = F[I]
  <1>1. H[{}] = 0
    BY TallyNone
  <1>2. F[{}] = 0
    BY TallyNone
  <1> DEFINE T == {s \in SUBSET S : H[s] # F[s \cap I]}
  <1>4. SUFFICES ASSUME T # {} PROVE FALSE
    <2>1. T = {} => H[S] = F[S \cap I]
      OBVIOUS
    <2>2. S \cap I = I
      OBVIOUS
    <2> QED BY <1>4, <2>1, <2>2
  <1>5. PICK s \in T : \A u \in T : u \subseteq s => u = s
    <2>1. T \subseteq SUBSET S
      OBVIOUS
    <2> HIDE DEF T
    <2> QED BY <1>4, <2>1, SmallestSubset
  <1>6. s \in SUBSET S /\ H[s] # F[s \cap I]
    BY <1>5
  <1>7. s # {}
    BY <1>1, <1>2, <1>6
  <1> DEFINE c == Chosen(s)
             part == (s \ {c}) \cap I
  <1>8. c \in s /\ H[s] = h[c] + H[s \ {c}]
    BY <1>6, <1>7, TallyStep
  <1>9. H[s \ {c}] = F[part]
    BY <1>5, <1>8
  <1> HIDE DEF T, c
  <1>10. part \in SUBSET S /\ s \cap I \in SUBSET S
    BY <1>6
  <1>11. F[part] \in Int
    BY <1>10, TallySplit
  <1>12. CASE c \in I
    <2> DEFINE whole == s \cap I
    <2>1. whole \ {c} = part /\ c \in whole /\ whole \in SUBSET S
      BY <1>8, <1>10, <1>12
    <2>2. F[s \cap I] = F[whole]
      OBVIOUS
    <2> HIDE DEF part, whole
    <2>3. F[whole] = g[c] + F[whole \ {c}]
      BY <2>1, TallySplit
    <2>4. h[c] = g[c]
      BY <1>6, <1>8, <1>12 DEF Within
    <2> QED BY <1>6, <1>8, <1>9, <2>1, <2>2, <2>3, <2>4
  <1>13. CASE c \notin I
    <2>1. s \cap I = part
      BY <1>13
    <2> HIDE DEF part
    <2>2. h[c] = 0
      BY <1>6, <1>8, <1>13 DEF Within
    <2>3. H[s] = F[part]
      BY <1>8, <1>9, <1>11, <2>2
    <2> QED BY <1>6, <2>1, <2>3
  <1> QED BY <1>12, <1>13

-----------------------------------------------------------------------------
(* The capacity on a storage, as the sum of what each row takes of it.     *)

Share(rows, name, i) == IF Live(rows[i]) /\ rows[i].storage = name THEN rows[i].capacity ELSE 0

LEMMA ShareTyped ==
  ASSUME NEW rows, NEW name, NEW i, rows[i] \in VolumeRow \cup {NoRow}
  PROVE  Share(rows, name, i) \in Int
  BY DEF Share, Live, VolumeRow

LEMMA ChargedTally ==
  ASSUME IsFiniteSet(RowId), NEW rows, \A i \in RowId : rows[i] \in VolumeRow \cup {NoRow}, NEW name
  PROVE  \E F : IsTally(F, [i \in RowId |-> Share(rows, name, i)], RowId) /\ ChargedIn(rows, name) = F[RowId]
  <1> DEFINE S == LiveVolumesOn(rows, name)
             g == [i \in RowId |-> IF Live(rows[i]) THEN rows[i].capacity ELSE 0]
             h == [i \in RowId |-> Share(rows, name, i)]
             Is(F) == F = [s \in SUBSET S |-> IF s = {} THEN 0 ELSE rows[CHOOSE x \in s : TRUE].capacity
                                                                  + F[s \ {CHOOSE x \in s : TRUE}]]
  <1>1. S \subseteq RowId /\ IsFiniteSet(S)
    BY FS_Subset DEF LiveVolumesOn
  <1>2. \A s \in SUBSET S : s # {} => Chosen(s) \in S
    BY DEF Chosen
  <1>3. \A i \in S : g[i] = rows[i].capacity
    BY DEF LiveVolumesOn
  <1>4. Numbers(g, RowId) /\ Within(h, g, S, RowId)
    BY DEF LiveVolumesOn, Share, Live, VolumeRow, Numbers, Within
  <1>5. ChargedIn(rows, name) = (CHOOSE F : Is(F))[S]
    BY DEF ChargedIn, MapThenSumSet, MapThenFoldSet
  <1> HIDE DEF S, g
  <1>6. \A F : Is(F) <=> IsTally(F, g, S)
    BY <1>2, <1>3 DEF IsTally, Chosen
  <1> HIDE DEF Is
  <1>7. PICK A : IsTally(A, g, S) /\ ChargedIn(rows, name) = A[S]
    <2>1. \E F : Is(F)
      BY <1>1, <1>6, TallyExists
    <2>2. Is(CHOOSE F : Is(F))
      BY <2>1
    <2> QED BY <1>5, <1>6, <2>2
  <1> HIDE DEF h
  <1>8. PICK G : IsTally(G, g, RowId)
    BY TallyExists
  <1>9. PICK H : IsTally(H, h, RowId)
    BY TallyExists
  <1>10. A[S] = G[S]
    BY <1>1, <1>7, <1>8, TallyAgree
  <1>11. H[RowId] = G[S]
    BY <1>1, <1>4, <1>8, <1>9, TallyWithin
  <1> QED BY <1>7, <1>9, <1>10, <1>11 DEF h

LEMMA ChargedTyped ==
  ASSUME IsFiniteSet(RowId), NEW rows, \A i \in RowId : rows[i] \in VolumeRow \cup {NoRow}, NEW name
  PROVE  ChargedIn(rows, name) \in Int
  <1> DEFINE g == [i \in RowId |-> Share(rows, name, i)]
  <1>1. PICK F : IsTally(F, g, RowId) /\ ChargedIn(rows, name) = F[RowId]
    BY ChargedTally
  <1>2. Numbers(g, RowId)
    BY ShareTyped DEF Numbers
  <1> HIDE DEF g
  <1> QED BY <1>1, <1>2, TallySplit

LEMMA ChargedSame ==
  ASSUME IsFiniteSet(RowId), NEW rows, NEW after, NEW name, NEW newName,
         \A i \in RowId : /\ rows[i] \in VolumeRow \cup {NoRow} /\ after[i] \in VolumeRow \cup {NoRow}
                          /\ Share(after, newName, i) = Share(rows, name, i)
  PROVE  ChargedIn(after, newName) = ChargedIn(rows, name)
  <1> DEFINE g == [i \in RowId |-> Share(rows, name, i)]
             h == [i \in RowId |-> Share(after, newName, i)]
  <1>1. \A i \in RowId : g[i] = h[i]
    OBVIOUS
  <1>2. PICK F : IsTally(F, g, RowId) /\ ChargedIn(rows, name) = F[RowId]
    BY ChargedTally
  <1>3. PICK H : IsTally(H, h, RowId) /\ ChargedIn(after, newName) = H[RowId]
    BY ChargedTally
  <1> HIDE DEF g, h
  <1>4. F[RowId] = H[RowId]
    BY <1>1, <1>2, <1>3, TallyAgree
  <1> QED BY <1>2, <1>3, <1>4

LEMMA ChargedChange ==
  ASSUME IsFiniteSet(RowId), NEW rows, NEW after, NEW name, NEW k \in RowId,
         \A i \in RowId : rows[i] \in VolumeRow \cup {NoRow} /\ after[i] \in VolumeRow \cup {NoRow},
         \A i \in RowId \ {k} : Share(after, name, i) = Share(rows, name, i)
  PROVE  ChargedIn(after, name) = ChargedIn(rows, name) + Share(after, name, k) - Share(rows, name, k)
  <1> DEFINE g == [i \in RowId |-> Share(rows, name, i)]
             h == [i \in RowId |-> Share(after, name, i)]
  <1>1. \A i \in RowId \ {k} : g[i] = h[i]
    OBVIOUS
  <1>2. Numbers(g, RowId) /\ Numbers(h, RowId)
    <2>1. \A i \in RowId : Share(rows, name, i) \in Int /\ Share(after, name, i) \in Int
      BY ShareTyped
    <2> QED BY <2>1 DEF Numbers
  <1>3. g[k] = Share(rows, name, k) /\ h[k] = Share(after, name, k)
    OBVIOUS
  <1>4. PICK F : IsTally(F, g, RowId) /\ ChargedIn(rows, name) = F[RowId]
    BY ChargedTally
  <1>5. PICK H : IsTally(H, h, RowId) /\ ChargedIn(after, name) = H[RowId]
    BY ChargedTally
  <1> HIDE DEF g, h
  <1>6. F[RowId] = g[k] + F[RowId \ {k}] /\ F[RowId \ {k}] \in Int
    BY <1>2, <1>4, TallySplit
  <1>7. H[RowId] = h[k] + H[RowId \ {k}] /\ H[RowId \ {k}] \in Int
    BY <1>2, <1>5, TallySplit
  <1>8. F[RowId \ {k}] = H[RowId \ {k}]
    <2>1. IsFiniteSet(RowId \ {k}) /\ RowId \ {k} \subseteq RowId
      BY FS_Subset
    <2> QED BY <1>1, <1>4, <1>5, <2>1, TallyAgree
  <1> DEFINE rest == F[RowId \ {k}]
             before == g[k]
             now == h[k]
  <1>9. /\ ChargedIn(rows, name) = before + rest
        /\ ChargedIn(after, name) = now + rest
        /\ rest \in Int /\ before \in Int /\ now \in Int
    BY <1>2, <1>4, <1>5, <1>6, <1>7, <1>8 DEF Numbers
  <1> HIDE DEF rest, before, now
  <1>10. ChargedIn(after, name) = ChargedIn(rows, name) + now - before
    BY <1>9
  <1> QED BY <1>3, <1>10 DEF before, now

LEMMA ChargedLess ==
  ASSUME IsFiniteSet(RowId), NEW rows, NEW after, NEW name,
         \A i \in RowId : /\ rows[i] \in VolumeRow \cup {NoRow} /\ after[i] \in VolumeRow \cup {NoRow}
                          /\ Share(after, name, i) <= Share(rows, name, i)
  PROVE  ChargedIn(after, name) <= ChargedIn(rows, name)
  <1> DEFINE g == [i \in RowId |-> Share(rows, name, i)]
             h == [i \in RowId |-> Share(after, name, i)]
  <1>1. \A i \in RowId : h[i] <= g[i]
    OBVIOUS
  <1>2. Numbers(g, RowId) /\ Numbers(h, RowId)
    <2>1. \A i \in RowId : Share(rows, name, i) \in Int /\ Share(after, name, i) \in Int
      BY ShareTyped
    <2> QED BY <2>1 DEF Numbers
  <1>3. PICK F : IsTally(F, g, RowId) /\ ChargedIn(rows, name) = F[RowId]
    BY ChargedTally
  <1>4. PICK H : IsTally(H, h, RowId) /\ ChargedIn(after, name) = H[RowId]
    BY ChargedTally
  <1> HIDE DEF g, h
  <1>5. H[RowId] <= F[RowId]
    BY <1>1, <1>2, <1>3, <1>4, TallyBelow
  <1> QED BY <1>3, <1>4, <1>5

LEMMA NothingToCharge ==
  ASSUME IsFiniteSet(RowId), NEW rows, \A i \in RowId : rows[i] \in VolumeRow \cup {NoRow}, NEW name,
         LiveVolumesOn(rows, name) = {}
  PROVE  ChargedIn(rows, name) = 0
  <1> DEFINE h == [i \in RowId |-> Share(rows, name, i)]
  <1>1. \A i \in RowId : h[i] = 0
    BY DEF Share, LiveVolumesOn
  <1>2. PICK H : IsTally(H, h, RowId) /\ ChargedIn(rows, name) = H[RowId]
    BY ChargedTally
  <1> HIDE DEF h
  <1>3. Numbers(h, RowId) /\ Within(h, h, {}, RowId)
    BY <1>1 DEF Numbers, Within
  <1>4. H[RowId] = H[{}]
    BY <1>2, <1>3, TallyWithin
  <1>5. H[{}] = 0
    BY <1>2, TallyNone
  <1> QED BY <1>2, <1>4, <1>5

-----------------------------------------------------------------------------
(* The request that takes a step, the others, and what a commit shows.     *)

LEMMA Stepping ==
  ASSUME IInv, EffectInv, NEW r \in Requests, Step(r)
  PROVE  /\ TypeOK /\ StoreTypeOK /\ RequestsTypeOK /\ DirtyFits /\ RowsFresh
         /\ LocalFit(r) /\ RouteFit(r) /\ LocalsTold(r) /\ Wrote(r)
         /\ VolumeVersionsFit /\ StorageVersionsFit /\ StorageRowsFresh /\ UniqueNames /\ ForeignKey
         /\ pc[r] \in ActiveSteps /\ pc[r] \in Route(call[r].op)
         /\ call[r] \in Calls /\ call[r].op \in Ops
         /\ call' = call /\ pc'[r] \in ActiveSteps \cup {"idle", "done", "cut"}
  <1>1. /\ TypeOK /\ StoreTypeOK /\ RequestsTypeOK /\ DirtyFits /\ RowsFresh /\ LocalFit(r)
    BY DEF IInv, TypeOK, LocalsFit
  <1>2. pc[r] \in ActiveSteps /\ call' = call
    BY StepShape DEF Quiet, Undone, Committed, Inserted, Marked, Resized, Rewritten, OwnLocals,
       ActiveSteps, OutsideSteps, InsideSteps
  <1>3. pc[r] # "idle"
    BY <1>2 DEF ActiveSteps, OutsideSteps, InsideSteps
  <1>4. /\ RouteFit(r) /\ LocalsTold(r) /\ Wrote(r)
        /\ VolumeVersionsFit /\ StorageVersionsFit /\ StorageRowsFresh /\ UniqueNames /\ ForeignKey
    BY <1>3 DEF EffectInv, RoutesFit, Told, WritesDone
  <1>5. call[r] \in Calls /\ call[r].op \in Ops
    BY <1>1, <1>3, CallFields DEF LocalFit
  <1>6. pc'[r] \in ActiveSteps \cup {"idle", "done", "cut"}
    BY <1>1, StepFits DEF RequestsTypeOK
  <1> QED BY <1>1, <1>2, <1>4, <1>5, <1>6 DEF RouteFit

LEMMA InProgress ==
  ASSUME IInv, EffectInv, NEW q \in Requests, pc[q] \in ActiveSteps
  PROVE  q \in Active /\ call[q] \in Calls /\ call[q].op \in Ops /\ pc[q] \in Route(call[q].op)
  <1>1. pc[q] # "idle"
    BY DEF ActiveSteps, OutsideSteps, InsideSteps
  <1>2. call[q] \in Calls /\ call[q].op \in Ops
    BY <1>1, CallFields DEF IInv, LocalsFit, LocalFit
  <1> QED BY <1>2 DEF Active, EffectInv, RoutesFit, RouteFit

LEMMA Bystander ==
  ASSUME IInv, EffectInv, NEW r \in Requests, Step(r), NEW q \in Requests, q # r
  PROVE  /\ pc'[q] = pc[q] /\ loc'[q] = loc[q] /\ call'[q] = call[q]
         /\ \A i \in RowId :
              /\ dirtyVolume'[i].tx = q <=> dirtyVolume[i].tx = q
              /\ dirtyStorage'[i].tx = q <=> dirtyStorage[i].tx = q
              /\ dirtyVolume[i].tx = q => dirtyVolume'[i] = dirtyVolume[i] /\ volumes'[i] = volumes[i]
              /\ dirtyStorage[i].tx = q => dirtyStorage'[i] = dirtyStorage[i] /\ storages'[i] = storages[i]
  <1>1. /\ TypeOK /\ RequestsTypeOK /\ DirtyFits /\ RowsFresh /\ LocalFit(r) /\ RouteFit(r) /\ LocalsTold(r)
        /\ StorageVersionsFit /\ StorageRowsFresh
    BY Stepping
  <1>2. pc'[q] = pc[q] /\ loc'[q] = loc[q] /\ call'[q] = call[q]
    BY <1>1, StepShape, OthersStay DEF OwnLocals, RequestsTypeOK
  <1>3. ASSUME NEW i \in RowId
        PROVE  RowOutcome(r, i) /\ StorageOutcome(r, i)
    BY <1>1, StepRowOutcome, StepStorageOutcome
  <1>4. q # NoTx
    BY IdsDistinct
  <1> QED BY <1>2, <1>3, <1>4 DEF RowOutcome, StorageOutcome, Clean

LEMMA CommitShows ==
  ASSUME IInv, EffectInv, NEW r \in Requests, Commits(r), NEW i \in RowId
  PROVE  /\ storages[i] \in StorageRow \cup {NoRow} /\ volumes[i] \in VolumeRow \cup {NoRow}
         /\ storages'[i] = IF dirtyStorage[i].tx = r THEN dirtyStorage[i].row ELSE storages[i]
         /\ volumes'[i] = IF dirtyVolume[i].tx = r THEN dirtyVolume[i].row ELSE volumes[i]
         /\ dirtyStorage'[i] = IF dirtyStorage[i].tx = r THEN Clean ELSE dirtyStorage[i]
         /\ dirtyStorage[i].tx = r => /\ dirtyStorage[i].row \in StorageRow
                                      /\ StorageEffect(r, call[r], i, storages[i], dirtyStorage[i].row)
         /\ dirtyVolume[i].tx = r => /\ dirtyVolume[i].row \in VolumeRow
                                     /\ VolumeEffect(r, call[r], i, volumes[i], dirtyVolume[i].row)
  <1>1. StoreTypeOK /\ VolumeVersionsFit /\ StorageVersionsFit /\ DirtyFits
    BY DEF IInv, TypeOK, EffectInv
  <1>2. /\ storages'[i] = IF dirtyStorage[i].tx = r THEN dirtyStorage[i].row ELSE storages[i]
        /\ volumes'[i] = IF dirtyVolume[i].tx = r THEN dirtyVolume[i].row ELSE volumes[i]
        /\ dirtyStorage'[i] = IF dirtyStorage[i].tx = r THEN Clean ELSE dirtyStorage[i]
    BY DEF Commits, CommitTx, StoragesSeen, VolumesSeen, View, Released
  <1>3. r # NoTx
    BY IdsDistinct
  <1>4. dirtyStorage[i].tx = r => dirtyStorage[i].row \in StorageRow
    BY <1>1, <1>3 DEF StoreTypeOK, StorageVersionsFit
  <1>5. dirtyVolume[i].tx = r => dirtyVolume[i].row \in VolumeRow
    BY <1>1, <1>3 DEF StoreTypeOK, DirtyFits
  <1>6. dirtyStorage[i].tx = r => StorageEffect(r, call[r], i, storages[i], dirtyStorage[i].row)
    BY <1>1, <1>3 DEF StorageVersionsFit
  <1>7. dirtyVolume[i].tx = r => VolumeEffect(r, call[r], i, volumes[i], dirtyVolume[i].row)
    BY <1>1, <1>3 DEF VolumeVersionsFit
  <1>8. storages[i] \in StorageRow \cup {NoRow} /\ volumes[i] \in VolumeRow \cup {NoRow}
    BY <1>1 DEF StoreTypeOK
  <1> QED BY <1>2, <1>4, <1>5, <1>6, <1>7, <1>8

-----------------------------------------------------------------------------
(* A creation keeps its storage.                                           *)

LEMMA PlacedCreates ==
  ASSUME IInv, EffectInv, NEW q \in Requests, Placed(q)
  PROVE  q \in Active /\ call[q] \in Calls /\ call[q].op \in Creations
  <1>1. pc[q] \in ActiveSteps
    BY DEF Placed, ActiveSteps, OutsideSteps, InsideSteps
  <1>2. q \in Active /\ call[q] \in Calls /\ call[q].op \in Ops /\ pc[q] \in Route(call[q].op)
    BY <1>1, InProgress
  <1> QED BY <1>2, OnRoute DEF Placed, Creations

LEMMA GoneStays ==
  ASSUME IInv, EffectInv, NEW r \in Requests, Step(r), NEW name, Gone(name)
  PROVE  Gone(name)'
  <1>1. /\ TypeOK /\ RequestsTypeOK /\ LocalFit(r) /\ RouteFit(r) /\ LocalsTold(r)
        /\ StorageVersionsFit /\ StorageRowsFresh /\ call[r] \in Calls
    BY Stepping
  <1>2. ASSUME NEW i \in RowId
        PROVE  /\ storages'[i] = NoRow \/ storages'[i].name # name
               /\ dirtyStorage'[i].tx = NoTx \/ dirtyStorage'[i].row.name # name
    <2>1. /\ storages[i] = NoRow \/ storages[i].name # name
          /\ dirtyStorage[i].tx = NoTx \/ dirtyStorage[i].row.name # name
      BY DEF Gone, StoragesNamed
    <2>2. ASSUME NEW d, StorageEffect(r, call[r], i, storages[i], d)
          PROVE  d.name # name
      BY <1>1, <2>1, <2>2 DEF StorageEffect, Gone, Retired, Renames
    <2>3. StorageOutcome(r, i)
      BY <1>1, StepStorageOutcome
    <2> QED BY <2>1, <2>2, <2>3, IdsDistinct DEF StorageOutcome, Clean
  <1> QED BY <1>2 DEF Gone, Retired, StoragesNamed

(* What a commit leaves of a live storage.                                 *)
LEMMA StorageStays ==
  ASSUME IInv, EffectInv, NEW r \in Requests, Commits(r), NEW k \in RowId, Live(storages[k])
  PROVE  \/ Live(storages'[k]) /\ storages'[k].name = storages[k].name
         \/ call[r].op = "deleteStorage" /\ storages[k].name = call[r].storage
         \/ /\ Renames(call[r]) /\ storages[k].name = call[r].storage /\ dirtyStorage[k].tx = r
            /\ Live(storages'[k]) /\ storages'[k].name = NewName(call[r])
  <1>1. /\ storages[k] \in StorageRow \cup {NoRow}
        /\ storages'[k] = IF dirtyStorage[k].tx = r THEN dirtyStorage[k].row ELSE storages[k]
        /\ dirtyStorage[k].tx = r => /\ dirtyStorage[k].row \in StorageRow
                                     /\ StorageEffect(r, call[r], k, storages[k], dirtyStorage[k].row)
    BY CommitShows
  <1>2. CASE dirtyStorage[k].tx # r
    BY <1>1, <1>2
  <1>3. CASE dirtyStorage[k].tx = r
    BY <1>1, <1>3, IdsDistinct DEF StorageEffect, Live, Renames
  <1> QED BY <1>2, <1>3

LEMMA RenamedAway ==
  ASSUME IInv, EffectInv, NEW r \in Requests, Commits(r), Renames(call[r]), Retired(call[r].storage),
         NEW k \in RowId, storages[k] # NoRow, storages[k].name = call[r].storage, dirtyStorage[k].tx = r,
         storages'[k].name = NewName(call[r])
  PROVE  Gone(call[r].storage)'
  <1> DEFINE name == call[r].storage
  <1>1. NewName(call[r]) # name
    BY DEF Renames
  <1>2. ASSUME NEW i \in RowId
        PROVE  /\ storages'[i] = NoRow \/ storages'[i].name # name
               /\ dirtyStorage'[i].tx = NoTx \/ dirtyStorage'[i].row.name # name
    <2>1. /\ storages'[i] = IF dirtyStorage[i].tx = r THEN dirtyStorage[i].row ELSE storages[i]
          /\ dirtyStorage'[i] = IF dirtyStorage[i].tx = r THEN Clean ELSE dirtyStorage[i]
      BY CommitShows
    <2>2. CASE i = k
      BY <1>1, <2>1, <2>2 DEF Clean
    <2>3. CASE i # k
      <3>1. \A s \in {storages[i], dirtyStorage[i].row} : s # NoRow => s.name # name
        BY <2>3 DEF EffectInv, UniqueNames
      <3>2. dirtyStorage[i].tx # NoTx => dirtyStorage[i].row # NoRow
        BY DEF EffectInv, StorageVersionsFit
      <3> QED BY <2>1, <3>1, <3>2 DEF Clean
    <2> QED BY <2>2, <2>3
  <1>3. call' = call
    BY DEF Commits, Answer
  <1> QED BY <1>2, <1>3 DEF Gone, Retired, StoragesNamed

LEMMA OthersKeepPlace ==
  ASSUME IInv, EffectInv, StoragesApart, PlaceInv, NEW r \in Requests, Step(r), NEW q \in Requests, q # r
  PROVE  KeepsPlace(q)'
  <1>1. pc'[q] = pc[q] /\ loc'[q] = loc[q] /\ call'[q] = call[q]
    BY Bystander
  <1>2. SUFFICES ASSUME Placed(q), NEW name, name = loc[q].storage
                 PROVE  LiveStoragesNamed(storages, name)' # {} \/ Gone(name)'
    <2>1. Placed(q)' => Placed(q)
      BY <1>1 DEF Placed
    <2>2. PICK name : name = loc[q].storage
      OBVIOUS
    <2>3. loc'[q].storage = name
      BY <1>1, <2>2
    <2> QED BY <1>2, <2>1, <2>2, <2>3 DEF KeepsPlace
  <1>3. LiveStoragesNamed(storages, name) # {} \/ Gone(name)
    BY <1>2 DEF PlaceInv, KeepsPlace
  <1>4. CASE Gone(name)
    BY <1>4, GoneStays
  <1>5. CASE UNCHANGED storages /\ LiveStoragesNamed(storages, name) # {}
    BY <1>5 DEF LiveStoragesNamed, StoragesNamed
  <1>6. CASE Commits(r) /\ LiveStoragesNamed(storages, name) # {}
    <2>1. PICK k \in RowId : Live(storages[k]) /\ storages[k].name = name
      BY <1>6 DEF LiveStoragesNamed, StoragesNamed, Live
    <2>2. q \in Active /\ call[q].op \in Creations
      BY <1>2, PlacedCreates
    <2>3. r \in Active
      BY Stepping DEF Active
    <2>4. call[r].op # "deleteStorage" /\ (Renames(call[r]) => Retired(call[r].storage))
      BY <2>2, <2>3 DEF StoragesApart
    <2>5. CASE Live(storages'[k]) /\ storages'[k].name = storages[k].name
      BY <2>1, <2>5 DEF LiveStoragesNamed, StoragesNamed, Live
    <2>6. CASE /\ Renames(call[r]) /\ storages[k].name = call[r].storage /\ dirtyStorage[k].tx = r
               /\ storages'[k].name = NewName(call[r])
      <3>1. storages[k] # NoRow
        BY <2>1 DEF Live
      <3>2. Gone(call[r].storage)'
        BY <1>6, <2>4, <2>6, <3>1, RenamedAway
      <3>3. call' = call
        BY Stepping
      <3> QED BY <2>1, <2>6, <3>2, <3>3 DEF Gone, Retired
    <2> QED BY <1>6, <2>1, <2>4, <2>5, <2>6, StorageStays
  <1> QED BY <1>3, <1>4, <1>5, <1>6, OnlyCommitsShow, Stepping

(* A creation is at such a step with a storage it has just seen alive, or  *)
(* as before.                                                              *)
LEMMA PlaceTaken ==
  ASSUME IInv, EffectInv, NEW r \in Requests, Step(r), Placed(r)'
  PROVE  \/ Placed(r) /\ loc'[r] = loc[r]
         \/ \E i \in RowId : Live(storages[i]) /\ loc'[r].storage = storages[i].name
  <1>1. /\ TypeOK /\ RequestsTypeOK /\ DirtyFits /\ RowsFresh /\ LocalFit(r) /\ RouteFit(r) /\ LocalsTold(r)
        /\ StorageVersionsFit /\ pc[r] \in Route(call[r].op) /\ call[r].op \in Ops /\ call' = call
    BY Stepping
  <1>2. pc'[r] \in ActiveSteps /\ pc'[r] # "done"
    BY DEF Placed, ActiveSteps, OutsideSteps, InsideSteps
  <1>3. call[r].op \in Creations
    <2>1. RouteFit(r)'
      BY <1>1, StepTold
    <2>2. pc'[r] \in Route(call[r].op)
      BY <1>1, <1>2, <2>1 DEF RouteFit
    <2> QED BY <1>1, <2>2, OnRoute DEF Placed, Creations
  <1>4. \A step, l : /\ Go(r, step) => pc'[r] = step /\ loc'[r] = loc[r]
                     /\ GoWith(r, step, l) => pc'[r] = step /\ loc'[r] = l
                     /\ Answer(r, step) => pc'[r] = "done"
    BY <1>1 DEF Go, GoWith, Answer, RequestsTypeOK
  <1>5. ~\E answer : Refuse(r, answer)
    BY <1>2, <1>4 DEF Refuse
  <1>6. pc[r] \in {"tariff", "pick", "subscribe", "begin", "findStorage", "countLabel", "reserve", "insert",
                   "kubeCreate", "commit"}
    BY <1>1, <1>3 DEF Route, Creations, Resizings, DeleteAlls
  <1>7. /\ ~DbError(r) /\ ~PoolTimeout(r)
        /\ ~Commit(r)
    BY <1>2, <1>4, <1>5 DEF DbError, PoolTimeout, Commit
  <1>8. loc[r] \in LocType
    BY <1>1, LocalFields
  <1>9. CASE FetchTariff(r)
    <2>1. call[r].op = "create"
      BY <1>1, <1>3, <1>9, OnRoute DEF FetchTariff, Creations, Resizings
    <2>2. pc'[r] = "pick"
      BY <1>4, <1>5, <1>9, <2>1 DEF FetchTariff
    <2> QED BY <2>2 DEF Placed
  <1>10. CASE PickStorage(r)
    <2>1. PICK i \in Candidates(call[r], loc[r].capacity) :
            GoWith(r, IF call[r].op = "create" /\ call[r].tariff # FreeTariff THEN "subscribe" ELSE "begin",
                   [loc[r] EXCEPT !.storage = storages[i].name])
      BY <1>5, <1>10 DEF PickStorage
    <2>2. i \in RowId /\ Live(storages[i])
      BY <2>1 DEF Candidates, LiveStoragesNamed, StoragesNamed, LeastUsedStorages, Live
    <2>3. loc'[r].storage = storages[i].name
      <3>1. loc'[r] = [loc[r] EXCEPT !.storage = storages[i].name]
        BY <1>4, <2>1
      <3> QED BY <1>8, <3>1 DEF LocType
    <2> QED BY <2>2, <2>3
  <1>11. CASE FindStorage(r)
    <2>0. pc[r] = "findStorage"
      BY <1>11 DEF FindStorage
    <2>1. call[r].op = "import"
      BY <1>1, <1>3, <2>0, OnRoute DEF Creations
    <2>2. PICK i \in LiveStoragesNamed(StoragesSeen(r), call[r].storage) :
            GoWith(r, "countLabel", [loc[r] EXCEPT !.storage = StoragesSeen(r)[i].name, !.capacity = call[r].capacity])
      BY <1>5, <1>11, <2>1 DEF FindStorage
    <2>3. i \in RowId /\ StoragesSeen(r)[i] = storages[i]
      BY <1>1, <1>11, NothingCharged DEF LiveStoragesNamed, StoragesNamed, FindStorage, ChargedSteps
    <2>4. Live(storages[i])
      BY <2>2, <2>3 DEF LiveStoragesNamed, StoragesNamed, Live
    <2>5. loc'[r].storage = storages[i].name
      BY <1>4, <1>8, <2>2, <2>3 DEF LocType
    <2> QED BY <2>3, <2>4, <2>5
  <1>12. CASE Subscribe(r) \/ CountLabel(r) \/ ReserveSpace(r) \/ InsertVolume(r) \/ CreateInKube(r)
    <2>1. loc'[r] = loc[r]
      BY <1>4, <1>5, <1>12 DEF Subscribe, CountLabel, ReserveSpace, InsertVolume, CreateInKube, CallKube
    <2>2. Placed(r)
      BY <1>12 DEF Placed, Subscribe, CountLabel, ReserveSpace, InsertVolume, CreateInKube
    <2> QED BY <2>1, <2>2
  <1>13. CASE Begin(r)
    <2>1. pc[r] = "begin" /\ loc'[r] = loc[r] /\ pc'[r] = FirstInside(call[r])
      BY <1>4, <1>13 DEF Begin
    <2>2. call[r].op # "import"
      BY <1>1, <2>1 DEF FirstInside, Placed
    <2> QED BY <1>3, <2>1, <2>2 DEF Placed, Creations
  <1> QED BY <1>6, <1>7, <1>9, <1>10, <1>11, <1>12, <1>13, StepAt

LEMMA KeepsOwnPlace ==
  ASSUME IInv, EffectInv, PlaceInv, NEW r \in Requests, Step(r)
  PROVE  KeepsPlace(r)'
  <1>1. SUFFICES ASSUME Placed(r)', NEW name, name = loc'[r].storage
                 PROVE  LiveStoragesNamed(storages, name)' # {} \/ Gone(name)'
    <2>1. PICK name : name = loc'[r].storage
      OBVIOUS
    <2> QED BY <1>1, <2>1 DEF KeepsPlace
  <1>2. storages' = storages
    <2>1. ~Commits(r)
      <3>1. RequestsTypeOK
        BY Stepping
      <3>2. pc'[r] # "done"
        BY <1>1 DEF Placed
      <3> QED BY <3>1, <3>2 DEF Commits, Answer, RequestsTypeOK
    <2> QED BY <2>1, OnlyCommitsShow, Stepping
  <1>3. CASE \E i \in RowId : Live(storages[i]) /\ name = storages[i].name
    BY <1>2, <1>3 DEF LiveStoragesNamed, StoragesNamed, Live
  <1>4. CASE Placed(r) /\ loc'[r] = loc[r]
    <2>1. LiveStoragesNamed(storages, name) # {} \/ Gone(name)
      BY <1>1, <1>4 DEF PlaceInv, KeepsPlace
    <2> QED BY <1>2, <2>1, GoneStays DEF LiveStoragesNamed, StoragesNamed
  <1> QED BY <1>1, <1>3, <1>4, PlaceTaken

-----------------------------------------------------------------------------
(* A storage being dropped stays empty.                                    *)

(* Where a live volume on a storage comes from.                            *)
LEMMA VolumeComesFrom ==
  ASSUME IInv, EffectInv, NEW r \in Requests, Commits(r), NEW i \in RowId, Live(volumes'[i])
  PROVE  \/ Live(volumes[i]) /\ volumes'[i].storage = volumes[i].storage
         \/ call[r].op \in Creations /\ i = r /\ volumes[i] = NoRow /\ dirtyVolume[i].tx = r
         \/ /\ call[r].op = "updateStorage" /\ Renames(call[r])
            /\ Live(volumes[i]) /\ volumes[i].storage = call[r].storage
            /\ volumes'[i].storage = NewName(call[r]) /\ dirtyVolume[i].tx = r
  <1>1. /\ volumes[i] \in VolumeRow \cup {NoRow}
        /\ volumes'[i] = IF dirtyVolume[i].tx = r THEN dirtyVolume[i].row ELSE volumes[i]
        /\ dirtyVolume[i].tx = r => VolumeEffect(r, call[r], i, volumes[i], dirtyVolume[i].row)
    BY CommitShows
  <1>2. CASE dirtyVolume[i].tx # r
    BY <1>1, <1>2
  <1>3. CASE dirtyVolume[i].tx = r
    <2> DEFINE v == volumes[i]
               w == dirtyVolume[i].row
    <2>1. volumes'[i] = w /\ VolumeEffect(r, call[r], i, v, w)
      BY <1>1, <1>3
    <2>2. v # NoRow => /\ v \in VolumeRow
                       /\ [v EXCEPT !.deleted = TRUE].deleted
                       /\ [v EXCEPT !.capacity = w.capacity].deleted = v.deleted
                       /\ [v EXCEPT !.capacity = w.capacity].storage = v.storage
                       /\ [v EXCEPT !.storage = NewName(call[r])].deleted = v.deleted
                       /\ [v EXCEPT !.storage = NewName(call[r])].storage = NewName(call[r])
      BY <1>1 DEF VolumeRow
    <2> HIDE DEF v, w
    <2>3. Live(w)
      BY <2>1
    <2>4. v = NoRow \/ v # NoRow
      OBVIOUS
    <2>5. CASE call[r].op \in Creations
      BY <1>3, <2>1, <2>5 DEF VolumeEffect, Creations, DeleteAlls, Resizings, v
    <2>6. CASE call[r].op \in DeleteAlls \cup {"delete"}
      BY <2>1, <2>2, <2>3, <2>6 DEF VolumeEffect, Creations, DeleteAlls, Resizings, Live, Concerns
    <2>7. CASE call[r].op \in Resizings
      <3>1. v # NoRow /\ w = [v EXCEPT !.capacity = w.capacity]
        BY <2>1, <2>7 DEF VolumeEffect, Creations, DeleteAlls, Resizings, Concerns
      <3>2. Live(v) /\ w.storage = v.storage
        BY <2>2, <2>3, <3>1 DEF Live
      <3> QED BY <2>1, <3>2 DEF v
    <2>8. CASE call[r].op = "updateStorage"
      <3>1. v # NoRow /\ v.storage = call[r].storage /\ NewName(call[r]) # call[r].storage
            /\ w = [v EXCEPT !.storage = NewName(call[r])]
        BY <2>1, <2>8 DEF VolumeEffect, Creations, DeleteAlls, Resizings
      <3>2. Live(v) /\ w.storage = NewName(call[r])
        BY <2>2, <2>3, <3>1 DEF Live
      <3> QED BY <1>3, <2>1, <2>8, <3>1, <3>2 DEF v, Renames
    <2> QED BY <2>1, <2>5, <2>6, <2>7, <2>8 DEF VolumeEffect
  <1> QED BY <1>2, <1>3

LEMMA CommitEnds ==
  ASSUME IInv, EffectInv, NEW r \in Requests, Commits(r)
  PROVE  pc'[r] = "done" /\ pc[r] = "commit" /\ r \in Active /\ call[r] \in Calls /\ call[r].op \in Ops
  <1>1. RequestsTypeOK /\ pc[r] \in ActiveSteps
    BY DEF IInv, TypeOK, Commits, ActiveSteps, InsideSteps
  <1> QED BY <1>1, InProgress DEF Commits, Answer, RequestsTypeOK

LEMMA DropsStayEmpty ==
  ASSUME IInv, EffectInv, StoragesApart, PlaceInv, NEW r \in Requests, Step(r), NEW q \in Requests
  PROVE  DropsEmpty(q)'
  <1>1. call' = call
    BY Stepping
  <1>2. SUFFICES ASSUME pc'[q] \in {"dropStorage", "commit"}, call[q].op = "deleteStorage",
                        NEW name, name = call[q].storage
                 PROVE  LiveVolumesOn(volumes', name) = {}
    <2>1. PICK name : name = call[q].storage
      OBVIOUS
    <2> QED BY <1>1, <1>2, <2>1 DEF DropsEmpty
  <1>3. CASE q # r
    <2>1. pc'[q] = pc[q]
      BY <1>3, Bystander
    <2>2. LiveVolumesOn(volumes, name) = {}
      BY <1>2, <2>1 DEF PlaceInv, DropsEmpty
    <2>3. CASE UNCHANGED volumes
      BY <2>2, <2>3
    <2>4. CASE Commits(r)
      <3>1. r \in Active /\ q \in Active
        <4>1. pc[q] \in ActiveSteps
          BY <1>2, <2>1 DEF ActiveSteps, InsideSteps
        <4> QED BY <2>4, <4>1, CommitEnds, InProgress
      <3>2. call[r].op \notin Creations /\ ~Renames(call[r])
        BY <1>2, <1>3, <3>1 DEF StoragesApart
      <3>3. ASSUME NEW i \in RowId, Live(volumes'[i]), volumes'[i].storage = name
            PROVE  FALSE
        <4>1. Live(volumes[i]) /\ volumes'[i].storage = volumes[i].storage
          BY <2>4, <3>2, <3>3, VolumeComesFrom
        <4> QED BY <2>2, <3>3, <4>1 DEF LiveVolumesOn
      <3> QED BY <3>3 DEF LiveVolumesOn
    <2> QED BY <2>3, <2>4, OnlyCommitsShow, Stepping
  <1>4. CASE q = r
    <2>1. /\ RequestsTypeOK /\ DirtyFits /\ LocalsTold(r)
          /\ pc[r] \in Route(call[r].op)
      BY Stepping
    <2>2. \A step, l : /\ Go(r, step) => pc'[r] = step
                       /\ GoWith(r, step, l) => pc'[r] = step
                       /\ Answer(r, step) => pc'[r] = "done"
      BY <2>1 DEF Go, GoWith, Answer, RequestsTypeOK
    <2>3. ~\E answer : Refuse(r, answer)
      BY <1>2, <1>4, <2>2 DEF Refuse
    <2>4. pc[r] \in {"begin", "findStorage", "countVolumes", "dropStorage", "commit"}
      BY <1>2, <1>4, <2>1 DEF Route, Creations, DeleteAlls, Resizings
    <2>5. /\ ~DbError(r) /\ ~PoolTimeout(r)
          /\ ~Commit(r)
      BY <1>2, <1>4, <2>2, <2>3 DEF DbError, PoolTimeout, Commit
    <2>6. ~Begin(r)
      BY <1>2, <1>4, <2>2 DEF Begin, FirstInside
    <2>7. ~FindStorage(r)
      BY <1>2, <1>4, <2>2, <2>3 DEF FindStorage
    <2>8. CASE CountVolumes(r)
      <3>1. pc[r] = "countVolumes" /\ loc[r].storage = call[r].storage
        BY <2>1, <2>8 DEF CountVolumes, LocalsTold
      <3>2. LiveVolumesOn(VolumesSeen(r), name) = {} /\ volumes' = volumes
        BY <1>2, <1>4, <2>3, <2>8, <3>1 DEF CountVolumes, storeVars
      <3>3. \A i \in RowId : VolumesSeen(r)[i] = volumes[i]
        BY <2>1, <3>1, NothingWritten DEF WroteSteps
      <3> QED BY <3>2, <3>3 DEF LiveVolumesOn
    <2>9. CASE DropStorage(r)
      <3>1. pc[r] = "dropStorage" /\ volumes' = volumes
        BY <2>3, <2>9 DEF DropStorage, DropStorageRow, WriteStorages
      <3> QED BY <1>2, <1>4, <3>1 DEF PlaceInv, DropsEmpty
    <2> QED BY <2>4, <2>5, <2>6, <2>7, <2>8, <2>9, StepAt
  <1> QED BY <1>3, <1>4

LEMMA StepPlace ==
  ASSUME IInv, EffectInv, StoragesApart, PlaceInv, NEW r \in Requests, Step(r)
  PROVE  PlaceInv'
  <1>1. ASSUME NEW q \in Requests
        PROVE  KeepsPlace(q)' /\ DropsEmpty(q)'
    BY OthersKeepPlace, KeepsOwnPlace, DropsStayEmpty
  <1> QED BY <1>1 DEF PlaceInv

-----------------------------------------------------------------------------
(* A deletion or resize keeps knowing its volume.                          *)

LEMMA OthersKnow ==
  ASSUME IInv, EffectInv, VolumesApart, NEW r \in Requests, Step(r), NEW q \in Requests, q # r,
         Knowing(q), NEW i \in RowId, Handles(q, i)
  PROVE  Handles(q, i)'
  <1>1. /\ pc'[q] = pc[q] /\ loc'[q] = loc[q] /\ call'[q] = call[q]
        /\ dirtyVolume[i].tx = q => dirtyVolume'[i] = dirtyVolume[i]
    BY Bystander
  <1>2. volumes'[i] = volumes[i]
    <2>1. ASSUME Commits(r), dirtyVolume[i].tx = r
          PROVE  FALSE
      <3>1. VolumeEffect(r, call[r], i, volumes[i], dirtyVolume[i].row)
        BY <2>1, CommitShows
      <3>2. r \in Active /\ q \in Active
        BY <2>1, CommitEnds, InProgress DEF Knowing
      <3>3. /\ call[r].op \notin DeleteAlls /\ ~Renames(call[r])
            /\ call[r].op \in Handlers => RequestKey(q) # RequestKey(r)
        BY <3>2 DEF VolumesApart, Knowing
      <3>4. volumes[i] # NoRow /\ Key(volumes[i]) = RequestKey(q)
        BY DEF Handles, Live
      <3>5. call[r].op \in Handlers /\ Concerns(call[r], volumes[i])
        BY <3>1, <3>3, <3>4 DEF VolumeEffect, Renames, Handlers
      <3>6. Key(volumes[i]) = RequestKey(r)
        BY <3>3, <3>5 DEF Concerns, Key, RequestKey, Handlers, Resizings
      <3> QED BY <3>3, <3>4, <3>5, <3>6
    <2>2. CASE Commits(r)
      BY <2>1, <2>2, CommitShows
    <2>3. CASE UNCHANGED volumes
      BY <2>3
    <2> QED BY <2>2, <2>3, OnlyCommitsShow, Stepping
  <1> QED BY <1>1, <1>2 DEF Handles, RequestKey

(* What a deletion or resize does next: it selects its volume, it reads    *)
(* the old capacity, or it goes on with what it has read.                  *)
Selects(r) ==
  \E i \in RowId :
    /\ Live(volumes[i]) /\ Key(volumes[i]) = RequestKey(r)
    /\ loc'[r].vols = {i} /\ loc'[r].storage = volumes[i].storage
    /\ IF call[r].op = "delete" THEN loc'[r].capacity = volumes[i].capacity
                                ELSE loc'[r].capacity >= volumes[i].capacity
    /\ volumes[i].capacity \in Int
    /\ pc'[r] = IF call[r].op = "delete" THEN "release" ELSE "oldCapacity"

LooksBack(r) ==
  /\ Knowing(r) /\ pc'[r] = "fit"
  /\ \A i \in RowId : loc[r].vols = {i} => loc'[r].seen = volumes[i].capacity
  /\ loc'[r].vols = loc[r].vols /\ loc'[r].storage = loc[r].storage /\ loc'[r].capacity = loc[r].capacity

GoesOn(r) ==
  /\ Knowing(r) /\ pc[r] # "oldCapacity" /\ loc'[r] = loc[r]
  /\ \A i \in RowId : pc'[r] = "commit" /\ loc[r].vols = {i} => dirtyVolume'[i].tx = r

LEMMA OwnStep ==
  ASSUME IInv, EffectInv, NEW r \in Requests, Step(r), Knowing(r)'
  PROVE  /\ call' = call /\ volumes' = volumes
         /\ Selects(r) \/ LooksBack(r) \/ GoesOn(r)
  <1>1. /\ TypeOK /\ StoreTypeOK /\ RequestsTypeOK /\ DirtyFits /\ RowsFresh /\ Wrote(r)
        /\ pc[r] \in Route(call[r].op) /\ pc[r] \in ActiveSteps /\ call[r].op \in Ops /\ call' = call
    BY Stepping
  <1>2. /\ call[r].op \in Handlers /\ pc'[r] \notin {"done", "tariff", "begin", "select"}
    BY <1>1 DEF Knowing, ActiveSteps, OutsideSteps, InsideSteps
  <1>3. \A step, l : /\ Go(r, step) => pc'[r] = step /\ loc'[r] = loc[r]
                     /\ GoWith(r, step, l) => pc'[r] = step /\ loc'[r] = l
                     /\ Answer(r, step) => pc'[r] = "done"
    BY <1>1 DEF Go, GoWith, Answer, RequestsTypeOK
  <1>4. ~\E answer : Refuse(r, answer)
    BY <1>2, <1>3 DEF Refuse
  <1>5. pc[r] \in {"tariff", "begin", "select", "release", "mark", "kubeDelete", "unsubscribe",
                   "oldCapacity", "fit", "recharge", "setCapacity", "kubeUpdate", "commit"}
    BY <1>1, <1>2 DEF Route, Handlers, Creations, Resizings, DeleteAlls
  <1>6. /\ ~DbError(r) /\ ~PoolTimeout(r)
        /\ ~Commit(r)
    BY <1>2, <1>3, <1>4 DEF DbError, PoolTimeout, Commit
  <1>7. loc[r] \in LocType
    BY <1>1, LocalFields
  <1>8. volumes' = volumes
    <2>1. ~Commits(r)
      BY <1>2, CommitEnds
    <2> QED BY <1>1, <2>1, OnlyCommitsShow
  <1> SUFFICES Selects(r) \/ LooksBack(r) \/ GoesOn(r)
    BY <1>1, <1>8
  <1>9. ASSUME Knowing(r), loc'[r] = loc[r], pc[r] # "oldCapacity",
               pc'[r] = "commit" => dirtyVolume' = dirtyVolume /\ pc[r] \in {"unsubscribe", "kubeUpdate"}
        PROVE  GoesOn(r)
    BY <1>1, <1>9 DEF Wrote, GoesOn
  <1>10. ~FetchTariff(r) /\ ~Begin(r) /\ ~PickStorage(r) /\ ~Subscribe(r) /\ ~FindStorage(r)
    <2>1. ~FetchTariff(r)
      BY <1>2, <1>3, <1>4 DEF FetchTariff, Handlers, Resizings
    <2>2. ~Begin(r)
      BY <1>2, <1>3 DEF Begin, FirstInside, Handlers, Resizings
    <2>3. ~PickStorage(r) /\ ~Subscribe(r) /\ ~FindStorage(r)
      BY <1>5 DEF PickStorage, Subscribe, FindStorage
    <2> QED BY <2>1, <2>2, <2>3
  <1>11. CASE SelectVolume(r)
    <2>1. pc[r] = "select"
      BY <1>11 DEF SelectVolume
    <2>2. \A i \in RowId : VolumesSeen(r)[i] = volumes[i]
      BY <1>1, <2>1, NothingWritten DEF WroteSteps
    <2> DEFINE v(i) == VolumesSeen(r)[i]
               wanted == IF call[r].op = "adminResize" THEN call[r].capacity ELSE loc[r].capacity
    <2>3. PICK i \in VolumesLabelled(VolumesSeen(r), call[r].ns, call[r].label) :
            \/ /\ call[r].op = "delete"
               /\ GoWith(r, "release", [loc[r] EXCEPT !.vols = {i}, !.storage = v(i).storage,
                                                      !.capacity = v(i).capacity])
            \/ /\ call[r].op # "delete"
               /\ ~TooSmall(wanted, v(i))
               /\ GoWith(r, "oldCapacity", [loc[r] EXCEPT !.vols = {i}, !.storage = v(i).storage,
                                                          !.capacity = wanted])
      BY <1>4, <1>11 DEF SelectVolume
    <2>4. /\ i \in RowId /\ v(i) = volumes[i]
          /\ Live(volumes[i]) /\ Key(volumes[i]) = RequestKey(r) /\ volumes[i] \in VolumeRow
      BY <1>1, <2>2, <2>3 DEF VolumesLabelled, Key, RequestKey, Live, StoreTypeOK
    <2> HIDE DEF v, wanted
    <2>5. CASE call[r].op = "delete"
      <3>1. pc'[r] = "release" /\ loc'[r] = [loc[r] EXCEPT !.vols = {i}, !.storage = v(i).storage,
                                                           !.capacity = v(i).capacity]
        BY <1>3, <2>3, <2>5
      <3>2. loc'[r].vols = {i} /\ loc'[r].storage = volumes[i].storage /\ loc'[r].capacity = volumes[i].capacity
        BY <1>7, <2>4, <3>1 DEF LocType
      <3> QED BY <2>4, <2>5, <3>1, <3>2 DEF Selects, VolumeRow
    <2>6. CASE call[r].op # "delete"
      <3>1. /\ pc'[r] = "oldCapacity" /\ ~TooSmall(wanted, v(i))
            /\ loc'[r] = [loc[r] EXCEPT !.vols = {i}, !.storage = v(i).storage, !.capacity = wanted]
        BY <1>3, <2>3, <2>6
      <3>2. loc'[r].vols = {i} /\ loc'[r].storage = volumes[i].storage /\ loc'[r].capacity = wanted
        BY <1>7, <2>4, <3>1 DEF LocType
      <3>3. loc'[r].capacity \in Int /\ volumes[i].capacity \in Int
        <4>1. RequestsTypeOK'
          BY <1>1, StepFits, Stepping
        <4> QED BY <2>4, <4>1 DEF RequestsTypeOK, LocType, VolumeRow
      <3>4. loc'[r].capacity >= volumes[i].capacity
        BY <2>4, <3>1, <3>2, <3>3 DEF TooSmall
      <3> QED BY <2>4, <2>6, <3>1, <3>2, <3>3, <3>4 DEF Selects
    <2> QED BY <2>5, <2>6
  <1>12. CASE ReadOldCapacity(r)
    <2>1. /\ pc[r] = "oldCapacity" /\ pc'[r] = "fit"
          /\ loc'[r] = [loc[r] EXCEPT !.seen = VolumesSeen(r)[TheVolume(r)].capacity]
      BY <1>3, <1>12 DEF ReadOldCapacity
    <2>2. Knowing(r)
      BY <1>2, <2>1 DEF Knowing, ActiveSteps, InsideSteps
    <2>3. \A i \in RowId : loc[r].vols = {i} => TheVolume(r) = i /\ VolumesSeen(r)[i] = volumes[i]
      BY <1>1, <2>1, NothingWritten DEF TheVolume, WroteSteps
    <2>4. /\ loc'[r].seen = VolumesSeen(r)[TheVolume(r)].capacity /\ loc'[r].vols = loc[r].vols
          /\ loc'[r].storage = loc[r].storage /\ loc'[r].capacity = loc[r].capacity
      BY <1>7, <2>1 DEF LocType
    <2> QED BY <2>1, <2>2, <2>3, <2>4 DEF LooksBack
  <1>13. CASE \/ ReleaseSpace(r) \/ MarkDeleted(r) \/ DeleteFromKube(r) \/ CheckFit(r) \/ Recharge(r)
              \/ SetCapacity(r)
    <2>1. \E step \in {"mark", "kubeDelete", "unsubscribe", "recharge", "setCapacity", "kubeUpdate"} : Go(r, step)
      <3>1. CASE ReleaseSpace(r) \/ MarkDeleted(r) \/ Recharge(r) \/ SetCapacity(r)
        BY <3>1 DEF ReleaseSpace, MarkDeleted, Recharge, SetCapacity
      <3>2. CASE DeleteFromKube(r)
        BY <1>4, <3>2 DEF DeleteFromKube, CallKube
      <3>3. CASE CheckFit(r)
        BY <1>4, <3>3 DEF CheckFit
      <3> QED BY <1>13, <3>1, <3>2, <3>3
    <2>3. loc'[r] = loc[r] /\ pc'[r] # "commit"
      BY <1>3, <2>1
    <2>2. pc[r] \notin {"tariff", "begin", "select", "oldCapacity"}
      BY <1>13 DEF ReleaseSpace, MarkDeleted, DeleteFromKube, CheckFit, Recharge, SetCapacity
    <2> QED BY <1>1, <1>2, <1>9, <2>3, <2>2 DEF Knowing
  <1>14. CASE Unsubscribe(r) \/ UpdateInKube(r)
    <2>1. loc'[r] = loc[r] /\ dirtyVolume' = dirtyVolume /\ pc[r] \in {"unsubscribe", "kubeUpdate"}
      BY <1>3, <1>4, <1>14 DEF Unsubscribe, UpdateInKube, CallKube, CallUnsubscribe, storeVars
    <2> QED BY <1>1, <1>2, <1>9, <2>1 DEF Knowing
  <1> QED BY <1>5, <1>6, <1>10, <1>11, <1>12, <1>13, <1>14, StepAt

LEMMA KnowsOwn ==
  ASSUME IInv, EffectInv, KnowledgeInv, NEW r \in Requests, Step(r), Knowing(r)'
  PROVE  \E i \in RowId : Handles(r, i)'
  <1>1. call' = call /\ volumes' = volumes
    BY OwnStep
  <1>2. RequestKey(r)' = RequestKey(r)
    BY <1>1 DEF RequestKey
  <1>3. CASE Selects(r)
    BY <1>1, <1>2, <1>3 DEF Selects, Handles
  <1>4. CASE LooksBack(r)
    <2>1. PICK i \in RowId : Handles(r, i)
      BY <1>4 DEF LooksBack, KnowledgeInv, KnowsVolume
    <2> QED BY <1>1, <1>2, <1>4, <2>1 DEF LooksBack, Handles
  <1>5. CASE GoesOn(r)
    <2>1. PICK i \in RowId : Handles(r, i)
      BY <1>5 DEF GoesOn, KnowledgeInv, KnowsVolume
    <2> QED BY <1>1, <1>2, <1>5, <2>1 DEF GoesOn, Handles
  <1> QED BY <1>3, <1>4, <1>5, OwnStep

LEMMA StepKnowledge ==
  ASSUME IInv, EffectInv, VolumesApart, KnowledgeInv, NEW r \in Requests, Step(r)
  PROVE  KnowledgeInv'
  <1>1. SUFFICES ASSUME NEW q \in Requests, Knowing(q)' PROVE \E i \in RowId : Handles(q, i)'
    BY DEF KnowledgeInv, KnowsVolume, Knowing
  <1>2. CASE q = r
    BY <1>1, <1>2, KnowsOwn
  <1>3. CASE q # r
    <2>1. Knowing(q)
      BY <1>1, <1>3, Bystander DEF Knowing
    <2>2. PICK i \in RowId : Handles(q, i)
      BY <2>1 DEF KnowledgeInv, KnowsVolume, Knowing
    <2> QED BY <1>3, <2>1, <2>2, OthersKnow
  <1> QED BY <1>2, <1>3

(* What a deletion or resize remembers of its volume stays on its side     *)
(* when others delete the volume or give it the size this one wants.       *)
LEMMA OthersRemember ==
  ASSUME IInv, EffectInv, LooselyApart, MemoryInv, WritesInv, NEW r \in Requests, Step(r),
         NEW q \in Requests, q # r, Knowing(q), NEW i \in RowId, Remembers(q, i)
  PROVE  Remembers(q, i)'
  <1>1. /\ pc'[q] = pc[q] /\ loc'[q] = loc[q] /\ call'[q] = call[q]
        /\ dirtyVolume'[i].tx = q <=> dirtyVolume[i].tx = q
    BY Bystander
  <1>2. CASE volumes'[i] = volumes[i]
    BY <1>1, <1>2 DEF Remembers, RequestKey
  <1>3. CASE volumes'[i] # volumes[i]
    <2>1. Commits(r)
      BY <1>3, OnlyCommitsShow, Stepping
    <2>2. /\ volumes[i] \in VolumeRow /\ dirtyVolume[i].tx = r /\ volumes'[i] = dirtyVolume[i].row
          /\ VolumeEffect(r, call[r], i, volumes[i], dirtyVolume[i].row) /\ volumes'[i] \in VolumeRow
      BY <1>3, <2>1, CommitShows DEF Remembers
    <2>3. r \in Active /\ q \in Active /\ pc[r] = "commit"
      BY <2>1, CommitEnds, InProgress DEF Knowing
    <2>4. volumes[i] # NoRow /\ volumes'[i] # NoRow /\ call[q].op \in Handlers
      BY <2>2, IdsDistinct DEF Knowing
    <2>5. ~Renames(call[r])
      BY <2>3, <2>4 DEF LooselyApart
    <2>6. CASE call[r].op \in DeleteAlls \cup {"delete"}
      <3>1. volumes'[i] = [volumes[i] EXCEPT !.deleted = TRUE]
        BY <2>2, <2>6 DEF VolumeEffect, Creations, Resizings, DeleteAlls
      <3>2. /\ Key(volumes'[i]) = Key(volumes[i]) /\ volumes'[i].storage = volumes[i].storage
            /\ volumes'[i].capacity = volumes[i].capacity
        BY <2>2, <3>1 DEF VolumeRow, Key
      <3> QED BY <1>1, <2>4, <3>2 DEF Remembers, RequestKey
    <2>7. CASE call[r].op \in Resizings
      <3>1. volumes'[i] = [volumes[i] EXCEPT !.capacity = volumes'[i].capacity]
        BY <2>2, <2>7 DEF VolumeEffect, Creations, Resizings, DeleteAlls
      <3>2. Key(volumes'[i]) = Key(volumes[i]) /\ volumes'[i].storage = volumes[i].storage
        <4>1. \A x : /\ [volumes[i] EXCEPT !.capacity = x].ns = volumes[i].ns
                     /\ [volumes[i] EXCEPT !.capacity = x].label = volumes[i].label
                     /\ [volumes[i] EXCEPT !.capacity = x].storage = volumes[i].storage
          BY <2>2 DEF VolumeRow
        <4> QED BY <3>1, <4>1 DEF Key
      <3>3. volumes'[i].capacity = loc[r].capacity
        BY <2>2, <2>7 DEF WritesInv, WritesCharged
      <3>4. Knowing(r)
        BY <2>3, <2>7 DEF Knowing, Handlers, ActiveSteps, InsideSteps
      <3>5. Remembers(r, i)
        <4>1. PICK k \in RowId : Remembers(r, k)
          BY <3>4 DEF MemoryInv, RemembersVolume
        <4>2. dirtyVolume[k].tx = r
          BY <2>3, <4>1 DEF Remembers
        <4>3. k = i
          BY <2>2, <2>3, <2>7, <4>2 DEF EffectInv, WritesDone, Wrote
        <4> QED BY <4>1, <4>3
      <3>6. volumes[i].capacity <= loc[r].capacity /\ RequestKey(r) = RequestKey(q)
        BY <2>7, <3>5 DEF Remembers, Resizings
      <3>7. call[q].op \in Resizings => loc[q].capacity = loc[r].capacity
        BY <2>3, <2>4, <2>7, <3>4, <3>6 DEF LooselyApart
      <3>8. volumes[i].capacity \in Int /\ loc[r].capacity \in Int /\ loc[q].capacity \in Int /\ loc[q].seen \in Int
        BY <2>2, LocalFields DEF VolumeRow, IInv, TypeOK
      <3>9. /\ IF call[q].op = "delete" THEN loc[q].capacity <= volumes'[i].capacity
                                       ELSE volumes'[i].capacity <= loc[q].capacity
            /\ call[q].op # "delete" /\ pc[q] # "oldCapacity" => loc[q].seen <= volumes'[i].capacity
        BY <2>4, <3>3, <3>6, <3>7, <3>8 DEF Remembers, Handlers
      <3> QED BY <1>1, <2>4, <3>2, <3>9 DEF Remembers, RequestKey
    <2> QED BY <2>2, <2>4, <2>5, <2>6, <2>7 DEF VolumeEffect, Renames
  <1> QED BY <1>2, <1>3

LEMMA RemembersOwn ==
  ASSUME IInv, EffectInv, MemoryInv, NEW r \in Requests, Step(r), Knowing(r)'
  PROVE  \E i \in RowId : Remembers(r, i)'
  <1>1. call' = call /\ volumes' = volumes
    BY OwnStep
  <1>2. RequestKey(r)' = RequestKey(r)
    BY <1>1 DEF RequestKey
  <1>3. CASE Selects(r)
    <2>1. PICK i \in RowId :
            /\ Live(volumes[i]) /\ Key(volumes[i]) = RequestKey(r)
            /\ loc'[r].vols = {i} /\ loc'[r].storage = volumes[i].storage
            /\ IF call[r].op = "delete" THEN loc'[r].capacity = volumes[i].capacity
                                        ELSE loc'[r].capacity >= volumes[i].capacity
            /\ volumes[i].capacity \in Int
            /\ pc'[r] = IF call[r].op = "delete" THEN "release" ELSE "oldCapacity"
      BY <1>3 DEF Selects
    <2>2. IF call[r].op = "delete" THEN loc'[r].capacity <= volumes[i].capacity
                                   ELSE volumes[i].capacity <= loc'[r].capacity
      <3>1. loc'[r].capacity \in Int
        <4>1. RequestsTypeOK'
          BY StepFits, Stepping
        <4> QED BY <4>1 DEF RequestsTypeOK, LocType
      <3> QED BY <2>1, <3>1
    <2> QED BY <1>1, <1>2, <2>1, <2>2 DEF Remembers, Live
  <1>4. CASE LooksBack(r)
    <2>1. PICK i \in RowId : Remembers(r, i)
      BY <1>4 DEF LooksBack, MemoryInv, RemembersVolume
    <2>2. volumes[i].capacity \in Int
      BY <2>1 DEF Remembers, IInv, TypeOK, StoreTypeOK, VolumeRow
    <2>3. loc'[r].seen = volumes[i].capacity /\ pc'[r] = "fit"
      BY <1>4, <2>1 DEF LooksBack, Remembers
    <2> QED BY <1>1, <1>2, <1>4, <2>1, <2>2, <2>3 DEF LooksBack, Remembers
  <1>5. CASE GoesOn(r)
    <2>1. PICK i \in RowId : Remembers(r, i)
      BY <1>5 DEF GoesOn, MemoryInv, RemembersVolume
    <2> QED BY <1>1, <1>2, <1>5, <2>1 DEF GoesOn, Remembers
  <1> QED BY <1>3, <1>4, <1>5, OwnStep

LEMMA StepMemory ==
  ASSUME IInv, EffectInv, LooselyApart, WritesInv, MemoryInv, NEW r \in Requests, Step(r)
  PROVE  MemoryInv'
  <1>1. SUFFICES ASSUME NEW q \in Requests, Knowing(q)' PROVE \E i \in RowId : Remembers(q, i)'
    BY DEF MemoryInv, RemembersVolume
  <1>2. CASE q = r
    BY <1>1, <1>2, RemembersOwn
  <1>3. CASE q # r
    <2>1. Knowing(q)
      BY <1>1, <1>3, Bystander DEF Knowing
    <2>2. PICK i \in RowId : Remembers(q, i)
      BY <2>1 DEF MemoryInv, RemembersVolume
    <2> QED BY <1>3, <2>1, <2>2, OthersRemember
  <1> QED BY <1>2, <1>3

(* For the charges it is enough that the storage is known.                 *)
KnowsStorageOf(q) ==
  Knowing(q) => \E i \in RowId : volumes[i] # NoRow /\ volumes[i].storage = loc[q].storage

LEMMA KnowingIsEnough ==
  ASSUME NEW q \in Requests, KnowledgeInv \/ MemoryInv
  PROVE  KnowsStorageOf(q)
  <1>1. KnowledgeInv => KnowsStorageOf(q)
    BY DEF KnowledgeInv, KnowsVolume, Handles, Live, KnowsStorageOf
  <1>2. MemoryInv => KnowsStorageOf(q)
    BY DEF MemoryInv, RemembersVolume, Remembers, KnowsStorageOf
  <1> QED BY <1>1, <1>2

-----------------------------------------------------------------------------
(* Rows are written as they were charged, storages charged as rows ask.    *)

LEMMA StepWrites ==
  ASSUME IInv, EffectInv, WritesInv, NEW r \in Requests, Step(r)
  PROVE  WritesInv'
  <1>1. /\ StoreTypeOK /\ RequestsTypeOK /\ DirtyFits /\ RowsFresh
        /\ pc[r] \in Route(call[r].op) /\ call[r].op \in Ops /\ call' = call
    BY Stepping
  <1>2. SUFFICES ASSUME NEW q \in Requests, NEW i \in RowId, dirtyVolume'[i].tx = q,
                        call[q].op \in Creations \cup Resizings
                 PROVE  /\ dirtyVolume'[i].row.capacity = loc'[q].capacity
                        /\ call[q].op \in Creations => dirtyVolume'[i].row.storage = loc'[q].storage
    BY <1>1 DEF WritesInv, WritesCharged
  <1>3. CASE q # r
    <2>1. dirtyVolume[i].tx = q /\ dirtyVolume'[i] = dirtyVolume[i] /\ loc'[q] = loc[q]
      BY <1>2, <1>3, Bystander
    <2> QED BY <1>2, <2>1 DEF WritesInv, WritesCharged
  <1>4. CASE q = r
    <2>1. \A step : /\ Go(r, step) => pc'[r] = step /\ loc'[r] = loc[r]
                    /\ MovesTo(r, step) => pc'[r] = step
      BY <1>1 DEF Go, MovesTo, RequestsTypeOK
    <2>2. ASSUME dirtyVolume[i].tx = r, dirtyVolume'[i] = dirtyVolume[i], loc'[r] = loc[r]
          PROVE  /\ dirtyVolume'[i].row.capacity = loc'[q].capacity
                 /\ call[q].op \in Creations => dirtyVolume'[i].row.storage = loc'[q].storage
      BY <1>2, <1>4, <2>2 DEF WritesInv, WritesCharged
    <2>3. pc[r] \notin WroteSteps => dirtyVolume[i].tx # r
      BY <1>1, NothingWritten
    <2>4. r # NoTx /\ Clean.tx = NoTx
      BY IdsDistinct DEF Clean
    <2>5. CASE Reads(r)
      <3>1. dirtyVolume'[i] = dirtyVolume[i] /\ dirtyVolume[i].tx = r
        BY <1>2, <1>4, <2>5 DEF Reads
      <3>2. pc[r] \in WroteSteps
        BY <2>3, <3>1
      <3>3. loc' = loc
        BY <2>5, <3>2 DEF Reads
      <3> QED BY <2>2, <3>1, <3>3
    <2>6. CASE Refused(r) \/ Commits(r)
      <3>1. dirtyVolume'[i].tx # r
        BY <1>1, <2>4, <2>6 DEF Refused, Refuse, RollbackTx, Commits, CommitTx, Released, StoreTypeOK
      <3> QED BY <1>2, <1>4, <3>1
    <2>7. CASE Charges(r) \/ Resets(r) \/ InsertsStorage(r) \/ Drops(r)
      <3>1. pc[r] \in {"reserve", "release", "recharge", "reset", "insertStorage", "dropStorage"}
        BY <2>7 DEF Charges, Resets, InsertsStorage, Drops
      <3>2. dirtyVolume' = dirtyVolume
        BY <2>7 DEF Charges, AddUsed, Resets, ResetStorageRow, InsertsStorage, InsertStorageRow, Drops, DropStorageRow
      <3> QED BY <1>2, <1>4, <2>3, <3>1, <3>2 DEF WroteSteps
    <2>8. CASE InsertsVolume(r)
      <3>1. pc[r] = "insert" /\ loc'[r] = loc[r]
        BY <2>1, <2>8 DEF InsertsVolume
      <3>2. dirtyVolume[i].tx # r
        BY <2>3, <3>1 DEF WroteSteps
      <3>3. dirtyVolume'[i] = IF i = r THEN [tx |-> r, row |-> NewVolume(r)] ELSE dirtyVolume[i]
        BY <2>8 DEF InsertsVolume, InsertVolumeRow, WriteVolumes, Written
      <3>4. dirtyVolume'[i].row = NewVolume(r)
        BY <1>2, <1>4, <3>2, <3>3
      <3>5. NewVolume(r).capacity = loc[r].capacity /\ NewVolume(r).storage = loc[r].storage
        BY DEF NewVolume
      <3> QED BY <1>4, <3>1, <3>4, <3>5
    <2>9. CASE Resizes(r)
      <3>1. pc[r] = "setCapacity" /\ loc'[r] = loc[r]
        BY <2>1, <2>9 DEF Resizes
      <3>2. dirtyVolume[i].tx # r /\ call[r].op \notin Creations
        BY <1>1, <2>3, <3>1, OnRoute DEF WroteSteps, Resizings, Creations
      <3>3. dirtyVolume'[i] = IF i = TheVolume(r)
                              THEN [tx |-> r, row |-> [VolumesSeen(r)[i] EXCEPT !.capacity = loc[r].capacity]]
                              ELSE dirtyVolume[i]
        BY <2>9 DEF Resizes, SetVolumeCapacity, WriteVolumes, Written
      <3>4. i = TheVolume(r)
        BY <1>2, <1>4, <3>2, <3>3
      <3>5. VolumesSeen(r)[i] = volumes[i]
        BY <1>1, <3>1, NothingWritten DEF WroteSteps
      <3>6. volumes[i] \in VolumeRow
        <4>1. RowOutcome(r, i)
          BY StepRowOutcome, Stepping
        <4> QED BY <1>2, <1>4, <2>4, <3>1, <3>2, <4>1 DEF RowOutcome
      <3>7. \A v \in VolumeRow : \A x : [v EXCEPT !.capacity = x].capacity = x
        BY DEF VolumeRow
      <3>8. dirtyVolume'[i].row = [volumes[i] EXCEPT !.capacity = loc[r].capacity]
        BY <3>3, <3>4, <3>5
      <3>9. dirtyVolume'[i].row.capacity = loc[r].capacity
        BY <3>6, <3>7, <3>8
      <3> QED BY <1>4, <3>1, <3>2, <3>9
    <2>10. CASE Marks(r) \/ RewritesStorage(r)
      <3>1. pc[r] \in {"mark", "markAll", "writeStorage"}
        BY <2>10 DEF Marks, RewritesStorage
      <3> QED BY <1>1, <1>2, <1>4, <3>1, OnRoute DEF Creations, Resizings, DeleteAlls
    <2> QED BY <1>1, <2>5, <2>6, <2>7, <2>8, <2>9, <2>10, StepPlan
  <1> QED BY <1>3, <1>4

(* What a request is about to move is what it has to move.                 *)
LEMMA ChargesMove ==
  ASSUME IInv, EffectInv, NEW r \in Requests, Step(r), Charges(r)
  PROVE  AddUsed(r, loc[r].storage, Move(r)) /\ loc'[r] = loc[r] /\ pc'[r] # "done"
  <1>1. /\ RequestsTypeOK /\ pc[r] \in Route(call[r].op) /\ call[r].op \in Ops
    BY Stepping
  <1>2. \A step : /\ Go(r, step) => pc'[r] = step /\ loc'[r] = loc[r]
                  /\ Answer(r, step) => pc'[r] = "done"
    BY <1>1 DEF Go, Answer, RequestsTypeOK
  <1>3. pc'[r] # "done" /\ loc'[r] = loc[r] /\ pc[r] \in {"reserve", "release", "recharge"}
    BY <1>2 DEF Charges
  <1>4. ~DbError(r)
    BY <1>2, <1>3 DEF DbError, Refuse
  <1>5. CASE pc[r] = "reserve"
    <2>1. ReserveSpace(r)
      BY <1>4, <1>5, StepAt DEF CountLabel, InsertVolume, CreateInKube
    <2>2. Move(r) = loc[r].capacity
      BY <1>1, <1>5, OnRoute DEF Move, Creations, Resizings
    <2> QED BY <1>3, <2>1, <2>2 DEF ReserveSpace
  <1>6. CASE pc[r] = "release"
    <2>1. ReleaseSpace(r)
      BY <1>4, <1>6, StepAt DEF SelectVolume, MarkDeleted, DeleteFromKube, Unsubscribe
    <2>2. Move(r) = -loc[r].capacity
      BY <1>1, <1>6, OnRoute DEF Move, Creations, Resizings
    <2> QED BY <1>3, <2>1, <2>2 DEF ReleaseSpace
  <1>7. CASE pc[r] = "recharge"
    <2>1. Recharge(r)
      BY <1>4, <1>7, StepAt DEF ReadOldCapacity, CheckFit, SetCapacity, UpdateInKube
    <2>2. Move(r) = loc[r].capacity - loc[r].seen
      BY <1>1, <1>7, OnRoute DEF Move, Creations, Resizings
    <2> QED BY <1>3, <2>1, <2>2 DEF Recharge
  <1> QED BY <1>3, <1>5, <1>6, <1>7
(* The name a transaction has charged is that of a storage, or gone.       *)
Charging(q) == pc[q] \in ChargedSteps /\ call[q].op \in Creations \cup Handlers

LEMMA ChargedThere ==
  ASSUME IInv, EffectInv, PlaceInv, NEW q \in Requests, KnowsStorageOf(q), Charging(q)
  PROVE  StoragesNamed(storages, loc[q].storage) # {} \/ Gone(loc[q].storage)
  <1>1. pc[q] \in ActiveSteps
    BY DEF Charging, ChargedSteps, ActiveSteps, InsideSteps
  <1>2. call[q].op \in Ops /\ pc[q] \in Route(call[q].op)
    BY <1>1, InProgress
  <1>3. CASE call[q].op \in Creations
    <2>1. pc[q] \notin {"mark", "kubeDelete", "unsubscribe", "setCapacity", "kubeUpdate"}
      BY <1>2, <1>3, OnRoute DEF Creations, Resizings
    <2>2. Placed(q)
      BY <1>3, <2>1 DEF Charging, ChargedSteps, Placed
    <2> QED BY <2>2 DEF PlaceInv, KeepsPlace, LiveStoragesNamed
  <1>4. CASE call[q].op \in Handlers
    <2>1. Knowing(q)
      BY <1>1, <1>4 DEF Charging, ChargedSteps, Knowing
    <2>2. PICK i \in RowId : volumes[i] # NoRow /\ volumes[i].storage = loc[q].storage
      BY <2>1 DEF KnowsStorageOf
    <2> QED BY <2>2 DEF EffectInv, ForeignKey, StoragesNamed
  <1> QED BY <1>3, <1>4 DEF Charging

LEMMA OthersCharge ==
  ASSUME IInv, EffectInv, PlaceInv, ChargeInv, NEW r \in Requests, Step(r),
         NEW q \in Requests, q # r, KnowsStorageOf(q)
  PROVE  ChargesOwn(q)'
  <1>1. /\ pc'[q] = pc[q] /\ loc'[q] = loc[q] /\ call'[q] = call[q]
        /\ \A i \in RowId :
             /\ dirtyStorage'[i].tx = q <=> dirtyStorage[i].tx = q
             /\ dirtyStorage[i].tx = q => dirtyStorage'[i] = dirtyStorage[i] /\ storages'[i] = storages[i]
    BY Bystander
  <1>2. ChargesOwn(q) /\ UniqueNames
    BY DEF ChargeInv, EffectInv
  <1>3. ASSUME Charging(q), NEW i \in RowId
        PROVE  dirtyStorage[i].tx = q <=> i \in StoragesNamed(storages', loc[q].storage)
    <2>1. \A j \in RowId : dirtyStorage[j].tx = q <=> j \in StoragesNamed(storages, loc[q].storage)
      BY <1>2, <1>3 DEF ChargesOwn, Charging
    <2>2. CASE storages'[i] = storages[i]
      BY <2>1, <2>2 DEF StoragesNamed
    <2>3. CASE storages'[i] # storages[i]
      <3>1. Commits(r)
        BY <2>3, OnlyCommitsShow, Stepping
      <3>2. dirtyStorage[i].tx = r /\ storages'[i] = dirtyStorage[i].row
        BY <2>3, <3>1, CommitShows
      <3>3. dirtyStorage[i].tx \notin {q, NoTx} /\ dirtyStorage[i].row # NoRow
        BY <3>1, <3>2, CommitShows, IdsDistinct
      <3>4. dirtyStorage[i].row.name # loc[q].storage
        <4>1. CASE Gone(loc[q].storage)
          BY <3>3, <4>1 DEF Gone
        <4>2. ASSUME NEW j \in StoragesNamed(storages, loc[q].storage)
              PROVE  dirtyStorage[i].row.name # loc[q].storage
          <5>1. j \in RowId /\ j # i /\ storages[j] # NoRow /\ storages[j].name = loc[q].storage
            BY <2>1, <3>3, <4>2 DEF StoragesNamed
          <5> QED BY <1>2, <3>3, <5>1 DEF UniqueNames
        <4> QED BY <1>3, <4>1, <4>2, ChargedThere
      <3> QED BY <3>2, <3>3, <3>4 DEF StoragesNamed
    <2> QED BY <2>2, <2>3
  <1>4. ASSUME NEW i \in RowId, dirtyStorage'[i].tx = q
        PROVE  dirtyStorage'[i].row.used = IF call'[q].op = "deleteStorage" \/ storages'[i] = NoRow
                                           THEN 0 ELSE storages'[i].used + Move(q)
    BY <1>1, <1>2, <1>4 DEF ChargesOwn
  <1>5. Move(q)' = Move(q)
    BY <1>1 DEF Move
  <1> QED BY <1>1, <1>3, <1>4, <1>5 DEF ChargesOwn, Charging

(* One row of what ChargesOwn says of the request that takes the step.     *)
OwnCharge(r, i, s, d) ==
  d.used = IF call[r].op = "deleteStorage" \/ s = NoRow THEN 0 ELSE s.used + Move(r)

LEMMA ChargesWhat ==
  ASSUME IInv, EffectInv, NEW r \in Requests, Step(r), Charges(r), NEW i \in RowId
  PROVE  /\ dirtyStorage'[i].tx = r <=> i \in StoragesNamed(storages', loc'[r].storage)
         /\ dirtyStorage'[i].tx = r => OwnCharge(r, i, storages'[i], dirtyStorage'[i].row)
  <1>1. /\ StoreTypeOK /\ StorageVersionsFit /\ pc[r] \in Route(call[r].op) /\ call[r].op \in Ops
    BY Stepping
  <1>2. AddUsed(r, loc[r].storage, Move(r)) /\ loc'[r] = loc[r]
    BY ChargesMove
  <1>3. pc[r] \in {"reserve", "release", "recharge"}
    BY DEF Charges
  <1>4. dirtyStorage[i].tx # r /\ \A j \in RowId : StoragesSeen(r)[j] = storages[j]
    BY <1>1, <1>3, NothingCharged DEF ChargedSteps
  <1> DEFINE I == StoragesNamed(StoragesSeen(r), loc[r].storage)
  <1>5. i \in I <=> i \in StoragesNamed(storages, loc[r].storage)
    BY <1>4 DEF StoragesNamed
  <1>6. /\ storages' = storages
        /\ dirtyStorage'[i] = IF i \in I
                              THEN [tx |-> r, row |-> [StoragesSeen(r)[i] EXCEPT !.used = @ + Move(r)]]
                              ELSE dirtyStorage[i]
    BY <1>2 DEF AddUsed, WriteStorages, Written
  <1>7. dirtyStorage'[i].tx = r <=> i \in StoragesNamed(storages', loc'[r].storage)
    <2> HIDE DEF I
    <2>1. dirtyStorage'[i].tx = r <=> i \in I
      BY <1>4, <1>6
    <2> QED BY <1>2, <1>5, <1>6, <2>1
  <1>8. ASSUME i \in I
        PROVE  OwnCharge(r, i, storages'[i], dirtyStorage'[i].row)
    <2>1. storages[i] \in StorageRow /\ storages[i] # NoRow
      BY <1>1, <1>5, <1>8 DEF StoragesNamed, StoreTypeOK
    <2>2. call[r].op # "deleteStorage"
      BY <1>1, <1>3, OnRoute DEF Creations, Resizings
    <2>3. dirtyStorage'[i].row = [storages[i] EXCEPT !.used = @ + Move(r)]
      BY <1>4, <1>6, <1>8
    <2>4. dirtyStorage'[i].row.used = storages[i].used + Move(r)
      BY <2>1, <2>3 DEF StorageRow
    <2> QED BY <1>6, <2>1, <2>2, <2>4 DEF OwnCharge
  <1> HIDE DEF I
  <1>9. dirtyStorage'[i].tx = r => i \in I
    BY <1>4, <1>6
  <1> QED BY <1>7, <1>8, <1>9

LEMMA StorageWritten ==
  ASSUME IInv, EffectInv, NEW r \in Requests, Step(r), NEW i \in RowId, dirtyStorage'[i].tx = r,
         Resets(r) \/ InsertsStorage(r) \/ RewritesStorage(r) \/ Drops(r)
  PROVE  OwnCharge(r, i, storages'[i], dirtyStorage'[i].row)
  <1>1. /\ StoreTypeOK /\ RequestsTypeOK /\ StorageVersionsFit /\ StorageRowsFresh
        /\ pc[r] \in Route(call[r].op) /\ call[r].op \in Ops
    BY Stepping
  <1>2. pc[r] \in {"reset", "insertStorage", "writeStorage", "dropStorage"}
    BY DEF Resets, InsertsStorage, RewritesStorage, Drops
  <1>3. dirtyStorage[i].tx # r /\ StoragesSeen(r)[i] = storages[i]
    BY <1>1, <1>2, NothingCharged DEF ChargedSteps
  <1>4. call[r].op \in {"createStorage", "updateStorage", "deleteStorage"} => Move(r) = 0
    BY DEF Move, Creations, Resizings
  <1>5. \A s \in StorageRow : s.used \in Int /\ s # NoRow
    BY IdsDistinct DEF StorageRow
  <1>6. storages[i] \in StorageRow \cup {NoRow}
    BY <1>1 DEF StoreTypeOK
  <1>7. storages' = storages
    BY DEF Resets, ResetStorageRow, InsertsStorage, InsertStorageRow, RewritesStorage, RewriteStorageRow,
       Drops, DropStorageRow, WriteStorages
  <1>8. CASE Resets(r)
    <2>1. call[r].op = "createStorage"
      BY <1>1, <1>8, OnRoute DEF Resets
    <2> DEFINE I == StoragesNamed(StoragesSeen(r), call[r].storage)
    <2>2. dirtyStorage'[i] = IF i \in I
                             THEN [tx |-> r, row |-> [StoragesSeen(r)[i] EXCEPT !.size = call[r].capacity,
                                                                                !.deleted = FALSE]]
                             ELSE dirtyStorage[i]
      BY <1>8 DEF Resets, ResetStorageRow, WriteStorages, Written
    <2>3. i \in I => storages[i] # NoRow
      BY <1>3 DEF StoragesNamed
    <2> HIDE DEF I
    <2>4. dirtyStorage'[i].row = [storages[i] EXCEPT !.size = call[r].capacity, !.deleted = FALSE]
          /\ storages[i] # NoRow
      BY <1>3, <2>2, <2>3
    <2>5. \A s \in StorageRow : \A x : [s EXCEPT !.size = x, !.deleted = FALSE].used = s.used
      BY DEF StorageRow
    <2>6. dirtyStorage'[i].row.used = storages[i].used + 0
      BY <1>5, <1>6, <2>4, <2>5
    <2> QED BY <1>4, <1>7, <2>1, <2>4, <2>6 DEF OwnCharge
  <1>9. CASE InsertsStorage(r)
    <2>1. storages[r] = NoRow
      BY <1>1, <1>9 DEF InsertsStorage, StorageRowsFresh
    <2>2. dirtyStorage'[i] = IF i = r THEN [tx |-> r, row |-> [name |-> call[r].storage, size |-> call[r].capacity,
                                                             used |-> 0, deleted |-> FALSE]]
                             ELSE dirtyStorage[i]
      BY <1>9 DEF InsertsStorage, InsertStorageRow, WriteStorages, Written
    <2>3. i = r /\ dirtyStorage'[i].row.used = 0
      BY <1>3, <2>2
    <2> QED BY <1>7, <2>1, <2>3 DEF OwnCharge
  <1>10. CASE RewritesStorage(r)
    <2>1. call[r].op = "updateStorage"
      BY <1>1, <1>10, OnRoute DEF RewritesStorage
    <2>2. dirtyStorage'[i] = IF i \in Own(r)
                             THEN [tx |-> r, row |-> [StoragesSeen(r)[i] EXCEPT !.name = loc[r].storage,
                                                                                !.size = loc[r].capacity]]
                             ELSE dirtyStorage[i]
      BY <1>10 DEF RewritesStorage, RewriteStorageRow, Written
    <2>3. i \in Own(r) => storages[i] # NoRow
      BY <1>3 DEF StoragesNamed, Own
    <2>4. dirtyStorage'[i].row = [storages[i] EXCEPT !.name = loc[r].storage, !.size = loc[r].capacity]
          /\ storages[i] # NoRow
      BY <1>3, <2>2, <2>3
    <2>5. \A s \in StorageRow : \A x, y : [s EXCEPT !.name = x, !.size = y].used = s.used
      BY DEF StorageRow
    <2>6. dirtyStorage'[i].row.used = storages[i].used + 0
      BY <1>5, <1>6, <2>4, <2>5
    <2> QED BY <1>4, <1>7, <2>1, <2>4, <2>6 DEF OwnCharge
  <1>11. CASE Drops(r)
    <2>1. call[r].op = "deleteStorage"
      BY <1>1, <1>11, OnRoute DEF Drops
    <2> DEFINE I == StoragesNamed(StoragesSeen(r), loc[r].storage)
    <2>2. dirtyStorage'[i] = IF i \in I
                             THEN [tx |-> r, row |-> [StoragesSeen(r)[i] EXCEPT !.deleted = TRUE, !.used = 0]]
                             ELSE dirtyStorage[i]
      BY <1>11 DEF Drops, DropStorageRow, WriteStorages, Written
    <2>3. i \in I => storages[i] # NoRow
      BY <1>3 DEF StoragesNamed
    <2> HIDE DEF I
    <2>4. dirtyStorage'[i].row = [storages[i] EXCEPT !.deleted = TRUE, !.used = 0] /\ storages[i] # NoRow
      BY <1>3, <2>2, <2>3
    <2>5. \A s \in StorageRow : [s EXCEPT !.deleted = TRUE, !.used = 0].used = 0
      BY DEF StorageRow
    <2>6. dirtyStorage'[i].row.used = 0
      BY <1>6, <2>4, <2>5
    <2> QED BY <2>1, <2>6 DEF OwnCharge
  <1> QED BY <1>8, <1>9, <1>10, <1>11

LEMMA ChargesOwnStep ==
  ASSUME IInv, EffectInv, ChargeInv, NEW r \in Requests, Step(r)
  PROVE  ChargesOwn(r)'
  <1>1. /\ StoreTypeOK /\ RequestsTypeOK /\ StorageVersionsFit /\ StorageRowsFresh /\ DirtyFits
        /\ pc[r] \in Route(call[r].op) /\ pc[r] \in ActiveSteps /\ call[r].op \in Ops /\ call' = call
    BY Stepping
  <1>2. /\ Charging(r) => \A i \in RowId : dirtyStorage[i].tx = r <=> i \in StoragesNamed(storages, loc[r].storage)
        /\ \A i \in RowId : dirtyStorage[i].tx = r => OwnCharge(r, i, storages[i], dirtyStorage[i].row)
    BY DEF ChargeInv, ChargesOwn, Charging, OwnCharge
  <1>3. ASSUME Charging(r)' => \A i \in RowId :
                 dirtyStorage'[i].tx = r <=> i \in StoragesNamed(storages', loc'[r].storage),
               \A i \in RowId : dirtyStorage'[i].tx = r => OwnCharge(r, i, storages[i], dirtyStorage[i].row)'
        PROVE  ChargesOwn(r)'
    BY <1>3 DEF ChargesOwn, Charging, OwnCharge
  <1>4. ASSUME loc'[r] = loc[r]
        PROVE  \A i \in RowId : OwnCharge(r, i, storages'[i], dirtyStorage'[i].row)
                                  <=> OwnCharge(r, i, storages[i], dirtyStorage[i].row)'
    BY <1>1, <1>4 DEF OwnCharge, Move
  <1>5. \A step : /\ Go(r, step) => pc'[r] = step /\ loc'[r] = loc[r]
                  /\ MovesTo(r, step) => pc'[r] = step
                  /\ \A answer : Answer(r, answer) => pc'[r] = "done"
    BY <1>1 DEF Go, MovesTo, Answer, RequestsTypeOK
  <1>6. \A i \in RowId : pc[r] \notin ChargedSteps => dirtyStorage[i].tx # r
    BY <1>1, NothingCharged
  <1>7. ASSUME storages' = storages, dirtyStorage' = dirtyStorage, loc'[r] = loc[r],
               Charging(r)' => Charging(r)
        PROVE  ChargesOwn(r)'
    BY <1>2, <1>3, <1>4, <1>7
  <1>8. CASE Reads(r)
    <2>1. storages' = storages /\ dirtyStorage' = dirtyStorage
      BY <1>8 DEF Reads
    <2>2. pc[r] \in ChargedSteps \/ pc'[r] \in ChargedSteps => loc' = loc
      BY <1>5, <1>8 DEF Reads
    <2>3. Charging(r)' => Charging(r)
      <3>1. SUFFICES ASSUME pc'[r] \in ChargedSteps, call[r].op \in Creations \cup Handlers
                     PROVE  pc[r] \in ChargedSteps
        BY <1>1 DEF Charging
      <3>2. pc[r] \in {"kubeCreate", "kubeUpdate", "unsubscribe", "unsubscribeAll", "list", "kubeDelete"}
        BY <1>5, <1>8, <3>1 DEF Reads
      <3>3. pc[r] \notin {"unsubscribeAll", "list"}
        BY <1>1, <3>1, OnRoute DEF Creations, Handlers, Resizings, DeleteAlls
      <3> QED BY <3>2, <3>3 DEF ChargedSteps
    <2>4. CASE loc' = loc
      BY <1>7, <2>1, <2>3, <2>4
    <2>5. CASE pc[r] \notin ChargedSteps /\ pc'[r] \notin ChargedSteps
      BY <1>3, <1>6, <2>1, <2>5 DEF Charging
    <2> QED BY <2>2, <2>4, <2>5
  <1>9. CASE Refused(r) \/ Commits(r)
    <2>1. pc'[r] = "done"
      BY <1>5, <1>9 DEF Refused, Refuse, Commits
    <2>2. \A i \in RowId : dirtyStorage'[i].tx # r
      BY <1>1, <1>9, IdsDistinct DEF Refused, Refuse, RollbackTx, Commits, CommitTx, Released, StoreTypeOK, Clean
    <2> QED BY <1>3, <2>1, <2>2 DEF Charging, ChargedSteps
  <1>10. CASE Charges(r)
    <2>1. loc'[r] = loc[r]
      BY <1>10, ChargesMove
    <2>2. \A i \in RowId :
            /\ dirtyStorage'[i].tx = r <=> i \in StoragesNamed(storages', loc'[r].storage)
            /\ dirtyStorage'[i].tx = r => OwnCharge(r, i, storages'[i], dirtyStorage'[i].row)
      BY <1>10, ChargesWhat
    <2> QED BY <1>3, <1>4, <2>1, <2>2
  <1>11. CASE InsertsVolume(r) \/ Marks(r) \/ Resizes(r)
    <2>1. /\ storages' = storages /\ dirtyStorage' = dirtyStorage /\ loc'[r] = loc[r]
          /\ pc[r] \in {"insert", "mark", "markAll", "setCapacity"}
      BY <1>5, <1>11 DEF InsertsVolume, InsertVolumeRow, Marks, MarkVolumesDeleted, Resizes, SetVolumeCapacity,
         WriteVolumes
    <2>2. Charging(r)' => Charging(r)
      <3>1. pc[r] = "markAll" => call[r].op \notin Creations \cup Handlers
        BY <1>1, OnRoute DEF Creations, Handlers, Resizings, DeleteAlls
      <3> QED BY <1>1, <2>1, <3>1 DEF Charging, ChargedSteps
    <2> QED BY <1>7, <2>1, <2>2
  <1>12. CASE Resets(r) \/ InsertsStorage(r) \/ RewritesStorage(r) \/ Drops(r)
    <2>1. loc'[r] = loc[r] /\ pc[r] \in {"reset", "insertStorage", "writeStorage", "dropStorage"}
      BY <1>5, <1>12 DEF Resets, InsertsStorage, RewritesStorage, Drops
    <2>2. ~Charging(r)'
      BY <1>1, <2>1, OnRoute DEF Charging, Creations, Handlers, Resizings
    <2>3. \A i \in RowId : dirtyStorage'[i].tx = r => OwnCharge(r, i, storages'[i], dirtyStorage'[i].row)
      BY <1>12, StorageWritten
    <2> QED BY <1>3, <1>4, <2>1, <2>2, <2>3
  <1> QED BY <1>1, <1>8, <1>9, <1>10, <1>11, <1>12, StepPlan

LEMMA StepCharges ==
  ASSUME IInv, EffectInv, PlaceInv, KnowledgeInv \/ MemoryInv, ChargeInv, NEW r \in Requests, Step(r)
  PROVE  ChargeInv'
  <1>1. ASSUME NEW q \in Requests
        PROVE  ChargesOwn(q)'
    BY OthersCharge, ChargesOwnStep, KnowingIsEnough
  <1> QED BY <1>1 DEF ChargeInv

-----------------------------------------------------------------------------
(* The progress of requests is invariant.                                  *)

LEMMA AtRest ==
  ASSUME NEW q, UNCHANGED <<storages, volumes, dirtyStorage, dirtyVolume>>,
         pc'[q] = pc[q], loc'[q] = loc[q], call'[q] = call[q]
  PROVE  /\ KeepsPlace(q) => KeepsPlace(q)'
         /\ DropsEmpty(q) => DropsEmpty(q)'
         /\ KnowsVolume(q) => KnowsVolume(q)'
         /\ RemembersVolume(q) => RemembersVolume(q)'
         /\ WritesCharged(q) => WritesCharged(q)'
         /\ ChargesOwn(q) => ChargesOwn(q)'
  <1>1. KeepsPlace(q) => KeepsPlace(q)'
    BY DEF KeepsPlace, Placed, Gone, StoragesNamed, LiveStoragesNamed, Retired, Renames, NewName
  <1>2. DropsEmpty(q) => DropsEmpty(q)'
    BY DEF DropsEmpty, LiveVolumesOn
  <1>3. \A i : Handles(q, i) => Handles(q, i)'
    BY DEF Handles, RequestKey
  <1>4. KnowsVolume(q) => KnowsVolume(q)'
    BY <1>3 DEF KnowsVolume, Knowing
  <1>5. WritesCharged(q) => WritesCharged(q)'
    BY DEF WritesCharged
  <1>6. ChargesOwn(q) => ChargesOwn(q)'
    BY DEF ChargesOwn, Move, StoragesNamed
  <1>7. \A i : Remembers(q, i) => Remembers(q, i)'
    BY DEF Remembers, RequestKey
  <1>8. RemembersVolume(q) => RemembersVolume(q)'
    BY <1>7 DEF RemembersVolume, Knowing
  <1> QED BY <1>1, <1>2, <1>4, <1>5, <1>6, <1>8

(* A request outside any transaction has made no progress to speak of.     *)
LEMMA NotBegun ==
  ASSUME NEW q, pc'[q] \notin InsideSteps \cup {"subscribe"},
         pc'[q] = "begin" => call'[q].op \notin {"create", "directCreate"},
         pc'[q] = "pick" => call'[q].op \notin Handlers,
         \A i \in RowId : dirtyStorage'[i].tx # q /\ dirtyVolume'[i].tx # q
  PROVE  /\ KeepsPlace(q)' /\ DropsEmpty(q)' /\ KnowsVolume(q)' /\ RemembersVolume(q)'
         /\ WritesCharged(q)' /\ ChargesOwn(q)'
  <1>1. KeepsPlace(q)' /\ DropsEmpty(q)'
    BY DEF KeepsPlace, Placed, DropsEmpty, InsideSteps
  <1>2. KnowsVolume(q)' /\ RemembersVolume(q)'
    BY DEF KnowsVolume, RemembersVolume, Knowing, ActiveSteps, OutsideSteps
  <1>3. WritesCharged(q)' /\ ChargesOwn(q)'
    BY DEF WritesCharged, ChargesOwn, ChargedSteps, InsideSteps
  <1> QED BY <1>1, <1>2, <1>3

LEMMA InitProgress ==
  ASSUME Init
  PROVE  ProgressInv /\ MemoryInv
  <1>1. \A i \in RowId : dirtyStorage[i] = Clean /\ dirtyVolume[i] = Clean
    BY DEF Init, StoreInit
  <1>2. ASSUME NEW q \in Requests
        PROVE  /\ KeepsPlace(q) /\ DropsEmpty(q) /\ KnowsVolume(q) /\ RemembersVolume(q)
               /\ WritesCharged(q) /\ ChargesOwn(q)
    <2>1. pc[q] = "idle" /\ q # NoTx
      BY IdsDistinct DEF Init
    <2>2. KeepsPlace(q) /\ DropsEmpty(q) /\ KnowsVolume(q) /\ RemembersVolume(q)
      BY <2>1 DEF KeepsPlace, Placed, DropsEmpty, KnowsVolume, RemembersVolume, Knowing, ActiveSteps,
         OutsideSteps, InsideSteps
    <2>3. WritesCharged(q) /\ ChargesOwn(q)
      BY <1>1, <2>1 DEF WritesCharged, ChargesOwn, ChargedSteps, Clean
    <2> QED BY <2>2, <2>3
  <1> QED BY <1>2 DEF ProgressInv, PlaceInv, KnowledgeInv, MemoryInv, WritesInv, ChargeInv

(* A start, a crash and a step of nobody leave the others where they are.  *)
LEMMA NoStepProgress ==
  ASSUME IInv, EffectInv, [Next]_vars, ~\E r \in Requests : Step(r)
  PROVE  /\ PlaceInv => PlaceInv'
         /\ KnowledgeInv => KnowledgeInv'
         /\ MemoryInv => MemoryInv'
         /\ WritesInv => WritesInv'
         /\ ChargeInv => ChargeInv'
  <1>1. /\ RequestsTypeOK /\ StoreTypeOK /\ DirtyFits /\ StorageVersionsFit
    BY DEF IInv, TypeOK, EffectInv
  <1>2. ASSUME NEW q \in Requests
        PROVE  /\ KeepsPlace(q) => KeepsPlace(q)'
               /\ DropsEmpty(q) => DropsEmpty(q)'
               /\ KnowsVolume(q) => KnowsVolume(q)'
               /\ RemembersVolume(q) => RemembersVolume(q)'
               /\ WritesCharged(q) => WritesCharged(q)'
               /\ ChargesOwn(q) => ChargesOwn(q)'
    <2>1. CASE UNCHANGED vars
      <3>1. /\ UNCHANGED <<storages, volumes, dirtyStorage, dirtyVolume>>
            /\ pc'[q] = pc[q] /\ loc'[q] = loc[q] /\ call'[q] = call[q]
        BY <2>1 DEF vars, storeVars, requestVars
      <3> QED BY <3>1, AtRest
    <2>2. ASSUME NEW r \in Requests, NEW c \in Calls, Start(r, c)
          PROVE  /\ KeepsPlace(q) => KeepsPlace(q)'
                 /\ DropsEmpty(q) => DropsEmpty(q)'
                 /\ KnowsVolume(q) => KnowsVolume(q)'
                 /\ RemembersVolume(q) => RemembersVolume(q)'
                 /\ WritesCharged(q) => WritesCharged(q)'
                 /\ ChargesOwn(q) => ChargesOwn(q)'
      <3>1. UNCHANGED <<storages, volumes, dirtyStorage, dirtyVolume>> /\ pc[r] = "idle"
        BY <2>2 DEF Start, storeVars
      <3>2. CASE q # r
        <4>1. pc'[q] = pc[q] /\ loc'[q] = loc[q] /\ call'[q] = call[q]
          BY <1>1, <2>2, <3>2 DEF Start, RequestsTypeOK
        <4> QED BY <3>1, <4>1, AtRest
      <3>3. CASE q = r
        <4>1. pc'[q] = FirstStep(c) /\ call'[q] = c
          BY <1>1, <2>2, <3>3 DEF Start, RequestsTypeOK
        <4>2. /\ pc'[q] \in {"tariff", "pick", "begin"}
              /\ pc'[q] = "begin" => call'[q].op \notin {"create", "directCreate"}
              /\ pc'[q] = "pick" => call'[q].op \notin Handlers
          BY <4>1 DEF FirstStep, Handlers, Resizings
        <4>3. \A i \in RowId : dirtyStorage'[i].tx # q /\ dirtyVolume'[i].tx # q
          BY <1>1, <3>1, <3>3, NothingWritten, NothingCharged DEF WroteSteps, ChargedSteps
        <4>4. /\ KeepsPlace(q)' /\ DropsEmpty(q)' /\ KnowsVolume(q)' /\ RemembersVolume(q)'
              /\ WritesCharged(q)' /\ ChargesOwn(q)'
          BY <4>2, <4>3, NotBegun DEF InsideSteps
        <4> QED BY <4>4
      <3> QED BY <3>2, <3>3
    <2>3. CASE Crash
      <3>1. \A i \in RowId : dirtyStorage'[i] = Clean /\ dirtyVolume'[i] = Clean
        BY <2>3 DEF Crash, RollbackAll
      <3>2. pc'[q] \in {"idle", "done", "cut"}
        BY <1>1, <2>3 DEF RequestsTypeOK, Crash, Active
      <3>3. q # NoTx
        BY IdsDistinct
      <3>4. /\ KeepsPlace(q)' /\ DropsEmpty(q)' /\ KnowsVolume(q)' /\ RemembersVolume(q)'
            /\ WritesCharged(q)' /\ ChargesOwn(q)'
        BY <3>1, <3>2, <3>3, NotBegun DEF InsideSteps, Clean
      <3> QED BY <3>4
    <2> QED BY <2>1, <2>2, <2>3 DEF Next, Finished
  <1> QED BY <1>2 DEF PlaceInv, KnowledgeInv, MemoryInv, WritesInv, ChargeInv

(* A creation always has a storage for its volume, and a storage about to  *)
(* be deleted stays without volumes, if storages are kept apart.           *)
THEOREM PlacesKept == Spec /\ []StoragesApart => []PlaceInv
  <1>1. Init => PlaceInv
    BY InitProgress DEF ProgressInv
  <1>2. IInv /\ EffectInv /\ StoragesApart /\ PlaceInv /\ [Next]_vars => PlaceInv'
    BY StepPlace, NoStepProgress
  <1> QED BY <1>1, <1>2, Inductiveness, EffectInvariant, PTL DEF Spec

(* A deletion or resize knows its volume as it is until it commits, if     *)
(* volumes are kept apart.                                                 *)
THEOREM KnowledgeKept == Spec /\ []VolumesApart => []KnowledgeInv
  <1>1. Init => KnowledgeInv
    BY InitProgress DEF ProgressInv
  <1>2. IInv /\ EffectInv /\ VolumesApart /\ KnowledgeInv /\ [Next]_vars => KnowledgeInv'
    BY StepKnowledge, NoStepProgress
  <1> QED BY <1>1, <1>2, Inductiveness, EffectInvariant, PTL DEF Spec

(* A volume is written with the capacity that was charged for it.          *)
THEOREM WritesKept == Spec => []WritesInv
  <1>1. Init => WritesInv
    BY InitProgress DEF ProgressInv
  <1>2. IInv /\ EffectInv /\ WritesInv /\ [Next]_vars => WritesInv'
    BY StepWrites, NoStepProgress
  <1> QED BY <1>1, <1>2, Inductiveness, EffectInvariant, PTL DEF Spec

(* When requests about one volume overlap, a deletion or resize remembers  *)
(* of it what errs on one side, if resizes of it are to one size and no    *)
(* storage is renamed meanwhile.                                           *)
THEOREM MemoryKept == Spec /\ []LooselyApart => []MemoryInv
  <1>1. Init => MemoryInv
    BY InitProgress
  <1>2. IInv /\ EffectInv /\ LooselyApart /\ WritesInv /\ MemoryInv /\ [Next]_vars => MemoryInv'
    BY StepMemory, NoStepProgress
  <1> QED BY <1>1, <1>2, Inductiveness, EffectInvariant, WritesKept, PTL DEF Spec

(* Every transaction has moved "used" of its storage by what its volume    *)
(* takes or gives back, and of no other one.                               *)
THEOREM ProgressKept == Spec /\ []Apart => []ProgressInv
  <1>1. Init => ChargeInv
    BY InitProgress DEF ProgressInv
  <1>2. IInv /\ EffectInv /\ PlaceInv /\ KnowledgeInv /\ ChargeInv /\ [Next]_vars => ChargeInv'
    BY StepCharges, NoStepProgress
  <1>3. Apart => StoragesApart /\ VolumesApart
    BY DEF Apart
  <1>4. PlaceInv /\ KnowledgeInv /\ WritesInv /\ ChargeInv => ProgressInv
    BY DEF ProgressInv
  <1> QED
    BY <1>1, <1>2, <1>3, <1>4, Inductiveness, EffectInvariant, PlacesKept, KnowledgeKept, WritesKept, PTL
    DEF Spec

-----------------------------------------------------------------------------
(* What follows for the committed rows.                                    *)

LEMMA RowsChange ==
  ASSUME IInv, [Next]_vars
  PROVE  UNCHANGED <<storages, volumes>> \/ \E r \in Requests : Commits(r)
  <1>1. ASSUME NEW r \in Requests, Step(r)
        PROVE  Commits(r) \/ UNCHANGED <<storages, volumes>>
    BY <1>1, OnlyCommitsShow DEF IInv, TypeOK
  <1>2. ASSUME NEW r \in Requests, NEW c \in Calls, Start(r, c)
        PROVE  UNCHANGED <<storages, volumes>>
    BY <1>2 DEF Start, storeVars
  <1>3. Crash \/ UNCHANGED vars => UNCHANGED <<storages, volumes>>
    BY DEF Crash, RollbackAll, vars, storeVars
  <1> QED BY <1>1, <1>2, <1>3 DEF Next, Finished

(* The rows a commit of an update of a storage has written.                *)
LEMMA UpdateWrites ==
  ASSUME IInv, EffectInv, NEW r \in Requests, Commits(r), Renames(call[r]), call[r].op = "updateStorage"
  PROVE  /\ \A i \in RowId : storages[i] # NoRow /\ storages[i].name = call[r].storage => dirtyStorage[i].tx = r
         /\ \A i \in RowId : volumes[i] # NoRow /\ volumes[i].storage = call[r].storage => dirtyVolume[i].tx = r
  <1>1. Wrote(r) /\ UniqueNames /\ pc[r] = "commit"
    BY DEF EffectInv, WritesDone, Commits
  <1>2. PICK k \in RowId : dirtyStorage[k].tx = r
    BY <1>1 DEF Wrote
  <1>3. storages[k] # NoRow /\ storages[k].name = call[r].storage
    BY <1>2, CommitShows DEF StorageEffect, Creations, Resizings
  <1> QED BY <1>1, <1>2, <1>3 DEF Wrote, Renames, UniqueNames

LEMMA StaysOnLive ==
  ASSUME IInv, EffectInv, PlaceInv, LiveOnLiveStorage, NEW r \in Requests, Commits(r),
         NEW i \in RowId, Live(volumes[i])
  PROVE  \E j \in RowId : Live(storages'[j]) /\ storages'[j].name =
           IF Renames(call[r]) /\ volumes[i].storage = call[r].storage THEN NewName(call[r]) ELSE volumes[i].storage
  <1>1. PICK j \in RowId : Live(storages[j]) /\ storages[j].name = volumes[i].storage
    BY DEF LiveOnLiveStorage, LiveStoragesNamed, StoragesNamed, Live
  <1>2. ~(call[r].op = "deleteStorage" /\ storages[j].name = call[r].storage)
    BY <1>1 DEF PlaceInv, DropsEmpty, LiveVolumesOn, Commits
  <1>3. CASE Renames(call[r]) /\ storages[j].name = call[r].storage
    <2>1. call[r].op = "updateStorage" /\ storages[j] # NoRow
      BY <1>1, <1>3 DEF Renames, Live
    <2>2. dirtyStorage[j].tx = r
      BY <1>3, <2>1, UpdateWrites
    <2>3. storages'[j] = dirtyStorage[j].row /\ StorageEffect(r, call[r], j, storages[j], dirtyStorage[j].row)
          /\ dirtyStorage[j].row # NoRow
      BY <2>2, CommitShows, IdsDistinct
    <2>4. Live(storages'[j]) /\ storages'[j].name = NewName(call[r])
      BY <1>1, <2>1, <2>3 DEF StorageEffect, Live, Creations, Resizings
    <2> QED BY <1>1, <1>3, <2>4
  <1>4. CASE ~(Renames(call[r]) /\ storages[j].name = call[r].storage)
    <2>1. Live(storages'[j]) /\ storages'[j].name = storages[j].name
      BY <1>1, <1>2, <1>4, StorageStays
    <2> QED BY <1>1, <1>4, <2>1
  <1> QED BY <1>3, <1>4

(* A volume is created on a storage that is there.                         *)
LEMMA BornOnLive ==
  ASSUME IInv, EffectInv, PlaceInv, WritesInv, NEW r \in Requests, Commits(r), call[r].op \in Creations,
         volumes[r] = NoRow, dirtyVolume[r].tx = r
  PROVE  /\ volumes'[r].storage = loc[r].storage
         /\ \E j \in RowId : Live(storages'[j]) /\ storages'[j].name = loc[r].storage
  <1>1. r \in RowId /\ pc[r] = "commit"
    BY DEF RowId, Commits
  <1>2. volumes'[r] = dirtyVolume[r].row /\ dirtyVolume[r].row.storage = loc[r].storage
    BY <1>1, CommitShows DEF WritesInv, WritesCharged
  <1>3. Placed(r)
    BY <1>1 DEF Placed
  <1>4. ~Gone(loc[r].storage)
    <2>1. SUFFICES ASSUME Gone(loc[r].storage) PROVE FALSE
      OBVIOUS
    <2>2. r \in NewReferences(r)
      BY <1>1 DEF NewReferences
    <2>3. PICK k \in RowId : StoragesSeen(r)[k] # NoRow /\ StoragesSeen(r)[k].name = loc[r].storage
      BY <1>2, <2>2 DEF Commits, ReferencesExist, StoragesNamed
    <2>4. StoragesSeen(r)[k] = IF dirtyStorage[k].tx = r THEN dirtyStorage[k].row ELSE storages[k]
      BY DEF StoragesSeen, View
    <2> QED BY <2>1, <2>3, <2>4, IdsDistinct DEF Gone, StoragesNamed
  <1>5. PICK j \in RowId : Live(storages[j]) /\ storages[j].name = loc[r].storage
    BY <1>3, <1>4 DEF PlaceInv, KeepsPlace, LiveStoragesNamed, StoragesNamed, Live
  <1>6. Live(storages'[j]) /\ storages'[j].name = storages[j].name
    BY <1>5, StorageStays DEF Renames, Creations
  <1> QED BY <1>2, <1>5, <1>6

(* A live volume is on a live storage, across creations, renames and       *)
(* deletions of storages, if these keep apart from each other in time.     *)
THEOREM VolumesOnLiveStorages ==
  Spec /\ LiveOnLiveStorage /\ []StoragesApart => []LiveOnLiveStorage
  <1>1. ASSUME IInv, EffectInv, PlaceInv, WritesInv, LiveOnLiveStorage, NEW r \in Requests, Commits(r)
        PROVE  LiveOnLiveStorage'
    <2>1. SUFFICES ASSUME NEW i \in RowId, Live(volumes'[i])
                   PROVE  \E j \in RowId : Live(storages'[j]) /\ storages'[j].name = volumes'[i].storage
      BY DEF LiveOnLiveStorage, LiveStoragesNamed, StoragesNamed, Live
    <2>2. CASE Live(volumes[i]) /\ volumes'[i].storage = volumes[i].storage
      <3>1. ~(Renames(call[r]) /\ volumes[i].storage = call[r].storage)
        <4>1. ASSUME Renames(call[r]), volumes[i].storage = call[r].storage
              PROVE  FALSE
          <5>1. dirtyVolume[i].tx = r
            BY <1>1, <2>2, <4>1, UpdateWrites DEF Renames, Live
          <5>2. /\ volumes'[i] = dirtyVolume[i].row
                /\ VolumeEffect(r, call[r], i, volumes[i], dirtyVolume[i].row)
                /\ volumes[i] \in VolumeRow \cup {NoRow}
            BY <1>1, <5>1, CommitShows
          <5>3. volumes'[i] = [volumes[i] EXCEPT !.storage = NewName(call[r])]
            BY <4>1, <5>2 DEF VolumeEffect, Renames, Creations, Resizings, DeleteAlls
          <5>4. volumes'[i].storage = NewName(call[r])
            BY <2>2, <5>2, <5>3 DEF VolumeRow, Live
          <5> QED BY <2>2, <4>1, <5>4 DEF Renames
        <4> QED BY <4>1
      <3> QED BY <1>1, <2>2, <3>1, StaysOnLive
    <2>3. CASE call[r].op \in Creations /\ i = r /\ volumes[i] = NoRow /\ dirtyVolume[i].tx = r
      BY <1>1, <2>3, BornOnLive
    <2>4. CASE /\ call[r].op = "updateStorage" /\ Renames(call[r])
               /\ Live(volumes[i]) /\ volumes[i].storage = call[r].storage
               /\ volumes'[i].storage = NewName(call[r])
      BY <1>1, <2>4, StaysOnLive
    <2> QED BY <1>1, <2>1, <2>2, <2>3, <2>4, VolumeComesFrom
  <1>2. ASSUME UNCHANGED <<storages, volumes>>, LiveOnLiveStorage
        PROVE  LiveOnLiveStorage'
    BY <1>2 DEF LiveOnLiveStorage, LiveStoragesNamed, StoragesNamed
  <1>3. IInv /\ EffectInv /\ PlaceInv /\ WritesInv /\ LiveOnLiveStorage /\ [Next]_vars => LiveOnLiveStorage'
    BY <1>1, <1>2, RowsChange
  <1> QED BY <1>3, Inductiveness, EffectInvariant, PlacesKept, WritesKept, PTL DEF Spec

(* A volume that stays alive never gets smaller, although a resize compares *)
(* with a capacity it has read statements before it writes the new one, if  *)
(* requests about one volume keep apart in time.                           *)
THEOREM VolumesNeverShrink ==
  Spec /\ []VolumesApart => CapacityNeverShrinks
  <1>1. ASSUME IInv, EffectInv, WritesInv, KnowledgeInv, NEW r \in Requests, Commits(r),
               NEW i \in RowId, Live(volumes[i]), Live(volumes'[i])
        PROVE  volumes'[i].capacity >= volumes[i].capacity
    <2>1. /\ volumes[i] \in VolumeRow
          /\ volumes'[i] = IF dirtyVolume[i].tx = r THEN dirtyVolume[i].row ELSE volumes[i]
          /\ dirtyVolume[i].tx = r => VolumeEffect(r, call[r], i, volumes[i], dirtyVolume[i].row)
      BY <1>1, CommitShows DEF Live
    <2>2. volumes[i].capacity \in Int
      BY <2>1 DEF VolumeRow
    <2>3. CASE volumes'[i].capacity = volumes[i].capacity
      BY <2>2, <2>3
    <2>4. CASE dirtyVolume[i].tx = r /\ call[r].op \in Resizings
      <3>1. volumes'[i].capacity = loc[r].capacity
        BY <1>1, <2>1, <2>4 DEF WritesInv, WritesCharged
      <3>2. pc[r] = "commit" /\ Knowing(r)
        BY <1>1, <2>4 DEF Commits, Knowing, Handlers, ActiveSteps, InsideSteps
      <3>3. PICK k \in RowId : Handles(r, k)
        BY <1>1, <3>2 DEF KnowledgeInv, KnowsVolume, Knowing
      <3>4. k = i
        <4>1. Wrote(r)
          BY <1>1 DEF EffectInv, WritesDone
        <4>2. dirtyVolume[k].tx = r
          BY <3>2, <3>3 DEF Handles
        <4> QED BY <2>4, <3>2, <4>1, <4>2 DEF Wrote
      <3>5. loc[r].capacity >= volumes[i].capacity
        BY <2>4, <3>3, <3>4 DEF Handles, Resizings
      <3> QED BY <3>1, <3>5
    <2>5. CASE dirtyVolume[i].tx = r /\ call[r].op \notin Resizings
      <3>1. volumes[i] # NoRow
        BY <1>1 DEF Live
      <3>2. \/ volumes'[i] = [volumes[i] EXCEPT !.deleted = TRUE]
            \/ volumes'[i] = [volumes[i] EXCEPT !.storage = NewName(call[r])]
        BY <2>1, <2>5, <3>1 DEF VolumeEffect
      <3>3. volumes'[i].capacity = volumes[i].capacity
        BY <2>1, <3>2 DEF VolumeRow
      <3> QED BY <2>3, <3>3
    <2> QED BY <2>1, <2>3, <2>4, <2>5
  <1>2. IInv /\ EffectInv /\ WritesInv /\ KnowledgeInv /\ [Next]_vars =>
          [\A i \in RowId : Live(volumes[i]) /\ Live(volumes'[i])
             => volumes'[i].capacity >= volumes[i].capacity]_vars
    <2>1. ASSUME IInv, UNCHANGED <<storages, volumes>>, NEW i \in RowId, Live(volumes[i])
          PROVE  volumes'[i].capacity >= volumes[i].capacity
      <3>1. volumes[i].capacity \in Int
        BY <2>1 DEF IInv, TypeOK, StoreTypeOK, VolumeRow, Live
      <3> QED BY <2>1, <3>1
    <2> QED BY <1>1, <2>1, RowsChange
  <1> QED BY <1>2, Inductiveness, EffectInvariant, WritesKept, KnowledgeKept, PTL DEF Spec, CapacityNeverShrinks

-----------------------------------------------------------------------------
(* A commit moves the accounts by what it does to the volumes.             *)

LEMMA CommittedVolumes ==
  ASSUME IInv, EffectInv, NEW r \in Requests, Commits(r)
  PROVE  /\ \A i \in RowId : volumes[i] \in VolumeRow \cup {NoRow} /\ volumes'[i] \in VolumeRow \cup {NoRow}
         /\ \A i \in RowId : dirtyVolume[i].tx # r => volumes'[i] = volumes[i]
         /\ \A i \in RowId : dirtyStorage[i].tx # r => storages'[i] = storages[i]
  BY CommitShows

(* A creation, deletion or resize commits one volume row.                  *)
LEMMA OneVolume ==
  ASSUME IInv, EffectInv, NEW r \in Requests, Commits(r), call[r].op \in Creations \cup Handlers
  PROVE  \E k \in RowId : \A i \in RowId : dirtyVolume[i].tx = r <=> i = k
  <1>1. Wrote(r) /\ pc[r] = "commit"
    BY DEF EffectInv, WritesDone, Commits
  <1>2. CASE call[r].op \in Creations
    <2>1. r \in RowId /\ dirtyVolume[r].tx = r
      BY <1>1, <1>2 DEF Wrote, RowId
    <2>2. \A i \in RowId : dirtyVolume[i].tx = r => i = r
      BY <1>2, CommitShows DEF VolumeEffect, Creations, DeleteAlls, Resizings
    <2> QED BY <2>1, <2>2
  <1>3. CASE call[r].op \in Handlers
    BY <1>1, <1>3 DEF Wrote, Handlers
  <1> QED BY <1>2, <1>3

(* What the commit of r changes of the capacity on a storage.              *)
Gain(r, name) == IF name = loc[r].storage THEN Move(r) ELSE 0

LEMMA GainTyped ==
  ASSUME IInv, EffectInv, NEW r \in Requests, NEW name
  PROVE  Gain(r, name) \in Int
  <1>1. loc[r].capacity \in Int /\ loc[r].seen \in Int
    BY LocalFields DEF IInv, TypeOK
  <1> QED BY <1>1 DEF Gain, Move

LEMMA ShareOfNew ==
  ASSUME IInv, EffectInv, WritesInv, NEW r \in Requests, Commits(r), call[r].op \in Creations,
         NEW k \in RowId, dirtyVolume[k].tx = r, NEW name
  PROVE  Share(volumes', name, k) - Share(volumes, name, k) = Gain(r, name)
  <1> DEFINE v == volumes[k]
             w == volumes'[k]
  <1>1. /\ v \in VolumeRow \cup {NoRow} /\ w = dirtyVolume[k].row /\ w \in VolumeRow
        /\ VolumeEffect(r, call[r], k, v, w) /\ pc[r] = "commit"
    BY CommitShows DEF Commits
  <1>2. \A x \in VolumeRow : x.capacity \in Int /\ x # NoRow
    BY IdsDistinct DEF VolumeRow
  <1>3. /\ Share(volumes, name, k) = IF Live(v) /\ v.storage = name THEN v.capacity ELSE 0
        /\ Share(volumes', name, k) = IF Live(w) /\ w.storage = name THEN w.capacity ELSE 0
    BY DEF Share
  <1>4. dirtyVolume[k].row.capacity = w.capacity /\ dirtyVolume[k].row.storage = w.storage
    BY <1>1
  <1> HIDE DEF v, w
  <1>5. v = NoRow /\ Live(w)
    BY <1>1, <1>2 DEF VolumeEffect, Creations, DeleteAlls, Resizings, Live
  <1>6. w.capacity = loc[r].capacity /\ w.storage = loc[r].storage
    BY <1>4 DEF WritesInv, WritesCharged
  <1>7. Share(volumes, name, k) = 0
    BY <1>3, <1>5 DEF Live
  <1>8. Share(volumes', name, k) = IF loc[r].storage = name THEN w.capacity ELSE 0
    BY <1>3, <1>5, <1>6
  <1>9. Move(r) = w.capacity
    BY <1>6 DEF Move, Creations, Resizings
  <1> QED BY <1>1, <1>2, <1>7, <1>8, <1>9 DEF Gain

LEMMA ShareMoves ==
  ASSUME IInv, EffectInv, KnowledgeInv, WritesInv, NEW r \in Requests, Commits(r),
         call[r].op \in Creations \cup Handlers, NEW k \in RowId, dirtyVolume[k].tx = r,
         \A i \in RowId : dirtyVolume[i].tx = r <=> i = k, NEW name
  PROVE  Share(volumes', name, k) - Share(volumes, name, k) = Gain(r, name)
  <1> DEFINE v == volumes[k]
             w == volumes'[k]
  <1>1. /\ v \in VolumeRow \cup {NoRow} /\ w = dirtyVolume[k].row /\ w \in VolumeRow
        /\ VolumeEffect(r, call[r], k, v, w) /\ pc[r] = "commit"
    BY CommitShows DEF Commits
  <1>2. \A x \in VolumeRow : x.capacity \in Int /\ x # NoRow
    BY IdsDistinct DEF VolumeRow
  <1>3. /\ Share(volumes, name, k) = IF Live(v) /\ v.storage = name THEN v.capacity ELSE 0
        /\ Share(volumes', name, k) = IF Live(w) /\ w.storage = name THEN w.capacity ELSE 0
    BY DEF Share
  <1>4. dirtyVolume[k].row.capacity = w.capacity /\ dirtyVolume[k].row.storage = w.storage
    BY <1>1
  <1> HIDE DEF v, w
  <1>5. CASE call[r].op \in Creations
    BY <1>5, ShareOfNew
  <1>6. ASSUME call[r].op \in Handlers
        PROVE  /\ Handles(r, k) /\ Live(v) /\ v.storage = loc[r].storage /\ v \in VolumeRow
               /\ v.capacity \in Int /\ v # NoRow
    <2>1. Knowing(r)
      BY <1>1, <1>6 DEF Knowing, ActiveSteps, InsideSteps
    <2>2. PICK i \in RowId : Handles(r, i)
      BY <2>1 DEF KnowledgeInv, KnowsVolume, Knowing
    <2>3. i = k
      BY <1>1, <2>2 DEF Handles
    <2>4. Handles(r, k) /\ Live(v) /\ v.storage = loc[r].storage
      BY <2>2, <2>3 DEF Handles, v
    <2> QED BY <1>1, <1>2, <2>4 DEF Live
  <1>7. CASE call[r].op = "delete"
    <2>1. /\ Handles(r, k) /\ Live(v) /\ v.storage = loc[r].storage /\ v \in VolumeRow
          /\ v.capacity \in Int /\ v # NoRow
      BY <1>6, <1>7 DEF Handlers
    <2>2. w = [v EXCEPT !.deleted = TRUE]
      BY <1>1, <1>7, <2>1 DEF VolumeEffect, Creations, Resizings
    <2>3. ~Live(w)
      BY <2>1, <2>2 DEF VolumeRow, Live
    <2>4. loc[r].capacity = v.capacity
      BY <1>7, <2>1 DEF Handles, v
    <2>5. Move(r) = -loc[r].capacity
      BY <1>7 DEF Move, Creations, Resizings
    <2>6. Share(volumes', name, k) = 0
      BY <1>3, <2>3
    <2>7. Share(volumes, name, k) = IF loc[r].storage = name THEN v.capacity ELSE 0
      BY <1>3, <2>1
    <2> QED BY <2>1, <2>4, <2>5, <2>6, <2>7 DEF Gain
  <1>8. CASE call[r].op \in Resizings
    <2>1. /\ Handles(r, k) /\ Live(v) /\ v.storage = loc[r].storage /\ v \in VolumeRow
          /\ v.capacity \in Int /\ v # NoRow
      BY <1>6, <1>8 DEF Handlers
    <2>2. w = [v EXCEPT !.capacity = w.capacity]
      BY <1>1, <1>8, <2>1 DEF VolumeEffect, Creations, Resizings, DeleteAlls
    <2>3. w.deleted = v.deleted /\ w.storage = v.storage
      <3>1. \A x : [v EXCEPT !.capacity = x].deleted = v.deleted /\ [v EXCEPT !.capacity = x].storage = v.storage
        BY <2>1 DEF VolumeRow
      <3> QED BY <2>2, <3>1
    <2>4. Live(w)
      BY <1>1, <1>2, <2>1, <2>3 DEF Live
    <2>5. w.capacity = loc[r].capacity
      BY <1>4, <1>8 DEF WritesInv, WritesCharged
    <2>6. loc[r].seen = v.capacity
      BY <1>1, <1>8, <2>1 DEF Handles, Resizings, v
    <2>7. Move(r) = loc[r].capacity - loc[r].seen
      BY <1>8 DEF Move, Creations, Resizings
    <2>8. Share(volumes, name, k) = IF loc[r].storage = name THEN v.capacity ELSE 0
      BY <1>3, <2>1
    <2>9. Share(volumes', name, k) = IF loc[r].storage = name THEN w.capacity ELSE 0
      BY <1>3, <2>1, <2>3, <2>4
    <2>10. w.capacity \in Int
      BY <1>1, <1>2
    <2> QED BY <2>1, <2>5, <2>6, <2>7, <2>8, <2>9, <2>10 DEF Gain
  <1> QED BY <1>5, <1>7, <1>8 DEF Handlers

LEMMA ChargedMoves ==
  ASSUME IInv, EffectInv, KnowledgeInv, WritesInv, IsFiniteSet(RowId), NEW r \in Requests, Commits(r),
         call[r].op \in Creations \cup Handlers, NEW name
  PROVE  ChargedIn(volumes', name) = ChargedIn(volumes, name) + Gain(r, name)
  <1>1. PICK k \in RowId : \A i \in RowId : dirtyVolume[i].tx = r <=> i = k
    BY OneVolume
  <1>2. \A i \in RowId : volumes[i] \in VolumeRow \cup {NoRow} /\ volumes'[i] \in VolumeRow \cup {NoRow}
    BY CommittedVolumes
  <1>3. \A i \in RowId \ {k} : Share(volumes', name, i) = Share(volumes, name, i)
    BY <1>1, CommittedVolumes DEF Share
  <1>4. ChargedIn(volumes', name) = ChargedIn(volumes, name) + Share(volumes', name, k) - Share(volumes, name, k)
    BY <1>2, <1>3, ChargedChange
  <1>5. Share(volumes', name, k) - Share(volumes, name, k) = Gain(r, name)
    BY <1>1, ShareMoves
  <1>6. Share(volumes', name, k) \in Int /\ Share(volumes, name, k) \in Int /\ ChargedIn(volumes, name) \in Int
    BY <1>2, ShareTyped, ChargedTyped
  <1> QED BY <1>4, <1>5, <1>6

(* It moves the counter of that storage by as much.                        *)
LEMMA ServingCharges ==
  ASSUME IInv, EffectInv, ChargeInv, NEW r \in Requests, Commits(r),
         call[r].op \in Creations \cup Handlers, NEW i \in RowId, storages'[i] # NoRow
  PROVE  /\ storages[i] # NoRow /\ storages'[i].name = storages[i].name
         /\ storages'[i].used = storages[i].used + Gain(r, storages[i].name)
  <1>1. ChargesOwn(r) /\ pc[r] = "commit"
    BY DEF ChargeInv, Commits
  <1> DEFINE n == loc[r].storage
             s == storages[i]
             d == storages'[i]
  <1>2. dirtyStorage[i].tx = r <=> s # NoRow /\ s.name = n
    BY <1>1 DEF ChargesOwn, ChargedSteps, StoragesNamed
  <1>3. d = IF dirtyStorage[i].tx = r THEN dirtyStorage[i].row ELSE s
    BY CommitShows
  <1>4. s \in StorageRow \cup {NoRow}
    BY CommitShows
  <1>5. CASE dirtyStorage[i].tx = r
    <2>1. StorageEffect(r, call[r], i, s, d)
      BY <1>3, <1>5, CommitShows
    <2>2. d.name = s.name
      BY <2>1 DEF StorageEffect, Creations, Handlers, Resizings
    <2>3. d.used = s.used + Move(r)
      <3>1. call[r].op # "deleteStorage"
        BY DEF Creations, Handlers, Resizings
      <3> QED BY <1>1, <1>2, <1>3, <1>5, <3>1 DEF ChargesOwn
    <2>4. Gain(r, s.name) = Move(r)
      BY <1>2, <1>5 DEF Gain
    <2> QED BY <1>2, <1>5, <2>2, <2>3, <2>4
  <1>6. CASE dirtyStorage[i].tx # r
    <2>1. d = s /\ s # NoRow /\ s.name # n
      BY <1>2, <1>3, <1>6
    <2> HIDE DEF s, d, n
    <2>2. Gain(r, s.name) = 0
      BY <2>1 DEF Gain, n
    <2>3. s.used \in Int
      BY <1>4, <2>1 DEF StorageRow
    <2>4. d.used = s.used + Gain(r, s.name) /\ d.name = s.name
      BY <2>1, <2>2, <2>3
    <2> QED BY <2>1, <2>4 DEF s, d
  <1> QED BY <1>5, <1>6

LEMMA ServingAccounts ==
  ASSUME IInv, EffectInv, KnowledgeInv, WritesInv, ChargeInv, Accounted, IsFiniteSet(RowId),
         NEW r \in Requests, Commits(r), call[r].op \in Creations \cup Handlers,
         NEW i \in RowId, storages'[i] # NoRow
  PROVE  storages'[i].used = ChargedIn(volumes', storages'[i].name)
  <1>1. /\ storages[i] # NoRow /\ storages'[i].name = storages[i].name
        /\ storages'[i].used = storages[i].used + Gain(r, storages[i].name)
    BY ServingCharges
  <1>2. storages[i].used = ChargedIn(volumes, storages[i].name)
    BY <1>1 DEF Accounted, Charged
  <1>3. ChargedIn(volumes', storages[i].name) = ChargedIn(volumes, storages[i].name) + Gain(r, storages[i].name)
    BY ChargedMoves
  <1> QED BY <1>1, <1>2, <1>3

(* The commit of a request to a storage leaves counter and capacity alone, *)
(* or there is nothing on the storage.                                     *)
LeavesCharges(i) ==
  \/ /\ storages[i] # NoRow /\ storages'[i].used = storages[i].used
     /\ ChargedIn(volumes', storages'[i].name) = ChargedIn(volumes, storages[i].name)
  \/ storages'[i].used = 0 /\ ChargedIn(volumes', storages'[i].name) = 0

(* Creations and deletions of storages leave the volumes alone.            *)
LEMMA StorageCharges ==
  ASSUME IInv, EffectInv, PlaceInv, ChargeInv, IsFiniteSet(RowId), NEW r \in Requests, Commits(r),
         call[r].op \in {"createStorage", "deleteStorage"}, NEW i \in RowId, storages'[i] # NoRow
  PROVE  LeavesCharges(i)
  <1>1. /\ ChargesOwn(r) /\ DropsEmpty(r) /\ pc[r] = "commit" /\ UniqueNames /\ ForeignKey
    BY DEF ChargeInv, PlaceInv, Commits, EffectInv
  <1> DEFINE s == storages[i]
             d == storages'[i]
             sum(name) == ChargedIn(volumes, name)
  <1>2. /\ d = IF dirtyStorage[i].tx = r THEN dirtyStorage[i].row ELSE s
        /\ dirtyStorage[i].tx = r => StorageEffect(r, call[r], i, s, dirtyStorage[i].row)
        /\ s \in StorageRow \cup {NoRow} /\ NoRow \notin StorageRow
    BY CommitShows, IdsDistinct
  <1>3. ChargedIn(volumes', d.name) = sum(d.name)
    <2>1. ASSUME NEW k \in RowId
          PROVE  volumes'[k] = volumes[k]
      <3>1. dirtyVolume[k].tx = r => VolumeEffect(r, call[r], k, volumes[k], dirtyVolume[k].row)
        BY CommitShows
      <3>2. dirtyVolume[k].tx # r
        BY <3>1 DEF VolumeEffect, Creations, DeleteAlls, Resizings
      <3> QED BY <3>2, CommittedVolumes
    <2>2. \A k \in RowId : /\ Share(volumes', d.name, k) = Share(volumes, d.name, k)
                           /\ volumes[k] \in VolumeRow \cup {NoRow} /\ volumes'[k] \in VolumeRow \cup {NoRow}
      BY <2>1, CommittedVolumes DEF Share
    <2> HIDE DEF d
    <2> QED BY <2>2, ChargedSame
  <1>4. s # NoRow => s.used \in Int
    BY <1>2 DEF StorageRow
  <1>5. ASSUME LiveVolumesOn(volumes, d.name) = {}
        PROVE  sum(d.name) = 0
    BY <1>5, NothingToCharge, CommittedVolumes
  <1>6. CASE dirtyStorage[i].tx # r
    BY <1>2, <1>3, <1>6 DEF LeavesCharges
  <1>7. ASSUME dirtyStorage[i].tx = r
        PROVE  d.used = IF call[r].op = "deleteStorage" \/ s = NoRow THEN 0 ELSE s.used + Move(r)
    BY <1>1, <1>2, <1>7 DEF ChargesOwn
  <1>8. CASE dirtyStorage[i].tx = r /\ call[r].op = "createStorage" /\ s # NoRow
    <2>1. d.name = s.name
      BY <1>2, <1>8 DEF StorageEffect, Creations, Resizings
    <2>2. Move(r) = 0
      BY <1>8 DEF Move, Creations, Resizings
    <2> HIDE DEF s, d, sum
    <2>3. d.used = s.used
      BY <1>4, <1>7, <1>8, <2>2
    <2> QED BY <1>3, <1>8, <2>1, <2>3 DEF LeavesCharges, s, d, sum
  <1>9. CASE dirtyStorage[i].tx = r /\ call[r].op = "createStorage" /\ s = NoRow
    <2>1. LiveVolumesOn(volumes, d.name) = {}
      <3>1. ASSUME NEW v \in LiveVolumesOn(volumes, d.name)
            PROVE  FALSE
        <4>1. PICK j \in RowId : storages[j] # NoRow /\ storages[j].name = d.name
          BY <1>1, <3>1 DEF ForeignKey, LiveVolumesOn, StoragesNamed, Live
        <4>2. j # i /\ d = dirtyStorage[i].row
          BY <1>2, <1>9, <4>1
        <4> QED BY <1>1, <4>1, <4>2 DEF UniqueNames
      <3> QED BY <3>1
    <2> HIDE DEF s, d, sum
    <2>2. d.used = 0
      BY <1>7, <1>9
    <2> QED BY <1>3, <1>5, <2>1, <2>2 DEF LeavesCharges, d
  <1>10. CASE dirtyStorage[i].tx = r /\ call[r].op = "deleteStorage"
    <2>1. d.name = call[r].storage
      BY <1>2, <1>10 DEF StorageEffect, Creations, Resizings
    <2>2. LiveVolumesOn(volumes, d.name) = {}
      BY <1>1, <1>10, <2>1 DEF DropsEmpty
    <2> HIDE DEF s, d, sum
    <2>3. d.used = 0
      BY <1>7, <1>10
    <2> QED BY <1>3, <1>5, <2>2, <2>3 DEF LeavesCharges, d
  <1> QED BY <1>6, <1>8, <1>9, <1>10

(* A renamed storage takes its volumes with it, and meets no other ones    *)
(* under its new name.                                                     *)
LEMMA UpdateShares ==
  ASSUME IInv, EffectInv, NEW r \in Requests, Commits(r), call[r].op = "updateStorage",
         NEW i \in RowId, storages'[i] # NoRow, storages[i] # NoRow, NEW k \in RowId
  PROVE  Share(volumes', storages'[i].name, k) = Share(volumes, storages[i].name, k)
  <1>1. /\ UniqueNames /\ ForeignKey /\ Wrote(r) /\ pc[r] = "commit"
    BY DEF EffectInv, WritesDone, Commits
  <1> DEFINE old == call[r].storage
             new == NewName(call[r])
             v == volumes[k]
             w == volumes'[k]
  <1>2. /\ dirtyStorage[i].tx # r => storages'[i] = storages[i]
        /\ dirtyStorage[i].tx = r => /\ storages'[i] = dirtyStorage[i].row
                                     /\ storages[i].name = old /\ storages'[i].name = new
    BY CommitShows DEF StorageEffect, Creations, Resizings
  <1>3. v \in VolumeRow \cup {NoRow} /\ NoRow \notin VolumeRow
    BY CommitShows, IdsDistinct
  <1>4. CASE ~Renames(call[r])
    <2>1. old = new
      BY <1>4 DEF Renames
    <2>2. w = v
      <3>1. dirtyVolume[k].tx = r => VolumeEffect(r, call[r], k, v, dirtyVolume[k].row)
        BY CommitShows
      <3>2. dirtyVolume[k].tx # r
        BY <2>1, <3>1 DEF VolumeEffect, Creations, DeleteAlls, Resizings
      <3> QED BY <3>2, CommittedVolumes
    <2> QED BY <1>2, <2>1, <2>2 DEF Share
  <1>5. CASE Renames(call[r])
    <2>1. old # new
      BY <1>5 DEF Renames
    <2>2. PICK j \in RowId : dirtyStorage[j].tx = r
      BY <1>1 DEF Wrote
    <2>3. /\ storages[j] # NoRow /\ storages[j].name = old
          /\ dirtyStorage[j].row # NoRow /\ dirtyStorage[j].row.name = new
      BY <2>2, CommitShows, IdsDistinct DEF StorageEffect, Creations, Resizings
    <2>4. \A q \in RowId : storages[q] # NoRow => storages[q].name # new
      BY <1>1, <2>1, <2>3 DEF UniqueNames
    <2>5. CASE v # NoRow /\ v.storage = old
      <3>1. dirtyVolume[k].tx = r
        BY <1>5, <2>5, UpdateWrites
      <3>2. w = dirtyVolume[k].row /\ VolumeEffect(r, call[r], k, v, dirtyVolume[k].row)
        BY <3>1, CommitShows
      <3>3. w = [v EXCEPT !.storage = new]
        BY <2>5, <3>2 DEF VolumeEffect, Creations, DeleteAlls, Resizings
      <3>4. w.storage = new /\ w.deleted = v.deleted /\ w.capacity = v.capacity /\ w # NoRow
        <4>1. v \in VolumeRow
          BY <1>3, <2>5
        <4>2. w \in VolumeRow
          BY <3>1, <3>2, CommitShows
        <4> QED BY <1>3, <3>3, <4>1, <4>2 DEF VolumeRow
      <3>5. storages'[i].name = new <=> storages[i].name = old
        <4>1. storages[i].name = old => dirtyStorage[i].tx = r
          BY <1>5, UpdateWrites
        <4>2. storages[i].name # new
          BY <2>4
        <4> QED BY <1>2, <4>1, <4>2
      <3> QED BY <2>5, <3>4, <3>5 DEF Share, Live
    <2>6. CASE ~(v # NoRow /\ v.storage = old)
      <3>1. dirtyVolume[k].tx # r
        BY <2>6, CommitShows DEF VolumeEffect, Creations, DeleteAlls, Resizings
      <3>2. w = v
        BY <3>1, CommittedVolumes
      <3>3. v # NoRow => v.storage # new
        BY <1>1, <2>4 DEF ForeignKey, StoragesNamed
      <3> QED BY <1>2, <2>6, <3>2, <3>3 DEF Share, Live
    <2> QED BY <2>5, <2>6
  <1> QED BY <1>4, <1>5

LEMMA UpdateCharges ==
  ASSUME IInv, EffectInv, ChargeInv, IsFiniteSet(RowId), NEW r \in Requests, Commits(r),
         call[r].op = "updateStorage", NEW i \in RowId, storages'[i] # NoRow
  PROVE  LeavesCharges(i)
  <1> DEFINE s == storages[i]
             d == storages'[i]
  <1>1. /\ d = IF dirtyStorage[i].tx = r THEN dirtyStorage[i].row ELSE s
        /\ dirtyStorage[i].tx = r => StorageEffect(r, call[r], i, s, dirtyStorage[i].row)
        /\ s \in StorageRow \cup {NoRow}
    BY CommitShows
  <1>2. s # NoRow
    BY <1>1 DEF StorageEffect, Creations, Resizings
  <1>3. s.used \in Int
    BY <1>1, <1>2 DEF StorageRow
  <1>4. d.used = s.used
    <2>1. Move(r) = 0
      BY DEF Move, Creations, Resizings
    <2>2. dirtyStorage[i].tx = r => dirtyStorage[i].row.used = s.used + Move(r)
      BY <1>2 DEF ChargeInv, ChargesOwn
    <2> HIDE DEF s, d
    <2> QED BY <1>1, <1>3, <2>1, <2>2
  <1>5. ChargedIn(volumes', d.name) = ChargedIn(volumes, s.name)
    <2>1. \A k \in RowId : /\ Share(volumes', d.name, k) = Share(volumes, s.name, k)
                           /\ volumes[k] \in VolumeRow \cup {NoRow} /\ volumes'[k] \in VolumeRow \cup {NoRow}
      BY <1>2, UpdateShares, CommittedVolumes
    <2> HIDE DEF s, d
    <2> QED BY <2>1, ChargedSame
  <1> QED BY <1>2, <1>4, <1>5 DEF LeavesCharges

(* Every storage's counter is the capacity of its live volumes, although   *)
(* it is moved in statements of its own by amounts and under names read    *)
(* earlier: if requests about one volume, and storages, keep apart in time *)
(* and no request deletes all volumes of a user or namespace (these give   *)
(* no space back).                                                         *)
THEOREM AccountsBalance ==
  ASSUME IsFiniteSet(RowId), \A c \in Calls : c.op \notin DeleteAlls
  PROVE  Spec /\ Accounted /\ []Apart => []Accounted
  <1>1. ASSUME IInv, EffectInv, ProgressInv, Accounted, NEW r \in Requests, Commits(r)
        PROVE  Accounted'
    <2>1. r \in Active /\ call[r] \in Calls /\ call[r].op \in Ops
      BY <1>1, CommitEnds
    <2>2. call[r].op \in Creations \cup Handlers \cup {"createStorage", "deleteStorage", "updateStorage"}
      BY <2>1 DEF Ops, Creations, Handlers, Resizings, DeleteAlls
    <2>3. ASSUME NEW i \in RowId, storages'[i] # NoRow
          PROVE  storages'[i].used = ChargedIn(volumes', storages'[i].name)
      <3>1. PlaceInv /\ KnowledgeInv /\ WritesInv /\ ChargeInv
        BY <1>1 DEF ProgressInv
      <3>2. CASE call[r].op \in Creations \cup Handlers
        BY <1>1, <2>3, <3>1, <3>2, ServingAccounts
      <3>3. CASE LeavesCharges(i)
        BY <1>1, <3>3 DEF LeavesCharges, Accounted, Charged
      <3> QED BY <1>1, <2>2, <2>3, <3>1, <3>2, <3>3, StorageCharges, UpdateCharges
    <2> QED BY <2>3 DEF Accounted, Charged, ChargedIn, MapThenSumSet, MapThenFoldSet, LiveVolumesOn
  <1>2. ASSUME UNCHANGED <<storages, volumes>>, Accounted
        PROVE  Accounted'
    <2>1. ASSUME NEW i \in RowId, storages'[i] # NoRow
          PROVE  storages'[i].used = ChargedIn(volumes', storages'[i].name)
      BY <1>2, <2>1 DEF Accounted, Charged
    <2> QED BY <2>1 DEF Accounted, Charged, ChargedIn, MapThenSumSet, MapThenFoldSet, LiveVolumesOn
  <1>3. IInv /\ EffectInv /\ ProgressInv /\ Accounted /\ [Next]_vars => Accounted'
    BY <1>1, <1>2, RowsChange
  <1> QED BY <1>3, Inductiveness, EffectInvariant, ProgressKept, PTL DEF Spec

(* So what a storage has left is right.                                    *)
THEOREM FreeSpaceIsRight ==
  ASSUME IsFiniteSet(RowId), \A c \in Calls : c.op \notin DeleteAlls
  PROVE  Spec /\ Accounted /\ []Apart => []UsedIsCharged
  <1>1. Accounted => UsedIsCharged
    BY DEF Accounted, UsedIsCharged, Live
  <1>2. Spec /\ Accounted /\ []Apart => []Accounted
    BY AccountsBalance
  <1> QED BY <1>1, <1>2, PTL

-----------------------------------------------------------------------------
(* Space is never counted less than it is used.                            *)

(* What a request remembers of its volume leaves room for what its commit  *)
(* does to it.                                                             *)
LEMMA ShareCovers ==
  ASSUME IInv, EffectInv, DeletesOnce, MemoryInv, WritesInv, NEW r \in Requests, Commits(r),
         call[r].op \in Creations \cup Handlers, NEW k \in RowId, dirtyVolume[k].tx = r,
         \A i \in RowId : dirtyVolume[i].tx = r <=> i = k, NEW name
  PROVE  Share(volumes', name, k) - Share(volumes, name, k) <= Gain(r, name)
  <1> DEFINE v == volumes[k]
             w == volumes'[k]
  <1>1. /\ v \in VolumeRow \cup {NoRow} /\ w = dirtyVolume[k].row /\ w \in VolumeRow
        /\ VolumeEffect(r, call[r], k, v, w) /\ pc[r] = "commit"
    BY CommitShows DEF Commits
  <1>2. /\ \A x \in VolumeRow : x.capacity \in Int /\ x # NoRow
        /\ loc[r].capacity \in Int /\ loc[r].seen \in Int
    BY IdsDistinct, LocalFields DEF VolumeRow, IInv, TypeOK
  <1>3. /\ Share(volumes, name, k) = IF Live(v) /\ v.storage = name THEN v.capacity ELSE 0
        /\ Share(volumes', name, k) = IF Live(w) /\ w.storage = name THEN w.capacity ELSE 0
    BY DEF Share
  <1>4. dirtyVolume[k].row.capacity = w.capacity /\ dirtyVolume[k].row.storage = w.storage
    BY <1>1
  <1>5. call[r].op = "delete" => Live(v)
    BY <1>1 DEF DeletesOnce
  <1> HIDE DEF v, w
  <1>6. CASE call[r].op \in Creations
    <2>1. Share(volumes', name, k) - Share(volumes, name, k) = Gain(r, name)
      BY <1>6, ShareOfNew
    <2>2. Gain(r, name) \in Int
      BY <1>2, <1>6 DEF Gain, Move
    <2> QED BY <2>1, <2>2
  <1>7. ASSUME call[r].op \in Handlers
        PROVE  Remembers(r, k) /\ v.storage = loc[r].storage /\ v \in VolumeRow /\ v.capacity \in Int /\ v # NoRow
    <2>1. Knowing(r)
      BY <1>1, <1>7 DEF Knowing, ActiveSteps, InsideSteps
    <2>2. PICK i \in RowId : Remembers(r, i)
      BY <2>1 DEF MemoryInv, RemembersVolume
    <2>3. i = k
      BY <1>1, <2>2 DEF Remembers
    <2>4. Remembers(r, k) /\ v # NoRow /\ v.storage = loc[r].storage
      BY <2>2, <2>3 DEF Remembers, v
    <2> QED BY <1>1, <1>2, <2>4
  <1>8. CASE call[r].op = "delete"
    <2>1. Remembers(r, k) /\ v.storage = loc[r].storage /\ v \in VolumeRow /\ v.capacity \in Int /\ v # NoRow
      BY <1>7, <1>8 DEF Handlers
    <2>2. w = [v EXCEPT !.deleted = TRUE]
      BY <1>1, <1>8, <2>1 DEF VolumeEffect, Creations, Resizings
    <2>3. ~Live(w)
      BY <2>1, <2>2 DEF VolumeRow, Live
    <2>4. loc[r].capacity <= v.capacity
      BY <1>8, <2>1 DEF Remembers, v
    <2>5. Move(r) = -loc[r].capacity
      BY <1>8 DEF Move, Creations, Resizings
    <2>6. Share(volumes', name, k) = 0
      BY <1>3, <2>3
    <2>7. Share(volumes, name, k) = IF loc[r].storage = name THEN v.capacity ELSE 0
      BY <1>3, <1>5, <1>8, <2>1
    <2> QED BY <1>2, <2>1, <2>4, <2>5, <2>6, <2>7 DEF Gain
  <1>9. CASE call[r].op \in Resizings
    <2>1. Remembers(r, k) /\ v.storage = loc[r].storage /\ v \in VolumeRow /\ v.capacity \in Int /\ v # NoRow
      BY <1>7, <1>9 DEF Handlers
    <2>2. w = [v EXCEPT !.capacity = w.capacity]
      BY <1>1, <1>9, <2>1 DEF VolumeEffect, Creations, Resizings, DeleteAlls
    <2>3. w.deleted = v.deleted /\ w.storage = v.storage
      <3>1. \A x : [v EXCEPT !.capacity = x].deleted = v.deleted /\ [v EXCEPT !.capacity = x].storage = v.storage
        BY <2>1 DEF VolumeRow
      <3> QED BY <2>2, <3>1
    <2>4. Live(w) <=> Live(v)
      BY <1>1, <1>2, <2>1, <2>3 DEF Live
    <2>5. w.capacity = loc[r].capacity /\ w.capacity \in Int
      BY <1>1, <1>2, <1>4, <1>9 DEF WritesInv, WritesCharged
    <2>6. loc[r].seen <= v.capacity /\ v.capacity <= loc[r].capacity
      BY <1>1, <1>9, <2>1 DEF Remembers, Resizings, v
    <2>7. Move(r) = loc[r].capacity - loc[r].seen
      BY <1>9 DEF Move, Creations, Resizings
    <2>8. Share(volumes, name, k) = IF Live(v) /\ loc[r].storage = name THEN v.capacity ELSE 0
      BY <1>3, <2>1
    <2>9. Share(volumes', name, k) = IF Live(v) /\ loc[r].storage = name THEN w.capacity ELSE 0
      BY <1>3, <2>1, <2>3, <2>4
    <2> QED BY <1>2, <2>1, <2>5, <2>6, <2>7, <2>8, <2>9 DEF Gain
  <1> QED BY <1>6, <1>8, <1>9 DEF Handlers

LEMMA ChargedCovers ==
  ASSUME IInv, EffectInv, DeletesOnce, MemoryInv, WritesInv, IsFiniteSet(RowId), NEW r \in Requests, Commits(r),
         call[r].op \in Creations \cup Handlers, NEW name
  PROVE  ChargedIn(volumes', name) <= ChargedIn(volumes, name) + Gain(r, name)
  <1>1. PICK k \in RowId : \A i \in RowId : dirtyVolume[i].tx = r <=> i = k
    BY OneVolume
  <1>2. \A i \in RowId : volumes[i] \in VolumeRow \cup {NoRow} /\ volumes'[i] \in VolumeRow \cup {NoRow}
    BY CommittedVolumes
  <1>3. \A i \in RowId \ {k} : Share(volumes', name, i) = Share(volumes, name, i)
    BY <1>1, CommittedVolumes DEF Share
  <1>4. ChargedIn(volumes', name) = ChargedIn(volumes, name) + Share(volumes', name, k) - Share(volumes, name, k)
    BY <1>2, <1>3, ChargedChange
  <1>5. Share(volumes', name, k) - Share(volumes, name, k) <= Gain(r, name)
    BY <1>1, ShareCovers
  <1>6. Share(volumes', name, k) \in Int /\ Share(volumes, name, k) \in Int /\ ChargedIn(volumes, name) \in Int
    BY <1>2, ShareTyped, ChargedTyped
  <1>7. Gain(r, name) \in Int
    BY GainTyped
  <1> QED BY <1>4, <1>5, <1>6, <1>7

(* A request that deletes all volumes gives no space back, and takes none. *)
LEMMA DeleteAllCovers ==
  ASSUME IInv, EffectInv, NoNegatives, IsFiniteSet(RowId), NEW r \in Requests, Commits(r),
         call[r].op \in DeleteAlls, NEW i \in RowId, NEW name
  PROVE  storages'[i] = storages[i] /\ ChargedIn(volumes', name) <= ChargedIn(volumes, name)
  <1>1. storages'[i] = storages[i]
    <2>1. dirtyStorage[i].tx # r
      BY CommitShows DEF StorageEffect, DeleteAlls, Creations, Resizings
    <2> QED BY <2>1, CommittedVolumes
  <1>2. ASSUME NEW k \in RowId
        PROVE  Share(volumes', name, k) <= Share(volumes, name, k)
    <2>1. volumes[k] \in VolumeRow \cup {NoRow} /\ Share(volumes, name, k) \in Int
      BY CommittedVolumes, ShareTyped
    <2>2. CASE volumes'[k] = volumes[k]
      BY <2>1, <2>2 DEF Share
    <2>3. CASE volumes'[k] # volumes[k]
      <3>1. dirtyVolume[k].tx = r /\ volumes'[k] = dirtyVolume[k].row
        BY <2>3, CommitShows
      <3>2. VolumeEffect(r, call[r], k, volumes[k], dirtyVolume[k].row)
        BY <3>1, CommitShows
      <3>3. volumes[k] # NoRow /\ volumes'[k] = [volumes[k] EXCEPT !.deleted = TRUE]
        BY <3>1, <3>2 DEF VolumeEffect, Concerns, DeleteAlls, Creations, Resizings
      <3>4. ~Live(volumes'[k])
        BY <2>1, <3>3 DEF Live, VolumeRow
      <3>5. Share(volumes', name, k) = 0
        BY <3>4 DEF Share
      <3>6. Share(volumes, name, k) >= 0
        BY DEF Share, NoNegatives
      <3> QED BY <2>1, <3>5, <3>6
    <2> QED BY <2>2, <2>3
  <1>3. ChargedIn(volumes', name) <= ChargedIn(volumes, name)
    BY <1>2, CommittedVolumes, ChargedLess
  <1> QED BY <1>1, <1>3

(* A delete-all, which leaves the counters alone, owes them nothing.       *)
NothingOwed == NoNegatives \/ \A c \in Calls : c.op \notin DeleteAlls

LEMMA CommitCovers ==
  ASSUME IInv, EffectInv, DeletesOnce, PlaceInv, MemoryInv, WritesInv, ChargeInv, NothingOwed, Covered,
         IsFiniteSet(RowId), NEW r \in Requests, Commits(r), NEW i \in RowId, storages'[i] # NoRow
  PROVE  storages'[i].used >= ChargedIn(volumes', storages'[i].name)
  <1>1. r \in Active /\ call[r] \in Calls /\ call[r].op \in Ops
    BY CommitEnds
  <1>2. /\ storages[i] # NoRow => /\ storages[i].used >= ChargedIn(volumes, storages[i].name)
                                  /\ storages[i].used \in Int
        /\ \A name : ChargedIn(volumes, name) \in Int /\ ChargedIn(volumes', name) \in Int
    <2>1. storages[i] # NoRow => storages[i].used \in Int
      BY CommitShows DEF StorageRow
    <2>2. \A name : ChargedIn(volumes, name) \in Int /\ ChargedIn(volumes', name) \in Int
      BY CommittedVolumes, ChargedTyped
    <2> QED BY <2>1, <2>2 DEF Covered, Charged
  <1>3. CASE call[r].op \in Creations \cup Handlers
    <2> DEFINE name == storages[i].name
    <2>1. /\ storages[i] # NoRow /\ storages'[i].name = name
          /\ storages'[i].used = storages[i].used + Gain(r, name)
      BY <1>3, ServingCharges
    <2>2. ChargedIn(volumes', name) <= ChargedIn(volumes, name) + Gain(r, name) /\ Gain(r, name) \in Int
      BY <1>3, ChargedCovers, GainTyped
    <2>3. storages[i].used >= ChargedIn(volumes, name)
      BY <1>2, <2>1
    <2>4. storages[i].used \in Int /\ ChargedIn(volumes, name) \in Int /\ ChargedIn(volumes', name) \in Int
      BY <1>2, <2>1
    <2> HIDE DEF name
    <2>5. storages'[i].used >= ChargedIn(volumes', name)
      BY <2>1, <2>2, <2>3, <2>4
    <2> QED BY <2>1, <2>5
  <1>4. CASE call[r].op \in DeleteAlls
    <2>1. \A name : storages'[i] = storages[i] /\ ChargedIn(volumes', name) <= ChargedIn(volumes, name)
      BY <1>1, <1>4, DeleteAllCovers DEF NothingOwed
    <2> QED BY <1>2, <2>1
  <1>5. CASE LeavesCharges(i)
    BY <1>2, <1>5 DEF LeavesCharges
  <1> QED BY <1>1, <1>3, <1>4, <1>5, StorageCharges, UpdateCharges DEF Ops, Creations, Handlers, Resizings, DeleteAlls

(* Whatever requests overlap, no space is counted less than it is used:    *)
(* the counter of a storage covers its live volumes, although deletions    *)
(* and resizes move it by amounts and under a name they have read before   *)
(* others came in between, and a delete-all does not move it.  For this a  *)
(* volume has to be deleted once, resizes of one volume that overlap to be *)
(* to one size, and a storage not to be renamed or dropped meanwhile.      *)
THEOREM UsedCovers ==
  ASSUME IsFiniteSet(RowId)
  PROVE  Spec /\ Covered /\ [](StoragesApart /\ LooselyApart /\ DeletesOnce /\ NothingOwed)
           => [](CoverInv /\ UsedCoversVolumes)
  <1>1. Init => ChargeInv
    BY InitProgress DEF ProgressInv
  <1>2. IInv /\ EffectInv /\ PlaceInv /\ MemoryInv /\ ChargeInv /\ [Next]_vars => ChargeInv'
    BY StepCharges, NoStepProgress
  <1>3. ASSUME IInv, EffectInv, DeletesOnce, PlaceInv, MemoryInv, WritesInv, ChargeInv, NothingOwed, Covered,
               [Next]_vars
        PROVE  Covered'
    <2>1. SUFFICES ASSUME NEW i \in RowId, storages'[i] # NoRow
                   PROVE  storages'[i].used >= ChargedIn(volumes', storages'[i].name)
      BY DEF Covered, Charged, ChargedIn, MapThenSumSet, MapThenFoldSet, LiveVolumesOn
    <2>2. CASE UNCHANGED <<storages, volumes>>
      BY <1>3, <2>1, <2>2 DEF Covered, Charged
    <2> QED BY <1>3, <2>1, <2>2, CommitCovers, RowsChange
  <1>4. Covered => UsedCoversVolumes
    BY DEF Covered, UsedCoversVolumes, Live
  <1>5. DeletesOnce /\ PlaceInv /\ MemoryInv /\ WritesInv /\ ChargeInv /\ Covered => CoverInv
    BY DEF CoverInv
  <1> QED
    BY <1>1, <1>2, <1>3, <1>4, <1>5, Inductiveness, EffectInvariant, PlacesKept, MemoryKept, WritesKept, PTL
    DEF Spec

-----------------------------------------------------------------------------
(* One request at a time.                                                  *)

LEMMA StepAlone ==
  ASSUME IInv, EffectInv, Alone, NEW r \in Requests, Step(r)
  PROVE  Alone'
  <1>1. RequestsTypeOK /\ r \in Active
    BY Stepping DEF Active
  <1>2. \A q \in Active' : q \in Active
    BY <1>1, OthersStay DEF Active
  <1> QED BY <1>2 DEF Alone

LEMMA StartAlone ==
  ASSUME IsFiniteSet(Requests), MaxActive = 1, RequestsTypeOK, Alone,
         NEW r \in Requests, NEW c \in Calls, Start(r, c)
  PROVE  Alone'
  <1>1. IsFiniteSet(Active)
    BY FS_Subset DEF Active
  <1>2. Cardinality(Active) < 1 /\ Cardinality(Active) \in Nat
    BY <1>1, FS_CardinalityType DEF Start
  <1>3. Active = {}
    BY <1>1, <1>2, FS_EmptySet
  <1>4. \A q \in Requests : q # r => pc'[q] = pc[q]
    BY DEF Start, RequestsTypeOK
  <1> QED BY <1>3, <1>4 DEF Alone, Active

(* With room for one request there is never a second one.                  *)
THEOREM OneAtATime ==
  ASSUME IsFiniteSet(Requests), MaxActive = 1
  PROVE  Spec => []Alone
  <1>1. Init => Alone
    BY DEF Init, Alone, Active, ActiveSteps, OutsideSteps, InsideSteps
  <1>2. IInv /\ EffectInv /\ Alone /\ [Next]_vars => Alone'
    <2>1. SUFFICES ASSUME IInv, EffectInv, Alone, [Next]_vars
                   PROVE  Alone'
      OBVIOUS
    <2>2. RequestsTypeOK
      BY <2>1 DEF IInv, TypeOK
    <2>3. ASSUME Crash
          PROVE  Active' = {}
      BY <2>3 DEF Crash, Active, ActiveSteps, OutsideSteps, InsideSteps
    <2>4. ASSUME UNCHANGED vars
          PROVE  Alone'
      BY <2>1, <2>4 DEF vars, requestVars, Alone, Active
    <2> QED BY <2>1, <2>2, <2>3, <2>4, StepAlone, StartAlone DEF Next, Finished, Alone
  <1> QED BY <1>1, <1>2, Inductiveness, EffectInvariant, PTL DEF Spec

LEMMA AloneIsApart ==
  Alone => Apart
  BY DEF Alone, Apart, VolumesApart, StoragesApart

(* With one request at a time, and no request that deletes all volumes of  *)
(* a user or namespace, the accounts are right, whatever fails.            *)
THEOREM SerialAccounts ==
  ASSUME IsFiniteSet(Requests), IsFiniteSet(SeedRows), MaxActive = 1, \A c \in Calls : c.op \notin DeleteAlls
  PROVE  Spec /\ Accounted => [](Accounted /\ UsedIsCharged)
  <1>1. IsFiniteSet(RowId)
    BY FS_Union DEF RowId
  <1>2. Spec /\ Accounted /\ []Apart => []Accounted
    BY <1>1, AccountsBalance
  <1>3. Spec /\ Accounted /\ []Apart => []UsedIsCharged
    BY <1>1, FreeSpaceIsRight
  <1>4. Spec => []Alone
    BY OneAtATime
  <1> QED BY <1>2, <1>3, <1>4, AloneIsApart, PTL

-----------------------------------------------------------------------------
(* Room that was looked at is there when it is taken.                      *)

(* A creation has looked at the room of the storage it has chosen.         *)
LEMMA RoomFound ==
  ASSUME IInv, EffectInv, NEW r \in Requests, Step(r), call[r].op # "import", Choosing(r)'
  PROVE  \/ Choosing(r) /\ loc'[r] = loc[r]
         \/ \E i \in StoragesNamed(storages, loc'[r].storage) : HasRoom(storages[i], loc'[r].capacity)
  <1>1. /\ TypeOK /\ RequestsTypeOK /\ DirtyFits /\ LocalFit(r) /\ RouteFit(r) /\ LocalsTold(r)
        /\ pc[r] \in Route(call[r].op) /\ call[r].op \in Ops /\ call' = call
    BY Stepping
  <1>2. pc'[r] \in {"subscribe", "countLabel", "reserve", "begin"}
    BY DEF Choosing
  <1>3. call[r].op \in {"create", "directCreate"}
    <2>1. RouteFit(r)'
      BY <1>1, Stepping, StepTold
    <2>2. pc'[r] \in Route(call[r].op)
      BY <1>1, <1>2, <2>1 DEF RouteFit, ActiveSteps, OutsideSteps, InsideSteps
    <2> QED BY <1>1, <2>2, OnRoute DEF Choosing, Creations
  <1>4. \A step, l : /\ Go(r, step) => pc'[r] = step /\ loc'[r] = loc[r]
                     /\ GoWith(r, step, l) => pc'[r] = step /\ loc'[r] = l
                     /\ Answer(r, step) => pc'[r] = "done"
    BY <1>1 DEF Go, GoWith, Answer, RequestsTypeOK
  <1>5. ~\E answer : Refuse(r, answer)
    BY <1>2, <1>4 DEF Refuse
  <1>6. pc[r] \in {"tariff", "pick", "subscribe", "begin", "countLabel", "reserve", "insert", "kubeCreate", "commit"}
    BY <1>1, <1>3 DEF Route, Resizings, DeleteAlls
  <1>7. ~DbError(r) /\ ~PoolTimeout(r) /\ ~Commit(r)
    BY <1>2, <1>4, <1>5 DEF DbError, PoolTimeout, Commit
  <1>8. loc[r] \in LocType
    BY <1>1, LocalFields
  <1>9. CASE FetchTariff(r)
    <2>1. call[r].op = "create"
      BY <1>1, <1>3, <1>9, OnRoute DEF FetchTariff, Resizings
    <2>2. pc'[r] = "pick"
      BY <1>4, <1>5, <1>9, <2>1 DEF FetchTariff
    <2> QED BY <1>2, <2>2
  <1>10. CASE PickStorage(r)
    <2>1. PICK i \in Candidates(call[r], loc[r].capacity) :
            /\ HasRoom(storages[i], loc[r].capacity)
            /\ GoWith(r, IF call[r].op = "create" /\ call[r].tariff # FreeTariff THEN "subscribe" ELSE "begin",
                      [loc[r] EXCEPT !.storage = storages[i].name])
      BY <1>5, <1>10 DEF PickStorage
    <2>2. i \in RowId /\ storages[i] # NoRow
      BY <2>1 DEF Candidates, LiveStoragesNamed, StoragesNamed, LeastUsedStorages, Live
    <2>3. loc'[r].storage = storages[i].name /\ loc'[r].capacity = loc[r].capacity
      <3>1. loc'[r] = [loc[r] EXCEPT !.storage = storages[i].name]
        BY <1>4, <2>1
      <3> QED BY <1>8, <3>1 DEF LocType
    <2> QED BY <2>1, <2>2, <2>3 DEF StoragesNamed
  <1>11. CASE Subscribe(r) \/ CountLabel(r)
    BY <1>4, <1>5, <1>11 DEF Subscribe, CountLabel, Choosing
  <1>12. CASE ReserveSpace(r) \/ InsertVolume(r) \/ CreateInKube(r)
    BY <1>2, <1>3, <1>4, <1>5, <1>12 DEF ReserveSpace, InsertVolume, CreateInKube, CallKube
  <1>13. CASE Begin(r)
    BY <1>3, <1>4, <1>13 DEF Begin, Choosing
  <1>14. pc[r] # "findStorage"
    BY <1>6
  <1>15. ~FindStorage(r)
    BY <1>14 DEF FindStorage
  <1> QED BY <1>6, <1>7, <1>9, <1>10, <1>11, <1>12, <1>13, <1>15, StepAt

(* A resize has looked at the room its storage has for the difference.     *)
LEMMA RoomForResize ==
  ASSUME IInv, EffectInv, NEW r \in Requests, Step(r), pc'[r] = "recharge"
  PROVE  /\ loc'[r] = loc[r]
         /\ \E i \in StoragesNamed(storages, loc[r].storage) :
              ResizeFits(storages[i], loc[r].seen, loc[r].capacity)
  <1>1. /\ RequestsTypeOK /\ StorageVersionsFit /\ pc[r] \in Route(call[r].op) /\ call[r].op \in Ops /\ call' = call
    BY Stepping
  <1>2. \A step, l : /\ Go(r, step) => pc'[r] = step /\ loc'[r] = loc[r]
                     /\ GoWith(r, step, l) => pc'[r] = step /\ loc'[r] = l
                     /\ Answer(r, step) => pc'[r] = "done"
    BY <1>1 DEF Go, GoWith, Answer, RequestsTypeOK
  <1>3. ~\E answer : Refuse(r, answer)
    BY <1>2 DEF Refuse
  <1>4. CheckFit(r)
    <2>1. call[r].op \in Resizings
      <3>1. RouteFit(r)'
        BY Stepping, StepTold
      <3>2. "recharge" \in Route(call[r].op)
        BY <1>1, <3>1 DEF RouteFit, ActiveSteps, InsideSteps
      <3> QED BY <1>1, <3>2, OnRoute
    <2>2. pc[r] \in {"tariff", "begin", "select", "oldCapacity", "fit", "recharge", "setCapacity", "kubeUpdate",
                     "commit"}
      BY <1>1, <2>1 DEF Route, Resizings, DeleteAlls
    <2>3. ~DbError(r) /\ ~PoolTimeout(r) /\ ~Commit(r) /\ ~Begin(r)
      BY <1>2, <1>3, <2>1 DEF DbError, PoolTimeout, Commit, Begin, FirstInside, Resizings
    <2>4. ~FetchTariff(r) /\ ~PickStorage(r) /\ ~Subscribe(r) /\ ~FindStorage(r)
      <3>1. FetchTariff(r) => pc'[r] = "begin"
        BY <1>2, <1>3, <2>1 DEF FetchTariff, Resizings
      <3>2. pc[r] \notin {"pick", "subscribe", "findStorage"}
        BY <2>2
      <3> QED BY <3>1, <3>2 DEF PickStorage, Subscribe, FindStorage
    <2>5. /\ pc[r] = "select" => pc'[r] \in {"release", "oldCapacity"}
          /\ pc[r] \notin {"release", "mark", "kubeDelete", "unsubscribe"}
      <3>1. SelectVolume(r) => pc'[r] \in {"release", "oldCapacity"}
        <4>1. SelectVolume(r) => \E l : GoWith(r, "release", l) \/ GoWith(r, "oldCapacity", l)
          BY <1>3 DEF SelectVolume
        <4> QED BY <1>2, <4>1
      <3>2. pc[r] = "select" => SelectVolume(r)
        BY <2>3, StepAt DEF ReleaseSpace, MarkDeleted, DeleteFromKube, Unsubscribe
      <3> QED BY <2>2, <3>1, <3>2
    <2>6. ~ReadOldCapacity(r)
      BY <1>2 DEF ReadOldCapacity
    <2>7. ~Recharge(r) /\ ~SetCapacity(r)
      BY <1>2 DEF Recharge, SetCapacity
    <2>8. ~UpdateInKube(r)
      BY <1>2, <1>3 DEF UpdateInKube, CallKube
    <2> QED BY <2>2, <2>3, <2>4, <2>5, <2>6, <2>7, <2>8, StepAt
  <1>5. PICK i \in StoragesNamed(StoragesSeen(r), loc[r].storage) :
          ResizeFits(StoragesSeen(r)[i], loc[r].seen, loc[r].capacity) /\ Go(r, "recharge")
    BY <1>3, <1>4 DEF CheckFit
  <1>6. i \in StoragesNamed(storages, loc[r].storage) /\ StoragesSeen(r)[i] = storages[i]
    BY <1>1, <1>4, NothingCharged DEF StoragesNamed, CheckFit, ChargedSteps
  <1> QED BY <1>2, <1>5, <1>6

(* An update of a storage has read what is used of it.                     *)
LEMMA UsedRead ==
  ASSUME IInv, EffectInv, NEW r \in Requests, Step(r), pc'[r] \in {"countNewName", "writeStorage"}
  PROVE  \/ pc[r] = "countNewName" /\ loc'[r] = loc[r]
         \/ \E i \in StoragesNamed(storages, call[r].storage) : storages[i].used = loc'[r].seen
  <1>1. /\ TypeOK /\ RequestsTypeOK /\ StorageVersionsFit /\ DirtyFits /\ LocalFit(r) /\ RouteFit(r) /\ LocalsTold(r)
        /\ pc[r] \in Route(call[r].op) /\ call[r].op \in Ops /\ call' = call
    BY Stepping
  <1>2. \A step, l : /\ Go(r, step) => pc'[r] = step /\ loc'[r] = loc[r]
                     /\ GoWith(r, step, l) => pc'[r] = step /\ loc'[r] = l
                     /\ Answer(r, step) => pc'[r] = "done"
    BY <1>1 DEF Go, GoWith, Answer, RequestsTypeOK
  <1>3. ~\E answer : Refuse(r, answer)
    BY <1>2 DEF Refuse
  <1>4. call[r].op = "updateStorage"
    <2>1. RouteFit(r)'
      BY <1>1, Stepping, StepTold
    <2>2. pc'[r] \in Route(call[r].op)
      BY <1>1, <2>1 DEF RouteFit, ActiveSteps, OutsideSteps, InsideSteps
    <2> QED BY <1>1, <2>2, OnRoute
  <1>5. pc[r] \in {"begin", "findStorage", "countNewName", "writeStorage", "commit"}
    BY <1>1, <1>4 DEF Route, Resizings, DeleteAlls
  <1>6. ~DbError(r) /\ ~PoolTimeout(r) /\ ~Commit(r) /\ ~Begin(r) /\ ~WriteStorage(r)
    BY <1>2, <1>3, <1>4 DEF DbError, PoolTimeout, Commit, Begin, FirstInside, WriteStorage
  <1>7. CASE CountNewName(r)
    BY <1>2, <1>3, <1>7 DEF CountNewName
  <1>8. CASE FindStorage(r)
    <2>0. PICK i \in LiveStoragesNamed(StoragesSeen(r), call[r].storage) : \E step, name, size :
            GoWith(r, step, [loc[r] EXCEPT !.storage = name, !.capacity = size, !.seen = StoragesSeen(r)[i].used])
      BY <1>3, <1>4, <1>8 DEF FindStorage
    <2>1. PICK step, name, size :
            GoWith(r, step, [loc[r] EXCEPT !.storage = name, !.capacity = size, !.seen = StoragesSeen(r)[i].used])
      BY <2>0
    <2>2. i \in StoragesNamed(storages, call[r].storage) /\ StoragesSeen(r)[i] = storages[i]
      BY <1>1, <1>8, NothingCharged DEF LiveStoragesNamed, StoragesNamed, FindStorage, ChargedSteps
    <2>3. loc[r] \in LocType
      BY <1>1, LocalFields
    <2>4. loc'[r] = [loc[r] EXCEPT !.storage = name, !.capacity = size, !.seen = storages[i].used]
      BY <1>2, <2>1, <2>2
    <2>5. loc'[r].seen = storages[i].used
      BY <2>3, <2>4 DEF LocType
    <2> QED BY <2>2, <2>5
  <1> QED BY <1>5, <1>6, <1>7, <1>8, StepAt

LEMMA HoldsOwnRoom ==
  ASSUME IInv, EffectInv, RoomInv, NEW r \in Requests, Step(r), call[r].op # "import"
  PROVE  HoldsRoom(r)'
  <1>1. RequestsTypeOK /\ UniqueNames /\ call' = call /\ HoldsRoom(r)
    BY Stepping DEF RoomInv
  <1>2. ASSUME pc'[r] # "done"
        PROVE  storages' = storages
    <2>1. ~Commits(r)
      BY <1>1, <1>2 DEF Commits, Answer, RequestsTypeOK
    <2> QED BY <1>1, <2>1, OnlyCommitsShow
  <1>3. \A name : \A i, j \in StoragesNamed(storages, name) : i = j
    BY <1>1 DEF UniqueNames, StoragesNamed
  <1>4. ASSUME Choosing(r)', NEW i \in StoragesNamed(storages', loc'[r].storage)
        PROVE  HasRoom(storages'[i], loc'[r].capacity)
    <2>1. pc'[r] # "done"
      BY <1>4 DEF Choosing
    <2>2. storages' = storages /\ i \in StoragesNamed(storages, loc'[r].storage)
      BY <1>2, <1>4, <2>1 DEF StoragesNamed
    <2> QED BY <1>1, <1>3, <1>4, <2>2, RoomFound DEF HoldsRoom
  <1>5. ASSUME pc'[r] = "recharge", NEW i \in StoragesNamed(storages', loc'[r].storage)
        PROVE  ResizeFits(storages'[i], loc'[r].seen, loc'[r].capacity)
    <2>1. storages' = storages /\ loc'[r] = loc[r]
      BY <1>2, <1>5, RoomForResize
    <2>2. i \in StoragesNamed(storages, loc[r].storage)
      BY <1>5, <2>1 DEF StoragesNamed
    <2> QED BY <1>3, <1>5, <2>1, <2>2, RoomForResize
  <1>6. ASSUME pc'[r] \in {"countNewName", "writeStorage"}, NEW i \in StoragesNamed(storages', call'[r].storage)
        PROVE  storages'[i].used = loc'[r].seen
    <2>1. storages' = storages /\ i \in StoragesNamed(storages, call[r].storage)
      BY <1>1, <1>2, <1>6 DEF StoragesNamed
    <2> QED BY <1>1, <1>3, <1>6, <2>1, UsedRead DEF HoldsRoom
  <1> QED BY <1>4, <1>5, <1>6 DEF HoldsRoom, StoragesNamed

(* The row a request charges fits if the room it has looked at is there.   *)
LEMMA ChargeFits ==
  ASSUME IInv, EffectInv, KnowledgeInv, RoomInv, NoNegatives,
         NEW r \in Requests, Step(r), call[r].op # "import", Charges(r),
         NEW i \in StoragesNamed(storages, loc[r].storage), ~storages[i].deleted
  PROVE  storages[i].used + Move(r) <= storages[i].size
  <1>1. /\ StoreTypeOK /\ RequestsTypeOK /\ pc[r] \in Route(call[r].op) /\ call[r].op \in Ops /\ HoldsRoom(r)
    BY Stepping DEF RoomInv
  <1>2. storages[i] \in StorageRow /\ loc[r].capacity \in Int /\ loc[r].seen \in Int
    BY <1>1, LocalFields DEF StoreTypeOK, StoragesNamed
  <1>3. storages[i].used \in Int /\ storages[i].size \in Int /\ storages[i].used <= storages[i].size
    BY <1>2 DEF RoomInv, Fitting, FitsIn, StorageRow, Live, StoragesNamed
  <1>4. CASE pc[r] = "reserve"
    <2>1. call[r].op \in Creations /\ HasRoom(storages[i], loc[r].capacity)
      BY <1>1, <1>4, OnRoute DEF HoldsRoom, Choosing
    <2>2. Move(r) = loc[r].capacity
      BY <2>1 DEF Move, Creations, Resizings
    <2> QED BY <1>2, <1>3, <2>1, <2>2 DEF HasRoom
  <1>5. CASE pc[r] = "recharge"
    <2>1. call[r].op \in Resizings /\ ResizeFits(storages[i], loc[r].seen, loc[r].capacity)
      BY <1>1, <1>5, OnRoute DEF HoldsRoom
    <2>2. Move(r) = loc[r].capacity - loc[r].seen
      BY <2>1 DEF Move, Creations, Resizings
    <2> QED BY <1>2, <1>3, <2>1, <2>2 DEF ResizeFits
  <1>6. CASE pc[r] = "release"
    <2>1. call[r].op = "delete"
      BY <1>1, <1>6, OnRoute
    <2>2. Move(r) = -loc[r].capacity
      BY <2>1 DEF Move, Creations, Resizings
    <2>3. PICK k \in RowId : Handles(r, k)
      BY <1>6, <2>1 DEF KnowledgeInv, KnowsVolume, Knowing, Handlers, ActiveSteps, InsideSteps
    <2>4. loc[r].capacity >= 0
      BY <2>1, <2>3 DEF Handles, NoNegatives
    <2> QED BY <1>2, <1>3, <2>2, <2>4
  <1> QED BY <1>4, <1>5, <1>6 DEF Charges

LEMMA WritesOwnFit ==
  ASSUME IInv, EffectInv, KnowledgeInv, RoomInv, NoResets, NoNegatives,
         \A c \in Calls : c.op = "createStorage" => c.capacity >= 0,
         NEW r \in Requests, Step(r), call[r].op # "import"
  PROVE  WritesFit(r)'
  <1>1. SUFFICES ASSUME NEW i \in RowId, dirtyStorage'[i].tx = r, Live(dirtyStorage'[i].row)
                 PROVE  FitsIn(dirtyStorage'[i].row)
    BY DEF WritesFit, Live
  <1>2. /\ StoreTypeOK /\ RequestsTypeOK /\ StorageVersionsFit
        /\ pc[r] \in Route(call[r].op) /\ call[r].op \in Ops /\ call[r] \in Calls /\ WritesFit(r)
    BY Stepping DEF RoomInv
  <1>3. CASE dirtyStorage'[i] = dirtyStorage[i]
    BY <1>1, <1>2, <1>3 DEF WritesFit
  <1>4. storages[i] \in StorageRow \cup {NoRow} /\ \A s \in StorageRow : s.used \in Int /\ s.size \in Int
    BY <1>2 DEF StoreTypeOK, StorageRow
  <1>5. pc[r] \notin ChargedSteps => dirtyStorage[i].tx # r /\ StoragesSeen(r)[i] = storages[i]
    BY <1>2, NothingCharged
  <1>6. CASE Refused(r) \/ Commits(r)
    BY <1>1, <1>2, <1>6, IdsDistinct DEF Refused, Refuse, RollbackTx, Commits, CommitTx, Released, StoreTypeOK, Clean
  <1>7. CASE Charges(r)
    <2>1. AddUsed(r, loc[r].storage, Move(r)) /\ pc[r] \in {"reserve", "release", "recharge"}
      BY <1>7, ChargesMove DEF Charges
    <2> DEFINE I == StoragesNamed(StoragesSeen(r), loc[r].storage)
    <2>2. dirtyStorage'[i] = IF i \in I THEN [tx |-> r, row |-> [StoragesSeen(r)[i] EXCEPT !.used = @ + Move(r)]]
                                        ELSE dirtyStorage[i]
      BY <2>1 DEF AddUsed, WriteStorages, Written
    <2>3. StoragesSeen(r)[i] = storages[i]
      BY <1>5, <2>1 DEF ChargedSteps
    <2>4. i \in I <=> i \in StoragesNamed(storages, loc[r].storage)
      BY <2>3 DEF StoragesNamed
    <2>5. CASE i \in I
      <3>1. storages[i] \in StorageRow
        BY <1>4, <2>4, <2>5 DEF StoragesNamed
      <3>2. dirtyStorage'[i].row = [storages[i] EXCEPT !.used = @ + Move(r)]
        BY <2>2, <2>3, <2>5
      <3>3. /\ dirtyStorage'[i].row.deleted = storages[i].deleted
            /\ dirtyStorage'[i].row.size = storages[i].size
            /\ dirtyStorage'[i].row.used = storages[i].used + Move(r)
        BY <3>1, <3>2 DEF StorageRow
      <3> QED BY <1>1, <1>7, <2>4, <2>5, <3>3, ChargeFits DEF Live, FitsIn
    <2> QED BY <1>3, <2>2, <2>5
  <1>8. CASE Reads(r) \/ InsertsVolume(r) \/ Marks(r) \/ Resizes(r)
    BY <1>3, <1>8 DEF Reads, InsertsVolume, InsertVolumeRow, Marks, MarkVolumesDeleted, Resizes,
       SetVolumeCapacity, WriteVolumes
  <1>9. ~Resets(r)
    BY DEF NoResets, Resets
  <1>10. CASE InsertsStorage(r)
    <2>1. call[r].op = "createStorage" /\ call[r].capacity >= 0
      BY <1>2, <1>10, OnRoute DEF InsertsStorage
    <2>2. dirtyStorage'[i] = IF i = r THEN [tx |-> r, row |-> [name |-> call[r].storage, size |-> call[r].capacity,
                                                             used |-> 0, deleted |-> FALSE]]
                             ELSE dirtyStorage[i]
      BY <1>10 DEF InsertsStorage, InsertStorageRow, WriteStorages, Written
    <2> DEFINE d == [name |-> call[r].storage, size |-> call[r].capacity, used |-> 0, deleted |-> FALSE]
    <2>3. d.used = 0 /\ d.size = call[r].capacity
      OBVIOUS
    <2> HIDE DEF d
    <2>4. dirtyStorage'[i] = IF i = r THEN [tx |-> r, row |-> d] ELSE dirtyStorage[i]
      BY <2>2 DEF d
    <2>5. dirtyStorage'[i] = dirtyStorage[i] \/ dirtyStorage'[i].row = d
      BY <2>4
    <2> QED BY <1>3, <2>1, <2>3, <2>5 DEF FitsIn
  <1>11. CASE RewritesStorage(r)
    <2>1. pc[r] = "writeStorage"
      BY <1>11 DEF RewritesStorage
    <2>2. dirtyStorage'[i] = IF i \in Own(r)
                             THEN [tx |-> r, row |-> [StoragesSeen(r)[i] EXCEPT !.name = loc[r].storage,
                                                                                !.size = loc[r].capacity]]
                             ELSE dirtyStorage[i]
      BY <1>11 DEF RewritesStorage, RewriteStorageRow, Written
    <2>3. StoragesSeen(r)[i] = storages[i]
      BY <1>5, <2>1 DEF ChargedSteps
    <2>4. loc[r].seen <= loc[r].capacity
      <3>1. \A step : /\ Go(r, step) => pc'[r] = step
                      /\ Answer(r, step) => pc'[r] = "done"
        BY <1>2 DEF Go, Answer, RequestsTypeOK
      <3>2. ~\E answer : Refuse(r, answer)
        BY <1>11, <3>1 DEF RewritesStorage, Refuse
      <3>3. ~DbError(r)
        BY <3>2 DEF DbError
      <3>4. WriteStorage(r)
        BY <2>1, <3>3, StepAt DEF CountNewName
      <3>5. loc[r].seen \in Int /\ loc[r].capacity \in Int
        BY <1>2, LocalFields
      <3> QED BY <3>2, <3>4, <3>5 DEF WriteStorage, QuotaExceeded
    <2>5. CASE i \in Own(r)
      <3>1. i \in StoragesNamed(storages, call[r].storage)
        BY <2>3, <2>5 DEF Own, StoragesNamed
      <3>2. storages[i] \in StorageRow /\ storages[i].used = loc[r].seen
        BY <1>4, <2>1, <3>1 DEF RoomInv, HoldsRoom, StoragesNamed
      <3>3. dirtyStorage'[i].row = [storages[i] EXCEPT !.name = loc[r].storage, !.size = loc[r].capacity]
        BY <2>2, <2>3, <2>5
      <3>4. dirtyStorage'[i].row.used = loc[r].seen /\ dirtyStorage'[i].row.size = loc[r].capacity
        BY <3>2, <3>3 DEF StorageRow
      <3> QED BY <2>4, <3>4 DEF FitsIn
    <2> QED BY <1>3, <2>2, <2>5
  <1>12. CASE Drops(r)
    <2> DEFINE I == StoragesNamed(StoragesSeen(r), loc[r].storage)
    <2>1. dirtyStorage'[i] = IF i \in I
                             THEN [tx |-> r, row |-> [StoragesSeen(r)[i] EXCEPT !.deleted = TRUE, !.used = 0]]
                             ELSE dirtyStorage[i]
      BY <1>12 DEF Drops, DropStorageRow, WriteStorages, Written
    <2>2. StoragesSeen(r)[i] = storages[i]
      BY <1>5, <1>12 DEF Drops, ChargedSteps
    <2>3. i \in I => storages[i] \in StorageRow
      BY <1>4, <2>2 DEF StoragesNamed
    <2>4. i \in I => dirtyStorage'[i].row = [storages[i] EXCEPT !.deleted = TRUE, !.used = 0]
      BY <2>1, <2>2
    <2> HIDE DEF I
    <2>5. i \notin I
      BY <1>1, <2>3, <2>4 DEF Live, StorageRow
    <2> QED BY <1>3, <2>1, <2>5
  <1> QED BY <1>2, <1>6, <1>7, <1>8, <1>9, <1>10, <1>11, <1>12, StepPlan

(* A request that is not in progress holds nothing.                        *)
LEMMA NoClaims ==
  ASSUME IInv, EffectInv, NEW q \in Requests, q \notin Active
  PROVE  HoldsRoom(q) /\ WritesFit(q) /\ \A i \in RowId : dirtyStorage[i].tx # q
  <1>1. pc[q] \notin ActiveSteps
    BY DEF Active
  <1>2. \A i \in RowId : dirtyStorage[i].tx # q
    BY <1>1, IdsDistinct DEF EffectInv, StorageVersionsFit, ChargedSteps, ActiveSteps, InsideSteps
  <1> QED BY <1>1, <1>2 DEF HoldsRoom, Choosing, WritesFit, ActiveSteps, OutsideSteps, InsideSteps

LEMMA StepRoom ==
  ASSUME IInv, EffectInv, KnowledgeInv, RoomInv, Alone, NoResets, NoNegatives,
         \A c \in Calls : c.op # "import" /\ (c.op = "createStorage" => c.capacity >= 0),
         NEW r \in Requests, Step(r)
  PROVE  RoomInv'
  <1>1. r \in Active /\ call[r].op # "import" /\ RequestsTypeOK
    BY Stepping DEF Active
  <1>2. HoldsRoom(r)' /\ WritesFit(r)'
    BY <1>1, HoldsOwnRoom, WritesOwnFit
  <1>3. ASSUME NEW q \in Requests, q # r
        PROVE  HoldsRoom(q)' /\ WritesFit(q)'
    <2>1. q \notin Active
      BY <1>1, <1>3 DEF Alone
    <2>2. pc'[q] \notin ActiveSteps /\ \A i \in RowId : dirtyStorage'[i].tx # q
      BY <1>3, <2>1, Bystander, NoClaims DEF Active
    <2> QED BY <2>2 DEF HoldsRoom, Choosing, WritesFit, ActiveSteps, OutsideSteps, InsideSteps
  <1>4. Fitting'
    <2>1. CASE UNCHANGED storages
      BY <2>1 DEF RoomInv, Fitting, Live, FitsIn
    <2>2. CASE Commits(r)
      BY <2>2, CommitShows DEF RoomInv, Fitting, WritesFit, Live
    <2> QED BY <1>1, <2>1, <2>2, OnlyCommitsShow
  <1> QED BY <1>2, <1>3, <1>4 DEF RoomInv

LEMMA NoStepRoom ==
  ASSUME IInv, EffectInv, RoomInv, [Next]_vars, ~\E r \in Requests : Step(r)
  PROVE  RoomInv'
  <1>1. RequestsTypeOK
    BY DEF IInv, TypeOK
  <1>2. ASSUME NEW r \in Requests, NEW c \in Calls, Start(r, c)
        PROVE  RoomInv'
    <2>1. UNCHANGED <<storages, dirtyStorage>>
      BY <1>2 DEF Start, storeVars
    <2>2. ASSUME NEW q \in Requests, q # r
          PROVE  HoldsRoom(q)' /\ WritesFit(q)'
      <3>1. pc'[q] = pc[q] /\ loc'[q] = loc[q] /\ call'[q] = call[q]
        BY <1>1, <1>2, <2>2 DEF Start, RequestsTypeOK
      <3> QED BY <2>1, <3>1 DEF RoomInv, HoldsRoom, Choosing, StoragesNamed, WritesFit
    <2>3. HoldsRoom(r)' /\ WritesFit(r)'
      <3>1. pc'[r] = FirstStep(c) /\ call'[r] = c /\ r \notin Active
        BY <1>1, <1>2 DEF Start, RequestsTypeOK, Active, ActiveSteps, OutsideSteps, InsideSteps
      <3>2. \A i \in RowId : dirtyStorage'[i].tx # r
        BY <2>1, <3>1, NoClaims
      <3> QED BY <3>1, <3>2 DEF FirstStep, HoldsRoom, Choosing, WritesFit
    <2> QED BY <2>1, <2>2, <2>3 DEF RoomInv, Fitting, Live, FitsIn
  <1>3. ASSUME Crash
        PROVE  RoomInv'
    <2>1. storages' = storages /\ \A i \in RowId : dirtyStorage'[i] = Clean
      BY <1>3 DEF Crash, RollbackAll
    <2>2. \A q \in Requests : pc'[q] \notin ActiveSteps
      BY <1>3 DEF Crash, Active, ActiveSteps, OutsideSteps, InsideSteps
    <2>3. \A q \in Requests : HoldsRoom(q)'
      BY <2>2 DEF HoldsRoom, Choosing, ActiveSteps, OutsideSteps, InsideSteps
    <2>4. \A q \in Requests : WritesFit(q)'
      BY <2>1, IdsDistinct DEF WritesFit, Clean
    <2> QED BY <2>1, <2>3, <2>4 DEF RoomInv, Fitting, Live, FitsIn
  <1>4. ASSUME UNCHANGED vars
        PROVE  RoomInv'
    <2>1. UNCHANGED <<storages, dirtyStorage, pc, loc, call>>
      BY <1>4 DEF vars, storeVars, requestVars
    <2> QED BY <2>1 DEF RoomInv, Fitting, Live, FitsIn, HoldsRoom, Choosing, StoragesNamed, WritesFit, HasRoom,
                       ResizeFits
  <1> QED BY <1>2, <1>3, <1>4 DEF Next, Finished

LEMMA InitRoom ==
  ASSUME Init, Fitting
  PROVE  RoomInv
  <1>1. \A q \in Requests : pc[q] = "idle" /\ q # NoTx
    BY IdsDistinct DEF Init
  <1>2. \A i \in RowId : dirtyStorage[i] = Clean
    BY DEF Init, StoreInit
  <1> QED BY <1>1, <1>2 DEF RoomInv, HoldsRoom, Choosing, WritesFit, Clean

(* With one request at a time the room that a creation, a resize or an     *)
(* update of a storage has looked at is there until it takes it, and no    *)
(* transaction writes a storage that is too full.                          *)
THEOREM SerialRoom ==
  ASSUME IsFiniteSet(Requests), IsFiniteSet(SeedRows), MaxActive = 1,
         \A c \in Calls : /\ c.op \notin DeleteAlls \cup {"import"}
                          /\ c.op = "createStorage" => c.capacity >= 0
  PROVE  Spec /\ Fitting /\ [](NoResets /\ NoNegatives) => []RoomInv
  <1>1. IInv /\ EffectInv /\ KnowledgeInv /\ RoomInv /\ Alone /\ NoResets /\ NoNegatives /\ [Next]_vars => RoomInv'
    BY StepRoom, NoStepRoom
  <1>2. Init /\ Fitting => RoomInv
    BY InitRoom
  <1>3. Spec => []Alone
    BY OneAtATime
  <1>4. Apart => VolumesApart
    BY DEF Apart
  <1> QED
    BY <1>1, <1>2, <1>3, <1>4, AloneIsApart, Inductiveness, EffectInvariant, KnowledgeKept, PTL DEF Spec

(* With one request at a time the volumes of a storage fit in it, whatever *)
(* fails: the room that a creation, a resize or an update of a storage has *)
(* looked at is there when it is taken.  Imports do not look, and neither  *)
(* does a CreateStorage that brings a storage back.                        *)
THEOREM SerialFits ==
  ASSUME IsFiniteSet(Requests), IsFiniteSet(SeedRows), MaxActive = 1,
         \A c \in Calls : /\ c.op \notin DeleteAlls \cup {"import"}
                          /\ c.op = "createStorage" => c.capacity >= 0
  PROVE  Spec /\ Accounted /\ Fitting /\ [](NoResets /\ NoNegatives) => []NoOversubscription
  <1>1. Spec /\ Accounted => [](Accounted /\ UsedIsCharged)
    BY SerialAccounts
  <1>2. RoomInv /\ UsedIsCharged => NoOversubscription
    BY DEF RoomInv, Fitting, FitsIn, UsedIsCharged, NoOversubscription
  <1> QED
    BY <1>1, <1>2, SerialRoom, PTL

(* The same of what else the accounts promise.                             *)
THEOREM SerialVolumes ==
  ASSUME IsFiniteSet(Requests), MaxActive = 1
  PROVE  Spec => CapacityNeverShrinks /\ (LiveOnLiveStorage => []LiveOnLiveStorage)
  <1>1. Spec => []Alone
    BY OneAtATime
  <1>2. Apart => VolumesApart /\ StoragesApart
    BY DEF Apart
  <1> QED BY <1>1, <1>2, AloneIsApart, VolumesOnLiveStorages, VolumesNeverShrink, PTL
=============================================================================

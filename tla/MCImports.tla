------------------------------ MODULE MCImports ------------------------------
(***************************************************************************)
(* Two importers for TLC: one brings the storage "s3", the other a volume  *)
(* on the existing storage "s1" and one on "s3", which may not be there    *)
(* yet; a third client creates a volume on "s1" or renames it.             *)
(***************************************************************************)
EXTENDS MCVolumeManager, Imports

CONSTANTS m1, m2, r5, r6, s4

MCBody ==
  (m1 :> <<CreateStorage(s3, 2)>>) @@
  (m2 :> <<Import(l2, 1, s1, NoName), Import(l3, 1, s3, u1)>>)

MCSlots ==
  (m1 :> <<<<r1>>>>) @@
  (m2 :> <<<<r2, r3>>, <<r4, r5>>>>)

MCAttempts == (m1 :> 1) @@ (m2 :> 2)

ImportCalls == {MCBody[m2][1], MCBody[m2][2], MCBody[m1][1]}

BesideCalls == {Create(l2, t1, s1), UpdateStorage(s1, s4, NoSize)}

ImportsCalls == ImportCalls \cup BesideCalls

ASSUME ImportsUndisturbed == Undisturbed
=============================================================================

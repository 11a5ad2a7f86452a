---------------------------- MODULE OtaUpgradeMC ----------------------------
(***************************************************************************)
(* The images of the model-checking run of OtaUpgrade: two releases with   *)
(* an original image each, a second image of the newer release, its        *)
(* archive, an archive that does not unpack, a diff image, and an original *)
(* image too long for the application partition.                           *)
(***************************************************************************)
EXTENDS OtaUpgrade

CONSTANTS old, new, other, big, archive, broken, diff

MCImages == {old, new, other, big, archive, broken, diff}
MCOriginals == {old, new, other, big}
MCFits == MCImages \ {big}
MCKind == [i \in MCImages |-> IF i \in MCOriginals THEN "original" ELSE IF i = diff THEN "diff" ELSE "xz"]
MCRelease == [i \in MCImages |-> IF i = old THEN 1 ELSE 2]
MCUnpacked == [i \in MCImages |-> IF i \in MCOriginals THEN i ELSE IF i = archive THEN new ELSE Junk]
=============================================================================

--------------------------- MODULE OtaDownloadMC ----------------------------
(***************************************************************************)
(* The files of the model-checking run of OtaDownload, in sectors of four  *)
(* bytes and a partition of two: an image that ends within the partition,  *)
(* one that fills it, an original image the application partition has room *)
(* for and the OTA partition has not, and an archive that is too long.     *)
(***************************************************************************)
EXTENDS OtaDownload

CONSTANTS old, new, full, big, archive

MCImages == {old, new, full, big, archive}
MCKind == [i \in MCImages |-> IF i = archive THEN "xz" ELSE "original"]
MCRelease == [i \in MCImages |-> IF i = old THEN 1 ELSE 2]
MCOrigSize == [i \in MCImages |-> IF i = full THEN 8 ELSE IF i = big THEN 10 ELSE 6]
MCPackedSize == [i \in MCImages |-> IF i = archive THEN 10 ELSE 0]
MCLengths == {0, 2, 6, 8, 10}
=============================================================================

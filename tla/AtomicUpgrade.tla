---------------------------- MODULE AtomicUpgrade ----------------------------
(***************************************************************************)
(* What the over-the-air upgrade promises: at every instant one image is   *)
(* installed, only a running application changes which, and every boot     *)
(* that ends runs exactly that image.  OtaUpgrade, the download of         *)
(* ln_at_cmd_ota.c and the boot loader's ota_agent.c, implements it.       *)
(***************************************************************************)
CONSTANTS
  Images,   \* the application images
  Broken,   \* what an archive that does not unpack would install
  Nothing   \* no application runs

VARIABLES
  installed,  \* the image the next boot runs
  running     \* the image that runs, or Nothing

vars == <<installed, running>>

Init == installed \in Images \cup {Broken} /\ running = Nothing

Boot == running = Nothing /\ installed # Broken /\ running' = installed /\ UNCHANGED installed

Install(i) == running # Nothing /\ installed' = i /\ UNCHANGED running

Stop == running' = Nothing /\ UNCHANGED installed

Next == Boot \/ Stop \/ \E i \in Images \cup {Broken} : Install(i)

Spec == Init /\ [][Next]_vars
=============================================================================

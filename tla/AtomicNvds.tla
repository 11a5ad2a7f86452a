----------------------------- MODULE AtomicNvds -----------------------------
(***************************************************************************)
(* What the non-volatile data store promises to the boot loader and to the *)
(* firmware: one record of fields that is either unformatted or complete,  *)
(* a write that replaces one field at once and is durable when it returns, *)
(* and nothing else that changes it, power losses included.  Nvds, the two *)
(* sectors and the flag sector of ln_nvds.c, implements it.                *)
(***************************************************************************)
CONSTANTS
  Fields,       \* the fields of the record
  Values,       \* what a write can store in a field
  Blank,        \* a field never written
  Version,      \* the field ln_nvds_init writes in a fresh store
  VersionText,  \* and what it writes there
  NoCall        \* no write in progress

VARIABLES
  record,   \* the fields, or the empty function before the store is formatted
  call,     \* the write in progress, until it takes effect
  powered   \* between a power-on and the next power loss

vars == <<record, call, powered>>

Unformatted == [f \in {} |-> Blank]
Formatted == [f \in Fields |-> IF f = Version THEN VersionText ELSE Blank]

Init == record = Unformatted /\ call = NoCall /\ ~powered

PowerOn == ~powered /\ powered' = TRUE /\ UNCHANGED <<record, call>>

Format == powered /\ record = Unformatted /\ record' = Formatted /\ UNCHANGED <<call, powered>>

Begin(f, v) ==
  /\ powered /\ call = NoCall /\ record # Unformatted
  /\ call' = [field |-> f, value |-> v]
  /\ UNCHANGED <<record, powered>>

Written == [record EXCEPT ![call.field] = call.value]

(* A call ends by taking effect: a write that returns is durable.          *)
Commit ==
  /\ powered /\ call # NoCall
  /\ record' = Written /\ call' = NoCall
  /\ UNCHANGED powered

(* A write cut short has taken effect or not, and nothing in between.      *)
PowerLoss ==
  /\ powered
  /\ powered' = FALSE /\ call' = NoCall
  /\ record' = record \/ (call # NoCall /\ record' = Written)

Next ==
  \/ PowerOn \/ Format \/ Commit \/ PowerLoss
  \/ \E f \in Fields, v \in Values : Begin(f, v)

Spec == Init /\ [][Next]_vars
=============================================================================

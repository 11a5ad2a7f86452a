------------------------------ MODULE AtomicKv ------------------------------
(***************************************************************************)
(* What ln_kv.c promises its callers: a dictionary in flash.  A set or a   *)
(* delete takes effect at once, at some moment between its call and its    *)
(* return; one that returns successfully has taken effect, one that fails  *)
(* has not, and one that is interrupted by a power loss has done either.   *)
(* Nothing else, a reboot or a garbage collection included, changes the    *)
(* dictionary.  KvStore implements it.                                     *)
(***************************************************************************)
CONSTANTS
  Keys,
  Values,
  NoValue  \* the key is not in the dictionary

VARIABLES
  store,   \* what a reader would find after a reboot now
  call,    \* the call being served, or NoCall
  result   \* how the last call ended

vars == <<store, call, result>>

Entries == Values \cup {NoValue}
NoCall == <<>>

Init ==
  /\ store = [k \in Keys |-> NoValue]
  /\ call = NoCall
  /\ result = "none"

(* A set of v, or a delete when v is NoValue.                              *)
Begin(k, v) ==
  /\ call = NoCall /\ call' = <<k, v>>
  /\ result' = "none"
  /\ UNCHANGED store

Applied == [store EXCEPT ![call[1]] = call[2]]

Apply ==
  /\ call # NoCall /\ UNCHANGED <<call, result>>
  /\ store' = Applied

Succeed ==
  /\ call # NoCall /\ call' = NoCall /\ result' = "ok"
  /\ store' = Applied

Fail ==
  /\ call # NoCall /\ call' = NoCall /\ result' = "failed"
  /\ store # Applied
  /\ UNCHANGED store

PowerLoss ==
  /\ call' = NoCall /\ result' = "none"
  /\ UNCHANGED store

Next ==
  \/ \E k \in Keys, v \in Entries : Begin(k, v)
  \/ Apply \/ Succeed \/ Fail \/ PowerLoss

Spec == Init /\ [][Next]_vars
=============================================================================

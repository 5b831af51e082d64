--------------------------- MODULE RequestLedger ---------------------------
(***************************************************************************)
(* What the main chain promises to those who post data requests: requests  *)
(* wait in the order they were posted until all that wait are sealed in    *)
(* the next batch, and a sealed batch stays as it is.                      *)
(***************************************************************************)
EXTENDS Naturals, Sequences

CONSTANT DataRequests

VARIABLES
    waiting,    \* requests posted and not yet in a batch
    sealed      \* the batches so far, each a sequence of requests

ledgerVars == <<waiting, sealed>>

Init == waiting = <<>> /\ sealed = <<>>

Post(d) ==
    /\ waiting' = Append(waiting, d)
    /\ UNCHANGED sealed

Seal ==
    /\ sealed' = Append(sealed, waiting)
    /\ waiting' = <<>>

Next == Seal \/ \E d \in DataRequests : Post(d)

Spec == Init /\ [][Next]_ledgerVars
=============================================================================

------------------------------ MODULE LvSerial ------------------------------
(***************************************************************************)
(* What the strategy layer of the driver promises to the users of logical   *)
(* volumes: requests that touch common data are served one at a time, in    *)
(* the order in which they were accepted, and a request that was not served *)
(* is turned away only when the volume group is going down, or after every  *)
(* older request for its data is gone.                                      *)
(***************************************************************************)
CONSTANTS
  Req,      \* requests
  Data      \* the smallest pieces of data a request can touch

VARIABLES
  out,      \* requests accepted and not yet returned
  touches,  \* the data each one touches
  ahead,    \* the older requests for common data each one waits for
  busy,     \* requests being served
  off       \* the volume group is going down

vars == <<out, touches, ahead, busy, off>>

Init ==
  /\ out = {} /\ busy = {} /\ off = FALSE
  /\ touches = [r \in Req |-> {}]
  /\ ahead = [r \in Req |-> {}]

(* A request is accepted behind those that touch some of the same data.     *)
Accept(r, D) ==
  /\ r \notin out
  /\ out' = out \cup {r}
  /\ touches' = [touches EXCEPT ![r] = D]
  /\ ahead' = [ahead EXCEPT ![r] = {q \in out : touches[q] \cap D # {}}]
  /\ UNCHANGED <<busy, off>>

(* It is served when nothing is ahead of it.                                *)
Serve(r) ==
  /\ r \in out \ busy /\ ahead[r] = {}
  /\ busy' = busy \cup {r}
  /\ UNCHANGED <<out, touches, ahead, off>>

(* Requests are returned: served or turned away.                            *)
Return(R) ==
  /\ R # {} /\ R \subseteq out
  /\ off' \in {off, TRUE}
  /\ off' \/ \A r \in R : ahead[r] = {}
  /\ out' = out \ R
  /\ busy' = busy \ R
  /\ touches' = [r \in Req |-> IF r \in R THEN {} ELSE touches[r]]
  /\ ahead' = [r \in Req |-> IF r \in R THEN {} ELSE ahead[r] \ R]

GoOff == off' = TRUE /\ UNCHANGED <<out, touches, ahead, busy>>

Next ==
  \/ \E r \in Req : Serve(r) \/ \E D \in (SUBSET Data) \ {{}} : Accept(r, D)
  \/ \E R \in SUBSET Req : Return(R)
  \/ GoOff

Spec == Init /\ [][Next]_vars
=============================================================================

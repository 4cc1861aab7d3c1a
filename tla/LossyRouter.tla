----------------------------- MODULE LossyRouter -----------------------------
(***************************************************************************)
(* What the packet handler promises the instances it connects, with no     *)
(* queue, thread or work item in sight.  Packets are accepted one by one,  *)
(* each for at most one destination; every destination is handed some of   *)
(* the packets accepted for it, each at most once and in the order of      *)
(* their acceptance.  A packet may be superseded by a later one for the    *)
(* same destination and is then never handed over.                         *)
(***************************************************************************)
EXTENDS Naturals, Sequences

CONSTANTS
  InstanceId,   \* destinations
  None          \* "for nobody": an accepted packet that is not passed on

VARIABLES
  log,          \* log[k]: the destination of the k-th accepted packet
  handed        \* handed[i]: numbers of the packets handed to i, in order

vars == <<log, handed>>

(* The number of the packet most recently handed to i, 0 before any. *)
LastHanded(i) == IF handed[i] = <<>> THEN 0 ELSE handed[i][Len(handed[i])]

Init ==
  /\ log = <<>>
  /\ handed = [i \in InstanceId |-> <<>>]

Accept(d) ==
  /\ log' = Append(log, d)
  /\ UNCHANGED handed

Hand(i, k) ==
  /\ log[k] = i
  /\ LastHanded(i) < k
  /\ handed' = [handed EXCEPT ![i] = Append(@, k)]
  /\ UNCHANGED log

Next ==
  \/ \E d \in InstanceId \cup {None} : Accept(d)
  \/ \E i \in InstanceId, k \in 1 .. Len(log) : Hand(i, k)

Spec == Init /\ [][Next]_vars
==============================================================================

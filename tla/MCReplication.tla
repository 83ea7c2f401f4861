--------------------------- MODULE MCReplication ---------------------------
(***************************************************************************)
(* Small instances of Replication for TLC.  The host reads no network       *)
(* variable between BeginTick and the end of the tick, so a step of a       *)
(* client or of the network taken in the middle of a tick has the same      *)
(* effect when it is taken after it: the runs take them between ticks only. *)
(* In a safety run an envelope is lost by never arriving; only the liveness *)
(* runs take the Lose steps, which no invariant could notice.  The theorems *)
(* are about Spec, which has neither restriction.                           *)
(***************************************************************************)
EXTENDS Replication, TLC

MCSafetyNext ==
    \/ HostStep
    \/ phase = "pump" /\ \E c \in Remote : RemoteStep(c)

MCSafetySpec == Init /\ [][MCSafetyNext]_vars

MCLivenessNext ==
    \/ MCSafetyNext
    \/ phase = "pump" /\ \E c \in Remote : NetworkStep(c)

MCLivenessSpec == Init /\ [][MCLivenessNext]_vars /\ Fairness

Symmetry == Permutations(Remote) \cup Permutations(Entity)
=============================================================================

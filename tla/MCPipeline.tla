----------------------------- MODULE MCPipeline -----------------------------
(***************************************************************************)
(* Instances of DeliveryPipeline for TLC.                                  *)
(***************************************************************************)
EXTENDS DeliveryPipeline, TLC

CONSTANTS w1, w2, i1, i2

\* One worker each, in one process or in two.
OneProcess == [w \in Workers |-> i1]
TwoProcesses == [w \in Workers |-> IF w = w1 THEN i1 ELSE i2]

\* Workers of one process are interchangeable, and so are notifications.
WorkerSymmetry == Permutations(Workers)
NotificationSymmetry == Permutations(Notifications)

\* The two processes are interchangeable together with their workers.
ProcessSymmetry ==
  {[x \in {w1, w2, i1, i2} |->
      CASE x = w1 -> w2 [] x = w2 -> w1 [] x = i1 -> i2 [] x = i2 -> i1]}

=============================================================================

--------------------------- MODULE SessionCancel ---------------------------
(***************************************************************************)
(* SessionRouter with a history variable: the messages a cancel covered,    *)
(* that is, those queued or being run when a cancel returned successfully.  *)
(***************************************************************************)
EXTENDS SessionRouter

VARIABLE covered

HInit == Init /\ covered = {}

HNext ==
    \/ /\ CancelReturn
       /\ covered' = covered \cup {m \in Msgs : Live(m) \/ pc[m] = "queued"}
    \/ OtherStep /\ UNCHANGED covered

HSpec == HInit /\ [][HNext]_<<vars, covered>> /\ Fairness

(* A run that was cancelled before its message was posted is not posted:    *)
(* executeInBackground looks for the cancel when its container is ready.    *)
CancelStopsDispatch ==
    [][\A m \in covered : ~(pc[m] = "prepare" /\ pc'[m] = "post")]_<<vars, covered>>

(* The failure of a cancelled run is not recorded on the session, which is  *)
(* idle or runs something else by now (handleBackgroundFailure's guard).    *)
CancelledFailureIgnored ==
    [][\A m \in covered :
          pc[m] # "failed" /\ pc'[m] = "failed" => status' = status]_<<vars, covered>>
=============================================================================

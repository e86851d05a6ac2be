---------------------------- MODULE PayoutRecovery -----------------------------
(***************************************************************************)
(* What becomes of a payout after all that may go wrong in PayoutExecution *)
(* has gone wrong as often as it likes, and what of its safety depends on  *)
(* the leases.  The variable overran remembers whether a lease ever ran    *)
(* out while the execution holding it was inside a call: the timer that    *)
(* renews the leases is there to prevent it, and a stalled process defeats *)
(* the timer.                                                              *)
(***************************************************************************)
EXTENDS PayoutExecution

VARIABLE overran

OverrunStep ==
  \E r \in Requests : req[r].live /\ InCall(req[r].token) /\ ~ req'[r].live

RecoveryInit == Init /\ overran = FALSE
RecoveryNext == Next /\ overran' = (overran \/ OverrunStep)

(***************************************************************************)
(* Everything but calls that go wrong, a running execution losing its      *)
(* lease, the operator marking the request, and another domain leaving an  *)
(* incomplete payment behind.  An execution that throws of itself, because *)
(* of what it finds, is not a disturbance.                                 *)
(***************************************************************************)
Undisturbed ==
  \/ \E r \in Requests : CreateRequest(r)
  \/ CancelUnstarted
  \/ \E x \in Executions : Step(x) \/ \E r \in Requests : Begin(x, r, TRUE)
  \/ \E r \in Requests : LapseRequest(r) /\ exec[req[r].token].req # r
  \/ LapseLane
  \/ ForeignBegin \/ ForeignEnd \/ \E p \in Payments : ForeignFinish(p)
  \/ Pi

(***************************************************************************)
(* Fairness.  Calls are answered (with a time limit of 15 seconds, or by   *)
(* the failure of the process), leases run out, the executor keeps calling *)
(* the route for a request that is not finished and so is eventually the   *)
(* one to find the lane free, the other domains give the lane back and     *)
(* finish their payments, and Pi verifies transactions.                    *)
(***************************************************************************)
Fairness ==
  /\ \A x \in Executions : WF_vars(Step(x))
  /\ \A r \in Requests : /\ SF_vars(\E x \in Executions : Begin(x, r, TRUE))
                         /\ WF_vars(LapseRequest(r))
  /\ WF_vars(LapseLane)
  /\ WF_vars(ForeignEnd)
  /\ \A p \in Payments : /\ WF_vars(ForeignFinish(p))
                         /\ WF_vars(PiVerify(p))
                         /\ WF_vars(PiForget(p))

RecoverySpec == RecoveryInit /\ [][RecoveryNext]_<<vars, overran>> /\ Fairness

(***************************************************************************)
(* The recipient is paid once unless an execution outlived its leases      *)
(* inside a call: whatever else crashed or went unanswered, no request was *)
(* transferred twice, neither through one payment nor through two.         *)
(***************************************************************************)
OneTransferUnlessOverrun == ~ overran => OneTransferPerRequest

(***************************************************************************)
(* The app wallet has one user at a time unless a lease was overrun.       *)
(***************************************************************************)
OneWalletUserUnlessOverrun == ~ overran => OneWalletUser

(***************************************************************************)
(* Every payout that was started is finished: if crashes, lost answers and *)
(* losses of a running execution's lease cease at some time, then from any *)
(* state they led to the request becomes paid or released for good.        *)
(***************************************************************************)
EveryPayoutFinishes ==
  <>[][Undisturbed]_vars =>
    \A r \in Requests :
      [](req[r].started => <>[](req[r].status \in {"paid", "released"}))
================================================================================

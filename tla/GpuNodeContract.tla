--------------------------- MODULE GpuNodeContract ---------------------------
(***************************************************************************)
(* What the scheduler of the operating system (VidSch) may rely on when it *)
(* drives one GPU node of a kernel driver: fences complete one by one and  *)
(* oldest first, a preemption request is answered with the fence that      *)
(* really completed last and leaves nothing running, and a reset finishes  *)
(* with every submitted fence dealt with.                                  *)
(*                                                                         *)
(* The module names no queue, worker thread, event or lock: those are the  *)
(* means by which CosKmdScheduler keeps this contract.                     *)
(***************************************************************************)
EXTENDS Naturals

CONSTANT MaxFence        \* bound on the fences of one behaviour

VARIABLES
  outstanding,    \* fences submitted and neither completed, preempted nor aborted
  submitted,      \* the last fence submitted
  completed,      \* the last fence that completed, or was aborted by a reset
  preempting,     \* a preemption request awaits its answer
  resetting       \* a reset of the node is in progress

contractVars ==
  <<outstanding, submitted, completed, preempting, resetting>>

Init ==
  /\ outstanding = {}
  /\ submitted = 0
  /\ completed = 0
  /\ preempting = FALSE
  /\ resetting = FALSE

(* A new fence, larger than all before it. *)
Submit ==
  /\ ~preempting /\ ~resetting
  /\ submitted < MaxFence
  /\ submitted' = submitted + 1
  /\ outstanding' = outstanding \cup {submitted + 1}
  /\ UNCHANGED <<completed, preempting, resetting>>

(* Only the oldest outstanding fence completes: none is skipped. *)
Complete ==
  \E f \in outstanding :
    /\ \A g \in outstanding : f <= g
    /\ outstanding' = outstanding \ {f}
    /\ completed' = f
    /\ UNCHANGED <<submitted, preempting, resetting>>

RequestPreemption ==
  /\ ~preempting /\ ~resetting
  /\ preempting' = TRUE
  /\ UNCHANGED <<outstanding, submitted, completed, resetting>>

(* The answer tells nothing new about completions, and whatever had not    *)
(* completed never will.                                                   *)
AnswerPreemption ==
  /\ preempting
  /\ preempting' = FALSE
  /\ outstanding' = {}
  /\ UNCHANGED <<submitted, completed, resetting>>

(* A reset may start with a preemption request unanswered. *)
RequestReset ==
  /\ ~resetting
  /\ resetting' = TRUE
  /\ UNCHANGED <<outstanding, submitted, completed, preempting>>

(* It does not finish before that request is answered. *)
FinishReset ==
  /\ resetting /\ ~preempting
  /\ resetting' = FALSE
  /\ outstanding' = {}
  /\ completed' = submitted
  /\ UNCHANGED <<submitted, preempting>>

Next ==
  \/ Submit \/ Complete
  \/ RequestPreemption \/ AnswerPreemption
  \/ RequestReset \/ FinishReset

Safety == Init /\ [][Next]_contractVars

(* Requests are answered; a fence may hang, so Complete is not fair. *)
Spec ==
  /\ Safety
  /\ WF_contractVars(AnswerPreemption)
  /\ WF_contractVars(FinishReset)
==============================================================================

---- MODULE NetworkComponents ----
(***************************************************************************)
(* The "network components" that TaskExecutor.__init__ makes for a         *)
(* TaskManager (taskmanager/task_executor.py): self.buffer_pool, whose     *)
(* buffers all threads share (BufferPool), and self.flow_controller, which *)
(* makes the gate of a channel (FlowControl).  Neither calls the other and *)
(* each has a lock of its own, so a step of the process is one of the pool *)
(* or one of the gate.                                                     *)
(***************************************************************************)
EXTENDS BufferPool, FlowControl

networkVars == <<poolVars, gateVars>>

NetworkInit == GateInit /\ PoolInit

\* A thread that acquires or releases a buffer does not touch the gate.
PoolStep == UNCHANGED gateVars /\ PoolNext

\* Nor does a sender or the receiver of the channel touch the pool.
GateStep == UNCHANGED poolVars /\ GateNext

NetworkNext == PoolStep \/ GateStep

NetworkSpec == NetworkInit /\ [][NetworkNext]_networkVars
====

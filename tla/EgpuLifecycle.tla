---------------------------- MODULE EgpuLifecycle ----------------------------
(***************************************************************************)
(* What egpu_safety.h promises of a connection, without threads, monitors  *)
(* or locks: the tunnel is set up before the GPU, the connection is shown  *)
(* as up only over both, a fault is repaired only where there is a         *)
(* connection to repair, a connection that fails gives back the tunnel it  *)
(* had, and a disconnection releases the GPU, then the tunnel, and only    *)
(* then shows the eGPU as disconnected.                                    *)
(***************************************************************************)
VARIABLES
  phase,  \* "down", "opening", "up", "faulted" or "closing"
  hw      \* "off", "tunnel" (PCIe tunnel only) or "on" (GPU initialised too)

vars == <<phase, hw>>

Init == phase = "down" /\ hw = "off"

\* The phase changes over hardware that stays as it is.
Shows(from, over, to) == phase \in from /\ hw \in over /\ phase' \in to /\ UNCHANGED hw

\* The hardware changes under a phase that stays as it is.
Turns(during, from, to) == phase = during /\ hw = from /\ hw' = to /\ UNCHANGED phase

\* egpu_connect, also over a connection that is up or faulted.
Open == Shows({"down", "up", "faulted"}, {"off", "on"}, {"opening"})

BringTunnel == Turns("opening", "off", "tunnel")
BringGpu    == Turns("opening", "tunnel", "on")
Ready       == Shows({"opening"}, {"on"}, {"up"})

\* There is no device, the wrong device or no tunnel.
Reject == Shows({"opening"}, {"off"}, {"down", "closing", "faulted"})

\* The GPU does not start: the fault is shown, then the tunnel given back.
Fail == Shows({"opening"}, {"tunnel"}, {"faulted"})
Undo == Turns("faulted", "tunnel", "off")

Fault  == Shows({"up"}, {"on"}, {"faulted"})
Repair == Shows({"faulted"}, {"on"}, {"up"})

\* A fault that holds nothing is given up, or forgotten by a new start.
Dismiss == Shows({"faulted"}, {"off"}, {"down"})

\* egpu_safe_disconnect and egpu_force_disconnect.
Close      == Shows({"down", "up", "faulted"}, {"off", "on"}, {"closing"})
DropGpu    == Turns("closing", "on", "tunnel")
DropTunnel == Turns("closing", "tunnel", "off")
Done       == Shows({"closing"}, {"off"}, {"down"})

Next ==
  \/ Open \/ BringTunnel \/ BringGpu \/ Ready \/ Reject \/ Fail \/ Undo
  \/ Fault \/ Repair \/ Dismiss
  \/ Close \/ DropGpu \/ DropTunnel \/ Done

Safety == Init /\ [][Next]_vars

\* Every sequence ends, the one that undoes a failed connection too; a
\* connection or a fault may last for ever.
Spec ==
  /\ Safety
  /\ WF_vars(BringTunnel \/ BringGpu \/ Ready)
  /\ WF_vars(Undo)
  /\ WF_vars(DropGpu \/ DropTunnel \/ Done)
=============================================================================

--------------------------- MODULE MCEventFanout ---------------------------
(* EventFanout for TLC: two subscribers whose queues are smaller than the run. *)
EXTENDS EventFanout

\* The first subscriber asks for less than the minimum and is raised to it.
MCRequestedCapacity == <<1, 3>>
=============================================================================

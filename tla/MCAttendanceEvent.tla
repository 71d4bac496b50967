----------------------------- MODULE MCAttendanceEvent -----------------------------
(***************************************************************************)
(* Instances of AttendanceEvent for TLC.  Requests, employees and devices  *)
(* of one role are interchangeable: no definition compares or orders them. *)
(***************************************************************************)
EXTENDS AttendanceEvent, TLC

Symmetry == Permutations(Requests) \cup Permutations(Employees)
\* No guard and no property of Doors and Answers reads last_seen_at.
WithoutLastSeen ==
  <<clock, sessions, audit, active, cooldown, captures, feed, pc, locals, bounds>>
================================================================================

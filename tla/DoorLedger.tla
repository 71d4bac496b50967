-------------------------------- MODULE DoorLedger --------------------------------
(***************************************************************************)
(* What the attendance pipeline promises about attendance_sessions when an *)
(* office has several doors.  SessionLedger is the promise for one         *)
(* entrance and one exit; with more, the cooldown key orders only the      *)
(* submissions of one person at one door, and less is left of it:          *)
(*                                                                         *)
(*   - an employee has at most one open row per entrance;                  *)
(*   - a row that a check-out closed may be closed again, but only by a    *)
(*     check-out at another exit; nothing else of a row ever changes;      *)
(*   - no submission writes two rows.                                      *)
(*                                                                         *)
(* A row is [status, emp, in, out]; a check-in or a check-out column is    *)
(* None (NULL) or a pair of the submission and the door it was copied from *)
(* (check_in_at and check_in_device_id, check_out_at and ..._device_id).   *)
(***************************************************************************)
CONSTANTS Employees,        \* the people a row can be about
          Entrances, Exits, \* doors by role
          Rows,             \* identities of rows; also the submissions
          None              \* NULL

VARIABLE sessions

Absent == [status |-> "absent", emp |-> None, in |-> None, out |-> None]

Door(stamp) == stamp[2]
Stamps(s) == {sessions[s].in, sessions[s].out} \ {None}

\* Submission r at door d is on no row yet.
Fresh(r) == \A s \in Rows : \A stamp \in Stamps(s) : stamp[1] # r

OpenFrom(e, d) ==
  {s \in Rows : /\ sessions[s].status = "open" /\ sessions[s].emp = e
                /\ Door(sessions[s].in) = d}

Init == sessions = [s \in Rows |-> Absent]

Open(s, e, d) ==
  /\ sessions[s] = Absent /\ Fresh(s)
  /\ OpenFrom(e, d) = {}
  /\ sessions' = [sessions EXCEPT ![s] =
                    [status |-> "open", emp |-> e, in |-> <<s, d>>, out |-> None]]

Close(s, by, d) ==
  /\ \/ sessions[s].status = "open"
     \/ sessions[s].status = "closed" /\ Door(sessions[s].out) # d
  /\ Fresh(by)
  /\ sessions' = [sessions EXCEPT ![s] =
                    [status |-> "closed", emp |-> sessions[s].emp,
                     in |-> sessions[s].in, out |-> <<by, d>>]]

File(s, e, d) ==
  /\ sessions[s] = Absent /\ Fresh(s)
  /\ sessions' = [sessions EXCEPT ![s] =
                    [status |-> "anomaly", emp |-> e, in |-> None, out |-> <<s, d>>]]

Next ==
  \/ \E s \in Rows, e \in Employees, d \in Entrances : Open(s, e, d)
  \/ \E s, by \in Rows, d \in Exits : Close(s, by, d)
  \/ \E s \in Rows, e \in Employees, d \in Exits : File(s, e, d)

Spec == Init /\ [][Next]_sessions
================================================================================

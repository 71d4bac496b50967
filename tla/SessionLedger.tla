------------------------------ MODULE SessionLedger ------------------------------
(***************************************************************************)
(* What the attendance pipeline promises about the attendance_sessions     *)
(* table, stated without requests, cooldowns or transactions: a ledger of  *)
(* rows, each inserted once, changed at most once, and never removed.      *)
(* An employee has at most one open row.  A check-in opens a row, a        *)
(* check-out closes the open one, and a check-out nothing was open for is  *)
(* filed as an anomaly of its own.                                         *)
(*                                                                         *)
(* A row is [status, emp, in, out]: the employee, and what the check-in    *)
(* and the check-out columns were copied from (None for NULL columns).     *)
(*                                                                         *)
(* The promise does not say that a filed anomaly was true when it was      *)
(* committed: the row says what its check-out saw, not what is so.         *)
(***************************************************************************)
CONSTANTS Employees,  \* the people a row can be about
          Rows,       \* identities of rows; also what columns are copied from
          None        \* NULL

VARIABLE sessions

Absent == [status |-> "absent", emp |-> None, in |-> None, out |-> None]

SessionType ==
  [status : {"absent", "open", "closed", "anomaly"},
   emp    : Employees \cup {None},
   in     : Rows \cup {None},
   out    : Rows \cup {None}]

HasOpen(e) == \E s \in Rows : sessions[s].status = "open" /\ sessions[s].emp = e

Init == sessions = [s \in Rows |-> Absent]

Open(s, e) ==
  /\ sessions[s] = Absent
  /\ ~ HasOpen(e)
  /\ sessions' = [sessions EXCEPT ![s] =
                    [status |-> "open", emp |-> e, in |-> s, out |-> None]]

Close(s, by) ==
  /\ sessions[s].status = "open"
  /\ sessions' = [sessions EXCEPT ![s].status = "closed", ![s].out = by]

File(s, e) ==
  /\ sessions[s] = Absent
  /\ sessions' = [sessions EXCEPT ![s] =
                    [status |-> "anomaly", emp |-> e, in |-> None, out |-> s]]

Next ==
  \/ \E s \in Rows, e \in Employees : Open(s, e) \/ File(s, e)
  \/ \E s, by \in Rows : Close(s, by)

Spec == Init /\ [][Next]_sessions
================================================================================

------------------------------ MODULE MCBackup ------------------------------
(* Small instances of Backup: documents that start a profile or stop it. *)
EXTENDS Backup

CONSTANTS job1, job2, panel1, panel2

Doc(on, panel) == [active |-> on, panel |-> panel]
OneJob  == {job1}
TwoJobs == {job1, job2}
\* The second document has the panel options the router started with.
Documents == [j \in Jobs |-> IF j = job1 THEN Doc(TRUE, panel2) ELSE Doc(FALSE, panel1)]

\* Beside one death, a behaviour has a reload, a tick or a second death.
OneMore ==
  (MaxReloads - budget'.reloads) + (MaxTicks - budget'.ticks)
    + (IF budget'.deaths = 0 THEN 1 ELSE 0) <= 1
=============================================================================

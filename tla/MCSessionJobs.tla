------------------------------ MODULE MCSessionJobs ------------------------------
(* A task that can be recovered and a job that cannot, two sessions, and a *)
(* process that is started twice.                                          *)
EXTENDS SessionJobs

CONSTANTS s1, s2, task, bash

MCSession == {s1, s2}
MCJob == {task, bash}
MCRecoverable == {task}
================================================================================

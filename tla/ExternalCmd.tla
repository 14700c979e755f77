----------------------------- MODULE ExternalCmd -----------------------------
(***************************************************************************)
(* An external command (externalcmd/cmd.go, cmd_unix.go) as a record and   *)
(* the steps its goroutine takes.  Components that own commands keep such  *)
(* records in their state: New starts one, Close asks it to terminate, and *)
(* Close returns once `done' holds.                                        *)
(*                                                                         *)
(* pc: "start"   about to start the process        (runInner)              *)
(*     "wait"    the process runs; select on terminate and cmdDone         *)
(*     "kill"    the process has got the signal; waiting for cmdDone       *)
(*     "pause"   runInner returned true             (run)                  *)
(*     "done"    the done channel is closed                                *)
(*     "none"    there is no command                                       *)
(***************************************************************************)
CmdType == [pc: {"none", "start", "wait", "kill", "pause", "done"},
            terminate: BOOLEAN]   \* the terminate channel is closed

NoCmd == [pc |-> "none", terminate |-> FALSE]

New == [pc |-> "start", terminate |-> FALSE]

Close(k) == [k EXCEPT !.terminate = TRUE]

done(k) == k.pc \in {"none", "done"}

\* The process is alive.
process(k) == k.pc \in {"wait", "kill"}

\* The command may go from k.pc to pc when cond holds.
to(k, pc, cond) == IF cond THEN {[k EXCEPT !.pc = pc]} ELSE {}

\* cmd.Start() succeeds, or fails and counts as a run that has ended; then
\* the process ends by itself, or gets the signal and is waited for.
runInner(k) ==
    to(k, "wait", k.pc = "start") \cup to(k, "pause", k.pc \in {"start", "wait"})
    \cup to(k, "kill", k.pc = "wait" /\ k.terminate)
    \cup to(k, "done", k.pc = "kill")

\* After a run that has ended: the pause before the restart, or, without
\* restart, the wait for the end.  The timer of the pause is set when the wait
\* begins, so a request to terminate wins.
rerun(k, restart) ==
    to(k, "start", k.pc = "pause" /\ restart /\ ~k.terminate)
    \cup to(k, "done", k.pc = "pause" /\ k.terminate)

\* The states one step of the command's goroutine or of its process leads to.
run(k, restart) == runInner(k) \cup rerun(k, restart)

=============================================================================

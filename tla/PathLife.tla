------------------------------ MODULE PathLife ------------------------------
(***************************************************************************)
(* What a path promises to the path manager about its life: it runs until  *)
(* its context is cancelled, a path created from a regular expression may  *)
(* also leave on its own, its context is cancelled by the time it has      *)
(* ended, and it never comes back.                                         *)
(***************************************************************************)
VARIABLES
    life,       \* "run", "leaving" (the tail of run()) or "gone"
    cancelled,  \* the context of the path is cancelled
    regexp      \* the configuration of the path is a regular expression

vars == <<life, cancelled, regexp>>

Init ==
    /\ life = "run"
    /\ cancelled = FALSE
    /\ regexp \in BOOLEAN

\* path.Close(), or the cancellation of the manager's context.
Cancel ==
    /\ life = "run"
    /\ cancelled' = TRUE
    /\ UNCHANGED <<life, regexp>>

\* `break outer'.
Leave ==
    /\ life = "run"
    /\ cancelled \/ regexp
    /\ life' = "leaving"
    /\ UNCHANGED <<cancelled, regexp>>

\* pa.ctxCancel() and the releasing of what the path holds.
Release ==
    /\ life = "leaving"
    /\ cancelled' = TRUE
    /\ UNCHANGED <<life, regexp>>

\* pa.parent.OnPathClose(pa).
End ==
    /\ life = "leaving"
    /\ life' = "gone"
    /\ cancelled' = TRUE
    /\ UNCHANGED regexp

Next == Cancel \/ Leave \/ Release \/ End

Spec == Init /\ [][Next]_vars

=============================================================================

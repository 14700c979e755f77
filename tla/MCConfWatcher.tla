--------------------------- MODULE MCConfWatcher ----------------------------
(* Bounds for model checking ConfWatcher. *)
EXTENDS ConfWatcher

MCFiles == {"a", "b"}

=============================================================================

----------------------------- MODULE MCThreads ------------------------------
(* Threads for TLC. *)
EXTENDS Threads

AllBatches == {<<"activate", "rm">>, <<"auth">>}
AllKinds == {"input", "undo", "redo", "interrupt", "compact", "clear", "new", "resume", "switch",
             "approval", "other"}

=============================================================================

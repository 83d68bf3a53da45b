--------------------------- MODULE MCApplication ---------------------------
(***************************************************************************)
(* Small instances of Application.  Two inputs share a store of two        *)
(* entries, so the backlog fills and supersedes; the queue is full when a  *)
(* connection notice or a command arrives.                                 *)
(***************************************************************************)
EXTENDS Application

MCCommands == {c \in CommandEvents : c.type = "SetOutput" /\ c.value = 1}
=============================================================================

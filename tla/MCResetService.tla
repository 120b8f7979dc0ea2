--------------------------- MODULE MCResetService ----------------------------
(* The reset service with a two-iteration backstop and a handful of SWD    *)
(* accesses, resets and probe sessions.                                    *)
EXTENDS ResetService
=============================================================================

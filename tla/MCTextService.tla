---------------------------- MODULE MCTextService ----------------------------
(* TextService for TLC: what a host may fail in one edit.                    *)
EXTENDS TextService

OneFault == {{}, {"start"}, {"start", "insert"}, {"end"}}
NoFault == {{}}
=============================================================================

----------------------------- MODULE MCLspClient ------------------------------
(* Two script editors with a file each.                                      *)
EXTENDS LspClient, TLC

CONSTANTS e1, e2, u1, u2

MCEditors == {e1, e2}
MCUri == (e1 :> u1) @@ (e2 :> u2)
=============================================================================

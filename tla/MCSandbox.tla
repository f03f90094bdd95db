------------------------------ MODULE MCSandbox ------------------------------
(* Small instances of Sandbox: conversations whose ids share 8 characters. *)
EXTENDS Sandbox, TLC

CONSTANTS c1, c2, c3, k1, k2

Prefixes  == c1 :> "p" @@ c2 :> "p" @@ c3 :> "q"
=============================================================================

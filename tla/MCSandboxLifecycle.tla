------------------------- MODULE MCSandboxLifecycle -------------------------
(***************************************************************************)
(* The values of the sandbox run: two objects, of the providers that differ *)
(* most in when they learn of their instance and when they forget it.      *)
(***************************************************************************)
EXTENDS SandboxLifecycle

MCSandboxes == {"docker", "vefaas"}
MCProvider  == [s \in MCSandboxes |-> s]
=============================================================================

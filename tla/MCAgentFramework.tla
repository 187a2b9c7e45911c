-------------------------- MODULE MCAgentFramework --------------------------
(***************************************************************************)
(* The values of the AgentFramework runs.  Runner "inline" runs in the     *)
(* framework's event loop, two sessions at a time; "ray" is a Ray task     *)
(* without limit that keeps the longest trajectory.  The prompts "p" and   *)
(* "q" name them, "r" names a runner that is not configured.               *)
(***************************************************************************)
EXTENDS AgentFrameworkProps

MCSiblings == {"p"} \X (1..3)
MCLoners   == {"p", "q", "r"} \X {1}

MCRunners   == {"inline", "ray"}
MCCap       == [r \in MCRunners |-> IF r = "inline" THEN 2 ELSE 0]
MCSelection == [r \in MCRunners |-> IF r = "inline" THEN "all" ELSE "longest"]
MCAgentName == [p \in {"p", "q", "r"} |-> IF p = "p" THEN "inline"
                                         ELSE IF p = "q" THEN "ray" ELSE "unknown"]
=============================================================================

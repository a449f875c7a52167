------------------------------ MODULE MCDeploy ------------------------------
(* Small instances of Deploy. *)
EXTENDS Deploy, TLC

CONSTANTS claude, cursor, instruction, settings, skill, internal,
          command, fallback

MCKind ==
  instruction :> "instruction" @@ settings :> "settings"
    @@ skill :> "skill" @@ internal :> "skill" @@ command :> "command"
    @@ fallback :> "fallback"

MCWrites ==
  claude :> {instruction, settings, skill, internal, command}
    @@ cursor :> {instruction, skill, fallback}

MCPolicy ==
  [p \in Paths |->
    IF p = instruction THEN "preserve_if_edited" ELSE "overwrite"]
=============================================================================

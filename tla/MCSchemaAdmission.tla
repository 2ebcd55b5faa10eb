--------------------------- MODULE MCSchemaAdmission ---------------------------
(***************************************************************************)
(* An upgrade over two migrations, the second of which cannot be applied   *)
(* twice, that is killed once, and an operator who runs it again.          *)
(***************************************************************************)
EXTENDS SchemaAdmission

Interrupted ==
    {[replica |-> FALSE, from |-> 1, needs |-> <<1, 3>>, once |-> {3}, lease |-> 3,
      tools |-> [a |-> [action |-> "upgrade", ver |-> 2, password |-> "pw"]],
      mounts |-> [x |-> [ver |-> 1, role |-> "primary", degraded |-> FALSE]],
      trouble |-> [deaths |-> 1, lost |-> 0, pauses |-> 0, outages |-> 0, reachable |-> TRUE]]}

Spec ==
    /\ Init(Interrupted)
    /\ [][Next]_admVars
    /\ WF_admVars(ToolStep("a"))
    /\ WF_admVars(Expire)

\* OPERATIONS.md: if the process is interrupted, running mkfs.fod upgrade again resumes the
\* upgrade and clears the gate (begin_schema_upgrade, apply_migration, write_schema_version).
RerunClearsGate == GateClosed ~> GateOpen
=============================================================================

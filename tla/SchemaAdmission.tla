--------------------------- MODULE SchemaAdmission ---------------------------
(***************************************************************************)
(* Schema administration (mkfs.fod init, upgrade and clean) against mounts *)
(* that are being admitted: rust_mkfs/src/main.rs, schema_admin.rs,        *)
(* rust_hotpath pg/startup.rs and pg.rs (sessions, runtime DDL), rust_fuse *)
(* startup.rs and pg_lanes.rs (routing of a mount).                        *)
(*                                                                         *)
(* A program, mkfs or mount, has a release; Needs[v] is the schema number  *)
(* release v was compiled for; the releases are taken to differ in nothing *)
(* else.  The physical standby replays the primary after some delay.  Any  *)
(* process may die between two statements.                                 *)
(***************************************************************************)
EXTENDS Naturals, FiniteSets, FiniteSetsExt

VARIABLES
    adm,      \* the deployment: releases, tools, mounts, bounds on faults, and
              \*   once   the migrations that fail where they have been applied
              \*   lease  the migration that adds materialize_lease_expires_at
    schema,   \* the schema fod on the primary
    standby,  \* the same, as far as the standby has replayed it
    tool,     \* the runs of mkfs
    mount,    \* the mount processes
    clients,  \* the client_sessions row of each mount
    touched,  \* history: newest release whose mkfs changed the schema
    trouble   \* faults that may still happen

admVars == <<adm, schema, standby, tool, mount, clients, touched, trouble>>

Tools == DOMAIN adm.tools
Mnts == DOMAIN adm.mounts
Needs(v) == adm.needs[v]
Ver(t) == adm.tools[t].ver
Does(t) == adm.tools[t].action
Of(m) == adm.mounts[m]

\* level is the last migration whose effect is there, row the row of schema_version,
\* runtime the objects that mounts create when they are missing.
NoSchema == [objects |-> FALSE, level |-> 0, row |-> {}, config |-> {}, secret |-> {},
             guard |-> FALSE, runtime |-> {}]

Installed(v) ==
    [objects |-> TRUE, level |-> Needs(v), config |-> {"size", "block"}, secret |-> {"pw"},
     row |-> {[number |-> Needs(v), floor |-> v, upgrading |-> FALSE]},
     guard |-> FALSE, runtime |-> {"sessions"}]

IdleTool == [pc |-> "idle", cur |-> {}, next |-> 0]
Down == [pc |-> "down", route |-> "none", gate |-> {}, stored |-> FALSE,
         replayed |-> FALSE, lapsed |-> FALSE, paused |-> FALSE]

Init(Deployments) ==
    /\ adm \in Deployments
    /\ schema = IF adm.from = 0 THEN NoSchema ELSE Installed(adm.from)
    /\ standby = schema
    /\ tool = [t \in Tools |-> IdleTool]
    /\ mount = [m \in Mnts |-> Down]
    /\ clients = [m \in Mnts |-> "none"]
    /\ touched = adm.from
    /\ trouble = adm.trouble

-----------------------------------------------------------------------------
(* The advisory lock 1180124246: an upgrade holds it exclusively for its     *)
(* session, write_schema_version for its transaction, a registration shared. *)

Upgrading(t) == Does(t) = "upgrade" /\ tool[t].pc \in {"version", "begin", "choose", "migrate", "write", "grant"}
Registering(m) == mount[m].pc = "insert"
LockFree(t) ==
    /\ \A u \in Tools \ {t} : ~Upgrading(u)
    /\ \A m \in Mnts : ~Registering(m)

ToolAt(t, pc) == tool' = [tool EXCEPT ![t].pc = pc]
Exits(t) == tool' = [tool EXCEPT ![t] = IdleTool]
OnlyTool == UNCHANGED <<adm, schema, standby, mount, clients, touched, trouble>>
AndSchema == UNCHANGED <<adm, standby, mount, clients, touched, trouble>>

Older(t) == \E r \in schema.row : r.floor > Ver(t)

\* main: what fod_objects_exist finds decides whether the action makes sense.
Start(t) ==
    /\ tool[t].pc = "idle"
    /\ IF schema.objects
       THEN CASE Does(t) = "init" -> Exits(t)
              [] Does(t) = "upgrade" -> ToolAt(t, "secret")
              [] Does(t) = "clean" -> ToolAt(t, "verify")
       ELSE IF Does(t) = "init" THEN ToolAt(t, "base") ELSE Exits(t)
    /\ OnlyTool

\* apply_base_schema, one batch of CREATE ... IF NOT EXISTS.
apply_base_schema(t) ==
    /\ tool[t].pc = "base"
    /\ schema' = [schema EXCEPT !.objects = TRUE, !.level = Max({@, Needs(Ver(t))}),
                                !.runtime = @ \cup {"sessions"}]
    /\ ToolAt(t, "secret")
    /\ AndSchema

\* ensure_schema_admin_secret: a stored secret must match, a missing one is stored.
AfterSecret(t) == IF Does(t) = "init" THEN "size" ELSE "lock"
ensure_schema_admin_secret(t) ==
    /\ tool[t].pc = "secret"
    /\ IF ~schema.objects THEN Exits(t)
       ELSE IF schema.secret = {} THEN ToolAt(t, "store")
       ELSE IF adm.tools[t].password \in schema.secret THEN ToolAt(t, AfterSecret(t))
       ELSE Exits(t)
    /\ OnlyTool

StoreSecret(t) ==
    /\ tool[t].pc = "store"
    /\ IF schema.objects
       THEN /\ schema' = [schema EXCEPT !.secret = {adm.tools[t].password}]
            /\ ToolAt(t, AfterSecret(t))
       ELSE /\ schema' = schema
            /\ Exits(t)
    /\ AndSchema

\* The two rows of config, in statements of their own.
InitConfig(t, key, next) ==
    /\ tool[t].pc = key
    /\ IF schema.objects
       THEN /\ schema' = [schema EXCEPT !.config = @ \cup {key}]
            /\ ToolAt(t, next)
       ELSE /\ schema' = schema
            /\ Exits(t)
    /\ AndSchema

\* acquire_schema_upgrade_lock does not wait.
acquire_schema_upgrade_lock(t) ==
    /\ tool[t].pc = "lock"
    /\ IF LockFree(t) THEN ToolAt(t, "version") ELSE Exits(t)
    /\ OnlyTool

\* read_schema_version; a schema of a newer release is refused.
read_schema_version(t) ==
    /\ tool[t].pc = "version"
    /\ IF \E r \in schema.row : r.number > Needs(Ver(t)) THEN Exits(t)
       ELSE tool' = [tool EXCEPT ![t].pc = "begin", ![t].cur = {r.number : r \in schema.row}]
    /\ OnlyTool

\* Mutant: a marker that is already set makes the upgrade give up.
BeginOnce(t) ==
    /\ tool[t].pc = "begin"
    /\ IF \/ ~schema.objects \/ Older(t)
          \/ \E m \in Mnts : clients[m] = "live"
          \/ \E r \in schema.row : r.upgrading
       THEN /\ schema' = schema
            /\ Exits(t)
       ELSE /\ schema' = [schema EXCEPT !.guard = TRUE,
                              !.row = {[r EXCEPT !.floor = Ver(t), !.upgrading = TRUE] : r \in @}]
            /\ ToolAt(t, "choose")
    /\ AndSchema

\* begin_schema_upgrade, one transaction: its ALTER TABLE and CREATE TRIGGER keep every
\* reader of schema_version and every writer of client_sessions out until it commits.
\* Without a row of schema_version there is nothing to mark.
begin_schema_upgrade(t) ==
    /\ tool[t].pc = "begin"
    /\ IF ~schema.objects \/ Older(t) \/ \E m \in Mnts : clients[m] = "live"
       THEN /\ schema' = schema
            /\ Exits(t)
       ELSE /\ schema' = [schema EXCEPT !.guard = TRUE,
                              !.row = {[r EXCEPT !.floor = Ver(t), !.upgrading = TRUE] : r \in @}]
            /\ ToolAt(t, "choose")
    /\ AndSchema

\* The objects of the latest schema, which the query wants to be there, but for one
\* column, which it wants to be missing: no schema of the latest release matches.
latest_schema_shape_matches(t) == schema.level = Needs(Ver(t)) /\ schema.level < adm.lease

\* Where to start; without a version row the latest shape counts as the latest version.
ChooseStart(t) ==
    /\ tool[t].pc = "choose"
    /\ tool' = [tool EXCEPT ![t].pc = "migrate",
                            ![t].next = IF tool[t].cur # {} THEN Max(tool[t].cur) + 1
                                        ELSE IF latest_schema_shape_matches(t) THEN Needs(Ver(t)) + 1
                                        ELSE 1]
    /\ OnlyTool

\* Mutant: the loop runs one migration too far.
PastOneMore(t) == tool[t].next > Needs(Ver(t)) + 1

PastLast(t) == tool[t].next > Needs(Ver(t))

\* The SQL of a migration that adds a constraint or a column without IF NOT EXISTS
\* (0033, 0034, 0036, 0039) fails where it has been applied.
Reapplicable(n) == n \notin adm.once \/ n > schema.level

\* apply_migration, each a batch of its own; one that was applied before an
\* interruption is applied again.
apply_migration(t) ==
    /\ tool[t].pc = "migrate"
    /\ IF PastLast(t)
       THEN /\ ToolAt(t, "write")
            /\ UNCHANGED <<schema, touched>>
       ELSE IF ~schema.objects \/ ~Reapplicable(tool[t].next)
       THEN /\ Exits(t)
            /\ UNCHANGED <<schema, touched>>
       ELSE /\ schema' = [schema EXCEPT !.level = Max({@, tool[t].next})]
            /\ touched' = Max({touched, Ver(t)})
            /\ tool' = [tool EXCEPT ![t].next = @ + 1]
    /\ UNCHANGED <<adm, standby, mount, clients, trouble>>

\* write_schema_version publishes number, floor and the cleared marker together; it waits
\* for the advisory lock and does not lower the floor.
write_schema_version(t) ==
    /\ tool[t].pc = "write"
    /\ LockFree(t)
    /\ IF ~schema.objects \/ Older(t)
       THEN /\ Exits(t)
            /\ UNCHANGED <<schema, touched>>
       ELSE /\ schema' = [schema EXCEPT !.row =
                            {[number |-> Needs(Ver(t)), floor |-> Ver(t), upgrading |-> FALSE]}]
            /\ touched' = Max({touched, Ver(t)})
            /\ ToolAt(t, "grant")
    /\ UNCHANGED <<adm, standby, mount, clients, trouble>>

\* The owner of the root directory and the privileges; then the process ends and with it
\* its session lock.
ensure_fod_privileges(t) == tool[t].pc = "grant" /\ Exits(t) /\ OnlyTool

\* clean verifies the secret and drops the schema, whoever uses it.
verify_existing_schema_admin_secret(t) ==
    /\ tool[t].pc = "verify"
    /\ IF adm.tools[t].password \in schema.secret THEN ToolAt(t, "drop") ELSE Exits(t)
    /\ OnlyTool

DropSchema(t) ==
    /\ tool[t].pc = "drop"
    /\ schema' = NoSchema
    /\ clients' = [m \in Mnts |-> "none"]
    /\ mount' = [m \in Mnts |-> [mount[m] EXCEPT !.stored = FALSE, !.lapsed = (mount[m].pc = "up")]]
    /\ touched' = 0
    /\ Exits(t)
    /\ UNCHANGED <<adm, standby, trouble>>

\* A statement fails, the answer to a COMMIT is lost or the process is killed.
Die(t) ==
    /\ tool[t].pc # "idle"
    /\ trouble.deaths > 0
    /\ trouble' = [trouble EXCEPT !.deaths = @ - 1]
    /\ Exits(t)
    /\ UNCHANGED <<adm, schema, standby, mount, clients, touched>>

ToolStep(t) ==
    \/ Start(t) \/ apply_base_schema(t) \/ ensure_schema_admin_secret(t) \/ StoreSecret(t)
    \/ InitConfig(t, "size", "block") \/ InitConfig(t, "block", "write")
    \/ acquire_schema_upgrade_lock(t) \/ read_schema_version(t) \/ begin_schema_upgrade(t)
    \/ ChooseStart(t) \/ apply_migration(t) \/ write_schema_version(t)
    \/ ensure_fod_privileges(t) \/ verify_existing_schema_admin_secret(t) \/ DropSchema(t)

-----------------------------------------------------------------------------
(* Mounts.                                                                   *)

MountAt(m, pc) == mount' = [mount EXCEPT ![m].pc = pc]
Refused(m) == mount' = [mount EXCEPT ![m] = Down]
OnlyMount == UNCHANGED <<adm, schema, standby, tool, clients, touched, trouble>>

\* select_endpoint_for_mount: a primary mount takes the writable server, a replica mount
\* the standby, auto the standby only when no server can be written.
Route(m) ==
    CASE Of(m).role = "replica" -> "standby"
      [] trouble.reachable -> "primary"
      [] Of(m).role = "auto" -> "standby"
      [] OTHER -> "none"

\* The floor and the marker of the primary, read before the standby is looked at.
GateOf(s) == {[floor |-> r.floor, upgrading |-> r.upgrading] : r \in s.row}

\* Started(s): startup_snapshot returns the number, the floor and the marker.
Started(s) == s.objects /\ s.row # {} /\ s.config = {"size", "block"}

\* resolve_endpoint_routing and validate_degraded_route.
ResolveRoute(m) ==
    /\ mount[m].pc = "down"
    /\ LET route == Route(m)
           primary == trouble.reachable /\ Started(schema)
       IN  IF \/ route = "none"
              \/ (route = "primary" /\ Of(m).degraded)
              \/ (route = "standby" /\ trouble.reachable /\ ~primary)
              \/ (route = "standby" /\ ~trouble.reachable /\ ~Of(m).degraded)
           THEN Refused(m)
           ELSE mount' = [mount EXCEPT ![m].pc = "snapshot", ![m].route = route,
                              ![m].gate = IF route = "standby" /\ primary THEN GateOf(schema) ELSE {}]
    /\ OnlyMount

\* apply_primary_admission_snapshot: the number is that of the server the mount reads,
\* floor and marker are those of the primary where there are any.
Served(m) == IF mount[m].route = "standby" THEN standby ELSE schema
AdmissionGate(m) == IF mount[m].gate # {} THEN mount[m].gate ELSE GateOf(Served(m))

\* The checks at the head of mount_fuse.
Compatible(m) ==
    /\ Started(Served(m))
    /\ \A g \in AdmissionGate(m) : g.floor <= Of(m).ver /\ ~g.upgrading
    /\ \A r \in Served(m).row : r.number >= Needs(Of(m).ver)

\* startup_snapshot, apply_primary_admission_snapshot and the checks.  A degraded mount
\* has no session; only a primary mount creates runtime objects.
ReadSnapshot(m) ==
    /\ mount[m].pc = "snapshot"
    /\ IF (mount[m].route = "primary" /\ ~trouble.reachable) \/ ~Compatible(m) THEN Refused(m)
       ELSE MountAt(m, IF Of(m).degraded THEN "up"
                       ELSE IF mount[m].route = "primary" THEN "locks" ELSE "probe")
    /\ OnlyMount

\* Runtime DDL: checked, then checked again and created under the DDL lock, in one
\* transaction.  It does not look at the upgrade marker.
runtime_lock_schema_is_ready == "locks" \in schema.runtime
runtime_client_session_schema_is_ready == "sessions" \in schema.runtime

EnsureRuntime(m, what, ready, next) ==
    /\ mount[m].pc = what
    /\ IF ~schema.objects \/ ~trouble.reachable
       THEN /\ Refused(m)
            /\ schema' = schema
       ELSE /\ MountAt(m, next)
            /\ schema' = IF ready THEN schema ELSE [schema EXCEPT !.runtime = @ \cup {what}]
    /\ UNCHANGED <<adm, standby, tool, clients, touched, trouble>>

ensure_lock_schema(m) == EnsureRuntime(m, "locks", runtime_lock_schema_is_ready, "sessions")
ensure_client_session_schema(m) ==
    EnsureRuntime(m, "sessions", runtime_lock_schema_is_ready /\ runtime_client_session_schema_is_ready, "probe")

\* Mutant: only the marker is read again, the floor of the startup snapshot is trusted.
AdmitsByMarker(m) == schema.objects /\ schema.row # {} /\ \A r \in schema.row : ~r.upgrading

\* What registration reads again under the shared lock: marker and floor, not the number.
Admits(m) ==
    /\ schema.objects /\ schema.row # {}
    /\ \A r \in schema.row : ~r.upgrading /\ r.floor <= Of(m).ver

\* register_client_session, the first half: the shared advisory lock, for which it waits,
\* the gates, and the request token of an attempt that may have been committed.
RegisterProbe(m) ==
    /\ mount[m].pc = "probe"
    /\ \A t \in Tools : ~Upgrading(t)
    /\ IF ~trouble.reachable \/ ~Admits(m) THEN Refused(m)
       ELSE IF mount[m].stored
       THEN mount' = [mount EXCEPT ![m].pc = "up", ![m].lapsed = (clients[m] # "live")]
       ELSE MountAt(m, "insert")
    /\ OnlyMount

\* The second half: the row, which the trigger of begin_schema_upgrade may reject, and
\* COMMIT.  A lost connection is retried once, from the probe.
RegisterInsert(m) ==
    /\ Registering(m)
    /\ IF ~schema.objects \/ (schema.guard /\ \E r \in schema.row : r.upgrading)
       THEN /\ Refused(m)
            /\ clients' = clients
       ELSE /\ clients' = [clients EXCEPT ![m] = "live"]
            /\ mount' = [mount EXCEPT ![m].pc = "up", ![m].stored = TRUE]
    /\ UNCHANGED <<adm, schema, standby, tool, touched, trouble>>

RegisterLost(m, committed) ==
    /\ Registering(m)
    /\ schema.objects
    /\ trouble.lost > 0
    /\ trouble' = [trouble EXCEPT !.lost = @ - 1]
    /\ clients' = IF committed THEN [clients EXCEPT ![m] = "live"] ELSE clients
    /\ mount' = [mount EXCEPT ![m] = IF mount[m].replayed THEN Down
                                     ELSE [@ EXCEPT !.pc = "probe", !.replayed = TRUE,
                                                    !.stored = committed]]
    /\ UNCHANGED <<adm, schema, standby, tool, touched>>

\* heartbeat_client_session does not ask whether the lease has run out.
Heartbeat(m) ==
    /\ mount[m].pc = "up" /\ ~mount[m].paused /\ mount[m].stored
    /\ clients[m] = "expired"
    /\ clients' = [clients EXCEPT ![m] = "live"]
    /\ UNCHANGED <<adm, schema, standby, tool, mount, touched, trouble>>

\* Leases that nobody renews run out; a mount that runs renews its own in time.
Renewed(m) == mount[m].pc = "up" /\ mount[m].stored /\ ~mount[m].paused
Expire ==
    /\ \E m \in Mnts : clients[m] = "live" /\ ~Renewed(m)
    /\ clients' = [m \in Mnts |-> IF clients[m] = "live" /\ ~Renewed(m) THEN "expired" ELSE clients[m]]
    /\ mount' = [m \in Mnts |-> [mount[m] EXCEPT
                     !.lapsed = @ \/ (mount[m].pc = "up" /\ clients[m] = "live" /\ ~Renewed(m))]]
    /\ UNCHANGED <<adm, schema, standby, tool, touched, trouble>>

\* The host of a mount is suspended and comes back.
Pause(m) ==
    /\ mount[m].pc = "up" /\ ~mount[m].paused /\ trouble.pauses > 0
    /\ mount' = [mount EXCEPT ![m].paused = TRUE]
    /\ trouble' = [trouble EXCEPT !.pauses = @ - 1]
    /\ UNCHANGED <<adm, schema, standby, tool, clients, touched>>

Resume(m) ==
    /\ mount[m].paused
    /\ mount' = [mount EXCEPT ![m].paused = FALSE]
    /\ OnlyMount

\* Unmounting or dying; the session row stays until its lease runs out.
MountEnds(m) == mount[m].pc # "down" /\ Refused(m) /\ OnlyMount

Replay ==
    /\ adm.replica
    /\ standby # schema
    /\ standby' = schema
    /\ UNCHANGED <<adm, schema, tool, mount, clients, touched, trouble>>

\* The primary becomes unreachable for the mounts.
Outage ==
    /\ trouble.outages > 0
    /\ trouble' = [trouble EXCEPT !.outages = @ - 1, !.reachable = ~@]
    /\ UNCHANGED <<adm, schema, standby, tool, mount, clients, touched>>

MountStep(m) ==
    \/ ResolveRoute(m) \/ ReadSnapshot(m)
    \/ ensure_lock_schema(m) \/ ensure_client_session_schema(m)
    \/ RegisterProbe(m) \/ RegisterInsert(m)
    \/ (\E committed \in BOOLEAN : RegisterLost(m, committed))
    \/ Heartbeat(m) \/ Pause(m) \/ Resume(m) \/ MountEnds(m)

Next ==
    \/ \E t \in Tools : ToolStep(t) \/ Die(t)
    \/ \E m \in Mnts : MountStep(m)
    \/ Expire \/ Replay \/ Outage

-----------------------------------------------------------------------------
Levels == 0..Max({Needs(v) : v \in DOMAIN adm.needs})

Schemas ==
    [objects : BOOLEAN, level : Levels, config : SUBSET {"size", "block"},
     row : {{}} \cup {{r} : r \in [number : Levels, floor : DOMAIN adm.needs, upgrading : BOOLEAN]},
     secret : SUBSET {adm.tools[t].password : t \in Tools} \cup {{"pw"}},
     guard : BOOLEAN, runtime : SUBSET {"locks", "sessions"}]

AdmissionTypeOK ==
    /\ schema \in Schemas /\ standby \in Schemas
    /\ \A t \in Tools : tool[t].cur \subseteq Levels /\ tool[t].next \in 0..(Max(Levels) + 1)
    /\ \A m \in Mnts : clients[m] \in {"none", "live", "expired"}
    /\ touched \in {0} \cup DOMAIN adm.needs

\* A mount whose session has not lapsed since it was registered.
Admitted(m) == mount[m].pc = "up" /\ ~Of(m).degraded /\ ~mount[m].lapsed

\* A mount that was admitted, and renews its session in time, reads a schema its release
\* was made for, that no newer mkfs has changed, and that no migration is changing: a
\* stale startup snapshot, a late replay of the standby, a lost COMMIT or an interrupted
\* upgrade admit nobody else (register_client_session, begin_schema_upgrade).
AdmittedFits ==
    \A m \in Mnts : Admitted(m) =>
        /\ Served(m).level >= Needs(Of(m).ver)
        /\ touched <= Of(m).ver
        /\ \A t \in Tools : tool[t].pc # "migrate"

\* Where the recorded number is not what the schema holds, the marker says so, also after
\* an upgrade that died (begin_schema_upgrade, write_schema_version).
MarkerTells == \A r \in schema.row : r.upgrading \/ r.number = schema.level

\* State predicates for: an upgrade that was begun is finished in the end.  It was cut
\* off for good if it died between a migration that cannot be applied again and the
\* version row that says it was applied.
GateClosed == \E r \in schema.row : r.upgrading
GateOpen == ~GateClosed
Resumable == \A r \in schema.row : adm.once \cap ((r.number + 1)..schema.level) = {}
CutOff == ~Resumable /\ \A t \in Tools : tool[t].pc = "idle"
=============================================================================

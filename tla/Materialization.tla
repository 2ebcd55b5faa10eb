--------------------------- MODULE Materialization ---------------------------
(***************************************************************************)
(* fod-indexer materialize: files of a source directory are validated, a   *)
(* plan row with a lease and a fencing token is inserted, and the import   *)
(* tree is built one fenced transaction at a time while the source may     *)
(* change, connections are lost and the importer may stop or crash.        *)
(* fod-indexer cleanup-failed removes the tree of a plan that failed or    *)
(* whose lease ran out.  Mounts may link imported files from outside.      *)
(***************************************************************************)
EXTENDS Integers, Sequences, SequencesExt

CONSTANTS
    Imports,    \* deployments: source data, and how often what may go wrong
    Order,      \* the source files by path length and path (canonical_sort_key)
    Under,      \* their directory in the source, "." for its root
    Operators   \* processes that run cleanup-failed

VARIABLES
    import,     \* the deployment
    source,     \* the source directory: file -> [data, stamp]
    planRow,    \* the row of index_import_plans
    planLock,   \* who holds that row's lock
    dirs,       \* import directories
    made,       \* imported files: file -> its payload, "blank" when created only
    aliases,    \* imported files hard-linked from outside the import tree
    importer,   \* the importing process
    cleaning,   \* cleanup transactions: step and locks held
    mishaps     \* edits, links, lost connections and crashes still to come

importVars == <<import, source, planRow, planLock, dirs, made, aliases, importer, cleaning, mishaps>>

SourceFiles == {Order[i] : i \in DOMAIN Order}
Cleaning == Operators \cup {"importer"}
Unseen == [data |-> "none", stamp |-> 0]

ImportTypeOK ==
    /\ planRow.status \in {"none", "running", "failed", "cleaned", "completed"}
    /\ planRow.token \in 0..2
    /\ planLock \in Cleaning \cup {"free"}
    /\ dirs \subseteq {"."} \cup {Under[f] : f \in SourceFiles}
    /\ aliases \subseteq SourceFiles
    /\ importer.pc \in {"before", "hash", "after", "insert", "work", "txn", "fail", "rollback", "over", "dead"}

\* The scan and the hash pass have just ended: stamps are known, and the full
\* hash of every file that has the payload of another one.
ImportInit ==
    /\ import \in Imports
    /\ source = [f \in SourceFiles |-> [data |-> import.data[f], stamp |-> 1]]
    /\ planRow = [status |-> "none", token |-> 0, live |-> FALSE, entries |-> {}]
    /\ planLock = "free"
    /\ dirs = {}
    /\ made = [f \in {} |-> "none"]
    /\ aliases = {}
    /\ importer = [pc |-> "before", good |-> <<>>, seen |-> Unseen, todo |-> <<>>, emptied |-> {}, retried |-> FALSE]
    /\ cleaning = [a \in Cleaning |-> [pc |-> "idle", files |-> {}]]
    /\ mishaps = import.mishaps

IndexedHash(f) ==
    IF \E g \in SourceFiles \ {f} : import.data[g] = import.data[f] THEN {import.data[f]} ELSE {}

-----------------------------------------------------------------------------
\* The source is an ordinary directory: a file is rewritten, with a new
\* modification time or (a restored time) with the old one; an emptied file
\* has another size, and so other metadata, in any case.
Edit(f, v, n) ==
    /\ mishaps.edits > 0
    /\ v # source[f].data
    /\ v = "empty" => n # 1
    /\ source' = [source EXCEPT ![f] = [data |-> v, stamp |-> n]]
    /\ mishaps' = [mishaps EXCEPT !.edits = @ - 1]
    /\ UNCHANGED <<import, planRow, planLock, dirs, made, aliases, importer, cleaning>>

-----------------------------------------------------------------------------
\* The plan: a group per payload, its first file canonical, the others
\* references to it.
Group(good, v) == SelectSeq(Order, LAMBDA f : good[f] = v)

ensure_directory_chain(f) == IF Under[f] = "." THEN <<>> ELSE <<[op |-> "dir", name |-> Under[f]]>>

materialize_canonical_file(f) ==
    ensure_directory_chain(f) \o <<[op |-> "file", name |-> f], [op |-> "persist", name |-> f]>>

\* The size of the source is looked at first.
materialize_reference_file(f, canonical) ==
    <<[op |-> "look", name |-> f]>> \o ensure_directory_chain(f) \o <<[op |-> "file", name |-> f], [op |-> "adopt", name |-> f, from |-> canonical]>>

GroupSteps(members) ==
    materialize_canonical_file(members[1])
    \o FlattenSeq([i \in 1..Len(members) - 1 |-> materialize_reference_file(members[i + 1], members[1])])

Steps(good) ==
    LET groups == SetToSeq({Group(good, good[f]) : f \in SourceFiles})
    IN <<[op |-> "dir", name |-> "."]>> \o FlattenSeq([i \in DOMAIN groups |-> GroupSteps(groups[i])])
       \o <<[op |-> "entries", name |-> "."], [op |-> "complete", name |-> "."]>>

\* validate_candidate: metadata, hash, metadata again, file after file.  A
\* file that is not as indexed ends the command before anything is created.
validate_candidate ==
    LET f == Order[Len(importer.good) + 1]
        give(r) == importer' = r
    IN /\ \/ /\ importer.pc = "before"
             /\ give([importer EXCEPT !.pc = IF source[f].stamp = 1 THEN "hash" ELSE "over"])
          \/ /\ importer.pc = "hash"
             /\ give([importer EXCEPT !.pc = "after", !.seen = source[f]])
          \/ /\ importer.pc = "after"
             /\ IF source[f].stamp # 1 \/ \E h \in IndexedHash(f) : importer.seen.data # h
                THEN give([importer EXCEPT !.pc = "over"])
                ELSE give([importer EXCEPT !.good = Append(@, importer.seen.data), !.seen = Unseen,
                           !.pc = IF Len(importer.good) + 1 = Len(Order) THEN "insert" ELSE "before"])
       /\ UNCHANGED <<import, source, planRow, planLock, dirs, made, aliases, cleaning, mishaps>>

Good == [f \in SourceFiles |-> importer.good[CHOOSE i \in DOMAIN Order : Order[i] = f]]

-----------------------------------------------------------------------------
\* How a COMMIT can end: confirmed, or the connection lost before or after
\* the server applied it.
Endings == {"ok"} \cup (IF mishaps.faults > 0 THEN {"unapplied", "unknown"} ELSE {})
Spent(ending) == mishaps' = [mishaps EXCEPT !.faults = IF ending = "ok" THEN @ ELSE @ - 1]

\* transactional_replayable: a lost connection replays the body once.
Replayed(ending, done, failed) ==
    IF ending = "ok" THEN [done EXCEPT !.retried = FALSE]
    ELSE IF importer.retried THEN [failed EXCEPT !.retried = FALSE]
    ELSE [importer EXCEPT !.retried = TRUE, !.pc = IF @ = "txn" THEN "work" ELSE @]

\* The row of a replay is the one its first attempt inserted, while its lease
\* lives; otherwise the command fails without knowing the plan.
insert_materialize_import_plan(ending) ==
    LET known == planRow.status = "none" \/ (planRow.status = "running" /\ planRow.live)
    IN /\ importer.pc = "insert"
       /\ planLock = "free"
       /\ IF ~known THEN importer' = [importer EXCEPT !.pc = "over"] /\ UNCHANGED <<planRow, mishaps>>
          ELSE /\ planRow' = IF planRow.status = "none" /\ ending # "unapplied"
                             THEN [planRow EXCEPT !.status = "running", !.token = 1, !.live = TRUE] ELSE planRow
               /\ importer' = Replayed(ending, [importer EXCEPT !.pc = "work", !.todo = Steps(Good)],
                                       [importer EXCEPT !.pc = "over"])
               /\ Spent(ending)
       /\ UNCHANGED <<import, source, planLock, dirs, made, aliases, cleaning>>

\* Mutant: the plan is only looked up.
PlanExists == planRow.status # "none"

\* validate_materialization_fence_on_conn: the UPDATE that renews the lease
\* of a running plan, and so locks the row until the transaction ends.
Fenced == planRow.status = "running" /\ planRow.token = 1 /\ planRow.live

Failing == [importer EXCEPT !.pc = "fail", !.retried = FALSE]

\* Steps that need no transaction: the look at the source of a reference,
\* get_dir_id that finds the directory, and a reference whose source was
\* empty when it was looked at, which adopts nothing.
Nothing(s) ==
    \/ s.op = "look"
    \/ s.op = "dir" /\ s.name \in dirs /\ ~importer.retried
    \/ s.op = "adopt" /\ s.name \in importer.emptied

SkipStep ==
    LET s == Head(importer.todo)
        empty == IF s.op = "look" /\ source[s.name].data = "empty" THEN {s.name} ELSE {}
    IN /\ importer.pc = "work"
       /\ Nothing(s)
       /\ importer' = [importer EXCEPT !.todo = Tail(@), !.emptied = @ \cup empty]
       /\ UNCHANGED <<import, source, planRow, planLock, dirs, made, aliases, cleaning, mishaps>>

BeginFenced ==
    /\ importer.pc = "work"
    /\ planLock = "free"
    /\ ~Nothing(Head(importer.todo))
    /\ IF Fenced THEN importer' = [importer EXCEPT !.pc = "txn"] /\ planLock' = "importer"
       ELSE importer' = Failing /\ UNCHANGED planLock
    /\ UNCHANGED <<import, source, planRow, dirs, made, aliases, cleaning, mishaps>>

\* The payload streamed into the file is hashed on the way and refused when
\* it is not the one that was validated.
ImportsWhatWasValidated(f) == source[f].data = Good[f]

\* A body that fails: a changed payload, or an adoption that is refused.
Refused(s) ==
    CASE s.op = "persist" -> ~ImportsWhatWasValidated(s.name)
      [] s.op = "adopt" -> s.from \notin DOMAIN made \/ made[s.from] = "blank"
      [] OTHER -> FALSE

\* What the body of a step writes.  A replayed creation finds its own row and
\* confirms it; the other bodies write the same again.
Writes(s) ==
    /\ dirs' = IF s.op = "dir" THEN dirs \cup {s.name} ELSE dirs
    /\ made' = CASE s.op = "file" -> (IF s.name \in DOMAIN made THEN made ELSE [f \in DOMAIN made \cup {s.name} |->
                                       IF f = s.name THEN "blank" ELSE made[f]])
                 [] s.op = "persist" -> [made EXCEPT ![s.name] = source[s.name].data]
                 [] s.op = "adopt" -> [made EXCEPT ![s.name] = made[s.from]]
                 [] OTHER -> made
    /\ planRow' = CASE s.op = "entries" -> [planRow EXCEPT !.entries = DOMAIN made]
                    [] s.op = "complete" -> [planRow EXCEPT !.status = "completed", !.live = FALSE]
                    [] OTHER -> planRow

\* The body, the second check of the fence, and COMMIT.  update_import_plan
\* is a with_transaction: it is not replayed.
CommitFenced(ending) ==
    LET s == Head(importer.todo)
        next == [importer EXCEPT !.todo = Tail(@), !.pc = IF s.op = "complete" THEN "over" ELSE "work"]
    IN /\ importer.pc = "txn"
       /\ planLock' = "free"
       /\ IF ~Fenced \/ Refused(s)
          THEN ending = "ok" /\ importer' = Failing /\ UNCHANGED <<planRow, dirs, made, mishaps>>
          ELSE /\ IF ending = "unapplied" THEN UNCHANGED <<planRow, dirs, made>> ELSE Writes(s)
               /\ importer' = IF s.op = "complete" /\ ending # "ok" THEN Failing ELSE Replayed(ending, next, Failing)
               /\ Spent(ending)
       /\ UNCHANGED <<import, source, aliases, cleaning>>

\* rollback_materialize_failure: the plan is marked failed if the fence still
\* holds, whatever comes of it the tree is then cleaned up.
rollback_materialize_failure(ending) ==
    /\ importer.pc = "fail"
    /\ planLock = "free"
    /\ IF Fenced /\ ending # "unapplied" THEN planRow' = [planRow EXCEPT !.status = "failed", !.live = FALSE]
       ELSE UNCHANGED planRow
    /\ Spent(ending)
    /\ importer' = [importer EXCEPT !.pc = "rollback"]
    /\ UNCHANGED <<import, source, planLock, dirs, made, aliases, cleaning>>

-----------------------------------------------------------------------------
\* Mutant: a plan left running is never taken over.
OnlyFailed == planRow.status \in {"failed", "cleaned"}

\* load_cleanup_plan: SELECT ... FOR UPDATE, then a running plan is taken
\* over only when its lease ran out.
Claimable == planRow.status \in {"failed", "cleaned"} \/ (planRow.status = "running" /\ ~planRow.live)

\* What is left of a call: an operator runs the command again, the importer
\* reports what happened.
Ended(a) == [pc |-> IF a = "importer" THEN "done" ELSE "idle", files |-> {}]

CleanupBegins(a) ==
    /\ cleaning[a].pc = "idle"
    /\ planRow.status # "none"
    /\ a = "importer" => importer.pc = "rollback"
    /\ a # "importer" => import.persistent \/ mishaps.cleanups > 0
    /\ planLock = "free"
    /\ IF Claimable THEN planLock' = a /\ cleaning' = [cleaning EXCEPT ![a] = [pc |-> "collected", files |-> DOMAIN made]]
       ELSE cleaning' = [cleaning EXCEPT ![a] = Ended(a)] /\ UNCHANGED planLock
    /\ mishaps' = IF a = "importer" \/ import.persistent THEN mishaps ELSE [mishaps EXCEPT !.cleanups = @ - 1]
    /\ UNCHANGED <<import, source, planRow, dirs, made, aliases, importer>>

\* The lifecycle locks of the collected files are taken, then an outside link
\* to one of them refuses the cleanup.
CleanupChecks(a) ==
    /\ cleaning[a].pc = "collected"
    /\ IF aliases \cap cleaning[a].files = {}
       THEN cleaning' = [cleaning EXCEPT ![a].pc = "checked"] /\ UNCHANGED planLock
       ELSE cleaning' = [cleaning EXCEPT ![a] = Ended(a)] /\ planLock' = "free"
    /\ UNCHANGED <<import, source, planRow, dirs, made, aliases, importer, mishaps>>

CleanupCommits(a, ending) ==
    /\ cleaning[a].pc = "checked"
    /\ IF ending = "unapplied" THEN UNCHANGED <<planRow, dirs, made>>
       ELSE /\ made' = [f \in DOMAIN made \ cleaning[a].files |-> made[f]]
            /\ dirs' = {}
            /\ planRow' = [planRow EXCEPT !.status = "cleaned", !.live = FALSE,
                           !.token = IF planRow.status = "running" THEN @ + 1 ELSE @]
    /\ planLock' = "free"
    /\ Spent(ending)
    /\ cleaning' = [cleaning EXCEPT ![a] = Ended(a)]
    /\ UNCHANGED <<import, source, aliases, importer>>

\* create_hardlink from outside the tree: it takes the file's lifecycle lock,
\* and finds no file once a cleanup has committed.
LifecycleLocked(f) == \E a \in Cleaning : cleaning[a].pc = "checked" /\ f \in cleaning[a].files

Link(f) ==
    /\ mishaps.links > 0
    /\ f \in DOMAIN made
    /\ ~LifecycleLocked(f)
    /\ aliases' = aliases \cup {f}
    /\ mishaps' = [mishaps EXCEPT !.links = @ - 1]
    /\ UNCHANGED <<import, source, planRow, planLock, dirs, made, importer, cleaning>>

\* The outside link is removed.
Unlink(f) ==
    /\ f \in aliases
    /\ aliases' = aliases \ {f}
    /\ UNCHANGED <<import, source, planRow, planLock, dirs, made, importer, cleaning, mishaps>>

-----------------------------------------------------------------------------
\* Sixty seconds without a renewal.
LeaseRunsOut ==
    /\ planRow.live
    /\ planRow' = [planRow EXCEPT !.live = FALSE]
    /\ UNCHANGED <<import, source, planLock, dirs, made, aliases, importer, cleaning, mishaps>>

\* A process dies; the server rolls its transaction back.
ImporterDies ==
    /\ mishaps.crashes > 0
    /\ importer.pc \notin {"over", "dead"}
    /\ importer' = [importer EXCEPT !.pc = "dead"]
    /\ cleaning' = [cleaning EXCEPT !["importer"] = Ended("importer")]
    /\ planLock' = IF planLock = "importer" THEN "free" ELSE planLock
    /\ mishaps' = [mishaps EXCEPT !.crashes = @ - 1]
    /\ UNCHANGED <<import, source, planRow, dirs, made, aliases>>

OperatorDies(a) ==
    /\ mishaps.crashes > 0
    /\ cleaning[a].pc # "idle"
    /\ cleaning' = [cleaning EXCEPT ![a] = Ended(a)]
    /\ planLock' = "free"
    /\ mishaps' = [mishaps EXCEPT !.crashes = @ - 1]
    /\ UNCHANGED <<import, source, planRow, dirs, made, aliases, importer>>

ImportNext ==
    \/ \E f \in SourceFiles, n \in {1, 2} : \E v \in import.edits : Edit(f, v, n)
    \/ validate_candidate
    \/ SkipStep
    \/ BeginFenced
    \/ \E ending \in Endings :
        \/ insert_materialize_import_plan(ending)
        \/ CommitFenced(ending)
        \/ rollback_materialize_failure(ending)
        \/ \E a \in Cleaning : CleanupCommits(a, ending)
    \/ \E a \in Cleaning : CleanupBegins(a) \/ CleanupChecks(a)
    \/ \E f \in SourceFiles : Link(f) \/ Unlink(f)
    \/ LeaseRunsOut
    \/ ImporterDies
    \/ \E a \in Operators : OperatorDies(a)

\* What is sure to go on: the importer until it dies, an operator that runs
\* the command again, and time once nobody renews the lease.
ImporterGoesOn ==
    \/ validate_candidate \/ SkipStep \/ BeginFenced
    \/ CleanupBegins("importer") \/ CleanupChecks("importer")
    \/ \E ending \in Endings : \/ insert_materialize_import_plan(ending)
                               \/ CommitFenced(ending)
                               \/ rollback_materialize_failure(ending)
                               \/ CleanupCommits("importer", ending)
ImporterLives == importer.pc # "dead" /\ ImporterGoesOn
CleanupGoesOn(a) == CleanupBegins(a) \/ CleanupChecks(a) \/ \E ending \in Endings : CleanupCommits(a, ending)
LeaseLeft == importer.pc \in {"dead", "over", "rollback"} /\ LeaseRunsOut

-----------------------------------------------------------------------------
\* A plan that is marked cleaned has no import tree, and an importer that was
\* paused when it was cleaned up never adds to it again.
CleanedIsEmpty == planRow.status = "cleaned" => dirs = {} /\ DOMAIN made = {}

\* A completed plan imported every file it listed, each with the payload that
\* was validated, though the source may have changed meanwhile; only a
\* reference whose source was found empty by then is left without payload.
CompletedIsWhole ==
    planRow.status = "completed" =>
        /\ DOMAIN made = SourceFiles /\ planRow.entries = SourceFiles
        /\ \A f \in SourceFiles :
            Under[f] \in dirs /\ made[f] = IF f \in importer.emptied THEN "blank" ELSE Good[f]

\* A cleanup never takes a file away from a link made outside its tree.
AliasesKept == aliases \subseteq DOMAIN made

\* A plan that was inserted, and one that is done with.
Listed == planRow.status # "none"
Settled == planRow.status \in {"completed", "cleaned"}
=============================================================================

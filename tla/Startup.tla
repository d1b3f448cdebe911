------------------------------ MODULE Startup ------------------------------
(***************************************************************************)
(* A start of the backend (main.py, lifespan): SQLAlchemy's create_all,    *)
(* the migrations of db/schema_migrations.py, the two column migrations of *)
(* main.py, the bootstrap administrator, and what is restored from the     *)
(* database before requests are served.  There is no version table: every  *)
(* start runs every migration on whatever database it finds.               *)
(*                                                                         *)
(* The database is a set of facts: <<t>>, the table t exists; <<t, x>>, it *)
(* has the columns, the index, the constraint or the rows x.  A migration  *)
(* is a function from such a set to the facts it leaves and whether it     *)
(* found what it needs.  Each is one transaction, and the process may end  *)
(* between any two.                                                        *)
(***************************************************************************)
EXTENDS Naturals, Sequences

CONSTANTS Releases  \* releases a database may come from; 0: an empty database

VARIABLES
  release, \* what the database came from
  db,      \* the facts
  root,    \* role of the account "admin", or "none"
  admins,  \* the other accounts with role admin: "old" and "new"
  grants,  \* those with access to every namespace
  phase,   \* "none", "down", "up", "serving" or "failed"
  step     \* the next migration

vars == <<release, db, root, admins, grants, phase, step>>

----------------------------------------------------------------------------
(* Tables *)

\* Facts, the release they came with and the release that ended them.
Lasting == 99
FirstRelease ==
  {<<<<t>>, 1, Lasting>> : t \in {"users", "namespaces", "user_namespace_access", "datasources",
                            "git_repos", "knowledge_entries", "query_history"}}
  \cup {<<<<t>>, 1, 7>> : t \in {"business_terms", "namespace_rules"}}
  \cup {<<<<t>>, 1, 10>> : t \in {"knowledge_audit_log", "mongo_collection_indexes"}}
  \cup {<<f, 1, 13>> : f \in {<<"mongo_canonical_collections">>, <<"mongo_knowledge_conflicts">>}}
  \cup {<<<<"git_repos", "status">>, 1, 3>>, <<<<"datasources", "schema_snapshot_json">>, 1, 19>>}
BeforeScopes ==
  {<<<<"query_history", "result_snapshot">>, 2, Lasting>>}
  \cup {<<<<"git_repos", x>>, 3, Lasting>> :
          x \in {"parse_status", "worker_id", "progress", "progress_message"}}
  \cup {<<<<"knowledge_entries", "repo_id">>, 3, Lasting>>}
  \cup {<<<<"knowledge_entries", "is_superseded">>, 4, Lasting>>,
        <<<<"mongo_canonical_collections", "description">>, 4, 13>>}
  \cup {<<<<"git_repos", "term_refresh">>, 6, Lasting>>, <<<<"pending_clarifications">>, 6, Lasting>>}
  \cup {<<<<"knowledge_entries", "payload">>, 7, Lasting>>}
  \cup {<<<<"terminology_conflicts">>, 8, Lasting>>, <<<<"terminology_conflicts", "orphans">>, 8, 22>>,
        <<<<"knowledge_entries", "anchor_index">>, 8, Lasting>>}
  \cup {<<<<"schema_canonical_objects">>, 9, Lasting>>}
  \cup {<<<<"schema_canonical_objects", "user_locked">>, 10, Lasting>>}
  \cup {<<<<t>>, 10, Lasting>> : t \in {"schema_canonical_candidates", "schema_canonical_conflicts",
                             "schema_canonical_audit_logs", "extraction_failure_logs"}}
  \cup {<<<<"schema_canonical_conflicts", "no_scope">>, 10, 35>>}
  \cup {<<<<"enum_dictionaries">>, 11, Lasting>>}
  \cup {<<<<t>>, 12, Lasting>> : t \in {"enum_sync_queue", "enum_binding_conflicts"}}
  \cup {<<<<"knowledge_entries", "hypothetical_queries">>, 14, Lasting>>,
        <<<<"knowledge_entries", "recall_count">>, 15, Lasting>>,
        <<<<"knowledge_entries", "related_entry_ids">>, 16, Lasting>>}
  \cup {<<<<"agent_traces">>, 17, Lasting>>}
  \cup {<<<<"agent_traces", "session_id">>, 18, Lasting>>,
        <<<<"schema_canonical_conflicts", "open_index">>, 18, Lasting>>,
        <<<<"enum_binding_conflicts", "open_index">>, 18, Lasting>>}
  \cup {<<<<"extractor_profiles">>, 20, Lasting>>, <<<<"git_repos", "profile_id">>, 20, Lasting>>}
SinceScopes ==
  {<<<<"users", "wide_role">>, 21, Lasting>>, <<<<"users", "set_null">>, 21, Lasting>>,
        <<<<"namespaces", "created_by">>, 21, Lasting>>}
  \cup {<<<<"datasources", "db_profile">>, 22, Lasting>>,
        <<<<"terminology_conflicts", "cascade">>, 22, Lasting>>}
  \cup {<<<<"model_configs">>, 23, Lasting>>, <<<<"model_configs", "two_in_use">>, 23, 31>>}
  \cup {<<<<"model_configs", "protocol">>, 24, Lasting>>, <<<<"model_config_audit_logs">>, 25, Lasting>>}
  \cup {<<<<"sessions">>, 26, Lasting>>, <<<<"query_history", "feedback_rating">>, 27, Lasting>>,
        <<<<"datasources", "timezone">>, 28, Lasting>>}
  \cup {<<<<"model_configs", "max_history_turns">>, 29, Lasting>>,
        <<<<"knowledge_entries", "created_at_default">>, 30, Lasting>>}
  \cup {<<<<"model_configs", x>>, 31, Lasting>> : x \in {"namespace_id", "one_in_use"}}
  \cup {<<<<t, "git_token">>, 32, Lasting>> : t \in {"namespaces", "git_repos"}}
  \cup {<<<<"git_token_configs">>, 33, Lasting>>, <<<<"git_token_configs", "one_in_use">>, 33, Lasting>>,
        <<<<"git_token_configs", "set_null">>, 34, Lasting>>}
  \cup {<<<<"schema_canonical_conflicts", x>>, 35, Lasting>> : x \in {"conflict_scope", "scope_index"}}
History == FirstRelease \cup BeforeScopes \cup SinceScopes

Schema(n) == {h[1] : h \in {x \in History : x[2] <= n /\ n < x[3]}}
Tables(d) == {f[1] : f \in {x \in d : Len(x) = 1}}

\* What the program now running declares, and what its models do not know of.
Declared == Schema(35) \ {<<"knowledge_entries", "anchor_index">>,
                           <<"model_configs", "one_in_use">>, <<"git_token_configs", "one_in_use">>}

\* create_all makes the missing tables as declared, and leaves the others alone.
CreateAll(d) == d \cup {f \in Declared : f[1] \notin Tables(d)}

----------------------------------------------------------------------------
(* Migrations *)

Result(ok, d) == [ok |-> ok, db |-> d]
Adds(d, needs, new) == Result(needs \subseteq d, d \cup new)
Drops(d, old) == Result(TRUE, d \ old)
DropsTable(d, ts) == Drops(d, {f \in d : f[1] \in ts})
Column(d, t, x) == Adds(d, {<<t>>}, {<<t, x>>})
\* CREATE TABLE IF NOT EXISTS
Table(d, t, refs) == IF <<t>> \in d THEN Result(TRUE, d)
                       ELSE Adds(d, {<<r>> : r \in refs}, {f \in Declared : f[1] = t})
\* Nothing happens where the table is missing.
IfTable(d, t, r) == IF <<t>> \in d THEN r ELSE Result(TRUE, d)

KnowledgeColumns(d) == Column(d, "knowledge_entries", "is_superseded")
MongoColumns(d) ==
  IfTable(d, "mongo_canonical_collections", Column(d, "mongo_canonical_collections", "description"))
GitRepoColumns(d) == Column(d, "git_repos", "term_refresh")
PendingClarifications(d) == Table(d, "pending_clarifications", {"namespaces"})
Stage1Columns(d) == Adds(d, {<<"knowledge_entries">>, <<"users">>}, {<<"knowledge_entries", "payload">>})
DropBusinessTerms(d) == DropsTable(d, {"business_terms"})
DropNamespaceRules(d) == DropsTable(d, {"namespace_rules"})
DropAuditLog(d) == DropsTable(d, {"knowledge_audit_log"})
TerminologyConflicts(d) ==
  Table(d, "terminology_conflicts", {"namespaces", "knowledge_entries", "git_repos", "users"})
AnchorIndex(d) ==
  Adds(d, {<<"knowledge_entries", "payload">>, <<"knowledge_entries", "is_superseded">>},
       {<<"knowledge_entries", "anchor_index">>})
CanonicalObjects(d) == Table(d, "schema_canonical_objects", {"namespaces"})
CanonicalColumns(d) == Column(d, "schema_canonical_objects", "user_locked")

\* Rows without a scope are given one before the column becomes NOT NULL.
ConflictScopes(d) ==
  IfTable(d, "schema_canonical_conflicts",
    Result(TRUE, (d \ {<<"schema_canonical_conflicts", "no_scope">>})
                   \cup {<<"schema_canonical_conflicts", x>> :
                           x \in {"conflict_scope", "scope_index", "open_index"}}))

\* Its index on (namespace_id, conflict_scope) is made wherever it is missing.
Phase1Tables(d) ==
  LET T == {"schema_canonical_candidates", "schema_canonical_conflicts",
            "schema_canonical_audit_logs", "extraction_failure_logs"}
      e == d \cup {f \in Declared : f[1] \in T \ Tables(d)}
  IN Result({<<"namespaces">>, <<"schema_canonical_conflicts", "conflict_scope">>} \subseteq e, e)

DropMongoIndexes(d) == DropsTable(d, {"mongo_collection_indexes"})
EnumDictionaries(d) == Table(d, "enum_dictionaries", {"namespaces", "users"})
EnumSyncTables(d) ==
  Result(TRUE, d \cup {f \in Declared : f[1] \in {"enum_sync_queue", "enum_binding_conflicts"} \ Tables(d)})
DropMongoLayer(d) == DropsTable(d, {"mongo_knowledge_conflicts", "mongo_canonical_collections"})
HypotheticalQueries(d) == Column(d, "knowledge_entries", "hypothetical_queries")
RecallColumns(d) == Column(d, "knowledge_entries", "recall_count")
RelatedEntries(d) == Column(d, "knowledge_entries", "related_entry_ids")
AgentTraces(d) ==
  LET r == Table(d, "agent_traces", {"namespaces"})
  IN Result(r.ok, r.db \cup {<<"agent_traces", "session_id">>})

\* Indexes without a predicate are made again, now over the open rows only.
OpenIndexes(d) ==
  Adds(d, {<<"schema_canonical_conflicts", "conflict_scope">>, <<"enum_binding_conflicts">>},
       {<<t, "open_index">> : t \in {"schema_canonical_conflicts", "enum_binding_conflicts"}})

DropSnapshot(d) == Drops(d, {<<"datasources", "schema_snapshot_json">>})
ThreeTierRbac(d) ==
  Adds(d, {<<"users">>, <<"namespaces">>, <<"user_namespace_access">>},
       {<<"users", "wide_role">>, <<"users", "set_null">>, <<"namespaces", "created_by">>})
DatasourceProfile(d) == Column(d, "datasources", "db_profile")
ExtractorProfiles(d) == Table(d, "extractor_profiles", {"namespaces"})
RepoProfile(d) ==
  Adds(d, {<<"git_repos">>, <<"extractor_profiles">>}, {<<"git_repos", "profile_id">>})
ProfileSeeds(d) == Adds(d, {<<"extractor_profiles">>}, {<<"extractor_profiles", "java-spring">>})

\* Mutant: the constraint is added without deleting the rows that break it.
CascadeKeepsRows(d) ==
  Result(<<"terminology_conflicts", "orphans">> \notin d, d \cup {<<"terminology_conflicts", "cascade">>})

\* Conflicts on entries that no longer exist go before the constraint comes.
Cascade(d) ==
  LET e == d \ {<<"terminology_conflicts", "orphans">>}
  IN Result(<<"terminology_conflicts">> \in d, e \cup {<<"terminology_conflicts", "cascade">>})

\* One configuration in use per group: possible once no group has two.
UniqueInUse(d) ==
  Result({<<"model_configs", "namespace_id">>} \subseteq d /\ <<"model_configs", "two_in_use">> \notin d,
         d \cup {<<"model_configs", "one_in_use">>})

\* Mutant: the index comes with the table, as it did before a database was lost to it.
ModelConfigsIndexed(d) ==
  LET r == Table(d, "model_configs", {"namespaces"})
      u == UniqueInUse(r.db \ {<<"model_configs", "two_in_use">>})
  IN Result(r.ok /\ u.ok, u.db)

ModelConfigs(d) == Table(d, "model_configs", {"namespaces"})
ModelProtocol(d) == Column(d, "model_configs", "protocol")
ModelAuditLogs(d) == Table(d, "model_config_audit_logs", {"model_configs", "users"})
SessionsTable(d) == Table(d, "sessions", {"namespaces", "users"})
FeedbackRating(d) == Column(d, "query_history", "feedback_rating")
Timezone(d) == Column(d, "datasources", "timezone")
MaxHistoryTurns(d) == Column(d, "model_configs", "max_history_turns")
CreatedAtDefault(d) == Column(d, "knowledge_entries", "created_at_default")
NamespaceConfigs(d) ==
  IfTable(d, "model_configs",
    UniqueInUse((d \cup {<<"model_configs", "namespace_id">>}) \ {<<"model_configs", "two_in_use">>}))
NamespaceToken(d) == Column(d, "namespaces", "git_token")
RepoToken(d) == Column(d, "git_repos", "git_token")
TokenConfigs(d) ==
  LET r == Table(d, "git_token_configs", {"users"})
  IN Result(r.ok, r.db \cup {<<"git_token_configs", "one_in_use">>})
TokenCreator(d) ==
  IfTable(d, "git_token_configs", Column(d, "git_token_configs", "set_null"))

\* main.py: each of these commits by itself.
RenameStatus(d) ==
  IF <<"git_repos", "status">> \in d /\ <<"git_repos", "parse_status">> \notin d
    THEN Result(TRUE, (d \ {<<"git_repos", "status">>}) \cup {<<"git_repos", "parse_status">>})
    ELSE Result(TRUE, d)
WorkerId(d) == Column(d, "git_repos", "worker_id")
RepoProgress(d) == Column(d, "git_repos", "progress")
ProgressMessage(d) == Column(d, "git_repos", "progress_message")
EntryRepo(d) ==
  Adds(d, {<<"knowledge_entries">>, <<"git_repos">>}, {<<"knowledge_entries", "repo_id">>})
ResultSnapshot(d) == Column(d, "query_history", "result_snapshot")

\* run_all, then main.py: from here on in this order.
Migration(n, d) ==
  CASE n = 1 -> KnowledgeColumns(d) [] n = 2 -> MongoColumns(d) [] n = 3 -> GitRepoColumns(d)
    [] n = 4 -> PendingClarifications(d) [] n = 5 -> Stage1Columns(d) [] n = 6 -> DropBusinessTerms(d)
    [] n = 7 -> DropNamespaceRules(d) [] n = 8 -> DropAuditLog(d) [] n = 9 -> TerminologyConflicts(d)
    [] n = 10 -> AnchorIndex(d) [] n = 11 -> CanonicalObjects(d) [] n = 12 -> CanonicalColumns(d)
    [] n = 13 -> ConflictScopes(d) [] n = 14 -> Phase1Tables(d) [] n = 15 -> DropMongoIndexes(d)
    [] n = 16 -> EnumDictionaries(d) [] n = 17 -> EnumSyncTables(d) [] n = 18 -> DropMongoLayer(d)
    [] n = 19 -> HypotheticalQueries(d) [] n = 20 -> RecallColumns(d) [] n = 21 -> RelatedEntries(d)
    [] n = 22 -> AgentTraces(d) [] n = 23 -> OpenIndexes(d) [] n = 24 -> DropSnapshot(d)
    [] n = 25 -> ThreeTierRbac(d) [] n = 26 -> DatasourceProfile(d) [] n = 27 -> ExtractorProfiles(d)
    [] n = 28 -> RepoProfile(d) [] n = 29 -> ProfileSeeds(d) [] n = 30 -> Cascade(d)
    [] n = 31 -> ModelConfigs(d) [] n = 32 -> ModelProtocol(d) [] n = 33 -> ModelAuditLogs(d)
    [] n = 34 -> SessionsTable(d) [] n = 35 -> FeedbackRating(d) [] n = 36 -> Timezone(d)
    [] n = 37 -> MaxHistoryTurns(d) [] n = 38 -> CreatedAtDefault(d) [] n = 39 -> NamespaceConfigs(d)
    [] n = 40 -> NamespaceToken(d) [] n = 41 -> RepoToken(d) [] n = 42 -> TokenConfigs(d)
    [] n = 43 -> TokenCreator(d) [] n = 44 -> RenameStatus(d) [] n = 45 -> WorkerId(d)
    [] n = 46 -> RepoProgress(d) [] n = 47 -> ProgressMessage(d) [] n = 48 -> EntryRepo(d)
    [] n = 49 -> ResultSnapshot(d)

LastStep == 49
Rbac == 25  \* the place of ThreeTierRbac

----------------------------------------------------------------------------
Init ==
  /\ release = 0 /\ db = {} /\ root = "none"
  /\ admins = {} /\ grants = {} /\ phase = "none" /\ step = 0

\* A database some earlier release has used; before release 21 every
\* administrator saw every namespace.
Choose(n) ==
  /\ phase = "none" /\ phase' = "down"
  /\ release' = n /\ db' = Schema(n)
  /\ root' = CASE n = 0 -> "none" [] 0 < n /\ n < 21 -> "admin" [] n >= 21 -> "super_admin"
  /\ admins' = IF n = 0 THEN {} ELSE {"old"}
  /\ UNCHANGED <<grants, step>>

\* lifespan
Start ==
  /\ phase = "down" /\ phase' = "up"
  /\ db' = CreateAll(db) /\ step' = 1
  /\ UNCHANGED <<release, root, admins, grants>>

\* Mutant: the backfill runs whenever the migration does.
GrantsAlways == grants \cup admins

\* The backfill of ThreeTierRbac: the width of the role tells an old database.
Grants == IF <<"users", "wide_role">> \in db THEN grants ELSE grants \cup admins

Migrate ==
  /\ phase = "up" /\ step <= LastStep
  /\ LET r == Migration(step, db) IN
     /\ phase' = IF r.ok THEN "up" ELSE "failed"
     /\ step' = step + 1
     /\ db' = IF r.ok THEN r.db ELSE db
     /\ IF step = Rbac /\ r.ok
          THEN grants' = Grants /\ root' = IF root = "admin" THEN "super_admin" ELSE root
          ELSE UNCHANGED <<grants, root>>
  /\ UNCHANGED <<release, admins>>

\* _init_admin; load_from_db and init_all_automatons read all they read there.
Serve ==
  /\ phase = "up" /\ step > LastStep
  /\ phase' = "serving" /\ step' = 0
  /\ root' = IF root = "none" THEN "super_admin" ELSE root
  /\ UNCHANGED <<release, db, admins, grants>>

\* The process ends, at any point.
Crash ==
  /\ phase \in {"up", "serving"} /\ phase' = "down" /\ step' = 0
  /\ UNCHANGED <<release, db, root, admins, grants>>

\* A new administrator, without access to any namespace yet.
CreateAdmin ==
  /\ phase = "serving" /\ admins' = admins \cup {"new"}
  /\ UNCHANGED <<release, db, root, grants, phase, step>>

\* update_user gives "admin" the role admin: not the last super_admin.
Demote ==
  /\ phase = "serving" /\ root = "super_admin"
  /\ root' = "admin"
  /\ UNCHANGED <<release, db, admins, grants, phase, step>>

Next ==
  \/ \E n \in Releases : Choose(n)
  \/ Start \/ Migrate \/ Serve \/ Crash \/ CreateAdmin \/ Demote

Spec == Init /\ [][Next]_vars

----------------------------------------------------------------------------
\* Whatever release a database comes from and wherever earlier starts ended, no
\* migration misses what it needs, and the database that is served has all that the
\* models and the migrations of this release know of.
StartsFromAnyRelease ==
  /\ phase # "failed"
  /\ phase = "serving" => Schema(35) \subseteq db

\* Administrators from the time before scopes keep what they could see, and nobody
\* else is given every namespace by a restart.
ScopesAreKept ==
  /\ phase = "serving" => (("old" \in grants) <=> (0 < release /\ release < 21))
  /\ "new" \notin grants

============================================================================

-------------------------- MODULE SchemaMigrations --------------------------
(***************************************************************************)
(* The database schema: the Alembic scripts 0001 to 0005, the processes    *)
(* that run them and the ORM classes that rely on the result.              *)
(*                                                                         *)
(* A schema is a set of facts <<table, kind, name>>.  `python -m app`      *)
(* upgrades to the newest revision and serves only if that succeeded; an   *)
(* operator may take the schema to any revision.  A run is one transaction *)
(* (migrations/env.py): it reads the revision, executes the statements of  *)
(* the scripts between that revision and its aim, each locking the tables  *)
(* it touches, and stamps the revision after each script.                  *)
(* A table is created together with the indexes the script puts on it.     *)
(***************************************************************************)
EXTENDS Naturals, FiniteSets, Sequences
LOCAL INSTANCE SequencesExt

CONSTANTS
  Deployments,    (* processes started with `python -m app`                *)
  Operators,      (* alembic commands run by hand                          *)
  Aims,           (* the revisions operators may ask for                   *)
  NoRun

Runs == Deployments \cup Operators
Newest == 5
Versions == "alembic_version"

ASSUME SchemaMigrationsAssumption == NoRun \notin Runs /\ Aims \subseteq 0..Newest

VARIABLES
  schema,         (* the committed facts                                   *)
  own,            (* the facts of the tables a run has locked, as it sees  *)
                  (* them                                                  *)
  tableLock,         (* the run that locks each table, or the name of one     *)
  stage, since, to, pos,   (* how far each run is in its script             *)
  social,         (* a user without a password is stored                   *)
  overlapped,          (* runs that overlapped another one                      *)
  lowered         (* deployments during which a downgrade was committed    *)

vars == <<schema, own, tableLock, stage, since, to, pos, social, overlapped, lowered>>

Facts(t, required, optional, references, indexes) ==
  LET of(kind, names) == {t} \X {kind} \X names
  IN of("table", {t}) \cup of("column", required \cup optional) \cup of("required", required)
       \cup of("references", references) \cup of("index", indexes)

Create(t, required, optional, references, indexes) ==
  [op |-> "create", table |-> t, refs |-> references,
   facts |-> Facts(t, required, optional, references, indexes)]
Alter(op, t, facts) ==
  [op |-> op, table |-> t, refs |-> {}, facts |-> {<<t, f[1], f[2]>> : f \in facts}]
Add(t, facts) == Alter("add", t, facts)
Drop(t, facts) == Alter("drop", t, facts)
DropTable(t) == Alter("drop table", t, {})

Stamps == {"created_at", "updated_at"}

-----------------------------------------------------------------------------
(* What the scripts do. *)

Accounts1 == <<
  Create("plans", {"id", "monthly_price", "sms_per_month", "max_devices", "api_access",
                   "priority_support"}, {}, {}, {}),
  Add("plans", {"row"} \X {"start", "biznes", "korxona"}),
  Create("users", {"id", "email", "password_hash", "first_name", "last_name", "phone", "company",
                   "role", "avatar_hue", "plan_id", "timezone", "sms_sent_this_month"} \cup Stamps,
         {"deleted_at"}, {"plans"}, {"uq_users_email_lower"}),
  Create("api_keys", {"id", "user_id", "name", "prefix", "key_hash", "scopes"} \cup Stamps,
         {"last_used_at", "revoked_at"}, {"users"}, {"uq_key_hash", "ix_api_keys_user_id"}) >>

Devices1 == <<
  Create("devices", {"id", "user_id", "name", "model", "phone", "operator", "status", "connection",
                     "battery", "signal", "android_version", "app_version", "sent_today",
                     "daily_limit", "is_default"} \cup Stamps,
         {"token_hash", "last_seen_at", "deleted_at"}, {"users"},
         {"uq_token_hash", "ix_devices_user_deleted"}) >>

Contacts1 == <<
  Create("contact_groups", {"id", "user_id", "name", "color"} \cup Stamps, {"deleted_at"},
         {"users"}, {"ix_contact_groups_user_id"}),
  Create("contacts", {"id", "user_id", "first_name", "last_name", "phone"} \cup Stamps,
         {"company", "deleted_at"}, {"users"}, {"ix_contacts_user_phone"}),
  Create("contact_group_members", {"contact_id", "group_id"}, {}, {"contacts", "contact_groups"}, {}),
  Create("templates", {"id", "user_id", "name", "text", "variables", "used_count"} \cup Stamps,
         {"deleted_at"}, {"users"}, {"ix_templates_user_id"}) >>

Messages1 == <<
  Create("messages", {"id", "created_at", "user_id", "to_phone", "text", "segments", "status",
                      "priority", "attempts", "max_attempts"},
         {"device_id", "contact_id", "lease_expires_at", "sent_at", "delivered_at", "fail_reason"},
         {"users", "devices", "contacts"},
         {"ix_messages_user_created", "ix_messages_queue", "ix_messages_status"}),
  Add("messages", {"partition"} \X {"default", "2026_08", "2026_09", "2026_10", "2026_11", "2026_12"}),
  Add("messages", {<<"view", "daily_stats">>}) >>

Telegram1 == <<
  Create("telegram_bots", {"id", "user_id", "username", "title", "status", "token_hash",
                           "webhook_ok", "connected_at"} \cup Stamps,
         {"deleted_at"}, {"users"}, {"uq_telegram_bots_user_live"}),
  Create("bot_subscribers", {"id", "bot_id", "name", "avatar_hue", "source", "joined_at"} \cup Stamps,
         {"username", "deleted_at"}, {"telegram_bots"}, {"ix_bot_subscribers_bot_id"}),
  Create("bot_broadcasts", {"id", "bot_id", "kind", "text", "audience", "delivered", "status",
                            "created_at"},
         {"media_name", "button_label", "button_url"}, {"telegram_bots"},
         {"ix_bot_broadcasts_bot_created"}) >>

Notices1 == <<
  Create("notifications", {"id", "user_id", "kind", "severity", "title", "body", "read"} \cup Stamps,
         {}, {"users"}, {"ix_notifications_user_read_created"}),
  Create("invoices", {"id", "user_id", "number", "date", "amount", "status", "plan_id",
                      "period"} \cup Stamps, {}, {"users", "plans"}, {"ix_invoices_user_id"}) >>

Upgrade2 == <<
  Alter("loosen", "users", {<<"required", "password_hash">>}),
  Add("users", {<<"column", "email_verified_at">>}),
  Add("users", {<<"column", "polar_customer_id">>}),
  Add("users", {<<"index", "ix_users_polar_customer_id">>}),
  Create("oauth_accounts", {"id", "user_id", "provider", "subject"} \cup Stamps, {}, {"users"},
         {"ix_oauth_accounts_user_id", "uq_oauth_provider_subject"}),
  Add("invoices", {<<"column", "external_id">>}),
  Add("invoices", {<<"index", "uq_invoices_external_id">>}) >>

Upgrade3 == <<
  Add("telegram_bots", {"column"} \X {"token_enc", "bot_user_id", "webhook_secret"}),
  Add("telegram_bots", {<<"index", "ix_telegram_bots_webhook_secret">>}),
  Add("bot_subscribers", {<<"column", "chat_id">>}),
  Add("bot_subscribers", {"index"} \X {"ix_bot_subscribers_chat_id",
                                       "uq_bot_subscribers_bot_chat_live"}) >>

Upgrade4 == << Add("users", {<<"column", "plan_expires_at">>}) >>

Upgrade5 == <<
  Add("messages", {<<"column", "scheduled_at">>}),
  Add("messages", {<<"index", "ix_messages_scheduled_due">>}) >>

Ups == << Accounts1 \o Devices1 \o Contacts1 \o Messages1 \o Telegram1 \o Notices1,
          Upgrade2, Upgrade3, Upgrade4, Upgrade5 >>

Downgrade1 == <<
  DropTable("invoices"), DropTable("notifications"), DropTable("bot_broadcasts"),
  DropTable("bot_subscribers"), DropTable("telegram_bots"),
  Alter("unview", "messages", {<<"view", "daily_stats">>}), DropTable("messages"),
  DropTable("templates"), DropTable("contact_group_members"), DropTable("contacts"),
  DropTable("contact_groups"), DropTable("devices"), DropTable("api_keys"), DropTable("users"),
  DropTable("plans") >>

Downgrade2 == <<
  Drop("invoices", {<<"index", "uq_invoices_external_id">>}),
  Drop("invoices", {<<"column", "external_id">>}),
  Drop("oauth_accounts", {"index"} \X {"uq_oauth_provider_subject", "ix_oauth_accounts_user_id"}),
  DropTable("oauth_accounts"),
  Drop("users", {<<"index", "ix_users_polar_customer_id">>}),
  Drop("users", {"column"} \X {"polar_customer_id", "email_verified_at"}),
  Alter("tighten", "users", {<<"required", "password_hash">>}) >>

Downgrade3 == <<
  Drop("bot_subscribers", {"index"} \X {"uq_bot_subscribers_bot_chat_live",
                                        "ix_bot_subscribers_chat_id"}),
  Drop("bot_subscribers", {<<"column", "chat_id">>}),
  Drop("telegram_bots", {<<"index", "ix_telegram_bots_webhook_secret">>}),
  Drop("telegram_bots", {"column"} \X {"webhook_secret", "bot_user_id", "token_enc"}) >>

Downgrade4 == << Drop("users", {<<"column", "plan_expires_at">>}) >>

Downgrade5 == <<
  Drop("messages", {<<"index", "ix_messages_scheduled_due">>}),
  Drop("messages", {<<"column", "scheduled_at">>}) >>

Downs == << Downgrade1, Downgrade2, Downgrade3, Downgrade4, Downgrade5 >>

\* The row of alembic_version goes from revision i to revision j: it must be
\* there, and only once.
Stamp(i, j) ==
  (IF i > 0 THEN << Drop(Versions, {<<"row", i>>}) >> ELSE <<>>)
    \o (IF j > 0 THEN << Add(Versions, {<<"row", j>>}) >> ELSE <<>>)

\* The statements that take the schema from revision i to revision j.  The
\* table of revisions is created if no revision is found.
Script(i, j) ==
  (IF i = 0 /\ j > 0 THEN << Alter("ensure", Versions, {<<"table", Versions>>}) >> ELSE <<>>)
    \o FlattenSeq([k \in 1..(IF j > i THEN j - i ELSE 0) |->
                     Ups[i + k] \o Stamp(i + k - 1, i + k)])
    \o FlattenSeq([k \in 1..(IF i > j THEN i - j ELSE 0) |->
                     Downs[i - k + 1] \o Stamp(i - k + 1, i - k)])

Scripts == [r \in (0..Newest) \X (0..Newest) |-> Script(r[1], r[2])]

-----------------------------------------------------------------------------
(* What the ORM classes map. *)

Plan == Facts("plans", {"id", "monthly_price", "sms_per_month", "max_devices", "api_access",
                        "priority_support"}, {}, {}, {})
User == Facts("users",
  {"id", "email", "first_name", "last_name", "phone", "company", "role", "avatar_hue", "plan_id",
   "timezone", "sms_sent_this_month"} \cup Stamps,
  {"password_hash", "plan_expires_at", "email_verified_at", "polar_customer_id", "deleted_at"},
  {"plans"}, {"uq_users_email_lower"})
OAuthAccount == Facts("oauth_accounts", {"id", "user_id", "provider", "subject"} \cup Stamps, {},
  {"users"}, {"ix_oauth_accounts_user_id", "uq_oauth_provider_subject"})
ApiKey == Facts("api_keys", {"id", "user_id", "name", "prefix", "key_hash", "scopes"} \cup Stamps,
  {"last_used_at", "revoked_at"}, {"users"}, {"uq_key_hash", "ix_api_keys_user_id"})
Device == Facts("devices",
  {"id", "user_id", "name", "model", "phone", "operator", "status", "connection", "battery",
   "signal", "android_version", "app_version", "sent_today", "daily_limit", "is_default"} \cup Stamps,
  {"token_hash", "last_seen_at", "deleted_at"}, {"users"}, {"uq_token_hash", "ix_devices_user_deleted"})
Contacts ==
  Facts("contact_groups", {"id", "user_id", "name", "color"} \cup Stamps, {"deleted_at"}, {"users"},
        {"ix_contact_groups_user_id"})
  \cup Facts("contacts", {"id", "user_id", "first_name", "last_name", "phone"} \cup Stamps,
             {"company", "deleted_at"}, {"users"}, {"ix_contacts_user_phone"})
  \cup Facts("contact_group_members", {"contact_id", "group_id"}, {},
             {"contacts", "contact_groups"}, {})
Template == Facts("templates", {"id", "user_id", "name", "text", "variables", "used_count"} \cup Stamps,
  {"deleted_at"}, {"users"}, {"ix_templates_user_id"})
Message == Facts("messages",
  {"id", "created_at", "user_id", "to_phone", "text", "segments", "status", "priority", "attempts",
   "max_attempts"},
  {"device_id", "contact_id", "lease_expires_at", "scheduled_at", "sent_at", "delivered_at",
   "fail_reason"},
  {"users", "devices", "contacts"}, {"ix_messages_user_created", "ix_messages_queue", "ix_messages_status"})
Telegram ==
  Facts("telegram_bots",
        {"id", "user_id", "username", "title", "status", "token_hash", "webhook_ok",
         "connected_at"} \cup Stamps,
        {"token_enc", "bot_user_id", "webhook_secret", "deleted_at"}, {"users"},
        {"uq_telegram_bots_user_live", "ix_telegram_bots_webhook_secret"})
  \cup Facts("bot_subscribers", {"id", "bot_id", "name", "avatar_hue", "source", "joined_at"} \cup Stamps,
             {"chat_id", "username", "deleted_at"}, {"telegram_bots"},
             {"ix_bot_subscribers_bot_id", "ix_bot_subscribers_chat_id"})
  \cup Facts("bot_broadcasts", {"id", "bot_id", "kind", "text", "audience", "delivered", "status",
                                "created_at"},
             {"media_name", "button_label", "button_url"}, {"telegram_bots"},
             {"ix_bot_broadcasts_bot_created"})
Notification == Facts("notifications",
  {"id", "user_id", "kind", "severity", "title", "body", "read"} \cup Stamps, {}, {"users"},
  {"ix_notifications_user_read_created"})
Invoice == Facts("invoices",
  {"id", "user_id", "number", "date", "amount", "status", "plan_id", "period"} \cup Stamps,
  {"external_id"}, {"users", "plans"}, {"ix_invoices_user_id"})

Models == Plan \cup User \cup OAuthAccount \cup ApiKey \cup Device \cup Contacts \cup Template
            \cup Message \cup Telegram \cup Notification \cup Invoice

-----------------------------------------------------------------------------
(* What a statement needs of a schema s, and what it makes of it. *)

Tables(s) == {f[1] : f \in s}

Fits(o, s) ==
  CASE o.op = "create" -> o.table \notin Tables(s) /\ o.refs \subseteq Tables(s)
    [] o.op = "add" -> o.table \in Tables(s) /\ o.facts \cap s = {}
    [] o.op = "drop" -> o.facts \subseteq s
    [] o.op = "drop table" ->
         /\ o.table \in Tables(s)
         /\ \A f \in s : ~(f[2] = "references" /\ f[3] = o.table) /\ ~(f[1] = o.table /\ f[2] = "view")
    [] o.op \in {"loosen", "tighten"} -> o.table \in Tables(s)
    [] o.op \in {"unview", "ensure"} -> TRUE

\* Besides the schema, the data may refuse a statement.
Possible(o, s) == Fits(o, s) /\ (o.op = "tighten" => ~social)

After(o, s) ==
  CASE o.op \in {"create", "add", "tighten", "ensure"} -> s \cup o.facts
    [] o.op \in {"drop", "loosen", "unview"} -> s \ o.facts
    [] o.op = "drop table" -> {f \in s : f[1] # o.table}

\* A statement locks its table and those its foreign keys refer to.
Locks(o, s) ==
  {o.table} \cup o.refs \cup
  (IF o.op = "drop table" THEN {f[3] : f \in {g \in s : g[1] = o.table /\ g[2] = "references"}}
   ELSE {})

\* The revision the table of revisions names; zero stands for none.
Revision(s) ==
  LET rows == {f \in s : f[1] = Versions /\ f[2] = "row"}
  IN IF rows = {} THEN 0 ELSE (CHOOSE f \in rows : TRUE)[3]

-----------------------------------------------------------------------------
(* The runs. *)

Running == {r \in Runs : stage[r] = "running"}
Statements(r) == Scripts[<<since[r], to[r]>>]
View(r) == {f \in schema : tableLock[f[1]] # r} \cup own[r]
\* A run ends: its locks are released and its statements forgotten.
End(r, p) ==
  /\ tableLock' = [t \in DOMAIN tableLock |-> IF tableLock[t] = r THEN NoRun ELSE tableLock[t]]
  /\ own' = [own EXCEPT ![r] = {}]
  /\ since' = [since EXCEPT ![r] = 0] /\ to' = [to EXCEPT ![r] = 0]
  /\ pos' = [pos EXCEPT ![r] = 1]
  /\ stage' = [stage EXCEPT ![r] = p]

\* A run begins: it reads the revision.  A process that served, and a run that
\* ended, may be started again.
Start(r) ==
  /\ r \notin Running
  /\ since' = [since EXCEPT ![r] = Revision(schema)]
  /\ \E aim \in IF r \in Deployments THEN {Newest} ELSE Aims : to' = [to EXCEPT ![r] = aim]
  /\ pos' = [pos EXCEPT ![r] = 1]
  /\ overlapped' = IF Running = {} THEN overlapped \ {r} ELSE overlapped \cup Running \cup {r}
  /\ lowered' = lowered \ {r}
  /\ stage' = [stage EXCEPT ![r] = "running"]
  /\ UNCHANGED <<schema, own, tableLock, social>>

\* The next statement waits for its locks.
Statement(r) == Statements(r)[pos[r]]
Ready(r) ==
  /\ r \in Running /\ pos[r] <= Len(Statements(r))
  /\ \A t \in Locks(Statement(r), View(r)) : tableLock[t] \in {r, NoRun}

Execute(r) ==
  /\ Ready(r) /\ Possible(Statement(r), View(r))
  /\ tableLock' = [t \in DOMAIN tableLock |-> IF t \in Locks(Statement(r), View(r)) THEN r ELSE tableLock[t]]
  /\ own' = [own EXCEPT ![r] = {f \in After(Statement(r), View(r)) : tableLock'[f[1]] = r}]
  /\ pos' = [pos EXCEPT ![r] = @ + 1]
  /\ UNCHANGED <<schema, stage, since, to, social, overlapped, lowered>>

\* A statement fails: the run is rolled back and the process exits.
Break(r) ==
  /\ Ready(r) /\ ~Possible(Statement(r), View(r))
  /\ End(r, IF Statement(r).op = "tighten" THEN "refused" ELSE "failed")
  /\ UNCHANGED <<schema, social, overlapped, lowered>>

\* Mutant: the server is started whatever becomes of the upgrade.
KillServes(r) ==
  /\ r \in Running
  /\ End(r, IF r \in Deployments THEN "serving" ELSE "killed")
  /\ UNCHANGED <<schema, social, overlapped, lowered>>

\* Mutant: each statement is committed by itself, so a run that ends early
\* leaves what it did.
KillKeeps(r) ==
  /\ r \in Running
  /\ schema' = View(r)
  /\ End(r, "killed")
  /\ UNCHANGED <<social, overlapped, lowered>>

\* The process or its alembic child is killed, loses its connection or is the victim of a deadlock.
Kill(r) ==
  /\ r \in Running
  /\ End(r, "killed")
  /\ UNCHANGED <<schema, social, overlapped, lowered>>

\* The transaction commits; a deployment goes on to serve.
Commit(r) ==
  /\ r \in Running /\ pos[r] > Len(Statements(r))
  /\ schema' = View(r)
  /\ social' = (social /\ "users" \in Tables(View(r)))
  /\ lowered' = IF to[r] < since[r] THEN Deployments \ {r} ELSE lowered
  /\ End(r, IF r \in Deployments THEN "serving" ELSE "done")
  /\ UNCHANGED <<overlapped>>

\* A server stores a user who signed in with a provider and has no password.
StoreUser(r) ==
  /\ stage[r] = "serving" /\ tableLock["users"] = NoRun
  /\ User \subseteq schema /\ ~(<<"users", "required", "password_hash">> \in schema)
  /\ social' = TRUE
  /\ UNCHANGED <<schema, own, tableLock, stage, since, to, pos, overlapped, lowered>>

Init ==
  /\ schema = {}
  /\ own = [r \in Runs |-> {}]
  /\ tableLock = [t \in Tables(Models) \cup {Versions} |-> NoRun]
  /\ stage = [r \in Runs |-> "idle"]
  /\ since = [r \in Runs |-> 0] /\ to = [r \in Runs |-> 0] /\ pos = [r \in Runs |-> 1]
  /\ social = FALSE
  /\ overlapped = {} /\ lowered = {}

Next == \E r \in Runs :
  Start(r) \/ Execute(r) \/ Break(r) \/ Kill(r) \/ Commit(r) \/ StoreUser(r)

Spec == Init /\ [][Next]_vars
-----------------------------------------------------------------------------

\* What the upgrades up to a revision build from nothing.
Shape[v \in 0..Newest] ==
  IF v = 0 THEN {}
  ELSE FoldLeft(LAMBDA s, o : After(o, s), Shape[v - 1], Ups[v])

\* The schema is always that of the revision it names, however runs overlap,
\* stop half way or go back: a downgrade undoes its upgrade exactly, and a run
\* counts as a whole or not at all (migrations/env.py: one transaction).
SchemaIsRevision ==
  {f \in schema : f[1] # Versions} = Shape[Revision(schema)]

\* A process that serves has the columns, constraints and indexes its ORM
\* classes name, and may leave out no value the schema requires, unless
\* someone has downgraded the schema after it was started: "a boot with an
\* out-of-date schema must not serve" (app/__main__.py).
ServesItsModels ==
  \A d \in Deployments : stage[d] = "serving" /\ d \notin lowered =>
    /\ Models \subseteq schema
    /\ {f \in schema \ Models : f[2] \in {"column", "required", "references"}} = {}

\* A statement fails only if another run has overlapped this one, or if the
\* downgrade of 0002 meets an account without a password: the scripts create
\* and drop in an order the database accepts.
OnlyDataStopsAMigration ==
  \A r \in Runs : stage[r] = "failed" => r \in overlapped

-----------------------------------------------------------------------------
(* What there is to know of the scripts, for theorems about their runs.  It *)
(* speaks of no constant and no variable, so TLC decides it.               *)

\* The schemas that runs leave: none, or that of a revision beside the table of
\* revisions.
Schemas ==
  {{}} \cup {Shape[v] \cup {<<Versions, "table", Versions>>}
              \cup {<<Versions, "row", n>> : n \in {v} \ {0}} : v \in 0..Newest}

\* What the statements from revision i to revision j make of schema s, one by one.
Traces ==
  [x \in (0..Newest) \X (0..Newest) \X Schemas |->
     FoldLeft(LAMBDA t, o : Append(t, After(o, Last(t))), <<x[3]>>, Scripts[<<x[1], x[2]>>])]

DDL == {"create", "add", "drop", "drop table", "loosen", "tighten", "unview", "ensure"}

\* A statement finds its own table as it expects it.
Finds(o, s) ==
  /\ o.op = "create" => o.table \notin Tables(s)
  /\ o.op = "drop" => o.facts \subseteq s

\* The statements from i to j touch known tables only.  They can all find their
\* tables in the schema of revision i only, where all of them fit and make the
\* schema of revision j.
ASSUME ScriptsAssumption ==
  \A i, j \in 0..Newest, s \in Schemas :
    LET o == Scripts[<<i, j>>]
        t == Traces[<<i, j, s>>]
        n == Len(Scripts[<<i, j>>])
    IN /\ n \in Nat /\ t[1] = s
       /\ \A k \in 1..n :
            /\ t[k + 1] = After(o[k], t[k])
            /\ o[k].op \in DDL /\ \A f \in o[k].facts : f[1] = o[k].table
            /\ Locks(o[k], t[k]) \subseteq Tables(Models) \cup {Versions}
       /\ \A k \in 1..(n + 1) : Tables(t[k]) \subseteq Tables(Models) \cup {Versions}
       /\ IF i = j THEN n = 0
          ELSE IF Revision(s) = i
          THEN t[n + 1] \in Schemas /\ Revision(t[n + 1]) = j /\ \A k \in 1..n : Fits(o[k], t[k])
          ELSE \E k \in 1..n : ~Finds(o[k], t[k])

\* The schema of each revision is the one its upgrades build, and the ORM classes
\* find what they name in the newest.
ASSUME ShapesAssumption ==
  /\ {} \in Schemas /\ Revision({}) = 0
  /\ \A s \in Schemas :
       /\ Revision(s) \in 0..Newest
       /\ {f \in s : f[1] # Versions} = Shape[Revision(s)]
       /\ Revision(s) = Newest =>
            /\ Models \subseteq s
            /\ {f \in s \ Models : f[2] \in {"column", "required", "references"}} = {}
===========================================================================

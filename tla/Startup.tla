--------------------------------- MODULE Startup --------------------------------
(***************************************************************************)
(* The database at start-up: the migrations of store/migration.go, the     *)
(* rows every start adds, and what Build then needs of it.                 *)
(*                                                                         *)
(* A start is a list of statements, run one after the other without a      *)
(* transaction.  A statement may be refused, or carried out and its answer *)
(* lost; the process may end between any two.  The next start begins again *)
(* at the first statement and finds what the earlier ones left.            *)
(*                                                                         *)
(* A table is the set of what later releases added to it, with "table" if  *)
(* it exists.  One process at a time migrates.                             *)
(***************************************************************************)
EXTENDS Naturals, Sequences

CONSTANTS
    Prices,                 \* how many models have a price by default
    MaxStarts, MaxFaults    \* bounds of the model

ASSUME ConfigAssumption ==
    /\ Prices \in Nat \ {0} /\ MaxStarts \in Nat /\ MaxFaults \in Nat

Retried == {"retry_attempts_total", "retry_success"}
Later ==
    [accounts |-> {"password"},
     nodes |-> {"disabled", "account_id", "index", "last_health_check_at",
                "health_check_method", "health_check_model"},
     health_check_history |-> {"check_source", "index"},
     node_metrics_raw |-> Retried, node_metrics_hourly |-> Retried,
     node_metrics_daily |-> Retried, node_metrics_monthly |-> Retried,
     config |-> {"account_id"}, config_new |-> {"account_id"},
     monitor_shares |-> {}, tunnel_config |-> {}, settings |-> {},
     notification_channels |-> {}, notification_subscriptions |-> {},
     notification_history |-> {}, model_pricing |-> {}, usage_logs |-> {}]

Table == DOMAIN Later
Indexes == {"index"}
IndexedColumn == [nodes |-> "account_id", health_check_history |-> "check_source"]
Whole(t) == {"table"} \cup Later[t]
Model == 1 .. Prices

VARIABLES
    MySQL,          \* the database, or SQLite
    release,        \* which one made the database
    has,            \* the schema
    row,            \* what the default account's row of both config tables says
    settings,       \* rows of one system setting, oldest first
    active,         \* the setting node.active_node of the default account
    accounts, blank,        \* accounts, and those without a password
    prices,         \* models with a row in model_pricing
    at,             \* the statement the start is at
    starts, faults,
    faulty,         \* this start met a fault
    unprovoked,     \* starts that failed without any
    uncopied,       \* the copy of the configuration was refused
    cut             \* a start ended between two prices

rows == <<row, settings, active, accounts, blank, prices>>
history == <<uncopied, cut>>
made == <<MySQL, release>>
vars == <<made, has, rows, at, starts, faults, faulty, unprovoked, history>>

------------------------------------------------------------------------------
(* The statements.                                                         *)

None == "none"          \* no table, no column
Statement(do, t, c) == [do |-> do, t |-> t, c |-> c, n |-> 0]
Create(t) == Statement("create", t, None)
Add(t, c) == Statement("add", t, c)
Drop(t) == Statement("drop", t, None)
AddIndexQuietly(t) == Statement("addQuietly", t, "index")
Row(do) == Statement(do, None, None)
Fill(a) == Statement("fill", None, a)

(* columnExists, indexExists or a count: if it is there, the n statements  *)
(* that follow are left out.                                               *)
Unless(t, c, n) == [do |-> "unless", t |-> t, c |-> c, n |-> n]

ColumnUnasked(t, c) == <<Add(t, c)>>
Column(t, c) == <<Unless(t, c, 1), Add(t, c)>>
SQLiteIndex(t) == IF MySQL THEN <<>> ELSE <<AddIndexQuietly(t)>>

EnsureAccountsTable == <<Create("accounts")>>
EnsureAccountPassword ==
    Column("accounts", "password") \o <<Fill("default"), Fill("admin")>>

(* An index is wanted only if this start added the column; MySQL does not  *)
(* know CREATE INDEX IF NOT EXISTS.                                        *)
EnsureNodesTable ==
    <<Create("nodes")>> \o SQLiteIndex("nodes") \o Column("nodes", "disabled")
    \o <<Unless("nodes", "account_id", 3), Add("nodes", "account_id"),
         Row("indexIfNotExists"), Row("adopt")>>
    \o Column("nodes", "last_health_check_at")
    \o Column("nodes", "health_check_method") \o Column("nodes", "health_check_model")

HistoryColumnOnNodes ==
    <<Create("health_check_history")>> \o SQLiteIndex("health_check_history")
    \o <<Unless("health_check_history", "check_source", 1), Add("nodes", "check_source")>>
EnsureHealthHistoryTable ==
    <<Create("health_check_history")>> \o SQLiteIndex("health_check_history")
    \o Column("health_check_history", "check_source")
    \o (IF MySQL THEN Column("health_check_history", "index") ELSE <<>>)

EnsureMonitorShareTable == <<Create("monitor_shares")>>

RetryColumnsAtOnce(t) ==
    <<Unless(t, "retry_attempts_total", 2), Add(t, "retry_attempts_total"),
      Add(t, "retry_success")>>
RetryColumns(t) == Column(t, "retry_attempts_total") \o Column(t, "retry_success")
EnsureMetricsTables ==
    <<Create("node_metrics_raw"), Create("node_metrics_hourly"),
      Create("node_metrics_daily"), Create("node_metrics_monthly")>>
    \o RetryColumns("node_metrics_raw") \o RetryColumns("node_metrics_hourly")
    \o RetryColumns("node_metrics_daily") \o RetryColumns("node_metrics_monthly")

RecreateFromNothing ==
    <<Drop("config_new"), Create("config_new"), Row("copyQuietly"), Drop("config"),
      Row("rename")>>
RecreateConfigTable ==
    <<Create("config_new"), Row("copyQuietly"), Drop("config"), Row("rename")>>
EnsureConfigTable ==
    <<Unless("config", "account_id", Len(RecreateConfigTable))>>
    \o RecreateConfigTable \o <<Row("configRow")>>

EnsureTunnelConfigTable == <<Create("tunnel_config")>>
EnsureNotificationTables ==
    <<Create("notification_channels"), Create("notification_subscriptions"),
      Create("notification_history")>>
EnsureSettingsTable == <<Create("settings")>>

SeedDefaultSettings == <<Row("seedSetting")>>
TableExists == Row("tableExists")
MigrateConfigToSettings ==
    <<TableExists, Row("readConfig"), Row("copySetting"), Row("copyActive")>>

EnsureMonitorSharesTable == <<Create("monitor_shares")>>

EnsurePricingTables == <<Create("model_pricing"), Create("usage_logs")>>
Price(m) == [do |-> "price", t |-> None, c |-> None, n |-> m]
SeedDefaultPricing ==
    <<Unless("model_pricing", "price", Prices)>> \o [m \in Model |-> Price(m)]

Migrate ==
    EnsureAccountsTable \o EnsureAccountPassword \o EnsureNodesTable
    \o EnsureHealthHistoryTable \o EnsureMonitorShareTable \o EnsureMetricsTables
    \o EnsureConfigTable \o EnsureTunnelConfigTable \o EnsureNotificationTables
    \o EnsureSettingsTable \o SeedDefaultSettings \o MigrateConfigToSettings
    \o EnsureMonitorSharesTable \o EnsurePricingTables \o SeedDefaultPricing

(* The administrator, unless there is one, and loadAccountsFromStore.      *)
Build == <<Unless("accounts", "admin", 1), Row("createAdmin"), Row("load")>>

Steps == Migrate \o Build
Down == 0
Serving == Len(Steps) + 1

------------------------------------------------------------------------------
(* What a statement does.                                                  *)

(* SQLite has the indexes apart.                                           *)
Created(t) == IF MySQL THEN Whole(t) ELSE Whole(t) \ Indexes

Found(t, c) ==
    \/ c \in has[t]
    \/ t = "model_pricing" /\ prices # {}
    \/ t = "accounts" /\ c \in accounts

(* LoadAllByAccount names the columns it reads.                            *)
Loadable == \A t \in {"nodes", "config"} : Whole(t) \ Indexes \subseteq has[t]

(* Some statements cannot succeed on what they find.                       *)
Possible(s) ==
    CASE s.do = "add" -> s.c \notin has[s.t]
      [] s.do = "addQuietly" -> IndexedColumn[s.t] \in has[s.t]
      [] s.do = "indexIfNotExists" -> ~MySQL
      [] s.do = "copyQuietly" -> has.config # {} /\ row.config_new = "none"
      [] s.do = "rename" -> has.config = {} /\ has.config_new # {}
      [] s.do = "load" -> Loadable
      [] OTHER -> TRUE

Define(t, what) ==
    /\ has' = [has EXCEPT ![t] = what]
    /\ UNCHANGED rows

(* One row for the default account; INSERT IGNORE.                         *)
EnsureConfigRow ==
    /\ row' = [row EXCEPT !.config = IF @ = "none" THEN "default" ELSE @]
    /\ UNCHANGED <<has, settings, active, accounts, blank, prices>>

(* INSERT IGNORE, which ignores nothing if account_id is NULL.             *)
InsertSystemSetting(value) ==
    /\ settings' = Append(settings, value)
    /\ UNCHANGED <<has, row, active, accounts, blank, prices>>
InsertAccountSetting(value) ==
    /\ active' = IF active = "none" THEN value ELSE active
    /\ UNCHANGED <<has, row, settings, accounts, blank, prices>>

CopyConfig ==
    /\ row' = [row EXCEPT !.config_new = row.config]
    /\ UNCHANGED <<has, settings, active, accounts, blank, prices>>
DropTable(t) ==
    /\ has' = [has EXCEPT ![t] = {}]
    /\ row' = [row EXCEPT ![t] = "none"]
    /\ UNCHANGED <<settings, active, accounts, blank, prices>>
RenameConfig ==
    /\ has' = [has EXCEPT !.config = has.config_new, !.config_new = {}]
    /\ row' = [config |-> row.config_new, config_new |-> "none"]
    /\ UNCHANGED <<settings, active, accounts, blank, prices>>

FillPassword(a) ==
    /\ blank' = blank \ {a}
    /\ UNCHANGED <<has, row, settings, active, accounts, prices>>
CreateAdmin ==
    /\ accounts' = accounts \cup {"admin"}
    /\ UNCHANGED <<has, row, settings, active, blank, prices>>

(* INSERT IGNORE; the model is unique.                                     *)
InsertPrice(m) ==
    /\ prices' = prices \cup {m}
    /\ UNCHANGED <<has, row, settings, active, accounts, blank>>

Perform(s) ==
    \/ s.do = "create" /\ Define(s.t, IF has[s.t] = {} THEN Created(s.t) ELSE has[s.t])
    \/ s.do \in {"add", "addQuietly"} /\ Define(s.t, has[s.t] \cup {s.c})
    \/ s.do = "indexIfNotExists" /\ Define("nodes", has.nodes \cup Indexes)
    \/ s.do = "copyQuietly" /\ CopyConfig
    \/ s.do = "drop" /\ DropTable(s.t)
    \/ s.do = "rename" /\ RenameConfig
    \/ s.do = "configRow" /\ EnsureConfigRow
    \/ s.do = "seedSetting" /\ InsertSystemSetting("default")
    \/ s.do = "copySetting" /\ InsertSystemSetting(row.config)
    \/ s.do = "copyActive" /\ InsertAccountSetting(row.config)
    \/ s.do = "fill" /\ FillPassword(s.c)
    \/ s.do = "price" /\ InsertPrice(s.n)
    \/ s.do = "createAdmin" /\ CreateAdmin
    \/ /\ s.do \in {"unless", "adopt", "tableExists", "readConfig", "load"}
       /\ UNCHANGED <<has, rows>>

(* An error of these is not looked at.                                     *)
Quiet(s) == s.do \in {"addQuietly", "copyQuietly"}
After(s) == at + 1 + (IF s.do = "unless" /\ Found(s.t, s.c) THEN s.n ELSE 0)

------------------------------------------------------------------------------
(* A start.                                                                *)

Begin ==
    /\ at = Down /\ starts < MaxStarts
    /\ at' = 1
    /\ starts' = starts + 1
    /\ faulty' = FALSE
    /\ UNCHANGED <<made, has, rows, faults, unprovoked, history>>

(* The process ends: whoever runs it starts it again.                      *)
Ended == /\ at' = Down
         /\ cut' = (cut \/ prices' \notin {{}, Model})

(* o is "ok", "refused", or "unanswered" if it was carried out all the     *)
(* same.                                                                   *)
RunStatement(o) ==
    LET s == Steps[at]
        error == o # "ok" \/ ~Possible(s)
    IN  /\ at \in 1 .. Len(Steps)
        /\ o # "ok" => faults < MaxFaults
        /\ faults' = IF o = "ok" THEN faults ELSE faults + 1
        /\ faulty' = (faulty \/ o # "ok")
        /\ IF o # "refused" /\ Possible(s) THEN Perform(s) ELSE UNCHANGED <<has, rows>>
        /\ uncopied' = (uncopied \/ (s.do = "copyQuietly" /\ o = "refused"))
        /\ \/ /\ error /\ ~Quiet(s)
              /\ Ended
              /\ unprovoked' = IF faulty' THEN unprovoked ELSE unprovoked + 1
           \/ /\ ~error \/ Quiet(s)
              /\ at' = After(s)
              /\ UNCHANGED <<unprovoked, cut>>
        /\ UNCHANGED <<made, starts>>

(* While it starts, or later.                                              *)
Crash ==
    /\ at # Down
    /\ UNCHANGED <<made, has, rows, starts, faults, faulty, unprovoked, uncopied>>
    /\ Ended

------------------------------------------------------------------------------

(* What three releases leave: the one before accounts, an early one with   *)
(* them, and this one.                                                     *)
Schema(r) ==
    [t \in Table |->
        IF t = "config_new" THEN {} ELSE
        CASE r = "none" -> {}
          [] r = "single" -> IF t \in {"nodes", "config"} THEN {"table"} ELSE {}
          [] r = "early" ->
                 CASE t = "nodes" -> {"table", "disabled", "account_id", "index"}
                   [] t = "config" -> Whole(t)
                   [] t \in {"settings", "model_pricing", "usage_logs"} -> {}
                   [] OTHER -> {"table"}
          [] r = "this" -> Whole(t)]

Init ==
    /\ MySQL \in BOOLEAN
    /\ release \in {"none", "single", "early", "this"}
    /\ has = Schema(release)
    /\ row = [config |-> IF release = "none" THEN "none" ELSE "site", config_new |-> "none"]
    /\ settings = IF release = "this" THEN <<"default", "site">> ELSE <<>>
    /\ active = IF release = "this" THEN "site" ELSE "none"
    /\ accounts \in IF release \in {"early", "this"} THEN {{"admin"}, {"admin", "default"}}
                                                     ELSE {{}}
    /\ blank = IF release = "early" THEN accounts ELSE {}
    /\ prices = IF release = "this" THEN Model ELSE {}
    /\ at = Down /\ starts = 0 /\ faults = 0
    /\ faulty = FALSE /\ unprovoked = 0 /\ uncopied = FALSE /\ cut = FALSE

Next ==
    \/ Begin
    \/ \E o \in {"ok", "refused", "unanswered"} : RunStatement(o)
    \/ Crash

Spec == Init /\ [][Next]_vars

------------------------------------------------------------------------------
(* Properties.                                                             *)

(* Types; config and config_new hold a row only if they exist.             *)
TypeOK ==
    /\ has \in [Table -> SUBSET UNION {Whole(t) : t \in Table}]
    /\ \A t \in Table : has[t] \subseteq Whole(t)
    /\ row \in [{"config", "config_new"} -> {"none", "default", "site"}]
    /\ \A t \in DOMAIN row : row[t] # "none" => has[t] # {}
    /\ settings \in Seq({"default", "site"}) /\ Len(settings) <= 2 * MaxStarts + 2
    /\ active \in {"none", "default", "site"}
    /\ accounts \subseteq {"admin", "default"} /\ blank \subseteq accounts
    /\ prices \subseteq Model
    /\ at \in Down .. Serving
    /\ starts \in 0 .. MaxStarts /\ faults \in 0 .. MaxFaults

(* What the site had configured outlives the upgrade, wherever the starts  *)
(* before it ended, although the table is dropped and made again: it is in *)
(* one of the two tables at any time, and once the server serves, in the   *)
(* right one and among the settings.  Only a copy that was refused for a   *)
(* reason of its own, which nobody looks at, loses it.                     *)
NothingLost ==
    release # "none" /\ ~uncopied =>
        /\ "site" \in {row.config, row.config_new}
        /\ at = Serving => /\ row.config = "site" /\ active = "site"
                           /\ \E i \in DOMAIN settings : settings[i] = "site"

(* Whatever partial migration earlier starts have left, a start that meets *)
(* no fault serves.  The exception is the upgrade of a database of one     *)
(* tenant on MySQL, where one start fails of its own and the next does not.*)
StartsAgain == unprovoked <= IF MySQL /\ release = "single" THEN 1 ELSE 0

(* A server that serves has the whole schema, indexes aside, all it seeds, *)
(* and an administrator who can log in, after however many broken starts.  *)
(* The prices are complete unless a start ended between two of them: none  *)
(* is seeded later if there is one.                                        *)
ServesComplete ==
    at = Serving =>
        /\ \A t \in Table \ {"config_new"} : Whole(t) \ Indexes \subseteq has[t]
        /\ has.config_new = {}
        /\ row.config # "none" /\ active # "none"
        /\ \E i \in DOMAIN settings : settings[i] = "default"
        /\ "admin" \in accounts /\ blank = {}
        /\ prices = Model \/ (cut /\ prices # {})
=============================================================================

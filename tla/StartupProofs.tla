----------------------------- MODULE StartupProofs -----------------------------
(***************************************************************************)
(* Proofs about Startup, for any number of starts, faults and prices, on   *)
(* both databases and whichever release made what is found.                *)
(*                                                                         *)
(* The list of statements is taken apart once: Layout says which statement *)
(* is where, and Sound what every conditional statement before the         *)
(* configuration leaves out (BeforeEarly).  The invariant is about the     *)
(* statements behind a start, which are done whether this start did them   *)
(* or found them done (DoneSoFar); about a column that is added, which is  *)
(* not there yet (Reached); and about each stage of making the             *)
(* configuration table again (Config, Kept).                               *)
(***************************************************************************)
EXTENDS Startup, SequenceTheorems, TLAPS

(* The statements before the configuration table is made again.            *)
Before ==
    EnsureAccountsTable \o EnsureAccountPassword \o EnsureNodesTable
    \o EnsureHealthHistoryTable \o EnsureMonitorShareTable \o EnsureMetricsTables
K == Len(Before)

Do == {"create", "add", "addQuietly", "drop", "unless", "indexIfNotExists", "adopt", "fill",
       "copyQuietly", "rename", "configRow", "seedSetting", "tableExists", "readConfig",
       "copySetting", "copyActive", "price", "createAdmin", "load"}
Name == {None, "table", "password", "disabled", "account_id", "index", "last_health_check_at",
         "health_check_method", "health_check_model", "check_source", "retry_attempts_total",
         "retry_success", "default", "admin", "price"}
Rec == [do : Do, t : Table \cup {None}, c : Name, n : Nat]

(* What of a list of statements the schema depends on.  A statement that   *)
(* Unless leaves out is one whose work has been done if Unless finds what  *)
(* it looks for; a column is added where it was looked for just before.    *)
LeftOut(u, s) ==
    /\ s.do \in {"add", "indexIfNotExists", "adopt"}
    /\ s.do = "add" => s.t = u.t /\ s.c = u.c
Guarded(L, i) ==
    /\ L[i].do = "unless" => /\ L[i].n >= 1 /\ i + L[i].n <= Len(L)
                             /\ \A k \in i + 1 .. i + L[i].n : LeftOut(L[i], L[k])
    /\ L[i].do = "add" => i > 1 /\ L[i - 1].do = "unless"
                          /\ L[i - 1].t = L[i].t /\ L[i - 1].c = L[i].c
    /\ L[i].do = "indexIfNotExists" =>
          /\ i > 3 /\ L[i - 1] = Add("nodes", "account_id")
          /\ L[i - 2] = Unless("nodes", "account_id", 3)
          /\ \E k \in 1 .. i - 3 : L[k] = Create("nodes")
    /\ L[i].do \in {"create", "add", "addQuietly"} =>
          L[i].t \in Table \ {"config", "config_new"}
    /\ L[i].do \in {"add", "addQuietly"} => L[i].c \in Whole(L[i].t) \ {"table"}
    /\ L[i].do \in {"create", "add", "addQuietly", "unless", "indexIfNotExists", "adopt", "fill"}
Sound(L) == L \in Seq(Rec) /\ \A i \in 1 .. Len(L) : Guarded(L, i)

LEMMA GuardedLeft ==
    ASSUME NEW L \in Seq(Rec), NEW M \in Seq(Rec), NEW i \in 1 .. Len(L), Guarded(L, i)
    PROVE  Guarded(L \o M, i)
  <1> DEFINE J == L \o M
  <1>1. /\ J \in Seq(Rec) /\ Len(J) = Len(L) + Len(M) /\ Len(L) \in Nat /\ Len(M) \in Nat
        /\ \A k \in 1 .. Len(L) + Len(M) : J[k] = IF k <= Len(L) THEN L[k] ELSE M[k - Len(L)]
    BY ConcatProperties, LenProperties
  <1> HIDE DEF J
  <1>2. i \in 1 .. Len(L) /\ Guarded(L, i) /\ L[i] \in Rec
    BY <1>1, ElementOfSeq
  <1>3. \A k \in 1 .. Len(L) : J[k] = L[k]
    BY <1>1
  <1> QED
    <2>1. /\ J[i] = L[i]
          /\ i > 1 => J[i - 1] = L[i - 1]
          /\ i > 2 => J[i - 2] = L[i - 2]
      BY <1>1, <1>2, <1>3
    <2>2. J[i].do = "unless" => /\ i + J[i].n <= Len(J)
                                /\ \A k \in i + 1 .. i + J[i].n : J[k] = L[k]
      <3> SUFFICES ASSUME L[i].do = "unless"
                   PROVE  /\ i + L[i].n <= Len(J)
                          /\ \A k \in i + 1 .. i + L[i].n : J[k] = L[k]
        BY <2>1
      <3>1. PICK m \in Nat, l \in Nat, e \in Nat :
              m = L[i].n /\ l = Len(L) /\ e = Len(M) /\ i + m <= l
        BY <1>1, <1>2 DEF Guarded, Rec
      <3>2. \A k \in i + 1 .. i + m : k \in 1 .. l
        BY <1>2, <3>1
      <3> QED
        BY <1>1, <1>2, <1>3, <3>1, <3>2
    <2>3. \A k \in 1 .. i - 3 : J[k] = L[k]
      BY <1>1, <1>2, <1>3
    <2>4. Guarded(J, i)
      BY SMTT(30), <1>2, <2>1, <2>2, <2>3 DEF Guarded
    <2> QED
      BY <2>4 DEF J

LEMMA GuardedRight ==
    ASSUME NEW L \in Seq(Rec), NEW M \in Seq(Rec), NEW j \in 1 .. Len(M), Guarded(M, j)
    PROVE  Guarded(L \o M, j + Len(L))
  <1> DEFINE J == L \o M
  <1>1. /\ J \in Seq(Rec) /\ Len(J) = Len(L) + Len(M) /\ Len(L) \in Nat /\ Len(M) \in Nat
        /\ \A k \in 1 .. Len(L) + Len(M) : J[k] = IF k <= Len(L) THEN L[k] ELSE M[k - Len(L)]
    BY ConcatProperties, LenProperties
  <1> DEFINE i == j + Len(L)
  <1> HIDE DEF J
  <1>2. /\ i \in Nat /\ j \in 1 .. Len(M) /\ Guarded(M, j) /\ M[j] \in Rec
        /\ i = j + Len(L) /\ i >= 1
    BY <1>1, ElementOfSeq DEF i
  <1>3. ASSUME NEW k \in 1 .. Len(M) PROVE J[k + Len(L)] = M[k]
    <2>1. /\ k + Len(L) \in 1 .. Len(L) + Len(M) /\ (k + Len(L)) - Len(L) = k
          /\ ~(k + Len(L) <= Len(L))
      BY <1>1
    <2> QED
      BY <1>1, <2>1
  <1> HIDE DEF i
  <1>4. J[i] = M[j] /\ (j > 1 => J[i - 1] = M[j - 1]) /\ (j > 2 => J[i - 2] = M[j - 2])
    <2>1. j > 1 => j - 1 \in 1 .. Len(M) /\ (j - 1) + Len(L) = i - 1
      BY <1>1, <1>2
    <2>2. j > 2 => j - 2 \in 1 .. Len(M) /\ (j - 2) + Len(L) = i - 2
      BY <1>1, <1>2
    <2> QED
      BY <1>2, <1>3, <2>1, <2>2
  <1>5. J[i].do = "unless" => /\ J[i].n >= 1 /\ i + J[i].n <= Len(J)
                              /\ \A k \in i + 1 .. i + J[i].n : LeftOut(J[i], J[k])
    <2> SUFFICES ASSUME M[j].do = "unless"
                 PROVE  /\ M[j].n >= 1 /\ i + M[j].n <= Len(J)
                        /\ \A k \in i + 1 .. i + M[j].n : LeftOut(M[j], J[k])
      BY <1>4
    <2>1. M[j].n \in Nat /\ M[j].n >= 1 /\ j + M[j].n <= Len(M)
      <3>1. M[j].n \in Nat
        BY <1>2 DEF Rec
      <3> QED
        BY <1>2, <3>1 DEF Guarded
    <2>2. ASSUME NEW k \in i + 1 .. i + M[j].n PROVE LeftOut(M[j], J[k])
      <3> DEFINE m == M[j].n
                 l == Len(L)
                 e == Len(M)
      <3>1. m \in Nat /\ l \in Nat /\ e \in Nat /\ j + m <= e /\ m = M[j].n /\ l = Len(L)
            /\ e = Len(M)
        BY <1>1, <2>1
      <3>2. k \in i + 1 .. i + m /\ i = j + l /\ j \in Nat /\ j >= 1
        BY <2>2, <1>2, <3>1
      <3> HIDE DEF m, l, e
      <3>3. k - l \in j + 1 .. j + m /\ k - l \in 1 .. e /\ k = (k - l) + l
        BY SMTT(30), <3>1, <3>2
      <3>4. J[k] = M[k - l]
        BY <1>3, <3>1, <3>3
      <3> QED
        BY <1>2, <3>1, <3>3, <3>4 DEF Guarded
    <2> QED
      BY <1>1, <1>2, <2>1, <2>2
  <1>6. J[i].do = "add" => i > 1 /\ J[i - 1].do = "unless"
                           /\ J[i - 1].t = J[i].t /\ J[i - 1].c = J[i].c
    BY <1>1, <1>2, <1>4 DEF Guarded
  <1>7. J[i].do = "indexIfNotExists" =>
            /\ i > 3 /\ J[i - 1] = Add("nodes", "account_id")
            /\ J[i - 2] = Unless("nodes", "account_id", 3)
            /\ \E k \in 1 .. i - 3 : J[k] = Create("nodes")
    <2> SUFFICES ASSUME M[j].do = "indexIfNotExists"
                 PROVE  /\ i > 3 /\ J[i - 1] = Add("nodes", "account_id")
                        /\ J[i - 2] = Unless("nodes", "account_id", 3)
                        /\ \E k \in 1 .. i - 3 : J[k] = Create("nodes")
      BY <1>4
    <2>1. PICK k \in 1 .. j - 3 : M[k] = Create("nodes")
      BY <1>2 DEF Guarded
    <2>2. k + Len(L) \in 1 .. i - 3 /\ k \in 1 .. Len(M)
      BY <1>1, <1>2
    <2>3. J[k + Len(L)] = Create("nodes")
      BY <1>3, <2>1, <2>2
    <2>4. /\ j > 3 /\ M[j - 1] = Add("nodes", "account_id")
          /\ M[j - 2] = Unless("nodes", "account_id", 3)
      BY <1>2 DEF Guarded
    <2>5. i > 3 /\ j > 1 /\ j > 2
      <3>1. PICK l \in Nat : l = Len(L)
        BY <1>1
      <3>2. j \in Nat /\ i = j + l /\ j > 3
        BY <1>2, <2>4, <3>1
      <3> QED
        BY <3>2
    <2> QED
      BY <1>4, <2>2, <2>3, <2>4, <2>5
  <1>8. Guarded(J, i)
    BY <1>2, <1>4, <1>5, <1>6, <1>7 DEF Guarded
  <1> QED
    BY <1>8 DEF J, i

LEMMA SoundConcat ==
    ASSUME NEW L, NEW M, Sound(L), Sound(M)
    PROVE  Sound(L \o M)
  <1>1. /\ L \o M \in Seq(Rec) /\ Len(L \o M) = Len(L) + Len(M)
        /\ Len(L) \in Nat /\ Len(M) \in Nat
    BY ConcatProperties, LenProperties DEF Sound
  <1>2. ASSUME NEW i \in 1 .. Len(L) + Len(M) PROVE Guarded(L \o M, i)
    <2>1. CASE i \in 1 .. Len(L)
      BY <2>1, GuardedLeft DEF Sound
    <2>2. CASE i > Len(L)
      <3>1. i - Len(L) \in 1 .. Len(M) /\ (i - Len(L)) + Len(L) = i
        BY <1>1, <2>2
      <3>2. Guarded(L \o M, (i - Len(L)) + Len(L))
        BY <3>1, GuardedRight DEF Sound
      <3> QED
        BY <3>1, <3>2
    <2> QED
      BY <1>1, <2>1, <2>2
  <1> QED
    BY <1>1, <1>2 DEF Sound

LEMMA Tables ==
    /\ Table = {"accounts", "nodes", "health_check_history", "node_metrics_raw",
                "node_metrics_hourly", "node_metrics_daily", "node_metrics_monthly",
                "config", "config_new", "monitor_shares", "tunnel_config", "settings",
                "notification_channels", "notification_subscriptions",
                "notification_history", "model_pricing", "usage_logs"}
    /\ Whole("accounts") = {"table", "password"}
    /\ Whole("nodes") = {"table", "disabled", "account_id", "index",
           "last_health_check_at", "health_check_method", "health_check_model"}
    /\ Whole("health_check_history") = {"table", "check_source", "index"}
    /\ \A t \in {"node_metrics_raw", "node_metrics_hourly", "node_metrics_daily",
                 "node_metrics_monthly"} :
          Whole(t) = {"table", "retry_attempts_total", "retry_success"}
    /\ Whole("config") = {"table", "account_id"} /\ Whole("config_new") = Whole("config")
    /\ \A t \in {"monitor_shares", "tunnel_config", "settings", "notification_channels",
                 "notification_subscriptions", "notification_history", "model_pricing",
                 "usage_logs"} : Whole(t) = {"table"}
  BY DEF Table, Later, Whole, Retried

USE DEF Statement, Create, Add, Drop, AddIndexQuietly, Row, Fill, Unless, None

(* The statements of a list, in no order.                                  *)
Lines(L) == {L[i] : i \in 1 .. Len(L)}

LEMMA LinesConcat ==
    ASSUME NEW L \in Seq(Rec), NEW M \in Seq(Rec)
    PROVE  Lines(L) \cup Lines(M) \subseteq Lines(L \o M)
  <1> DEFINE J == L \o M
  <1>1. /\ J \in Seq(Rec) /\ Len(J) = Len(L) + Len(M) /\ Len(L) \in Nat /\ Len(M) \in Nat
        /\ \A i \in 1 .. Len(L) + Len(M) : J[i] = IF i <= Len(L) THEN L[i] ELSE M[i - Len(L)]
    BY ConcatProperties, LenProperties
  <1> HIDE DEF J
  <1>2. ASSUME NEW i \in 1 .. Len(L) PROVE L[i] \in Lines(J)
    <2>1. i \in 1 .. Len(J) /\ J[i] = L[i]
      BY <1>1
    <2> QED
      BY <2>1 DEF Lines
  <1>3. ASSUME NEW i \in 1 .. Len(M) PROVE M[i] \in Lines(J)
    <2>1. i + Len(L) \in 1 .. Len(J) /\ (i + Len(L)) - Len(L) = i /\ ~(i + Len(L) <= Len(L))
      BY <1>1
    <2>2. J[i + Len(L)] = M[i]
      BY <1>1, <2>1
    <2> QED
      BY <2>1, <2>2 DEF Lines
  <1> QED
    BY <1>2, <1>3 DEF Lines, J

(* A table is made before a column is added, unless it is one of T.        *)
Tabled(L, T) ==
    \A i \in 1 .. Len(L) :
        L[i].do = "add" => L[i].t \in T \/ \E k \in 1 .. i - 1 : L[k] = Create(L[i].t)

LEMMA TabledConcat ==
    ASSUME NEW L \in Seq(Rec), NEW M \in Seq(Rec), NEW T, NEW U, Tabled(L, T), Tabled(M, U),
           \A u \in U : u \in T \/ Create(u) \in Lines(L)
    PROVE  Tabled(L \o M, T)
  <1> DEFINE J == L \o M
             Fine(i) == J[i].do = "add" =>
                           J[i].t \in T \/ \E k \in 1 .. i - 1 : J[k] = Create(J[i].t)
  <1>1. /\ J \in Seq(Rec) /\ Len(J) = Len(L) + Len(M) /\ Len(L) \in Nat /\ Len(M) \in Nat
        /\ \A k \in 1 .. Len(L) + Len(M) : J[k] = IF k <= Len(L) THEN L[k] ELSE M[k - Len(L)]
    BY ConcatProperties, LenProperties
  <1> HIDE DEF J
  <1>2. ASSUME NEW i \in 1 .. Len(L) PROVE Fine(i)
    <2>1. J[i] = L[i] /\ \A k \in 1 .. i - 1 : J[k] = L[k]
      BY <1>1
    <2> QED
      BY <2>1 DEF Tabled
  <1>3. ASSUME NEW j \in 1 .. Len(M) PROVE Fine(j + Len(L))
    <2>1. J[j + Len(L)] = M[j]
      <3>1. /\ j + Len(L) \in 1 .. Len(L) + Len(M) /\ (j + Len(L)) - Len(L) = j
            /\ ~(j + Len(L) <= Len(L))
        BY <1>1
      <3> QED
        BY <1>1, <3>1
    <2> SUFFICES ASSUME M[j].do = "add", M[j].t \notin T
                 PROVE  \E k \in 1 .. (j + Len(L)) - 1 : J[k] = Create(M[j].t)
      BY <2>1
    <2>2. CASE M[j].t \in U
      <3>1. PICK k \in 1 .. Len(L) : L[k] = Create(M[j].t)
        BY <2>2 DEF Lines
      <3>2. J[k] = L[k] /\ k \in 1 .. (j + Len(L)) - 1
        BY <1>1, <3>1
      <3> QED
        BY <3>1, <3>2
    <2>3. CASE M[j].t \notin U
      <3>1. PICK k \in 1 .. j - 1 : M[k] = Create(M[j].t)
        BY <2>3 DEF Tabled
      <3>2. /\ k + Len(L) \in 1 .. Len(L) + Len(M) /\ (k + Len(L)) - Len(L) = k
            /\ ~(k + Len(L) <= Len(L)) /\ k + Len(L) \in 1 .. (j + Len(L)) - 1
        BY <1>1, <3>1
      <3>3. J[k + Len(L)] = M[k]
        BY <1>1, <3>2
      <3> QED
        BY <3>1, <3>2, <3>3
    <2> QED
      BY <2>2, <2>3
  <1>4. ASSUME NEW i \in 1 .. Len(L) + Len(M) PROVE Fine(i)
    <2>1. CASE i \in 1 .. Len(L)
      BY <1>2, <2>1
    <2>2. CASE i > Len(L)
      <3>1. i - Len(L) \in 1 .. Len(M) /\ (i - Len(L)) + Len(L) = i
        BY <1>1, <2>2
      <3> HIDE DEF Fine
      <3>2. Fine((i - Len(L)) + Len(L))
        BY <1>3, <3>1
      <3> QED
        BY <3>1, <3>2
    <2> QED
      BY <1>1, <2>1, <2>2
  <1>5. Tabled(J, T)
    BY <1>1, <1>4 DEF Tabled
  <1> QED
    BY <1>5 DEF J

(* All at once.                                                            *)
Early(L, S, T) == Sound(L) /\ S \subseteq Lines(L) /\ Tabled(L, T)

LEMMA EarlyConcat ==
    ASSUME NEW L, NEW M, NEW S, NEW R, NEW T, NEW U, Early(L, S, T), Early(M, R, U),
           \A u \in U : u \in T \/ Create(u) \in S
    PROVE  Early(L \o M, S \cup R, T)
  <1>1. L \in Seq(Rec) /\ M \in Seq(Rec) /\ S \subseteq Lines(L) /\ R \subseteq Lines(M)
    BY DEF Early, Sound
  <1>2. Tabled(L \o M, T)
    BY <1>1, TabledConcat DEF Early
  <1>3. S \cup R \subseteq Lines(L \o M)
    BY <1>1, LinesConcat
  <1> QED
    BY <1>2, <1>3, SoundConcat DEF Early

LEMMA ColumnEarly ==
    ASSUME NEW t \in Table \ {"config", "config_new"}, NEW c \in (Whole(t) \ {"table"}) \cap Name
    PROVE  Early(Column(t, c), {Add(t, c)}, {t})
  <1> DEFINE L == <<Unless(t, c, 1), Add(t, c)>>
  <1>1. Unless(t, c, 1) \in Rec /\ Add(t, c) \in Rec
    BY DEF Rec, Do
  <1>2. L \in Seq(Rec) /\ Len(L) = 2 /\ L[1] = Unless(t, c, 1) /\ L[2] = Add(t, c)
    BY <1>1
  <1> HIDE DEF L
  <1>3. Guarded(L, 1)
    BY <1>2 DEF Guarded, LeftOut
  <1>4. Guarded(L, 2)
    BY <1>2 DEF Guarded
  <1>5. \A i \in 1 .. 2 : i = 1 \/ i = 2
    OBVIOUS
  <1>6. Add(t, c) \in Lines(L)
    <2>1. 2 \in 1 .. 2
      OBVIOUS
    <2> QED
      BY <1>2, <2>1 DEF Lines
  <1>7. Tabled(L, {t})
    BY <1>2, <1>5 DEF Tabled
  <1> QED
    BY <1>2, <1>3, <1>4, <1>5, <1>6, <1>7 DEF Sound, Column, L, Early

LEMMA OneEarly ==
    ASSUME NEW s \in Rec, s.do \in {"create", "addQuietly", "adopt", "fill"},
           s.do \in {"create", "addQuietly"} => s.t \in Table \ {"config", "config_new"},
           s.do = "addQuietly" => s.c \in Whole(s.t) \ {"table"}
    PROVE  Early(<<s>>, {s}, {})
  <1>1. /\ <<s>> \in Seq(Rec) /\ Len(<<s>>) = 1 /\ <<s>>[1] = s
        /\ 1 .. 1 = {1}
    OBVIOUS
  <1>2. Guarded(<<s>>, 1)
    BY <1>1 DEF Guarded
  <1> QED
    BY <1>1, <1>2 DEF Early, Sound, Lines, Tabled

LEMMA NoneEarly ==
    ASSUME NEW T
    PROVE  Early(<<>>, {}, T)
  <1>1. <<>> \in Seq(Rec) /\ Len(<<>>) = 0 /\ 1 .. 0 = {}
    OBVIOUS
  <1> QED
    BY <1>1 DEF Early, Sound, Tabled

LEMMA CreateEarly ==
    ASSUME NEW t \in Table \ {"config", "config_new"}
    PROVE  Early(<<Create(t)>>, {Create(t)}, {})
  BY OneEarly DEF Rec, Do, Name

LEMMA AccountsEarly ==
    Early(EnsureAccountsTable \o EnsureAccountPassword,
          {Create("accounts"), Add("accounts", "password"), Fill("default"), Fill("admin")}, {})
  <1>1. Early(EnsureAccountsTable, {Create("accounts")}, {})
    BY CreateEarly, Tables DEF EnsureAccountsTable
  <1>2. Early(Column("accounts", "password"), {Add("accounts", "password")}, {"accounts"})
    BY ColumnEarly, Tables DEF Name
  <1>3. Early(<<Fill("default"), Fill("admin")>>, {Fill("default"), Fill("admin")}, {})
    <2> DEFINE L == <<Fill("default"), Fill("admin")>>
    <2>1. Fill("default") \in Rec /\ Fill("admin") \in Rec
      BY DEF Rec, Do, Name
    <2>2. /\ L \in Seq(Rec) /\ Len(L) = 2 /\ L[1] = Fill("default") /\ L[2] = Fill("admin")
          /\ 1 .. 2 = {1, 2}
      BY <2>1
    <2> HIDE DEF L
    <2>3. Guarded(L, 1) /\ Guarded(L, 2)
      BY <2>2 DEF Guarded
    <2>4. L[1] \in Lines(L) /\ L[2] \in Lines(L)
      BY <2>2 DEF Lines
    <2> QED
      BY <2>2, <2>3, <2>4 DEF Early, Sound, L, Tabled
  <1>4. Early(EnsureAccountPassword,
              {Add("accounts", "password")} \cup {Fill("default"), Fill("admin")}, {"accounts"})
    BY <1>2, <1>3, EarlyConcat DEF EnsureAccountPassword
  <1>5. Early(EnsureAccountsTable \o EnsureAccountPassword, {Create("accounts")} \cup
              ({Add("accounts", "password")} \cup {Fill("default"), Fill("admin")}), {})
    BY <1>1, <1>4, EarlyConcat
  <1>6. {Create("accounts")} \cup ({Add("accounts", "password")} \cup {Fill("default"), Fill("admin")})
        = {Create("accounts"), Add("accounts", "password"), Fill("default"), Fill("admin")}
    OBVIOUS
  <1> QED
    BY <1>5, <1>6 DEF Early

LEMMA IndexEarly ==
    ASSUME NEW t \in {"nodes", "health_check_history"}
    PROVE  Early(SQLiteIndex(t), {}, {})
  <1>1. Early(<<>>, {}, {})
    BY NoneEarly
  <1>2. AddIndexQuietly(t) \in Rec /\ "index" \in Whole(t) \ {"table"} /\ t \in Table \ {"config", "config_new"}
    BY Tables DEF Rec, Do, Name
  <1>3. Early(<<AddIndexQuietly(t)>>, {AddIndexQuietly(t)}, {})
    BY <1>2, OneEarly
  <1> QED
    BY <1>1, <1>3 DEF SQLiteIndex, Early

AccountIdOfNodes ==
    <<Unless("nodes", "account_id", 3), Add("nodes", "account_id"),
      Row("indexIfNotExists"), Row("adopt")>>

LEMMA AccountIdEarly ==
    ASSUME NEW L, NEW S, NEW T, Early(L, S, T), Create("nodes") \in S
    PROVE  Early(L \o AccountIdOfNodes, S \cup {Add("nodes", "account_id")}, T)
  <1> DEFINE M == AccountIdOfNodes
             J == L \o M
  <1>1. /\ Unless("nodes", "account_id", 3) \in Rec /\ Add("nodes", "account_id") \in Rec
        /\ Row("indexIfNotExists") \in Rec /\ Row("adopt") \in Rec
    BY Tables DEF Rec, Do, Name
  <1>2. /\ M \in Seq(Rec) /\ Len(M) = 4 /\ M[1] = Unless("nodes", "account_id", 3)
        /\ M[2] = Add("nodes", "account_id") /\ M[3] = Row("indexIfNotExists")
        /\ M[4] = Row("adopt")
    BY <1>1 DEF AccountIdOfNodes
  <1> HIDE DEF M
  <1>3. /\ J \in Seq(Rec) /\ Len(J) = Len(L) + 4 /\ Len(L) \in Nat /\ L \in Seq(Rec)
        /\ \A k \in 1 .. Len(L) + 4 : J[k] = IF k <= Len(L) THEN L[k] ELSE M[k - Len(L)]
    <2>1. L \in Seq(Rec) /\ Len(L) \in Nat
      BY LenProperties DEF Early, Sound
    <2>2. /\ J \in Seq(Rec) /\ Len(J) = Len(L) + Len(M)
          /\ \A k \in 1 .. Len(L) + Len(M) : J[k] = IF k <= Len(L) THEN L[k] ELSE M[k - Len(L)]
      BY <1>2, <2>1, ConcatProperties
    <2> HIDE DEF J
    <2> QED
      BY <1>2, <2>1, <2>2
  <1>4. \A i \in 1 .. Len(L) : Guarded(J, i)
    BY <1>2, GuardedLeft DEF Early, Sound
  <1>5. Guarded(M, 1) /\ Guarded(M, 2) /\ Guarded(M, 4)
    <2>1. \A k \in 2 .. 4 : k = 2 \/ k = 3 \/ k = 4
      OBVIOUS
    <2>2. \A k \in 2 .. 4 : LeftOut(M[1], M[k])
      BY <1>2, <2>1 DEF LeftOut
    <2>3. Guarded(M, 1)
      BY <1>2, <2>2 DEF Guarded
    <2>4. Guarded(M, 2)
      BY <1>2, Tables DEF Guarded
    <2>5. Guarded(M, 4)
      BY <1>2 DEF Guarded
    <2> QED
      BY <2>3, <2>4, <2>5
  <1>6. 1 \in 1 .. Len(M) /\ 2 \in 1 .. Len(M) /\ 4 \in 1 .. Len(M)
    BY <1>2
  <1>7. Guarded(J, 1 + Len(L)) /\ Guarded(J, 2 + Len(L)) /\ Guarded(J, 4 + Len(L))
    BY <1>2, <1>3, <1>5, <1>6, GuardedRight
  <1>8. Guarded(J, 3 + Len(L))
    <2> DEFINE i == 3 + Len(L)
    <2>1. PICK k \in 1 .. Len(L) : L[k] = Create("nodes")
      BY DEF Early, Lines
    <2>2. k \in 1 .. i - 3 /\ J[k] = Create("nodes") /\ i > 3
      BY <1>3, <2>1
    <2>3. J[i] = M[3] /\ J[i - 1] = M[2] /\ J[i - 2] = M[1]
      <3>1. J[3 + Len(L)] = M[3]
        BY <1>3
      <3>2. J[2 + Len(L)] = M[2]
        BY <1>3
      <3>3. J[1 + Len(L)] = M[1]
        BY <1>3
      <3>4. i - 1 = 2 + Len(L) /\ i - 2 = 1 + Len(L)
        BY <1>3
      <3> QED
        BY <3>1, <3>2, <3>3, <3>4
    <2> HIDE DEF i, J
    <2>4. Guarded(J, i)
      BY <1>2, <2>2, <2>3 DEF Guarded
    <2> QED
      BY <2>4 DEF i
  <1>9. Sound(J)
    <2>1. \A i \in 1 .. Len(L) + 4 : \/ i \in 1 .. Len(L) \/ i = 1 + Len(L) \/ i = 2 + Len(L)
                                     \/ i = 3 + Len(L) \/ i = 4 + Len(L)
      BY <1>3
    <2> HIDE DEF J
    <2> QED
      BY <1>3, <1>4, <1>7, <1>8, <2>1 DEF Sound
  <1>10. Lines(L) \cup Lines(M) \subseteq Lines(J)
    BY <1>2, <1>3, LinesConcat
  <1>11. Add("nodes", "account_id") \in Lines(M)
    BY <1>2, <1>6 DEF Lines
  <1>12. Tabled(M, {"nodes"})
    <2>1. \A i \in 1 .. 4 : i = 1 \/ i = 2 \/ i = 3 \/ i = 4
      OBVIOUS
    <2> QED
      BY <1>2, <2>1 DEF Tabled
  <1>13. Tabled(J, T)
    BY <1>2, <1>3, <1>12, TabledConcat DEF Early
  <1> QED
    BY <1>9, <1>10, <1>11, <1>13 DEF Early, M

LEMMA NodesEarly ==
    Early(EnsureNodesTable,
          {Create("nodes")} \cup {Add("nodes", c) : c \in Later.nodes \ {"index"}}, {})
  <1>1. Early(<<Create("nodes")>>, {Create("nodes")}, {})
    BY CreateEarly, Tables
  <1>2. Early(<<Create("nodes")>> \o SQLiteIndex("nodes"), {Create("nodes")}, {})
    <2>1. Early(SQLiteIndex("nodes"), {}, {})
      BY IndexEarly
    <2>2. Early(<<Create("nodes")>> \o SQLiteIndex("nodes"), {Create("nodes")} \cup {}, {})
      BY <1>1, <2>1, EarlyConcat
    <2>3. {Create("nodes")} \cup {} = {Create("nodes")}
      OBVIOUS
    <2> QED
      BY <2>2, <2>3
  <1>3. ASSUME NEW c \in {"disabled", "last_health_check_at", "health_check_method",
                          "health_check_model"}
        PROVE  Early(Column("nodes", c), {Add("nodes", c)}, {"nodes"})
    BY ColumnEarly, Tables DEF Name
  <1>4. Early(<<Create("nodes")>> \o SQLiteIndex("nodes") \o Column("nodes", "disabled"),
              {Create("nodes")} \cup {Add("nodes", "disabled")}, {})
    BY <1>2, <1>3, EarlyConcat
  <1> DEFINE P == <<Create("nodes")>> \o SQLiteIndex("nodes") \o Column("nodes", "disabled")
             A == {Create("nodes")} \cup {Add("nodes", "disabled")}
  <1>5. Early(P, A, {}) /\ Create("nodes") \in A
    BY <1>4
  <1> HIDE DEF P, A
  <1>6. Early(P \o AccountIdOfNodes, A \cup {Add("nodes", "account_id")}, {})
    BY <1>5, AccountIdEarly
  <1>7. Early(P \o AccountIdOfNodes \o Column("nodes", "last_health_check_at"),
              A \cup {Add("nodes", "account_id")} \cup {Add("nodes", "last_health_check_at")}, {})
    BY <1>3, <1>5, <1>6, EarlyConcat
  <1>8. Early(P \o AccountIdOfNodes \o Column("nodes", "last_health_check_at")
                \o Column("nodes", "health_check_method"),
              A \cup {Add("nodes", "account_id")} \cup {Add("nodes", "last_health_check_at")}
                \cup {Add("nodes", "health_check_method")}, {})
    BY <1>3, <1>5, <1>7, EarlyConcat
  <1>9. Early(P \o AccountIdOfNodes \o Column("nodes", "last_health_check_at")
                \o Column("nodes", "health_check_method")
                \o Column("nodes", "health_check_model"),
              A \cup {Add("nodes", "account_id")} \cup {Add("nodes", "last_health_check_at")}
                \cup {Add("nodes", "health_check_method")}
                \cup {Add("nodes", "health_check_model")}, {})
    BY <1>3, <1>5, <1>8, EarlyConcat
  <1>10. EnsureNodesTable = P \o AccountIdOfNodes \o Column("nodes", "last_health_check_at")
                              \o Column("nodes", "health_check_method")
                              \o Column("nodes", "health_check_model")
    BY DEF EnsureNodesTable, P, AccountIdOfNodes
  <1>11. {Create("nodes")} \cup {Add("nodes", c) : c \in Later.nodes \ {"index"}}
         \subseteq A \cup {Add("nodes", "account_id")} \cup {Add("nodes", "last_health_check_at")}
                     \cup {Add("nodes", "health_check_method")}
                     \cup {Add("nodes", "health_check_model")}
    BY DEF Later, A
  <1> QED
    BY <1>9, <1>10, <1>11 DEF Early

LEMMA HealthHistoryEarly ==
    Early(EnsureHealthHistoryTable,
          {Create("health_check_history"), Add("health_check_history", "check_source")}, {})
  <1> DEFINE t == "health_check_history"
  <1>1. Early(<<Create(t)>>, {Create(t)}, {})
    BY CreateEarly, Tables
  <1>2. Early(<<Create(t)>> \o SQLiteIndex(t), {Create(t)} \cup {}, {})
    BY <1>1, IndexEarly, EarlyConcat
  <1>3. /\ Early(Column(t, "check_source"), {Add(t, "check_source")}, {t})
        /\ Early(Column(t, "index"), {Add(t, "index")}, {t})
    BY ColumnEarly, Tables DEF Name
  <1>4. Early(<<Create(t)>> \o SQLiteIndex(t) \o Column(t, "check_source"),
              {Create(t)} \cup {} \cup {Add(t, "check_source")}, {})
    BY <1>2, <1>3, EarlyConcat
  <1>5. Early(IF MySQL THEN Column(t, "index") ELSE <<>>, {}, {t})
    <2>1. Early(<<>>, {}, {t})
      BY NoneEarly
    <2> QED
      BY <1>3, <2>1 DEF Early
  <1>6. Early(<<Create(t)>> \o SQLiteIndex(t) \o Column(t, "check_source")
                \o (IF MySQL THEN Column(t, "index") ELSE <<>>),
              {Create(t)} \cup {} \cup {Add(t, "check_source")} \cup {}, {})
    BY <1>4, <1>5, EarlyConcat
  <1>7. {Create(t)} \cup {} \cup {Add(t, "check_source")} \cup {}
        = {Create(t), Add(t, "check_source")}
    OBVIOUS
  <1> QED
    BY <1>6, <1>7 DEF EnsureHealthHistoryTable

LEMMA MetricsEarly ==
    LET T == {"node_metrics_raw", "node_metrics_hourly", "node_metrics_daily",
              "node_metrics_monthly"}
    IN  Early(EnsureMetricsTables,
              {Create(t) : t \in T} \cup {Add(t, "retry_attempts_total") : t \in T}
                                    \cup {Add(t, "retry_success") : t \in T}, {})
  <1> DEFINE T == {"node_metrics_raw", "node_metrics_hourly", "node_metrics_daily",
                   "node_metrics_monthly"}
             R(t) == {Add(t, "retry_attempts_total")} \cup {Add(t, "retry_success")}
             C == <<Create("node_metrics_raw"), Create("node_metrics_hourly"),
                    Create("node_metrics_daily"), Create("node_metrics_monthly")>>
  <1>1. ASSUME NEW t \in T PROVE Early(RetryColumns(t), R(t), {t})
    <2>1. /\ Early(Column(t, "retry_attempts_total"), {Add(t, "retry_attempts_total")}, {t})
          /\ Early(Column(t, "retry_success"), {Add(t, "retry_success")}, {t})
      BY ColumnEarly, Tables DEF Name
    <2> QED
      BY <2>1, EarlyConcat DEF RetryColumns
  <1>2. Early(C, {Create(t) : t \in T}, {})
    <2>1. \A t \in T : Create(t) \in Rec
      BY Tables DEF Rec, Do, Name
    <2>2. /\ C \in Seq(Rec) /\ Len(C) = 4 /\ C[1] = Create("node_metrics_raw")
          /\ C[2] = Create("node_metrics_hourly") /\ C[3] = Create("node_metrics_daily")
          /\ C[4] = Create("node_metrics_monthly") /\ 1 .. 4 = {1, 2, 3, 4}
      BY <2>1
    <2> HIDE DEF C
    <2>3. Guarded(C, 1) /\ Guarded(C, 2) /\ Guarded(C, 3) /\ Guarded(C, 4)
      BY <2>2, Tables DEF Guarded
    <2>4. C[1] \in Lines(C) /\ C[2] \in Lines(C) /\ C[3] \in Lines(C) /\ C[4] \in Lines(C)
      BY <2>2 DEF Lines
    <2> QED
      BY <2>2, <2>3, <2>4 DEF Early, Sound, Tabled
  <1> HIDE DEF C
  <1>3. Early(C \o RetryColumns("node_metrics_raw"),
              {Create(t) : t \in T} \cup R("node_metrics_raw"), {})
    BY <1>1, <1>2, EarlyConcat
  <1>4. Early(C \o RetryColumns("node_metrics_raw") \o RetryColumns("node_metrics_hourly"),
              {Create(t) : t \in T} \cup R("node_metrics_raw") \cup R("node_metrics_hourly"), {})
    BY <1>1, <1>3, EarlyConcat
  <1>5. Early(C \o RetryColumns("node_metrics_raw") \o RetryColumns("node_metrics_hourly")
                \o RetryColumns("node_metrics_daily"),
              {Create(t) : t \in T} \cup R("node_metrics_raw") \cup R("node_metrics_hourly")
                \cup R("node_metrics_daily"), {})
    BY <1>1, <1>4, EarlyConcat
  <1>6. Early(C \o RetryColumns("node_metrics_raw") \o RetryColumns("node_metrics_hourly")
                \o RetryColumns("node_metrics_daily") \o RetryColumns("node_metrics_monthly"),
              {Create(t) : t \in T} \cup R("node_metrics_raw") \cup R("node_metrics_hourly")
                \cup R("node_metrics_daily") \cup R("node_metrics_monthly"), {})
    BY <1>1, <1>5, EarlyConcat
  <1>7. {Create(t) : t \in T} \cup {Add(t, "retry_attempts_total") : t \in T}
                              \cup {Add(t, "retry_success") : t \in T}
        \subseteq {Create(t) : t \in T} \cup R("node_metrics_raw") \cup R("node_metrics_hourly")
                \cup R("node_metrics_daily") \cup R("node_metrics_monthly")
    OBVIOUS
  <1> HIDE DEF T, R
  <1>8. Early(EnsureMetricsTables,
              {Create(t) : t \in T} \cup {Add(t, "retry_attempts_total") : t \in T}
                                    \cup {Add(t, "retry_success") : t \in T}, {})
    BY <1>6, <1>7 DEF EnsureMetricsTables, Early, C
  <1> QED
    BY <1>8 DEF T

EarlyTable == {"accounts", "nodes", "health_check_history", "monitor_shares",
               "node_metrics_raw", "node_metrics_hourly", "node_metrics_daily",
               "node_metrics_monthly"}

(* Before the configuration, every table that has columns of later         *)
(* releases is made and every column added, and the passwords are filled   *)
(* in.                                                                     *)
LEMMA BeforeEarly ==
    /\ Sound(Before) /\ Tabled(Before, {})
    /\ \A t \in EarlyTable : /\ Create(t) \in Lines(Before)
                             /\ \A c \in Later[t] \ Indexes : Add(t, c) \in Lines(Before)
    /\ Fill("default") \in Lines(Before) /\ Fill("admin") \in Lines(Before)
  <1> DEFINE A == {Create("accounts"), Add("accounts", "password"), Fill("default"), Fill("admin")}
             N == {Create("nodes")} \cup {Add("nodes", c) : c \in Later.nodes \ {"index"}}
             H == {Create("health_check_history"), Add("health_check_history", "check_source")}
             S == {Create("monitor_shares")}
             T == {"node_metrics_raw", "node_metrics_hourly", "node_metrics_daily",
                   "node_metrics_monthly"}
             R == {Create(t) : t \in T} \cup {Add(t, "retry_attempts_total") : t \in T}
                                        \cup {Add(t, "retry_success") : t \in T}
  <1>1. Early(EnsureMonitorShareTable, S, {})
    BY CreateEarly, Tables DEF EnsureMonitorShareTable
  <1> DEFINE All == A \cup N \cup H \cup S \cup R
             In(t) == Create(t) \in All /\ \A c \in Later[t] \ Indexes : Add(t, c) \in All
  <1>2. \A t \in EarlyTable : In(t)
    <2>1. In("accounts") /\ In("monitor_shares")
      BY DEF Later, Indexes
    <2>2. In("nodes")
      BY DEF Later, Indexes
    <2>3. In("health_check_history")
      BY DEF Later, Indexes
    <2>4. ASSUME NEW t \in T PROVE In(t)
      <3>1. Later[t] = {"retry_attempts_total", "retry_success"}
        BY DEF Later, Retried
      <3>2. /\ Create(t) \in R /\ Add(t, "retry_attempts_total") \in R
            /\ Add(t, "retry_success") \in R
        OBVIOUS
      <3> QED
        BY <3>1, <3>2
    <2>5. EarlyTable = {"accounts", "monitor_shares", "nodes", "health_check_history"} \cup T
      BY DEF EarlyTable
    <2> HIDE DEF In, T
    <2> QED
      BY <2>1, <2>2, <2>3, <2>4, <2>5
  <1>3. Fill("default") \in A /\ Fill("admin") \in A
    OBVIOUS
  <1>4. Early(EnsureNodesTable, N, {}) /\ Early(EnsureHealthHistoryTable, H, {})
    BY NodesEarly, HealthHistoryEarly
  <1>5. Early(EnsureMetricsTables, R, {})
    BY MetricsEarly
  <1>6. Early(EnsureAccountsTable \o EnsureAccountPassword, A, {})
    BY AccountsEarly
  <1> HIDE DEF A, N, H, S, R
  <1>7. Early(EnsureAccountsTable \o EnsureAccountPassword \o EnsureNodesTable, A \cup N, {})
    BY <1>4, <1>6, EarlyConcat
  <1>8. Early(EnsureAccountsTable \o EnsureAccountPassword \o EnsureNodesTable
                \o EnsureHealthHistoryTable, A \cup N \cup H, {})
    BY <1>4, <1>7, EarlyConcat
  <1>9. Early(EnsureAccountsTable \o EnsureAccountPassword \o EnsureNodesTable
                \o EnsureHealthHistoryTable \o EnsureMonitorShareTable, A \cup N \cup H \cup S, {})
    BY <1>1, <1>8, EarlyConcat
  <1>10. Early(Before, A \cup N \cup H \cup S \cup R, {})
    BY <1>5, <1>9, EarlyConcat DEF Before
  <1>11. A \cup N \cup H \cup S \cup R \subseteq Lines(Before)
    BY <1>10 DEF Early
  <1> QED
    BY <1>2, <1>3, <1>10, <1>11 DEF Early

(* Where the other statements are.                                         *)
Prefix(L, M) == Len(L) <= Len(M) /\ \A i \in 1 .. Len(L) : M[i] = L[i]

Follows(N, L, M) ==
    /\ N \in Seq(Rec) /\ Len(N) = Len(L) + Len(M) /\ Prefix(L, N)
    /\ \A j \in 1 .. Len(M) : N[Len(L) + j] = M[j]

LEMMA Longer ==
    ASSUME NEW L \in Seq(Rec), NEW M \in Seq(Rec)
    PROVE  Follows(L \o M, L, M)
  <1> DEFINE J == L \o M
  <1>1. /\ J \in Seq(Rec) /\ Len(J) = Len(L) + Len(M) /\ Len(L) \in Nat /\ Len(M) \in Nat
        /\ \A k \in 1 .. Len(L) + Len(M) : J[k] = IF k <= Len(L) THEN L[k] ELSE M[k - Len(L)]
    BY ConcatProperties, LenProperties
  <1> HIDE DEF J
  <1>2. ASSUME NEW j \in 1 .. Len(M) PROVE J[Len(L) + j] = M[j]
    <2>1. /\ Len(L) + j \in 1 .. Len(L) + Len(M) /\ (Len(L) + j) - Len(L) = j
          /\ ~(Len(L) + j <= Len(L))
      BY <1>1
    <2> QED
      BY <1>1, <2>1
  <1>3. Prefix(L, J)
    BY <1>1 DEF Prefix
  <1>4. Follows(J, L, M)
    BY <1>1, <1>2, <1>3 DEF Follows
  <1> QED
    BY <1>4 DEF J

LEMMA PrefixTransitive ==
    ASSUME NEW L \in Seq(Rec), NEW M \in Seq(Rec), NEW N \in Seq(Rec), Prefix(L, M), Prefix(M, N)
    PROVE  Prefix(L, N)
  <1>1. Len(L) \in Nat /\ Len(M) \in Nat /\ Len(N) \in Nat
    BY LenProperties
  <1> QED
    BY <1>1 DEF Prefix

LEMMA OneMore ==
    ASSUME NEW L \in Seq(Rec), NEW s \in Rec
    PROVE  /\ L \o <<s>> \in Seq(Rec) /\ Len(L \o <<s>>) = Len(L) + 1
           /\ Prefix(L, L \o <<s>>) /\ (L \o <<s>>)[Len(L) + 1] = s
  <1> DEFINE M == <<s>>
  <1>1. M \in Seq(Rec) /\ Len(M) = 1 /\ M[1] = s
    OBVIOUS
  <1>2. L \o <<s>> = L \o M
    OBVIOUS
  <1> HIDE DEF M
  <1>3. Follows(L \o M, L, M)
    BY <1>1, Longer
  <1>4. (L \o M)[Len(L) + 1] = M[1]
    BY <1>1, <1>3 DEF Follows
  <1> QED
    BY <1>1, <1>2, <1>3, <1>4 DEF Follows

K1 == K + 20        \* Unless a price is there
K2 == K1 + Prices   \* the last price

(* Migrate, list by list.                                                  *)
C1 == Before \o EnsureConfigTable
C2 == C1 \o EnsureTunnelConfigTable
C3 == C2 \o EnsureNotificationTables
C4 == C3 \o EnsureSettingsTable
C5 == C4 \o SeedDefaultSettings
C6 == C5 \o MigrateConfigToSettings
C7 == C6 \o EnsureMonitorSharesTable
C8 == C7 \o EnsurePricingTables

LEMMA Layout ==
    /\ K \in Nat /\ Prices \in Nat \ {0} /\ Sound(Before)
    /\ Steps \in Seq(Rec) /\ Len(Steps) = K2 + 3 /\ Serving = K2 + 4
    /\ \A i \in 1 .. K : Steps[i] = Before[i]
    /\ Steps[K + 1] = Unless("config", "account_id", 4)
    /\ Steps[K + 2] = Create("config_new") /\ Steps[K + 3] = Row("copyQuietly")
    /\ Steps[K + 4] = Drop("config") /\ Steps[K + 5] = Row("rename")
    /\ Steps[K + 6] = Row("configRow") /\ Steps[K + 7] = Create("tunnel_config")
    /\ Steps[K + 8] = Create("notification_channels")
    /\ Steps[K + 9] = Create("notification_subscriptions")
    /\ Steps[K + 10] = Create("notification_history") /\ Steps[K + 11] = Create("settings")
    /\ Steps[K + 12] = Row("seedSetting") /\ Steps[K + 13] = Row("tableExists")
    /\ Steps[K + 14] = Row("readConfig") /\ Steps[K + 15] = Row("copySetting")
    /\ Steps[K + 16] = Row("copyActive") /\ Steps[K + 17] = Create("monitor_shares")
    /\ Steps[K + 18] = Create("model_pricing") /\ Steps[K + 19] = Create("usage_logs")
    /\ Steps[K1] = Unless("model_pricing", "price", Prices)
    /\ \A i \in K1 + 1 .. K2 : Steps[i] = Price(i - K1)
    /\ Steps[K2 + 1] = Unless("accounts", "admin", 1)
    /\ Steps[K2 + 2] = Row("createAdmin") /\ Steps[K2 + 3] = Row("load")
  <1> DEFINE Con == EnsureConfigTable
             Not == EnsureNotificationTables
             Mig == MigrateConfigToSettings
             Usg == EnsurePricingTables
             Pri == SeedDefaultPricing
  <1>1. Sound(Before) /\ Before \in Seq(Rec) /\ K \in Nat /\ Prices \in Nat \ {0}
    BY BeforeEarly, ConfigAssumption, LenProperties DEF Sound, K
  <1>2. /\ \A t \in Table : Create(t) \in Rec /\ Drop(t) \in Rec
        /\ \A d \in Do : Row(d) \in Rec
        /\ \A t \in Table, c \in Name, n \in Nat : Unless(t, c, n) \in Rec
    BY DEF Rec, Name, Do
  <1>3. /\ Con \in Seq(Rec) /\ Len(Con) = 6 /\ Con[1] = Unless("config", "account_id", 4)
        /\ Con[2] = Create("config_new") /\ Con[3] = Row("copyQuietly")
        /\ Con[4] = Drop("config") /\ Con[5] = Row("rename") /\ Con[6] = Row("configRow")
    <2>1. Len(RecreateConfigTable) = 4
      BY DEF RecreateConfigTable
    <2>2. Con = <<Unless("config", "account_id", 4)>> \o RecreateConfigTable \o <<Row("configRow")>>
      BY <2>1 DEF EnsureConfigTable
    <2>3. /\ Unless("config", "account_id", 4) \in Rec /\ Create("config_new") \in Rec
          /\ Row("copyQuietly") \in Rec /\ Drop("config") \in Rec /\ Row("rename") \in Rec
          /\ Row("configRow") \in Rec
      BY <1>2, Tables DEF Do, Name
    <2> DEFINE U == <<Unless("config", "account_id", 4)>>
               F == <<Row("configRow")>>
               X == U \o RecreateConfigTable
    <2>4. /\ RecreateConfigTable \in Seq(Rec) /\ RecreateConfigTable[1] = Create("config_new")
          /\ RecreateConfigTable[2] = Row("copyQuietly")
          /\ RecreateConfigTable[3] = Drop("config") /\ RecreateConfigTable[4] = Row("rename")
      BY <2>3 DEF RecreateConfigTable
    <2>5. /\ U \in Seq(Rec) /\ Len(U) = 1 /\ U[1] = Unless("config", "account_id", 4)
          /\ F \in Seq(Rec) /\ Len(F) = 1 /\ F[1] = Row("configRow")
      BY <2>3
    <2> HIDE DEF U, F
    <2>6. Follows(X, U, RecreateConfigTable)
      BY <2>4, <2>5, Longer
    <2>7. X \in Seq(Rec) /\ Len(X) = 5 /\ X[1] = U[1]
          /\ \A j \in 1 .. 4 : X[1 + j] = RecreateConfigTable[j]
      BY <2>1, <2>4, <2>5, <2>6 DEF Follows, Prefix
    <2>8. /\ X[2] = RecreateConfigTable[1] /\ X[3] = RecreateConfigTable[2]
          /\ X[4] = RecreateConfigTable[3] /\ X[5] = RecreateConfigTable[4]
      <3>1. /\ X[1 + 1] = RecreateConfigTable[1] /\ X[1 + 2] = RecreateConfigTable[2]
            /\ X[1 + 3] = RecreateConfigTable[3] /\ X[1 + 4] = RecreateConfigTable[4]
        BY <2>7
      <3> HIDE DEF X
      <3> QED
        BY <3>1
    <2>9. Con = X \o F
      BY <2>2 DEF U, F
    <2> HIDE DEF X
    <2>10. Follows(Con, X, F)
      BY <2>5, <2>7, <2>9, Longer
    <2>11. Con[5 + 1] = F[1]
      BY <2>5, <2>7, <2>10 DEF Follows
    <2>12. Con \in Seq(Rec) /\ Len(Con) = 6 /\ \A j \in 1 .. 5 : Con[j] = X[j]
      BY <2>5, <2>7, <2>10 DEF Follows, Prefix
    <2> QED
      BY <2>4, <2>5, <2>7, <2>8, <2>11, <2>12
  <1>4. /\ Not \in Seq(Rec) /\ Len(Not) = 3 /\ Not[1] = Create("notification_channels")
        /\ Not[2] = Create("notification_subscriptions")
        /\ Not[3] = Create("notification_history")
    BY <1>2, Tables DEF EnsureNotificationTables
  <1>5. /\ Mig \in Seq(Rec) /\ Len(Mig) = 4 /\ Mig[1] = Row("tableExists")
        /\ Mig[2] = Row("readConfig") /\ Mig[3] = Row("copySetting") /\ Mig[4] = Row("copyActive")
    <2>1. /\ Row("tableExists") \in Rec /\ Row("readConfig") \in Rec
          /\ Row("copySetting") \in Rec /\ Row("copyActive") \in Rec
      BY <1>2 DEF Do
    <2> QED
      BY <2>1 DEF MigrateConfigToSettings, TableExists
  <1>6. /\ Usg \in Seq(Rec) /\ Len(Usg) = 2 /\ Usg[1] = Create("model_pricing")
        /\ Usg[2] = Create("usage_logs")
    BY <1>2, Tables DEF EnsurePricingTables
  <1>7. /\ C2 = C1 \o <<Create("tunnel_config")>> /\ C4 = C3 \o <<Create("settings")>>
        /\ C5 = C4 \o <<Row("seedSetting")>> /\ C7 = C6 \o <<Create("monitor_shares")>>
    BY DEF EnsureTunnelConfigTable, EnsureSettingsTable, SeedDefaultSettings,
           EnsureMonitorSharesTable, C2, C4, C5, C7
  <1>8. Before \in Seq(Rec) /\ Len(Before) = K /\ C1 = Before \o EnsureConfigTable
    BY <1>1 DEF K, C1
  <1>9. /\ Create("tunnel_config") \in Rec /\ Create("settings") \in Rec
        /\ Row("seedSetting") \in Rec /\ Create("monitor_shares") \in Rec
    BY <1>2, Tables DEF Do
  <1>10. /\ Pri \in Seq(Rec) /\ Len(Pri) = 1 + Prices
         /\ Pri[1] = Unless("model_pricing", "price", Prices)
         /\ \A j \in 1 .. Prices : Pri[1 + j] = Price(j)
    <2> DEFINE U == <<Unless("model_pricing", "price", Prices)>>
               V == [m \in Model |-> Price(m)]
    <2>1. /\ Unless("model_pricing", "price", Prices) \in Rec
          /\ \A j \in 1 .. Prices : Price(j) \in Rec
      BY <1>1, <1>2, Tables DEF Do, Name, Price, Rec
    <2>2. U \in Seq(Rec) /\ Len(U) = 1 /\ U[1] = Unless("model_pricing", "price", Prices)
      BY <2>1
    <2>3. V \in Seq(Rec) /\ Len(V) = Prices /\ \A j \in 1 .. Prices : V[j] = Price(j)
      BY <1>1, <2>1 DEF Model
    <2>4. Pri = U \o V
      BY DEF SeedDefaultPricing
    <2> HIDE DEF U, V, Pri
    <2> QED
      <3>1. Follows(Pri, U, V)
        BY <2>2, <2>3, <2>4, Longer
      <3>2. Pri[1] = U[1]
        BY <2>2, <3>1 DEF Follows, Prefix
      <3> QED
        BY <1>1, <2>2, <2>3, <3>1, <3>2 DEF Follows
  <1>11. /\ Build \in Seq(Rec) /\ Len(Build) = 3 /\ Build[1] = Unless("accounts", "admin", 1)
         /\ Build[2] = Row("createAdmin") /\ Build[3] = Row("load")
    <2>1. /\ Unless("accounts", "admin", 1) \in Rec /\ Row("createAdmin") \in Rec
          /\ Row("load") \in Rec
      BY <1>2, Tables DEF Do, Name
    <2> QED
      BY <2>1 DEF Build
  <1>12. Migrate = C8 \o Pri
    BY DEF Migrate, C8, C7, C6, C5, C4, C3, C2, C1, Before
  <1> HIDE DEF Con, Not, Mig, Usg, Pri
  <1>13. /\ C1 \in Seq(Rec) /\ Len(C1) = K + 6 /\ Prefix(Before, C1)
         /\ \A j \in 1 .. 6 : C1[K + j] = Con[j]
    <2>1. Follows(C1, Before, Con)
      BY <1>8, <1>3, Longer DEF C1, Con
    <2> QED
      BY <1>1, <1>8, <1>3, <2>1 DEF Follows
  <1>14. /\ C2 \in Seq(Rec) /\ Len(C2) = K + 7 /\ Prefix(C1, C2)
         /\ C2[K + 7] = Create("tunnel_config")
    <2>1. C2 = C1 \o <<Create("tunnel_config")>> /\ Len(C1) \in Nat
      BY <1>7, <1>13, LenProperties
    <2> QED
      BY <1>1, <1>9, <1>13, <2>1, OneMore
  <1>15. /\ C3 \in Seq(Rec) /\ Len(C3) = K + 10 /\ Prefix(C2, C3)
         /\ \A j \in 1 .. 3 : C3[K + 7 + j] = Not[j]
    <2>1. Follows(C3, C2, Not)
      BY <1>14, <1>4, Longer DEF C3, Not
    <2> QED
      BY <1>1, <1>14, <1>4, <2>1 DEF Follows
  <1>16. /\ C4 \in Seq(Rec) /\ Len(C4) = K + 11 /\ Prefix(C3, C4)
         /\ C4[K + 11] = Create("settings")
    <2>1. C4 = C3 \o <<Create("settings")>> /\ Len(C3) \in Nat
      BY <1>7, <1>15, LenProperties
    <2> QED
      BY <1>1, <1>9, <1>15, <2>1, OneMore
  <1>17. /\ C5 \in Seq(Rec) /\ Len(C5) = K + 12 /\ Prefix(C4, C5)
         /\ C5[K + 12] = Row("seedSetting")
    <2>1. C5 = C4 \o <<Row("seedSetting")>> /\ Len(C4) \in Nat
      BY <1>7, <1>16, LenProperties
    <2> QED
      BY <1>1, <1>9, <1>16, <2>1, OneMore
  <1>18. /\ C6 \in Seq(Rec) /\ Len(C6) = K + 16 /\ Prefix(C5, C6)
         /\ \A j \in 1 .. 4 : C6[K + 12 + j] = Mig[j]
    <2>1. Follows(C6, C5, Mig)
      BY <1>17, <1>5, Longer DEF C6, Mig
    <2> QED
      BY <1>1, <1>17, <1>5, <2>1 DEF Follows
  <1>19. /\ C7 \in Seq(Rec) /\ Len(C7) = K + 17 /\ Prefix(C6, C7)
         /\ C7[K + 17] = Create("monitor_shares")
    <2>1. C7 = C6 \o <<Create("monitor_shares")>> /\ Len(C6) \in Nat
      BY <1>7, <1>18, LenProperties
    <2> QED
      BY <1>1, <1>9, <1>18, <2>1, OneMore
  <1>20. /\ C8 \in Seq(Rec) /\ Len(C8) = K + 19 /\ Prefix(C7, C8)
         /\ \A j \in 1 .. 2 : C8[K + 17 + j] = Usg[j]
    <2>1. Follows(C8, C7, Usg)
      BY <1>19, <1>6, Longer DEF C8, Usg
    <2> QED
      BY <1>1, <1>19, <1>6, <2>1 DEF Follows
  <1>21. /\ Migrate \in Seq(Rec) /\ Len(Migrate) = K2 /\ Prefix(C8, Migrate)
         /\ \A j \in 1 .. 1 + Prices : Migrate[K + 19 + j] = Pri[j]
    <2>1. Follows(Migrate, C8, Pri)
      BY <1>20, <1>10, <1>12, Longer
    <2> QED
      BY <1>1, <1>20, <1>10, <1>12, <2>1 DEF Follows, K1, K2
  <1>22. /\ Steps \in Seq(Rec) /\ Len(Steps) = K2 + 3 /\ Prefix(Migrate, Steps)
         /\ \A j \in 1 .. 3 : Steps[K2 + j] = Build[j]
    <2>1. Follows(Steps, Migrate, Build)
      BY <1>21, <1>11, Longer DEF Steps
    <2> QED
      BY <1>1, <1>21, <1>11, <2>1 DEF Follows, K1, K2
  <1>23. Prefix(C8, Steps)
    BY <1>20, <1>21, <1>22, PrefixTransitive
  <1>24. Prefix(C7, Steps)
    BY <1>19, <1>20, <1>22, <1>23, PrefixTransitive
  <1>25. Prefix(C6, Steps)
    BY <1>18, <1>19, <1>22, <1>24, PrefixTransitive
  <1>26. Prefix(C5, Steps)
    BY <1>17, <1>18, <1>22, <1>25, PrefixTransitive
  <1>27. Prefix(C4, Steps)
    BY <1>16, <1>17, <1>22, <1>26, PrefixTransitive
  <1>28. Prefix(C3, Steps)
    BY <1>15, <1>16, <1>22, <1>27, PrefixTransitive
  <1>29. Prefix(C2, Steps)
    BY <1>14, <1>15, <1>22, <1>28, PrefixTransitive
  <1>30. Prefix(C1, Steps)
    BY <1>13, <1>14, <1>22, <1>29, PrefixTransitive
  <1>31. Prefix(Before, Steps)
    BY <1>1, <1>13, <1>22, <1>30, PrefixTransitive
  <1>32. \A i \in 1 .. K : Steps[i] = Before[i]
    BY <1>31 DEF Prefix, K
  <1>33. \A j \in 1 .. 6 : Steps[K + j] = Con[j]
    BY SMTT(30), <1>1, <1>13, <1>30 DEF Prefix
  <1>34. Steps[K + 7] = Create("tunnel_config")
    BY <1>1, <1>14, <1>29 DEF Prefix
  <1>35. \A j \in 1 .. 3 : Steps[K + 7 + j] = Not[j]
    BY <1>1, <1>15, <1>28 DEF Prefix
  <1>36. Steps[K + 11] = Create("settings")
    BY <1>1, <1>16, <1>27 DEF Prefix
  <1>37. Steps[K + 12] = Row("seedSetting")
    BY <1>1, <1>17, <1>26 DEF Prefix
  <1>38. \A j \in 1 .. 4 : Steps[K + 12 + j] = Mig[j]
    BY <1>1, <1>18, <1>25 DEF Prefix
  <1>39. Steps[K + 17] = Create("monitor_shares")
    BY <1>1, <1>19, <1>24 DEF Prefix
  <1>40. \A j \in 1 .. 2 : Steps[K + 17 + j] = Usg[j]
    BY <1>1, <1>20, <1>23 DEF Prefix
  <1>41. \A j \in 1 .. 1 + Prices : Steps[K + 19 + j] = Pri[j]
    <2>1. Len(Migrate) = K + 19 + (1 + Prices)
      BY <1>1, <1>21 DEF K1, K2
    <2> SUFFICES ASSUME NEW j \in 1 .. 1 + Prices
                 PROVE  Steps[K + 19 + j] = Pri[j]
      OBVIOUS
    <2>2. K + 19 + j \in 1 .. Len(Migrate)
      BY <1>1, <2>1
    <2>3. Steps[K + 19 + j] = Migrate[K + 19 + j]
      BY <1>22, <2>2 DEF Prefix
    <2> QED
      BY <1>21, <2>3
  <1>42. Steps[K1] = Unless("model_pricing", "price", Prices)
    <2>1. Steps[K + 19 + 1] = Pri[1]
      BY <1>1, <1>41
    <2> QED
      BY <1>1, <1>10, <2>1 DEF K1
  <1>43. ASSUME NEW i \in K1 + 1 .. K2 PROVE Steps[i] = Price(i - K1)
    <2>1. /\ i - K1 \in 1 .. Prices /\ 1 + (i - K1) \in 1 .. 1 + Prices
          /\ K + 19 + (1 + (i - K1)) = i
      BY <1>1, <1>43 DEF K1, K2
    <2>2. Steps[K + 19 + (1 + (i - K1))] = Pri[1 + (i - K1)]
      BY <1>41, <2>1
    <2> QED
      BY <1>10, <2>1, <2>2
  <1>44. /\ Steps[K + 1] = Con[1] /\ Steps[K + 2] = Con[2] /\ Steps[K + 3] = Con[3]
         /\ Steps[K + 4] = Con[4] /\ Steps[K + 5] = Con[5] /\ Steps[K + 6] = Con[6]
    BY <1>33
  <1>45. /\ Steps[K + 8] = Not[1] /\ Steps[K + 9] = Not[2] /\ Steps[K + 10] = Not[3]
    <2>1. K + 7 + 1 = K + 8 /\ K + 7 + 2 = K + 9 /\ K + 7 + 3 = K + 10
      BY <1>1
    <2>2. Steps[K + 7 + 1] = Not[1] /\ Steps[K + 7 + 2] = Not[2] /\ Steps[K + 7 + 3] = Not[3]
      BY <1>35
    <2> QED
      BY <2>1, <2>2
  <1>46. /\ Steps[K + 13] = Mig[1] /\ Steps[K + 14] = Mig[2] /\ Steps[K + 15] = Mig[3]
         /\ Steps[K + 16] = Mig[4]
    <2>1. /\ K + 12 + 1 = K + 13 /\ K + 12 + 2 = K + 14 /\ K + 12 + 3 = K + 15
          /\ K + 12 + 4 = K + 16
      BY <1>1
    <2>2. /\ Steps[K + 12 + 1] = Mig[1] /\ Steps[K + 12 + 2] = Mig[2]
          /\ Steps[K + 12 + 3] = Mig[3] /\ Steps[K + 12 + 4] = Mig[4]
      BY <1>38
    <2> QED
      BY <2>1, <2>2
  <1>47. Steps[K + 18] = Usg[1] /\ Steps[K + 19] = Usg[2]
    <2>1. K + 17 + 1 = K + 18 /\ K + 17 + 2 = K + 19
      BY <1>1
    <2>2. Steps[K + 17 + 1] = Usg[1] /\ Steps[K + 17 + 2] = Usg[2]
      BY <1>40
    <2> QED
      BY <2>1, <2>2
  <1>48. Serving = K2 + 4
    BY <1>1, <1>22 DEF Serving, K1, K2
  <1>49. Steps[K2 + 1] = Build[1] /\ Steps[K2 + 2] = Build[2] /\ Steps[K2 + 3] = Build[3]
    BY <1>22
  <1> QED
    BY <1>1, <1>3, <1>4, <1>5, <1>6, <1>11, <1>22, <1>32, <1>34, <1>36, <1>37, <1>39, <1>42,
       <1>43, <1>44, <1>45, <1>46, <1>47, <1>48, <1>49

------------------------------------------------------------------------------
(* The invariant.                                                          *)

Booleans == MySQL \in BOOLEAN /\ faulty \in BOOLEAN /\ uncopied \in BOOLEAN /\ cut \in BOOLEAN

(* What the statements behind a start have done stays done, whether this   *)
(* start carried them out or found them done.                              *)
Done(s) ==
    /\ s.do = "create" /\ s.t \notin {"config", "config_new"} => "table" \in has[s.t]
    /\ s.do = "add" => s.c \in has[s.t]
    /\ s.do = "fill" => s.c \notin blank
DoneSoFar == \A i \in 1 .. at - 1 : Done(Steps[i])

(* A column is added only where it is not; the index of the nodes is asked *)
(* for only when a database of one tenant is upgraded, and once.           *)
Reached ==
    at \in 1 .. K =>
        /\ Steps[at].do = "add" => Steps[at].c \notin has[Steps[at].t]
        /\ Steps[at].do = "indexIfNotExists" => release = "single" /\ unprovoked = 0

Schemas ==
    /\ \A t \in Table : has[t] # {} => "table" \in has[t]
    /\ release # "single" /\ has.nodes # {} => "account_id" \in has.nodes
    /\ unprovoked \in {0, 1}
    /\ unprovoked = 1 => MySQL /\ release = "single" /\ "account_id" \in has.nodes

(* The configuration table while it is made again.                         *)
Config ==
    /\ has.config_new \in {{}, Whole("config_new")}
    /\ "account_id" \in has.config => has.config_new = {}
    /\ at \in K + 2 .. K + 5 => "account_id" \notin has.config
    /\ at \in K + 3 .. K + 5 => has.config_new # {}
    /\ at = K + 5 => has.config = {}
    /\ at >= K + 6 => "account_id" \in has.config
    /\ at >= K + 7 => row.config # "none"

(* What the site had configured.                                           *)
Kept ==
    release # "none" /\ ~uncopied =>
        /\ \/ row.config = "site" /\ row.config_new \in {"none", "site"}
           \/ row.config = "none" /\ has.config = {} /\ row.config_new = "site"
        /\ at = K + 4 => row.config_new = "site"
        /\ at >= K + 6 => row.config = "site"
        /\ active \in {"none", "site"}
        /\ at >= K + 16 => \E i \in DOMAIN settings : settings[i] = "site"

Sown ==
    /\ at >= K + 13 => \E i \in DOMAIN settings : settings[i] = "default"
    /\ at >= K + 17 => active # "none"
    /\ at >= K2 + 3 => "admin" \in accounts

(* Every start adds at most two rows.                                      *)
Counted ==
    /\ at # Down => starts >= 1
    /\ at = Down \/ at >= K + 16 => Len(settings) <= 2 * starts + 2
    /\ at \in 1 .. K + 12 => Len(settings) <= 2 * starts
    /\ at \in K + 13 .. K + 15 => Len(settings) <= 2 * starts + 1

Priced ==
    /\ at \in K1 + 1 .. K2 => prices = 1 .. at - (K1 + 1)
    /\ at >= K2 + 1 => prices = Model \/ (cut /\ prices # {})
    /\ at <= K1 => prices \in {{}, Model} \/ cut

IInv ==
    /\ TypeOK /\ Booleans /\ DoneSoFar /\ Reached /\ Schemas /\ Config /\ Kept /\ Sown
    /\ Counted /\ Priced

------------------------------------------------------------------------------
(* What a statement does, by where it is.                                  *)

LEMMA Sizes ==
    /\ K \in Nat /\ Prices \in Nat \ {0} /\ Sound(Before) /\ Steps \in Seq(Rec) /\ Down = 0
    /\ K1 = K + 20 /\ K2 = K1 + Prices /\ Len(Steps) = K2 + 3 /\ Serving = K2 + 4
    /\ K1 \in Nat /\ K2 \in Nat /\ \A i \in 1 .. Len(Steps) : Steps[i] \in Rec
  <1>1. /\ K \in Nat /\ Prices \in Nat \ {0} /\ Sound(Before) /\ Steps \in Seq(Rec)
        /\ Len(Steps) = K2 + 3 /\ Serving = K2 + 4
    BY Layout
  <1>2. \A i \in 1 .. Len(Steps) : Steps[i] \in Rec
    BY <1>1, ElementOfSeq
  <1> QED
    BY <1>1, <1>2 DEF K1, K2, Down

LEMMA EarlyLines ==
    /\ K = Len(Before)
    /\ \A i \in 1 .. K : Steps[i] = Before[i] /\ Guarded(Before, i)
    /\ \A i \in 1 .. K : Steps[i].do = "add" =>
                              \E k \in 1 .. i - 1 : Steps[k] = Create(Steps[i].t)
  <1>1. \A i \in 1 .. K : Steps[i] = Before[i]
    BY Layout
  <1>2. ASSUME NEW i \in 1 .. K, Steps[i].do = "add"
        PROVE  \E k \in 1 .. i - 1 : Steps[k] = Create(Steps[i].t)
    <2>1. PICK k \in 1 .. i - 1 : Before[k] = Create(Before[i].t)
      BY <1>1, <1>2, BeforeEarly DEF Tabled, K
    <2>2. k \in 1 .. K
      BY Sizes
    <2> QED
      BY <1>1, <2>1, <2>2
  <1> QED
    BY <1>1, <1>2, Sizes DEF Sound, K

LEMMA ConfigLines ==
    /\ Steps[K + 1].do = "unless" /\ Steps[K + 1].t = "config"
    /\ Steps[K + 1].c = "account_id" /\ Steps[K + 1].n = 4
    /\ Steps[K + 2].do = "create" /\ Steps[K + 2].t = "config_new"
    /\ Steps[K + 3].do = "copyQuietly"
    /\ Steps[K + 4].do = "drop" /\ Steps[K + 4].t = "config"
    /\ Steps[K + 5].do = "rename" /\ Steps[K + 6].do = "configRow"
  BY Layout

LEMMA SettingsLines ==
    /\ Steps[K + 12].do = "seedSetting" /\ Steps[K + 13].do = "tableExists"
    /\ Steps[K + 14].do = "readConfig" /\ Steps[K + 15].do = "copySetting"
    /\ Steps[K + 16].do = "copyActive"
  BY Layout

LEMMA LastLines ==
    /\ Steps[K1].do = "unless" /\ Steps[K1].t = "model_pricing" /\ Steps[K1].c = "price"
    /\ Steps[K1].n = Prices
    /\ \A i \in K1 + 1 .. K2 : Steps[i].do = "price" /\ Steps[i].n = i - K1
    /\ Steps[K2 + 1].do = "unless" /\ Steps[K2 + 1].t = "accounts"
    /\ Steps[K2 + 1].c = "admin" /\ Steps[K2 + 1].n = 1
    /\ Steps[K2 + 2].do = "createAdmin" /\ Steps[K2 + 3].do = "load"
  <1>1. /\ Steps[K1].do = "unless" /\ Steps[K1].t = "model_pricing" /\ Steps[K1].c = "price"
        /\ Steps[K1].n = Prices
    BY Layout
  <1>2. \A i \in K1 + 1 .. K2 : Steps[i].do = "price" /\ Steps[i].n = i - K1
    <2>1. \A m : Price(m).do = "price" /\ Price(m).n = m
      BY DEF Price
    <2>2. \A i \in K1 + 1 .. K2 : Steps[i] = Price(i - K1)
      BY Layout
    <2> QED
      BY <2>1, <2>2
  <1>3. /\ Steps[K2 + 1].do = "unless" /\ Steps[K2 + 1].t = "accounts"
        /\ Steps[K2 + 1].c = "admin" /\ Steps[K2 + 1].n = 1
    BY Layout
  <1>4. Steps[K2 + 2].do = "createAdmin" /\ Steps[K2 + 3].do = "load"
    BY Layout
  <1> QED
    BY <1>1, <1>2, <1>3, <1>4

LEMMA Where ==
    ASSUME NEW i \in 1 .. Len(Steps)
    PROVE  \/ i \in 1 .. K \/ i = K + 1 \/ i = K + 2 \/ i = K + 3 \/ i = K + 4 \/ i = K + 5
           \/ i = K + 6 \/ i \in K + 7 .. K + 11 \/ i = K + 12 \/ i = K + 13 \/ i = K + 14
           \/ i = K + 15 \/ i = K + 16 \/ i \in K + 17 .. K + 19 \/ i = K1
           \/ i \in K1 + 1 .. K2 \/ i = K2 + 1 \/ i = K2 + 2 \/ i = K2 + 3
  BY Sizes

LateTable == {"monitor_shares", "tunnel_config", "settings", "notification_channels",
              "notification_subscriptions", "notification_history", "model_pricing",
              "usage_logs"}

LEMMA Creates ==
    ASSUME NEW i \in (K + 7 .. K + 11) \cup (K + 17 .. K + 19)
    PROVE  Steps[i].do = "create" /\ Steps[i].t \in LateTable
  <1>1. \/ i = K + 7 \/ i = K + 8 \/ i = K + 9 \/ i = K + 10 \/ i = K + 11 \/ i = K + 17
        \/ i = K + 18 \/ i = K + 19
    BY Sizes
  <1>2. /\ Steps[K + 7].do = "create" /\ Steps[K + 7].t = "tunnel_config"
        /\ Steps[K + 8].do = "create" /\ Steps[K + 8].t = "notification_channels"
        /\ Steps[K + 9].do = "create" /\ Steps[K + 9].t = "notification_subscriptions"
        /\ Steps[K + 10].do = "create" /\ Steps[K + 10].t = "notification_history"
        /\ Steps[K + 11].do = "create" /\ Steps[K + 11].t = "settings"
        /\ Steps[K + 17].do = "create" /\ Steps[K + 17].t = "monitor_shares"
        /\ Steps[K + 18].do = "create" /\ Steps[K + 18].t = "model_pricing"
        /\ Steps[K + 19].do = "create" /\ Steps[K + 19].t = "usage_logs"
    BY Layout
  <1> QED
    BY <1>1, <1>2 DEF LateTable

LEMMA LateCreated ==
    ASSUME NEW t \in LateTable
    PROVE  \E i \in (K + 7 .. K + 11) \cup (K + 17 .. K + 19) : Steps[i] = Create(t)
  <1>1. /\ Steps[K + 7] = Create("tunnel_config") /\ Steps[K + 8] = Create("notification_channels")
        /\ Steps[K + 9] = Create("notification_subscriptions")
        /\ Steps[K + 10] = Create("notification_history") /\ Steps[K + 11] = Create("settings")
        /\ Steps[K + 17] = Create("monitor_shares") /\ Steps[K + 18] = Create("model_pricing")
        /\ Steps[K + 19] = Create("usage_logs")
    BY Layout
  <1> DEFINE P == (K + 7 .. K + 11) \cup (K + 17 .. K + 19)
  <1>2. /\ K + 7 \in P /\ K + 8 \in P /\ K + 9 \in P /\ K + 10 \in P /\ K + 11 \in P
        /\ K + 17 \in P /\ K + 18 \in P /\ K + 19 \in P
    BY Sizes
  <1> HIDE DEF P
  <1>3. \E i \in P : Steps[i] = Create(t)
    BY <1>1, <1>2 DEF LateTable
  <1> QED
    BY <1>3 DEF P

(* Where the statements of each kind are.                                  *)
Placed(i, s) ==
    /\ s \in Rec
    /\ s.do = "create" => s.t \in Table \ {"config"} /\ (s.t = "config_new" => i = K + 2)
    /\ s.do \in {"add", "addQuietly"} =>
          i <= K /\ s.t \in Table \ {"config", "config_new"} /\ s.c \in Whole(s.t) \ {"table"}
    /\ s.do = "unless" => i <= K \/ i \in {K + 1, K1, K2 + 1}
    /\ s.do \in {"indexIfNotExists", "adopt", "fill"} => i <= K
    /\ s.do = "copyQuietly" => i = K + 3
    /\ s.do = "drop" => i = K + 4 /\ s.t = "config"
    /\ s.do = "rename" => i = K + 5
    /\ s.do = "configRow" => i = K + 6
    /\ s.do = "seedSetting" => i = K + 12
    /\ s.do \in {"tableExists", "readConfig"} => i \in {K + 13, K + 14}
    /\ s.do = "copySetting" => i = K + 15
    /\ s.do = "copyActive" => i = K + 16
    /\ s.do = "price" => i \in K1 + 1 .. K2
    /\ s.do = "createAdmin" => i = K2 + 2
    /\ s.do = "load" => i = K2 + 3

LEMMA Kinds ==
    ASSUME NEW i \in 1 .. Len(Steps)
    PROVE  Placed(i, Steps[i])
  <1>1. Steps[i] \in Rec
    BY Sizes
  <1>2. CASE i \in 1 .. K
    <2>1. Steps[i] = Before[i] /\ Guarded(Before, i)
      BY <1>2, EarlyLines
    <2> QED
      BY <1>1, <1>2, <2>1 DEF Guarded, Placed
  <1>3. CASE i \in (K + 7 .. K + 11) \cup (K + 17 .. K + 19)
    BY <1>1, <1>3, Creates, Tables DEF LateTable, Placed
  <1>4. CASE i = K + 1
    BY <1>1, <1>4, ConfigLines DEF Placed
  <1>5. CASE i = K + 2
    BY <1>1, <1>5, ConfigLines, Tables DEF Placed
  <1>6. CASE i = K + 3 \/ i = K + 4 \/ i = K + 5 \/ i = K + 6
    BY <1>1, <1>6, ConfigLines DEF Placed
  <1>7. CASE i = K + 12 \/ i = K + 13 \/ i = K + 14 \/ i = K + 15 \/ i = K + 16
    BY <1>1, <1>7, SettingsLines DEF Placed
  <1>8. CASE i = K1 \/ i \in K1 + 1 .. K2 \/ i = K2 + 1 \/ i = K2 + 2 \/ i = K2 + 3
    BY <1>1, <1>8, LastLines DEF Placed
  <1> QED
    BY <1>2, <1>3, <1>4, <1>5, <1>6, <1>7, <1>8, Where

(* A statement is carried out or not, and the start goes on or ends.       *)
LEMMA Run ==
    ASSUME NEW o, RunStatement(o), faulty \in BOOLEAN, unprovoked \in Nat
    PROVE  LET s == Steps[at]
           IN  /\ at \in 1 .. Len(Steps) /\ UNCHANGED <<MySQL, release, starts>>
               /\ UNCHANGED <<has, rows>> \/ (Possible(s) /\ Perform(s))
               /\ \/ at' = Down /\ (cut \/ prices' \notin {{}, Model} => cut')
                  \/ /\ at' = After(s) /\ (cut => cut') /\ unprovoked' = unprovoked
                     /\ Quiet(s) \/ (Possible(s) /\ Perform(s))
               /\ uncopied => uncopied'
               /\ s.do = "copyQuietly" /\ Possible(s) => Perform(s) \/ uncopied'
               /\ \/ unprovoked' = unprovoked
                  \/ unprovoked' = unprovoked + 1 /\ ~Possible(s) /\ ~Quiet(s) /\ at' = Down
               /\ faulty' \in BOOLEAN
               /\ faults' \in {faults, faults + 1} /\ (faults' = faults \/ faults < MaxFaults)
               /\ uncopied \in BOOLEAN => uncopied' \in BOOLEAN
               /\ cut \in BOOLEAN => cut' \in BOOLEAN
  <1> DEFINE s == Steps[at]
             error == o # "ok" \/ ~Possible(s)
  <1>1. /\ at \in 1 .. Len(Steps) /\ UNCHANGED <<MySQL, release, starts>>
        /\ o # "ok" => faults < MaxFaults
        /\ faults' = IF o = "ok" THEN faults ELSE faults + 1
        /\ faulty' = (faulty \/ o # "ok")
        /\ IF o # "refused" /\ Possible(s) THEN Perform(s) ELSE UNCHANGED <<has, rows>>
        /\ uncopied' = (uncopied \/ (s.do = "copyQuietly" /\ o = "refused"))
        /\ \/ /\ error /\ ~Quiet(s)
              /\ Ended
              /\ unprovoked' = IF faulty' THEN unprovoked ELSE unprovoked + 1
           \/ /\ ~error \/ Quiet(s)
              /\ at' = After(s)
              /\ UNCHANGED <<unprovoked, cut>>
    BY DEF RunStatement, made
  <1> HIDE DEF s
  <1>2. UNCHANGED <<has, rows>> \/ (Possible(s) /\ Perform(s))
    BY <1>1
  <1>3. \/ at' = Down /\ (cut \/ prices' \notin {{}, Model} => cut')
        \/ /\ at' = After(s) /\ (cut => cut') /\ unprovoked' = unprovoked
           /\ Quiet(s) \/ (Possible(s) /\ Perform(s))
    BY <1>1 DEF Ended
  <1>4. /\ uncopied => uncopied'
        /\ s.do = "copyQuietly" /\ Possible(s) => Perform(s) \/ uncopied'
    BY <1>1
  <1>5. \/ unprovoked' = unprovoked
        \/ unprovoked' = unprovoked + 1 /\ ~Possible(s) /\ ~Quiet(s) /\ at' = Down
    BY <1>1 DEF Ended
  <1>6. faulty' \in BOOLEAN /\ (uncopied \in BOOLEAN => uncopied' \in BOOLEAN)
    BY <1>1
  <1>7. faults' \in {faults, faults + 1} /\ (faults' = faults \/ faults < MaxFaults)
    BY <1>1
  <1>8. cut \in BOOLEAN => cut' \in BOOLEAN
    BY <1>1 DEF Ended
  <1> QED
    BY <1>1, <1>2, <1>3, <1>4, <1>5, <1>6, <1>7, <1>8 DEF s

(* What no other statement changes.                                        *)
Frames ==
    /\ \A t \in Table \ {"config", "config_new"} : has[t] \subseteq has'[t]
    /\ at \notin {K + 2, K + 5} => has'.config_new = has.config_new
    /\ at \notin {K + 4, K + 5} => has'.config = has.config
    /\ at \notin K + 3 .. K + 6 => row' = row
    /\ at \notin {K + 12, K + 15} => settings' = settings
    /\ at # K + 16 => active' = active
    /\ at # K2 + 2 => accounts' = accounts
    /\ blank' \subseteq blank
    /\ at \notin K1 + 1 .. K2 => prices' = prices

LEMMA FramesHold ==
    ASSUME NEW o, RunStatement(o), TypeOK, Booleans, unprovoked \in Nat
    PROVE  Frames
  <1> DEFINE s == Steps[at]
  <1>1. /\ Placed(at, s) /\ at \in 1 .. Len(Steps)
        /\ UNCHANGED <<has, rows>> \/ (Possible(s) /\ Perform(s))
    BY Run, Kinds DEF Booleans
  <1> HIDE DEF s
  <1>2. /\ DOMAIN has = Table /\ "config" \in Table /\ "config_new" \in Table /\ "nodes" \in Table
        /\ at \in Nat /\ K \in Nat /\ K1 = K + 20 /\ K2 = K1 + Prices /\ Prices \in Nat
    BY Tables, Sizes, <1>1 DEF TypeOK
  <1>3. CASE UNCHANGED <<has, rows>>
    BY <1>3 DEF rows, Frames
  <1>4. CASE s.do = "create" /\ Define(s.t, IF has[s.t] = {} THEN Created(s.t) ELSE has[s.t])
    <2>1. s.t \in Table \ {"config"} /\ (s.t = "config_new" => at = K + 2)
      BY <1>1, <1>4 DEF Placed
    <2> QED
      BY <1>2, <1>4, <2>1 DEF Define, rows, Frames
  <1>5. CASE s.do \in {"add", "addQuietly"} /\ Define(s.t, has[s.t] \cup {s.c})
    <2>1. s.t \in Table \ {"config", "config_new"}
      BY <1>1, <1>5 DEF Placed
    <2> QED
      BY <1>2, <1>5, <2>1 DEF Define, rows, Frames
  <1>6. CASE s.do = "indexIfNotExists" /\ Define("nodes", has.nodes \cup Indexes)
    BY <1>2, <1>6 DEF Define, rows, Frames
  <1>7. CASE s.do = "copyQuietly" /\ CopyConfig
    <2>1. at = K + 3
      BY <1>1, <1>7 DEF Placed
    <2> QED
      BY <1>2, <1>7, <2>1 DEF CopyConfig, Frames
  <1>8. CASE s.do = "drop" /\ DropTable(s.t)
    <2>1. at = K + 4 /\ s.t = "config"
      BY <1>1, <1>8 DEF Placed
    <2> QED
      BY <1>2, <1>8, <2>1 DEF DropTable, Frames
  <1>9. CASE s.do = "rename" /\ RenameConfig
    <2>1. at = K + 5
      BY <1>1, <1>9 DEF Placed
    <2> QED
      <3>1. \A t \in Table \ {"config", "config_new"} : has'[t] = has[t]
        BY <1>2, <1>9 DEF RenameConfig
      <3>2. UNCHANGED <<settings, active, accounts, blank, prices>>
        BY <1>9 DEF RenameConfig
      <3> QED
        BY <1>2, <2>1, <3>1, <3>2 DEF Frames
  <1>10. CASE s.do = "configRow" /\ EnsureConfigRow
    <2>1. at = K + 6
      BY <1>1, <1>10 DEF Placed
    <2> QED
      BY <1>2, <1>10, <2>1 DEF EnsureConfigRow, Frames
  <1>11. CASE s.do = "seedSetting" /\ InsertSystemSetting("default")
    <2>1. at = K + 12
      BY <1>1, <1>11 DEF Placed
    <2> QED
      BY <1>2, <1>11, <2>1 DEF InsertSystemSetting, Frames
  <1>12. CASE s.do = "copySetting" /\ InsertSystemSetting(row.config)
    <2>1. at = K + 15
      BY <1>1, <1>12 DEF Placed
    <2> QED
      BY <1>2, <1>12, <2>1 DEF InsertSystemSetting, Frames
  <1>13. CASE s.do = "copyActive" /\ InsertAccountSetting(row.config)
    <2>1. at = K + 16
      BY <1>1, <1>13 DEF Placed
    <2> QED
      BY <1>2, <1>13, <2>1 DEF InsertAccountSetting, Frames
  <1>14. CASE s.do = "fill" /\ FillPassword(s.c)
    BY <1>2, <1>14 DEF FillPassword, Frames
  <1>15. CASE s.do = "price" /\ InsertPrice(s.n)
    <2>1. at \in K1 + 1 .. K2
      BY <1>1, <1>15 DEF Placed
    <2> QED
      BY <1>2, <1>15, <2>1 DEF InsertPrice, Frames
  <1>16. CASE s.do = "createAdmin" /\ CreateAdmin
    <2>1. at = K2 + 2
      BY <1>1, <1>16 DEF Placed
    <2> QED
      BY <1>2, <1>16, <2>1 DEF CreateAdmin, Frames
  <1> QED
    BY <1>1, <1>3, <1>4, <1>5, <1>6, <1>7, <1>8, <1>9, <1>10, <1>11, <1>12, <1>13, <1>14,
       <1>15, <1>16 DEF Perform

(* Where a start is next: on, or past what is already there.               *)
Moves ==
    \/ at' = Down
    \/ at' = at + 1 /\ (Steps[at].do = "unless" => ~Found(Steps[at].t, Steps[at].c))
    \/ /\ Steps[at].do = "unless" /\ Found(Steps[at].t, Steps[at].c) /\ UNCHANGED <<has, rows>>
       /\ \/ /\ at <= K /\ at' = at + 1 + Steps[at].n /\ at' <= K + 1
             /\ Steps[at].n \in Nat /\ Steps[at].n >= 1
             /\ \A k \in at + 1 .. at' - 1 : LeftOut(Steps[at], Steps[k])
          \/ at = K + 1 /\ at' = K + 6
          \/ at = K1 /\ at' = K2 + 1
          \/ at = K2 + 1 /\ at' = K2 + 3

LEMMA MovesHold ==
    ASSUME NEW o, RunStatement(o), TypeOK, Booleans, unprovoked \in Nat
    PROVE  Moves /\ at \in 1 .. Len(Steps) /\ at' \in Down .. Serving
  <1>1. /\ at \in 1 .. Len(Steps) /\ (at' = Down \/ at' = After(Steps[at]))
        /\ UNCHANGED <<has, rows>> \/ Perform(Steps[at])
        /\ Placed(at, Steps[at])
    BY Run, Kinds DEF Booleans
  <1>2. CASE at' = Down
    BY <1>1, <1>2, Sizes DEF Moves
  <1>3. CASE at' = After(Steps[at]) /\ ~(Steps[at].do = "unless" /\ Found(Steps[at].t, Steps[at].c))
    <2>1. at' = at + 1
      BY <1>1, <1>3, Sizes DEF After
    <2>2. Moves
      BY <1>3, <2>1 DEF Moves
    <2> QED
      BY <1>1, <2>1, <2>2, Sizes
  <1>4. CASE at' = After(Steps[at]) /\ Steps[at].do = "unless" /\ Found(Steps[at].t, Steps[at].c)
    <2>1. at' = at + 1 + Steps[at].n
      BY <1>4 DEF After
    <2>2. UNCHANGED <<has, rows>>
      BY <1>1, <1>4 DEF Perform
    <2>3. CASE at <= K
      <3>1. /\ Steps[at] = Before[at] /\ Guarded(Before, at) /\ K = Len(Before)
            /\ \A k \in 1 .. K : Steps[k] = Before[k]
        BY <1>1, <2>3, EarlyLines, Sizes
      <3>2. /\ Steps[at].n >= 1 /\ at + Steps[at].n <= K
            /\ \A k \in at + 1 .. at + Steps[at].n : LeftOut(Steps[at], Before[k])
        BY <1>4, <3>1 DEF Guarded
      <3>3. PICK m \in Nat : m = Steps[at].n
        BY <1>1 DEF Placed, Rec
      <3>4. \A k \in at + 1 .. at' - 1 : LeftOut(Steps[at], Steps[k])
        <4>1. \A k \in at + 1 .. at + m : k \in 1 .. K
          BY <1>1, <3>2, <3>3, Sizes
        <4>2. at' - 1 = at + m
          BY <1>1, <2>1, <3>3
        <4> QED
          BY <3>1, <3>2, <3>3, <4>1, <4>2
      <3>5. at' <= K + 1 /\ at' \in Nat
        <4>1. at' = at + 1 + m /\ at + m <= K
          BY <2>1, <3>2, <3>3
        <4>2. at \in Nat /\ m \in Nat /\ K \in Nat
          BY <1>1, <3>3, Sizes
        <4> QED
          BY ONLY <4>1, <4>2
      <3>6. Moves
        BY <1>4, <2>1, <2>2, <2>3, <3>2, <3>3, <3>4, <3>5 DEF Moves
      <3> QED
        BY <1>1, <3>5, <3>6, Sizes
    <2>4. CASE at \in {K + 1, K1, K2 + 1}
      <3>1. /\ at = K + 1 => at' = K + 6
            /\ at = K1 => at' = K2 + 1
            /\ at = K2 + 1 => at' = K2 + 3
        <4>0. Steps[K + 1].n = 4
          BY ConfigLines
        <4>1. at = K + 1 => at' = K + 6
          BY <2>1, <4>0, Sizes
        <4>2. Steps[K1].n = Prices /\ Steps[K2 + 1].n = 1
          BY LastLines
        <4>3. at = K1 => at' = K2 + 1
          BY <2>1, <4>2, Sizes
        <4>4. at = K2 + 1 => at' = K2 + 3
          BY <2>1, <4>2, Sizes
        <4> QED
          BY <4>1, <4>3, <4>4
      <3>2. Moves
        BY <1>4, <2>2, <2>4, <3>1 DEF Moves
      <3>3. at' \in Down .. Serving
        BY <2>4, <3>1, Sizes
      <3> QED
        BY <1>1, <3>2, <3>3
    <2> QED
      BY <1>1, <1>4, <2>3, <2>4 DEF Placed
  <1> QED
    BY <1>1, <1>2, <1>3, <1>4

------------------------------------------------------------------------------
(* A statement preserves each part of the invariant.                       *)

LEMMA CreatedWhole ==
    ASSUME NEW t \in Table
    PROVE  /\ Created(t) \subseteq Whole(t) /\ "table" \in Created(t) /\ "table" \in Whole(t)
           /\ t \in {"config", "config_new"} => Created(t) = Whole(t)
           /\ t = "nodes" => "account_id" \in Created(t)
           /\ Whole(t) \subseteq UNION {Whole(u) : u \in Table}
           /\ Whole("config_new") = Whole("config") /\ Whole("config") = {"table", "account_id"}
  BY Tables DEF Created, Indexes, Whole, Later

(* The statements behind are done: the tables the columns are added to are *)
(* there.                                                                  *)
LEMMA TableThere ==
    ASSUME IInv, at \in 1 .. K, Steps[at].do = "add"
    PROVE  "table" \in has[Steps[at].t]
  <1>1. PICK k \in 1 .. at - 1 : Steps[k] = Create(Steps[at].t)
    BY EarlyLines
  <1>2. Steps[at].t \in Table \ {"config", "config_new"}
    BY Kinds, Sizes DEF Placed
  <1> QED
    BY <1>1, <1>2 DEF IInv, DoneSoFar, Done

(* The index is asked for behind the column it is on.                      *)
LEMMA IndexAsked ==
    ASSUME IInv, at \in 1 .. Len(Steps), Steps[at].do = "indexIfNotExists"
    PROVE  "table" \in has.nodes /\ "account_id" \in has.nodes
  <1>1. at \in 1 .. K
    BY Kinds, Sizes DEF Placed
  <1>2. Guarded(Before, at) /\ Steps[at] = Before[at]
    BY <1>1, EarlyLines
  <1>3. at > 3 /\ Before[at - 1] = Add("nodes", "account_id")
    BY <1>2 DEF Guarded
  <1>4. PICK k \in 1 .. at - 3 : Before[k] = Create("nodes")
    BY <1>2 DEF Guarded
  <1>5. k \in 1 .. at - 1 /\ k \in 1 .. K /\ at - 1 \in 1 .. at - 1 /\ at - 1 \in 1 .. K
    BY <1>1, <1>3, Sizes
  <1>6. Steps[k] = Create("nodes") /\ Steps[at - 1] = Add("nodes", "account_id")
    BY <1>3, <1>4, <1>5, EarlyLines
  <1>7. Done(Steps[k]) /\ Done(Steps[at - 1])
    BY <1>5 DEF IInv, DoneSoFar
  <1> QED
    BY <1>6, <1>7 DEF Done

HasOK ==
    /\ has \in [Table -> SUBSET UNION {Whole(t) : t \in Table}]
    /\ \A t \in Table : has[t] \subseteq Whole(t)
    /\ \A t \in Table : has[t] # {} => "table" \in has[t]

LEMMA HasSet ==
    ASSUME HasOK, NEW t \in Table, NEW what, what \subseteq Whole(t),
           what # {} => "table" \in what, has' = [has EXCEPT ![t] = what]
    PROVE  HasOK'
  <1>1. what \in SUBSET UNION {Whole(u) : u \in Table}
    BY CreatedWhole
  <1> QED
    BY <1>1 DEF HasOK

LEMMA HasStep ==
    ASSUME NEW o, RunStatement(o), IInv
    PROVE  HasOK'
  <1> DEFINE s == Steps[at]
  <1>1. /\ Placed(at, s) /\ at \in 1 .. Len(Steps)
        /\ UNCHANGED <<has, rows>> \/ (Possible(s) /\ Perform(s))
    BY Run, Kinds DEF IInv, Booleans, Schemas
  <1>2. s.do = "add" => "table" \in has[s.t]
    BY <1>1, TableThere, Sizes DEF Placed
  <1>10. s.do = "indexIfNotExists" => "table" \in has.nodes
    BY <1>1, IndexAsked
  <1> HIDE DEF s
  <1>3. HasOK /\ DOMAIN has = Table
    BY DEF IInv, TypeOK, Schemas, HasOK
  <1>4. CASE has' = has
    BY <1>3, <1>4 DEF HasOK
  <1>5. CASE s.do = "create" /\ Define(s.t, IF has[s.t] = {} THEN Created(s.t) ELSE has[s.t])
    <2>1. s.t \in Table
      BY <1>1, <1>5 DEF Placed
    <2>2. CASE has[s.t] = {}
      BY <1>3, <1>5, <2>1, <2>2, CreatedWhole, HasSet DEF Define
    <2>3. CASE has[s.t] # {}
      BY <1>3, <1>5, <2>1, <2>3, HasSet DEF Define, HasOK
    <2> QED
      BY <2>2, <2>3
  <1>6. CASE s.do \in {"add", "addQuietly"} /\ Define(s.t, has[s.t] \cup {s.c}) /\ Possible(s)
    <2>1. s.t \in Table /\ s.c \in Whole(s.t)
      BY <1>1, <1>6 DEF Placed
    <2>2. "table" \in has[s.t]
      <3>1. CASE s.do = "addQuietly"
        BY <1>3, <1>6, <2>1, <3>1 DEF Possible, HasOK
      <3> QED
        BY <1>2, <1>6, <3>1
    <2> QED
      BY <1>3, <1>6, <2>1, <2>2, HasSet DEF Define, HasOK
  <1>7. CASE s.do = "indexIfNotExists" /\ Define("nodes", has.nodes \cup Indexes)
    <2>1. "nodes" \in Table /\ Indexes \subseteq Whole("nodes") /\ "table" \in has.nodes
      BY <1>7, <1>10, Tables DEF Indexes
    <2> QED
      BY <1>3, <1>7, <2>1, HasSet DEF Define, HasOK
  <1>8. CASE s.do = "drop" /\ DropTable(s.t)
    <2>1. s.t \in Table
      BY <1>1, <1>8, Tables DEF Placed
    <2> QED
      BY <1>3, <1>8, <2>1 DEF DropTable, HasOK
  <1>9. CASE s.do = "rename" /\ RenameConfig
    <2>1. /\ "config" \in Table /\ "config_new" \in Table /\ Whole("config_new") = Whole("config")
          /\ has.config_new \in SUBSET UNION {Whole(u) : u \in Table}
      BY <1>3, Tables DEF HasOK
    <2>2. has' = [has EXCEPT !["config"] = has["config_new"], !["config_new"] = {}]
      BY <1>9 DEF RenameConfig
    <2> QED
      BY <1>3, <2>1, <2>2 DEF HasOK
  <1> QED
    <2>1. has' = has \/ s.do \in {"create", "add", "addQuietly", "indexIfNotExists", "drop", "rename"}
      BY <1>1 DEF Perform, rows, CopyConfig, EnsureConfigRow, InsertSystemSetting,
                  InsertAccountSetting, FillPassword, InsertPrice, CreateAdmin
    <2> QED
      BY <1>1, <1>4, <1>5, <1>6, <1>7, <1>8, <1>9, <2>1 DEF Perform

(* The statements on the configuration and on the settings, one by one.    *)
LEMMA AtNewTable ==
    ASSUME NEW o, RunStatement(o), IInv, at = K + 2
    PROVE  /\ has'.config = has.config /\ has'.config_new \in {has.config_new, Whole("config_new")}
           /\ at' # Down => has'.config_new # {}
           /\ UNCHANGED rows
  <1>1. /\ Steps[at].do = "create" /\ Steps[at].t = "config_new"
        /\ DOMAIN has = Table /\ "config" \in Table /\ "config_new" \in Table
    BY ConfigLines, Tables DEF IInv, TypeOK
  <1>2. /\ UNCHANGED <<has, rows>> \/ Perform(Steps[at])
        /\ at' # Down => Perform(Steps[at])
    BY <1>1, Run DEF IInv, Booleans, Schemas, Quiet
  <1>3. Perform(Steps[at]) => Define("config_new", IF has["config_new"] = {} THEN Created("config_new")
                                                   ELSE has["config_new"])
    BY <1>1 DEF Perform
  <1>4. Created("config_new") = Whole("config_new") /\ "table" \in Created("config_new")
    BY <1>1, CreatedWhole
  <1> QED
    BY <1>1, <1>2, <1>3, <1>4 DEF Define

LEMMA AtCopy ==
    ASSUME NEW o, RunStatement(o), IInv, at = K + 3
    PROVE  /\ UNCHANGED has
           /\ \/ row' = row
              \/ /\ row' = [row EXCEPT !.config_new = row.config]
                 /\ has.config # {} /\ row.config_new = "none"
           /\ ~uncopied' /\ has.config # {} /\ row.config_new = "none" =>
                 row' = [row EXCEPT !.config_new = row.config]
  <1>1. Steps[at].do = "copyQuietly"
    BY ConfigLines
  <1>2. /\ UNCHANGED <<has, rows>> \/ (Possible(Steps[at]) /\ Perform(Steps[at]))
        /\ Possible(Steps[at]) => Perform(Steps[at]) \/ uncopied'
    BY <1>1, Run DEF IInv, Booleans, Schemas
  <1>3. Perform(Steps[at]) => CopyConfig
    BY <1>1 DEF Perform
  <1>4. Possible(Steps[at]) <=> has.config # {} /\ row.config_new = "none"
    BY <1>1 DEF Possible
  <1> QED
    BY <1>2, <1>3, <1>4 DEF CopyConfig, rows

LEMMA AtDrop ==
    ASSUME NEW o, RunStatement(o), IInv, at = K + 4
    PROVE  LET Dropped == has'.config = {} /\ row' = [row EXCEPT !.config = "none"]
           IN  /\ has'.config_new = has.config_new
               /\ (has' = has /\ row' = row) \/ Dropped
               /\ at' # Down => Dropped
  <1>1. /\ Steps[at].do = "drop" /\ Steps[at].t = "config"
        /\ DOMAIN has = Table /\ "config" \in Table /\ "config_new" \in Table
    BY ConfigLines, Tables DEF IInv, TypeOK
  <1>2. /\ UNCHANGED <<has, rows>> \/ Perform(Steps[at])
        /\ at' # Down => Perform(Steps[at])
    BY <1>1, Run DEF IInv, Booleans, Schemas, Quiet
  <1>3. Perform(Steps[at]) => DropTable("config")
    BY <1>1 DEF Perform
  <1> QED
    BY <1>1, <1>2, <1>3 DEF DropTable, rows

LEMMA AtRename ==
    ASSUME NEW o, RunStatement(o), IInv, at = K + 5
    PROVE  LET Renamed == /\ has'.config = has.config_new /\ has'.config_new = {}
                          /\ row' = [config |-> row.config_new, config_new |-> "none"]
           IN  /\ (has' = has /\ row' = row) \/ Renamed
               /\ at' # Down => Renamed
  <1>1. /\ Steps[at].do = "rename"
        /\ DOMAIN has = Table /\ "config" \in Table /\ "config_new" \in Table
    BY ConfigLines, Tables DEF IInv, TypeOK
  <1>2. /\ UNCHANGED <<has, rows>> \/ Perform(Steps[at])
        /\ at' # Down => Perform(Steps[at])
    BY <1>1, Run DEF IInv, Booleans, Schemas, Quiet
  <1>3. Perform(Steps[at]) => RenameConfig
    BY <1>1 DEF Perform
  <1> QED
    BY <1>1, <1>2, <1>3 DEF RenameConfig, rows

LEMMA AtRow ==
    ASSUME NEW o, RunStatement(o), IInv, at = K + 6
    PROVE  LET Added == row' = [row EXCEPT !.config = IF @ = "none" THEN "default" ELSE @]
           IN  /\ has' = has
               /\ row' = row \/ Added
               /\ at' # Down => Added
  <1>1. Steps[at].do = "configRow"
    BY ConfigLines
  <1>2. /\ UNCHANGED <<has, rows>> \/ Perform(Steps[at])
        /\ at' # Down => Perform(Steps[at])
    BY <1>1, Run DEF IInv, Booleans, Schemas, Quiet
  <1>3. Perform(Steps[at]) => EnsureConfigRow
    BY <1>1 DEF Perform
  <1> QED
    BY <1>1, <1>2, <1>3 DEF EnsureConfigRow, rows

LEMMA AtSetting ==
    ASSUME NEW o, RunStatement(o), IInv, at \in {K + 12, K + 15}
    PROVE  LET Inserted == settings' = Append(settings, IF at = K + 12 THEN "default"
                                                                       ELSE row.config)
           IN  /\ settings' = settings \/ Inserted
               /\ at' # Down => Inserted
  <1>1. Steps[at].do = IF at = K + 12 THEN "seedSetting" ELSE "copySetting"
    BY SettingsLines, Sizes
  <1>2. /\ UNCHANGED <<has, rows>> \/ Perform(Steps[at])
        /\ at' # Down => Perform(Steps[at])
    BY <1>1, Run DEF IInv, Booleans, Schemas, Quiet
  <1>3. Perform(Steps[at]) => InsertSystemSetting(IF at = K + 12 THEN "default" ELSE row.config)
    BY <1>1 DEF Perform
  <1> QED
    BY <1>1, <1>2, <1>3 DEF InsertSystemSetting, rows

LEMMA AtActive ==
    ASSUME NEW o, RunStatement(o), IInv, at = K + 16
    PROVE  LET Inserted == active' = IF active = "none" THEN row.config ELSE active
           IN  /\ active' = active \/ Inserted
               /\ at' # Down => Inserted
  <1>1. Steps[at].do = "copyActive"
    BY SettingsLines
  <1>2. /\ UNCHANGED <<has, rows>> \/ Perform(Steps[at])
        /\ at' # Down => Perform(Steps[at])
    BY <1>1, Run DEF IInv, Booleans, Schemas, Quiet
  <1>3. Perform(Steps[at]) => InsertAccountSetting(row.config)
    BY <1>1 DEF Perform
  <1> QED
    BY <1>1, <1>2, <1>3 DEF InsertAccountSetting, rows

LEMMA AtPrice ==
    ASSUME NEW o, RunStatement(o), IInv, at \in K1 + 1 .. K2
    PROVE  /\ prices' \in {prices, prices \cup {at - K1}}
           /\ at' # Down => prices' = prices \cup {at - K1}
  <1>1. Steps[at].do = "price" /\ Steps[at].n = at - K1
    BY LastLines
  <1>2. /\ UNCHANGED <<has, rows>> \/ Perform(Steps[at])
        /\ at' # Down => Perform(Steps[at])
    BY <1>1, Run DEF IInv, Booleans, Schemas, Quiet
  <1>3. Perform(Steps[at]) => InsertPrice(at - K1)
    BY <1>1 DEF Perform
  <1> QED
    BY <1>1, <1>2, <1>3 DEF InsertPrice, rows

LEMMA AtAdmin ==
    ASSUME NEW o, RunStatement(o), IInv, at = K2 + 2
    PROVE  /\ accounts' \in {accounts, accounts \cup {"admin"}}
           /\ at' # Down => accounts' = accounts \cup {"admin"}
  <1>1. Steps[at].do = "createAdmin"
    BY LastLines
  <1>2. /\ UNCHANGED <<has, rows>> \/ Perform(Steps[at])
        /\ at' # Down => Perform(Steps[at])
    BY <1>1, Run DEF IInv, Booleans, Schemas, Quiet
  <1>3. Perform(Steps[at]) => CreateAdmin
    BY <1>1 DEF Perform
  <1> QED
    BY <1>1, <1>2, <1>3 DEF CreateAdmin, rows

(* The statements are those of the database.                               *)
LEMMA Still ==
    ASSUME MySQL' = MySQL
    PROVE  /\ K' = K /\ K1' = K1 /\ K2' = K2 /\ Steps' = Steps /\ Serving' = Serving
           /\ Before' = Before
  <1>1. /\ SQLiteIndex("nodes")' = SQLiteIndex("nodes")
        /\ SQLiteIndex("health_check_history")' = SQLiteIndex("health_check_history")
    BY DEF SQLiteIndex
  <1>2. EnsureNodesTable' = EnsureNodesTable
    BY <1>1 DEF EnsureNodesTable, Column
  <1>3. EnsureHealthHistoryTable' = EnsureHealthHistoryTable
    BY <1>1 DEF EnsureHealthHistoryTable, Column
  <1>4. Before' = Before
    BY <1>2, <1>3 DEF Before
  <1>5. K' = K
    BY <1>4 DEF K
  <1>6. Migrate' = Migrate
    BY <1>2, <1>3 DEF Migrate
  <1>7. Steps' = Steps
    BY <1>6 DEF Steps
  <1> QED
    BY <1>4, <1>5, <1>7 DEF K1, K2, Serving

(* Where a start that goes on comes from.                                  *)
LEMMA From ==
    ASSUME NEW o, RunStatement(o), IInv, at' # Down
    PROVE  /\ at' = K + 2 => at = K + 1 /\ "account_id" \notin has.config
           /\ at' \in K + 3 .. K + 5 => at' = at + 1
           /\ at' = K + 6 => at = K + 5 \/ (at = K + 1 /\ "account_id" \in has.config)
           /\ at' \in K + 7 .. K1 => at' = at + 1
           /\ at' \in K1 + 1 .. K2 => at' = at + 1 /\ (at = K1 => prices = {})
           /\ at' >= K2 + 1 => at >= K2 \/ (at = K1 /\ prices # {})
           /\ at' >= K2 + 3 => at >= K2 + 2 \/ (at = K2 + 1 /\ "admin" \in accounts)
           /\ at' \in 1 .. K => at \in 1 .. K
           /\ at' \in 1 .. K + 1 => at \in 1 .. K
           /\ at < at'
           /\ \A j \in 7 .. 20 : at' >= K + j => at + 1 >= K + j
  <1>1. Moves /\ at \in 1 .. Len(Steps)
    BY MovesHold DEF IInv, Schemas
  <1>2. /\ at = K + 1 => (Found(Steps[at].t, Steps[at].c) <=> "account_id" \in has.config)
        /\ at = K + 1 => Steps[at].do = "unless"
    <2>1. Found("config", "account_id") <=> "account_id" \in has["config"]
      BY DEF Found
    <2> QED
      BY <2>1, ConfigLines
  <1>3. at = K1 => Steps[at].do = "unless" /\ (Found(Steps[at].t, Steps[at].c) <=> prices # {})
    <2>1. has["model_pricing"] \subseteq {"table"}
      BY Tables DEF IInv, TypeOK
    <2>2. Found("model_pricing", "price") <=> prices # {}
      BY <2>1 DEF Found
    <2> QED
      BY <2>2, LastLines
  <1>4. at = K2 + 1 => Steps[at].do = "unless"
                       /\ (Found(Steps[at].t, Steps[at].c) <=> "admin" \in accounts)
    <2>1. has["accounts"] \subseteq {"table", "password"}
      BY Tables DEF IInv, TypeOK
    <2>2. Found("accounts", "admin") <=> "admin" \in accounts
      BY <2>1 DEF Found
    <2> QED
      BY <2>2, LastLines
  <1>6. \/ at' = at + 1 /\ (at = K + 1 => "account_id" \notin has.config)
                        /\ (at = K1 => prices = {})
                        /\ (at = K2 + 1 => "admin" \notin accounts)
        \/ at <= K /\ at' <= K + 1
        \/ at = K + 1 /\ at' = K + 6 /\ "account_id" \in has.config
        \/ at = K1 /\ at' = K2 + 1 /\ prices # {}
        \/ at = K2 + 1 /\ at' = K2 + 3 /\ "admin" \in accounts
    BY <1>1, <1>2, <1>3, <1>4 DEF Moves
  <1>7. at' \in Nat
    BY MovesHold, Sizes DEF IInv, Schemas
  <1>8. /\ at \in Nat /\ K \in Nat /\ K1 = K + 20 /\ K2 = K1 + Prices /\ Prices \in Nat
        /\ Prices >= 1 /\ Down = 0 /\ at >= 1
    BY <1>1, Sizes
  <1>9. \/ at' = at + 1
        \/ at <= K /\ at' <= K + 1
        \/ at = K + 1 /\ at' = K + 6
        \/ at = K1 /\ at' = K2 + 1
        \/ at = K2 + 1 /\ at' = K2 + 3
    BY <1>6
  <1>10. /\ at' >= K + 3 /\ at' <= K + 5 => at' = at + 1
         /\ at' >= K + 7 /\ at' <= K1 => at' = at + 1
         /\ at' >= K1 + 1 /\ at' <= K2 => at' = at + 1
    BY <1>7, <1>8, <1>9
  <1>11. /\ at' \in K + 3 .. K + 5 => at' = at + 1
         /\ at' \in K + 7 .. K1 => at' = at + 1
         /\ at' \in K1 + 1 .. K2 => at' = at + 1
    BY <1>8, <1>10
  <1>14. at' = K + 2 => at = K + 1 /\ "account_id" \notin has.config
    BY <1>6, <1>7, <1>8
  <1>15. at' = K + 6 => at = K + 5 \/ (at = K + 1 /\ "account_id" \in has.config)
    BY <1>6, <1>7, <1>8
  <1>16. at' \in K1 + 1 .. K2 /\ at = K1 => prices = {}
    BY <1>6, <1>7, <1>8
  <1>17. at' >= K2 + 1 => at >= K2 \/ (at = K1 /\ prices # {})
    BY <1>6, <1>7, <1>8
  <1>18. at' >= K2 + 3 => at >= K2 + 2 \/ (at = K2 + 1 /\ "admin" \in accounts)
    BY <1>6, <1>7, <1>8
  <1>19. at' \in 1 .. K + 1 => at \in 1 .. K
    BY <1>6, <1>7, <1>8
  <1>20. at' \in 1 .. K => at \in 1 .. K
    BY <1>8, <1>19
  <1>21. ASSUME NEW j \in 7 .. 20, at' >= K + j PROVE at + 1 >= K + j
    BY <1>7, <1>8, <1>9, <1>21
  <1>22. at < at'
    <2>1. at <= K /\ at' = at + 1 + Steps[at].n => at < at' \/ ~(Steps[at].n \in Nat)
      BY <1>7, <1>8
    <2>2. at < at' \/ at' = at + 1 \/ (at = K + 1 /\ at' = K + 6) \/ (at = K1 /\ at' = K2 + 1)
          \/ (at = K2 + 1 /\ at' = K2 + 3)
      BY <1>1, <2>1 DEF Moves
    <2> QED
      BY <1>7, <1>8, <2>2
  <1> QED
    BY <1>11, <1>14, <1>15, <1>16, <1>17, <1>18, <1>19, <1>20, <1>21, <1>22

(* The part of TypeOK about rows.                                          *)
RowOK ==
    /\ row \in [{"config", "config_new"} -> {"none", "default", "site"}]
    /\ \A t \in {"config", "config_new"} : row[t] # "none" => has[t] # {}

LEMMA ConfigStep ==
    ASSUME NEW o, RunStatement(o), IInv
    PROVE  Config' /\ RowOK'
  <1>1. /\ at \in 1 .. Len(Steps) /\ at' \in Down .. Serving /\ Frames /\ K' = K
        /\ Whole("config_new") = {"table", "account_id"} /\ Config /\ RowOK
        /\ at \in Nat /\ at' \in Nat /\ K \in Nat
    <2>1. /\ MySQL' = MySQL /\ at \in 1 .. Len(Steps) /\ at' \in Down .. Serving /\ Frames
      BY Run, MovesHold, FramesHold DEF IInv, Schemas, Booleans
    <2>2. RowOK
      BY DEF IInv, TypeOK, RowOK
    <2> QED
      BY <2>1, <2>2, Still, Tables, Sizes DEF IInv
  <1>2. has'.config_new \in {{}, Whole("config_new")}
    <2>1. CASE at = K + 2
      BY <1>1, <2>1, AtNewTable DEF Config
    <2>2. CASE at = K + 5
      BY <1>1, <2>2, AtRename DEF Config
    <2> QED
      BY <1>1, <2>1, <2>2 DEF Frames, Config
  <1>3. "account_id" \in has'.config => has'.config_new = {}
    <2>1. CASE at = K + 2
      <3>1. has'.config = has.config /\ "account_id" \notin has.config
        BY <1>1, <2>1, AtNewTable DEF Config
      <3> QED
        BY <3>1
    <2>2. CASE at = K + 4
      BY <1>1, <2>2, AtDrop DEF Config
    <2>3. CASE at = K + 5
      BY <1>1, <2>3, AtRename DEF Config
    <2> QED
      BY <1>1, <2>1, <2>2, <2>3 DEF Frames, Config
  <1>4. at' \in K + 2 .. K + 5 => "account_id" \notin has'.config
    <2> SUFFICES ASSUME at' \in K + 2 .. K + 5 PROVE "account_id" \notin has'.config
      OBVIOUS
    <2>1. at' # Down
      BY <1>1 DEF Down
    <2>2. CASE at' = K + 2
      <3>1. at = K + 1 /\ "account_id" \notin has.config
        BY <2>1, <2>2, From
      <3> QED
        BY <1>1, <3>1 DEF Frames
    <2>3. CASE at' \in K + 3 .. K + 5
      <3>1. at' = at + 1
        BY <2>1, <2>3, From
      <3>2. "account_id" \notin has.config /\ at \in K + 2 .. K + 4
        BY <1>1, <2>3, <3>1 DEF Config
      <3>3. CASE at = K + 4
        BY <3>2, <3>3, AtDrop
      <3> QED
        BY <1>1, <3>2, <3>3 DEF Frames
    <2> QED
      BY <1>1, <2>2, <2>3
  <1>5. at' \in K + 3 .. K + 5 => has'.config_new # {}
    <2> SUFFICES ASSUME at' \in K + 3 .. K + 5 PROVE has'.config_new # {}
      OBVIOUS
    <2>1. at' # Down
      BY <1>1 DEF Down
    <2>2. at' = at + 1
      BY <2>1, From
    <2>3. CASE at = K + 2
      BY <2>1, <2>3, AtNewTable
    <2>4. CASE at \in K + 3 .. K + 4
      BY <1>1, <2>4 DEF Config, Frames
    <2>5. at = K + 2 \/ at \in K + 3 .. K + 4
      <3>1. at' = K + 3 \/ at' = K + 4 \/ at' = K + 5
        BY <1>1
      <3> QED
        BY <1>1, <2>2, <3>1
    <2> QED
      BY <2>3, <2>4, <2>5
  <1>6. at' = K + 5 => has'.config = {}
    <2> SUFFICES ASSUME at' = K + 5 PROVE has'.config = {}
      OBVIOUS
    <2>1. at' # Down /\ at' \in K + 3 .. K + 5
      BY <1>1 DEF Down
    <2>2. at = K + 4
      BY <1>1, <2>1, From
    <2> QED
      BY <2>1, <2>2, AtDrop
  <1>7. at' >= K + 6 => "account_id" \in has'.config
    <2> SUFFICES ASSUME at' >= K + 6 PROVE "account_id" \in has'.config
      OBVIOUS
    <2>1. at' # Down
      BY <1>1 DEF Down
    <2>2. at = K + 5 \/ (at = K + 1 /\ "account_id" \in has.config) \/ at >= K + 6
      <3>1. at' >= K + 7 => at + 1 >= K + 7
        BY <2>1, From
      <3>2. at' = K + 6 => at = K + 5 \/ (at = K + 1 /\ "account_id" \in has.config)
        BY <2>1, From
      <3>3. at' = K + 6 \/ at' >= K + 7
        BY <1>1
      <3>4. at + 1 >= K + 7 => at >= K + 6
        BY <1>1
      <3> QED
        BY <3>1, <3>2, <3>3, <3>4
    <2>3. CASE at = K + 5
      <3>1. has.config_new # {} /\ has.config_new \in {{}, Whole("config_new")}
        BY <1>1, <2>3 DEF Config
      <3> QED
        BY <1>1, <2>1, <2>3, <3>1, AtRename
    <2>4. CASE at = K + 1 /\ "account_id" \in has.config
      BY <1>1, <2>4 DEF Frames
    <2>5. CASE at >= K + 6
      BY <1>1, <2>5 DEF Frames, Config
    <2> QED
      BY <2>2, <2>3, <2>4, <2>5
  <1>8. at' >= K + 7 => row'.config # "none"
    <2> SUFFICES ASSUME at' >= K + 7 PROVE row'.config # "none"
      OBVIOUS
    <2>1. at' # Down
      BY <1>1 DEF Down
    <2>2. at >= K + 6
      <3>1. at + 1 >= K + 7
        BY <2>1, From
      <3> QED
        BY <1>1, <3>1
    <2>3. CASE at = K + 6
      BY <1>1, <2>1, <2>3, AtRow DEF RowOK
    <2>4. CASE at >= K + 7
      BY <1>1, <2>4 DEF Frames, Config
    <2> QED
      BY <1>1, <2>2, <2>3, <2>4
  <1>9. RowOK'
    <2>1. CASE at = K + 2
      BY <1>1, <2>1, AtNewTable DEF RowOK, rows
    <2>2. CASE at = K + 3
      <3>1. has.config_new # {}
        BY <1>1, <2>2 DEF Config
      <3> QED
        BY <1>1, <2>2, <3>1, AtCopy DEF RowOK
    <2>3. CASE at = K + 4
      BY <1>1, <2>3, AtDrop DEF RowOK
    <2>4. CASE at = K + 5
      BY <1>1, <2>4, AtRename DEF RowOK
    <2>5. CASE at = K + 6
      <3>1. has.config # {}
        BY <1>1, <2>5 DEF Config
      <3> QED
        BY <1>1, <2>5, <3>1, AtRow DEF RowOK
    <2>6. CASE at \notin K + 2 .. K + 6
      BY <1>1, <2>6 DEF RowOK, Frames
    <2> QED
      BY <1>1, <2>1, <2>2, <2>3, <2>4, <2>5, <2>6
  <1>10. Whole("config_new")' = Whole("config_new")
    BY DEF Whole, Later
  <1> QED
    BY <1>1, <1>2, <1>3, <1>4, <1>5, <1>6, <1>7, <1>8, <1>9, <1>10 DEF Config

LEMMA Numbers ==
    ASSUME NEW o, RunStatement(o), IInv
    PROVE  /\ at \in Nat /\ at' \in Nat /\ at >= 1 /\ at <= K2 + 3 /\ at' <= K2 + 4
           /\ K \in Nat /\ K1 = K + 20 /\ K2 = K1 + Prices /\ Prices \in Nat /\ Prices >= 1
           /\ Serving = K2 + 4 /\ Down = 0 /\ K1 \in Nat /\ K2 \in Nat
  <1>1. at \in 1 .. Len(Steps) /\ at' \in Down .. Serving
    BY MovesHold DEF IInv, Schemas
  <1> QED
    BY <1>1, Sizes

LEMMA Same ==
    ASSUME NEW o, RunStatement(o), IInv
    PROVE  /\ K' = K /\ K1' = K1 /\ K2' = K2 /\ Steps' = Steps
           /\ MySQL' = MySQL /\ release' = release /\ starts' = starts /\ Frames
           /\ starts \in Nat
  <1>1. MySQL' = MySQL /\ release' = release /\ starts' = starts
    BY Run DEF IInv, Booleans, Schemas
  <1>2. Frames
    BY FramesHold DEF IInv, Schemas
  <1>3. starts \in Nat
    BY Sizes, ConfigAssumption DEF IInv, TypeOK
  <1> QED
    BY <1>1, <1>2, <1>3, Still

LEMMA Appended ==
    ASSUME NEW S, NEW u \in Seq(S), NEW v \in S
    PROVE  /\ Append(u, v) \in Seq(S) /\ Len(Append(u, v)) = Len(u) + 1
           /\ \E i \in DOMAIN Append(u, v) : Append(u, v)[i] = v
           /\ \A w : (\E i \in DOMAIN u : u[i] = w) => \E i \in DOMAIN Append(u, v) : Append(u, v)[i] = w
  <1>1. /\ Append(u, v) \in Seq(S) /\ Len(Append(u, v)) = Len(u) + 1 /\ Len(u) \in Nat
        /\ \A i \in 1 .. Len(u) : Append(u, v)[i] = u[i]
        /\ Append(u, v)[Len(u) + 1] = v
        /\ DOMAIN u = 1 .. Len(u) /\ DOMAIN Append(u, v) = 1 .. Len(u) + 1
    BY AppendProperties, LenProperties
  <1>2. Len(u) + 1 \in 1 .. Len(u) + 1 /\ \A i \in 1 .. Len(u) : i \in 1 .. Len(u) + 1
    BY <1>1
  <1> QED
    BY <1>1, <1>2

(* The rows of the setting: those there were, or one more.                 *)
LEMMA SettingsStep ==
    ASSUME NEW o, RunStatement(o), IInv
    PROVE  /\ settings' \in Seq({"default", "site"})
           /\ Len(settings') = Len(settings) \/
              (Len(settings') = Len(settings) + 1 /\ at \in {K + 12, K + 15})
           /\ \A w : (\E i \in DOMAIN settings : settings[i] = w) =>
                        \E i \in DOMAIN settings' : settings'[i] = w
           /\ at = K + 12 /\ at' # Down => \E i \in DOMAIN settings' : settings'[i] = "default"
           /\ at = K + 15 /\ at' # Down => \E i \in DOMAIN settings' : settings'[i] = row.config
  <1>1. settings \in Seq({"default", "site"})
    BY DEF IInv, TypeOK
  <1>2. CASE at \notin {K + 12, K + 15}
    BY <1>1, <1>2, Numbers, Same DEF Frames
  <1>3. CASE at \in {K + 12, K + 15}
    <2> DEFINE v == IF at = K + 12 THEN "default" ELSE row.config
    <2>1. /\ settings' = settings \/ settings' = Append(settings, v)
          /\ at' # Down => settings' = Append(settings, v)
      BY <1>3, AtSetting
    <2>2. at # K + 12 => row.config \in {"default", "site"}
      <3>1. row.config \in {"none", "default", "site"} /\ at \in Nat /\ K \in Nat
        BY Numbers DEF IInv, TypeOK
      <3> QED
        BY <1>3, <3>1 DEF IInv, Config
    <2>3. v \in {"default", "site"} /\ (at = K + 12 => v = "default") /\ (at = K + 15 => v = row.config)
      BY <1>3, <2>2, Sizes
    <2> HIDE DEF v
    <2> DEFINE S == {"default", "site"}
    <2>7. settings \in Seq(S) /\ v \in S
      BY <1>1, <2>3
    <2> HIDE DEF S
    <2>8. /\ Append(settings, v) \in Seq(S)
          /\ Len(Append(settings, v)) = Len(settings) + 1
          /\ \E i \in DOMAIN Append(settings, v) : Append(settings, v)[i] = v
          /\ \A w : (\E i \in DOMAIN settings : settings[i] = w) =>
                       \E i \in DOMAIN Append(settings, v) : Append(settings, v)[i] = w
      BY <2>7, Appended
    <2>4. /\ Append(settings, v) \in Seq({"default", "site"})
          /\ Len(Append(settings, v)) = Len(settings) + 1
          /\ \E i \in DOMAIN Append(settings, v) : Append(settings, v)[i] = v
          /\ \A w : (\E i \in DOMAIN settings : settings[i] = w) =>
                       \E i \in DOMAIN Append(settings, v) : Append(settings, v)[i] = w
      BY <2>8 DEF S
    <2>5. CASE settings' = settings
      <3>1. at' = Down \/ settings' = Append(settings, v)
        BY <2>1
      <3> QED
        BY <1>1, <2>3, <2>4, <2>5, <3>1
    <2>6. CASE settings' = Append(settings, v)
      BY <1>3, <2>3, <2>4, <2>6
    <2> QED
      BY <2>1, <2>5, <2>6
  <1> QED
    BY <1>2, <1>3

LEMMA CountedStep ==
    ASSUME NEW o, RunStatement(o), IInv
    PROVE  Counted' /\ Len(settings') <= 2 * starts + 2
  <1>1. Counted
    BY DEF IInv
  <1>2. PICK m \in Nat, n \in Nat, b \in Nat :
          m = Len(settings) /\ n = Len(settings') /\ b = 2 * starts
    <2>1. settings \in Seq({"default", "site"}) /\ settings' \in Seq({"default", "site"})
      BY SettingsStep DEF IInv, TypeOK
    <2>2. Len(settings) \in Nat /\ Len(settings') \in Nat
      BY <2>1, LenProperties
    <2>3. starts \in Nat
      BY Same
    <2>4. 2 * starts \in Nat
      BY <2>3
    <2> QED
      BY <2>2, <2>4
  <1>3. n = m \/ (n = m + 1 /\ at \in {K + 12, K + 15})
    BY <1>2, SettingsStep
  <1>4. /\ starts >= 1
        /\ at \in 1 .. K + 12 => m <= b
        /\ at \in K + 13 .. K + 15 => m <= b + 1
        /\ at >= K + 16 => m <= b + 2
    <2>1. at # Down
      BY Numbers
    <2> QED
      BY <1>1, <1>2, <2>1 DEF Counted
  <1>8. /\ at <= K + 11 => n <= b
        /\ at = K + 12 => n <= b + 1
        /\ at >= K + 13 /\ at <= K + 14 => n <= b + 1
        /\ at = K + 15 => n <= b + 2
        /\ at >= K + 16 => n <= b + 2
    <2>1. /\ at \in Nat /\ K \in Nat /\ at >= 1 /\ m \in Nat /\ n \in Nat /\ b \in Nat
      BY <1>2, Numbers
    <2>2. at <= K + 11 => n <= b
      BY <1>3, <1>4, <2>1
    <2>3. at = K + 12 => n <= b + 1
      BY <1>3, <1>4, <2>1
    <2>4. at >= K + 13 /\ at <= K + 14 => n <= b + 1
      BY <1>3, <1>4, <2>1
    <2>5. at = K + 15 => n <= b + 2
      BY <1>3, <1>4, <2>1
    <2>6. at >= K + 16 => n <= b + 2
      BY <1>3, <1>4, <2>1
    <2> QED
      BY <2>2, <2>3, <2>4, <2>5, <2>6
  <1>5. n <= b + 2
    <2>1. at \in Nat /\ K \in Nat /\ n \in Nat /\ b \in Nat
      BY <1>2, Numbers
    <2> QED
      BY <1>8, <2>1
  <1>6. at' \in 1 .. K + 12 => n <= b
    <2> SUFFICES ASSUME at' \in 1 .. K + 12 PROVE n <= b
      OBVIOUS
    <2>1. at' # Down
      BY Numbers
    <2>3. at < at'
      BY <2>1, From
    <2>2. at <= K + 11
      BY <2>3, Numbers
    <2> QED
      BY <1>8, <2>2
  <1>7. at' \in K + 13 .. K + 15 => n <= b + 1
    <2> SUFFICES ASSUME at' \in K + 13 .. K + 15 PROVE n <= b + 1
      OBVIOUS
    <2>5. at' # Down /\ at' \in K + 7 .. K1
      BY Numbers
    <2>1. at' = at + 1
      BY <2>5, From
    <2>2. at = K + 12 \/ (at >= K + 13 /\ at <= K + 14)
      BY <2>1, Numbers
    <2> QED
      BY <1>8, <2>2
  <1> QED
    BY <1>2, <1>4, <1>5, <1>6, <1>7, Numbers, Same DEF Counted

LEMMA KeptStep ==
    ASSUME NEW o, RunStatement(o), IInv
    PROVE  Kept'
  <1> SUFFICES ASSUME release # "none", ~uncopied'
               PROVE  Kept'
    BY Numbers, Same DEF Kept
  <1>1. /\ ~uncopied /\ RowOK
        /\ \/ row.config = "site" /\ row.config_new \in {"none", "site"}
           \/ row.config = "none" /\ has.config = {} /\ row.config_new = "site"
        /\ at = K + 4 => row.config_new = "site"
        /\ at >= K + 6 => row.config = "site"
        /\ active \in {"none", "site"}
        /\ at >= K + 16 => \E i \in DOMAIN settings : settings[i] = "site"
    <2>1. ~uncopied
      BY Run DEF IInv, Booleans, Schemas
    <2>2. RowOK
      BY DEF IInv, TypeOK, RowOK
    <2> QED
      BY <2>1, <2>2 DEF IInv, Kept
  <1>2. \/ row'.config = "site" /\ row'.config_new \in {"none", "site"}
        \/ row'.config = "none" /\ has'.config = {} /\ row'.config_new = "site"
    <2>1. CASE at = K + 2
      BY <1>1, <2>1, AtNewTable DEF rows
    <2>2. CASE at = K + 3
      BY <1>1, <2>2, AtCopy DEF RowOK
    <2>3. CASE at = K + 4
      BY <1>1, <2>3, AtDrop DEF RowOK
    <2>4. CASE at = K + 5
      <3>1. has.config = {}
        BY <2>4, Numbers DEF IInv, Config
      <3> QED
        BY <1>1, <2>4, <3>1, AtRename DEF RowOK
    <2>5. CASE at = K + 6
      BY <1>1, <2>5, AtRow, Numbers DEF RowOK
    <2>6. CASE at \notin K + 2 .. K + 6
      BY <1>1, <2>6, Numbers, Same DEF Frames
    <2> QED
      BY <2>1, <2>2, <2>3, <2>4, <2>5, <2>6, Numbers
  <1>3. at' = K + 4 => row'.config_new = "site"
    <2> SUFFICES ASSUME at' = K + 4 PROVE row'.config_new = "site"
      OBVIOUS
    <2>1. at' # Down /\ at' \in K + 3 .. K + 5
      BY Numbers
    <2>2. at = K + 3
      <3>1. at' = at + 1
        BY <2>1, From
      <3> QED
        BY <3>1, Numbers
    <2>3. /\ row' = row \/ row' = [row EXCEPT !.config_new = row.config]
          /\ has.config # {} /\ row.config_new = "none" => row' = [row EXCEPT !.config_new = row.config]
      BY <2>2, AtCopy
    <2>4. row.config = "site" => has.config # {}
      BY <1>1 DEF RowOK
    <2>5. CASE row.config = "site"
      <3>1. row.config_new = "none" => row' = [row EXCEPT !.config_new = row.config]
        BY <2>3, <2>4, <2>5
      <3> QED
        BY <1>1, <2>3, <2>5, <3>1 DEF RowOK
    <2>6. CASE row.config = "none"
      <3>1. row' = row
        BY <1>1, <2>2, <2>6, AtCopy
      <3> QED
        BY <1>1, <2>6, <3>1
    <2> QED
      BY <1>1, <2>5, <2>6
  <1>4. at' >= K + 6 => row'.config = "site"
    <2> SUFFICES ASSUME at' >= K + 6 PROVE row'.config = "site"
      OBVIOUS
    <2>1. at' # Down
      BY Numbers
    <2>2. at' = K + 6 => at = K + 5 \/ (at = K + 1 /\ "account_id" \in has.config)
      BY <2>1, From
    <2>3. at' >= K + 7 => at + 1 >= K + 7
      BY <2>1, From
    <2>4. at = K + 5 \/ (at = K + 1 /\ "account_id" \in has.config) \/ at = K + 6 \/ at >= K + 7
      <3>1. at' = K + 6 \/ at' >= K + 7
        BY Numbers
      <3>2. at + 1 >= K + 7 => at = K + 6 \/ at >= K + 7
        BY Numbers
      <3> QED
        BY <2>2, <2>3, <3>1, <3>2
    <2>5. CASE at = K + 5
      <3>1. has.config = {}
        BY <2>5, Numbers DEF IInv, Config
      <3> QED
        BY <1>1, <2>1, <2>5, <3>1, AtRename DEF RowOK
    <2>6. CASE at = K + 1 /\ "account_id" \in has.config
      <3>1. has.config_new = {}
        BY <2>6 DEF IInv, Config
      <3>2. row' = row
        BY <2>6, Numbers, Same DEF Frames
      <3> QED
        BY <1>1, <3>1, <3>2 DEF RowOK
    <2>7. CASE at = K + 6
      BY <1>1, <2>7, AtRow, Numbers DEF RowOK
    <2>8. CASE at >= K + 7
      BY <1>1, <2>8, Numbers, Same DEF Frames
    <2> QED
      BY <2>4, <2>5, <2>6, <2>7, <2>8
  <1>5. active' \in {"none", "site"}
    <2>1. CASE at = K + 16
      BY <1>1, <2>1, AtActive, Numbers
    <2>2. CASE at # K + 16
      BY <1>1, <2>2, Numbers, Same DEF Frames
    <2> QED
      BY <2>1, <2>2
  <1>6. at' >= K + 16 => \E i \in DOMAIN settings' : settings'[i] = "site"
    <2> SUFFICES ASSUME at' >= K + 16 PROVE \E i \in DOMAIN settings' : settings'[i] = "site"
      OBVIOUS
    <2>1. at' # Down
      BY Numbers
    <2>2. at + 1 >= K + 16
      BY <2>1, From
    <2>3. at = K + 15 \/ at >= K + 16
      BY <2>2, Numbers
    <2>4. CASE at = K + 15
      <3>1. row.config = "site"
        BY <1>1, <2>4, Numbers
      <3> QED
        BY <2>1, <2>4, <3>1, SettingsStep
    <2>5. CASE at >= K + 16
      BY <1>1, <2>5, SettingsStep
    <2> QED
      BY <2>3, <2>4, <2>5
  <1> QED
    BY <1>2, <1>3, <1>4, <1>5, <1>6, Numbers, Same DEF Kept

LEMMA SownStep ==
    ASSUME NEW o, RunStatement(o), IInv
    PROVE  Sown'
  <1>1. at' >= K + 13 => \E i \in DOMAIN settings' : settings'[i] = "default"
    <2> SUFFICES ASSUME at' >= K + 13 PROVE \E i \in DOMAIN settings' : settings'[i] = "default"
      OBVIOUS
    <2>1. at' # Down
      BY Numbers
    <2>2. at + 1 >= K + 13
      BY <2>1, From
    <2>3. at = K + 12 \/ at >= K + 13
      BY <2>2, Numbers
    <2>4. CASE at = K + 12
      BY <2>1, <2>4, SettingsStep
    <2>5. CASE at >= K + 13
      BY <2>5, SettingsStep DEF IInv, Sown
    <2> QED
      BY <2>3, <2>4, <2>5
  <1>2. at' >= K + 17 => active' # "none"
    <2> SUFFICES ASSUME at' >= K + 17 PROVE active' # "none"
      OBVIOUS
    <2>1. at' # Down
      BY Numbers
    <2>2. at + 1 >= K + 17
      BY <2>1, From
    <2>3. at = K + 16 \/ at >= K + 17
      BY <2>2, Numbers
    <2>4. CASE at = K + 16
      <3>1. row.config # "none"
        BY <2>4, Numbers DEF IInv, Config
      <3> QED
        BY <2>1, <2>4, <3>1, AtActive
    <2>5. CASE at >= K + 17
      BY <2>5, Numbers, Same DEF IInv, Sown, Frames
    <2> QED
      BY <2>3, <2>4, <2>5
  <1>3. at' >= K2 + 3 => "admin" \in accounts'
    <2> SUFFICES ASSUME at' >= K2 + 3 PROVE "admin" \in accounts'
      OBVIOUS
    <2>1. at' # Down
      BY Numbers
    <2>2. at >= K2 + 2 \/ (at = K2 + 1 /\ "admin" \in accounts)
      BY <2>1, From
    <2>3. at = K2 + 2 \/ at >= K2 + 3 \/ (at = K2 + 1 /\ "admin" \in accounts)
      BY <2>2, Numbers
    <2>4. CASE at = K2 + 2
      BY <2>1, <2>4, AtAdmin
    <2>5. CASE at >= K2 + 3
      BY <2>5, Numbers, Same DEF IInv, Sown, Frames
    <2>6. CASE at = K2 + 1 /\ "admin" \in accounts
      BY <2>6, Numbers, Same DEF Frames
    <2> QED
      BY <2>3, <2>4, <2>5, <2>6
  <1> QED
    BY <1>1, <1>2, <1>3, Numbers, Same DEF Sown

LEMMA OnePriceMore ==
    ASSUME NEW n \in Nat
    PROVE  1 .. 0 = {} /\ (1 .. n) \cup {n + 1} = 1 .. n + 1 /\ n + 1 \in 1 .. n + 1
  <1> QED
    OBVIOUS

LEMMA PricedStep ==
    ASSUME NEW o, RunStatement(o), IInv
    PROVE  Priced' /\ prices' \subseteq Model
  <1>1. Priced /\ prices \subseteq Model /\ cut \in BOOLEAN
    BY DEF IInv, TypeOK, Booleans
  <1>2. /\ cut => cut'
        /\ at' = Down => (prices' \notin {{}, Model} => cut')
    <2>2. Placed(at, Steps[at])
      BY Kinds, MovesHold DEF IInv, Schemas
    <2>3. at' # Down \/ at' # After(Steps[at])
      BY <2>2, Numbers DEF After, Placed, Rec
    <2> QED
      BY <2>3, Run DEF IInv, Booleans, Schemas
  <1>3. prices' = prices \/ (at \in K1 + 1 .. K2 /\ prices' = prices \cup {at - K1})
    BY AtPrice, Numbers, Same DEF Frames
  <1>4. ASSUME at \in K1 + 1 .. K2
        PROVE  /\ at - K1 \in Model
               /\ prices = 1 .. at - (K1 + 1)
               /\ prices \cup {at - K1} = 1 .. at - K1
    <2>1. at - K1 \in Model
      BY <1>4, Numbers DEF Model
    <2>2. prices = 1 .. at - (K1 + 1)
      BY <1>1, <1>4 DEF Priced
    <2>3. at - (K1 + 1) \in Nat /\ at - (K1 + 1) + 1 = at - K1
      BY <1>4, Numbers
    <2> QED
      BY <2>1, <2>2, <2>3, OnePriceMore
  <1>5. prices' \subseteq Model
    BY <1>1, <1>3, <1>4
  <1>6. at' \in K1 + 1 .. K2 => prices' = 1 .. at' - (K1 + 1)
    <2> SUFFICES ASSUME at' \in K1 + 1 .. K2 PROVE prices' = 1 .. at' - (K1 + 1)
      OBVIOUS
    <2>1. at' # Down
      BY Numbers
    <2>2. at' = at + 1 /\ (at = K1 => prices = {})
      BY <2>1, From
    <2>3. CASE at = K1
      <3>1. prices' = {}
        BY <1>3, <2>2, <2>3, Numbers
      <3>2. at' - (K1 + 1) = 0
        BY <2>2, <2>3, Numbers
      <3> QED
        BY <3>1, <3>2, OnePriceMore
    <2>4. CASE at # K1
      <3>1. at \in K1 + 1 .. K2
        BY <2>2, <2>4, Numbers
      <3>2. prices' = 1 .. at - K1
        BY <1>4, <2>1, <3>1, AtPrice
      <3>3. at' - (K1 + 1) = at - K1
        BY <2>2, Numbers
      <3> QED
        BY <3>2, <3>3
    <2> QED
      BY <2>3, <2>4
  <1>7. at' >= K2 + 1 => prices' = Model \/ (cut' /\ prices' # {})
    <2> SUFFICES ASSUME at' >= K2 + 1 PROVE prices' = Model \/ (cut' /\ prices' # {})
      OBVIOUS
    <2>1. at' # Down
      BY Numbers
    <2>2. at >= K2 \/ (at = K1 /\ prices # {})
      BY <2>1, From
    <2>3. CASE at = K2
      <3>1. at \in K1 + 1 .. K2 /\ at - K1 = Prices
        BY <2>3, Numbers
      <3> QED
        BY <1>4, <2>1, <3>1, AtPrice DEF Model
    <2>4. CASE at >= K2 + 1
      <3>1. prices' = prices
        BY <1>3, <2>4, Numbers
      <3>2. prices = Model \/ (cut /\ prices # {})
        BY <1>1, <2>4 DEF Priced
      <3> QED
        BY <1>2, <3>1, <3>2
    <2>5. CASE at = K1 /\ prices # {}
      <3>1. prices' = prices
        BY <1>3, <2>5, Numbers
      <3>2. prices = Model \/ cut
        BY SMTT(30), <1>1, <2>5, Numbers DEF Priced
      <3> QED
        BY <1>2, <2>5, <3>1, <3>2
    <2>6. at = K2 \/ at >= K2 + 1 \/ (at = K1 /\ prices # {})
      BY <2>2, Numbers
    <2> QED
      BY <2>3, <2>4, <2>5, <2>6
  <1>8. at' <= K1 => prices' \in {{}, Model} \/ cut'
    <2>1. CASE at' = Down
      BY <1>2, <2>1
    <2>2. CASE at' # Down /\ at' <= K1
      <3>1. at <= K1
        BY <2>2, From, Numbers
      <3>2. prices' = prices
        BY <1>3, <3>1, Numbers
      <3> QED
        BY <1>1, <1>2, <3>1, <3>2 DEF Priced
    <2> QED
      BY <2>1, <2>2
  <1> QED
    BY <1>5, <1>6, <1>7, <1>8, Numbers, Same DEF Priced, Model

(* Once the tables are made, whatever columns were added to them are there.*)
LEMMA AllDone ==
    ASSUME IInv, at >= K + 1
    PROVE  /\ \A t \in EarlyTable : Whole(t) \ Indexes \subseteq has[t]
           /\ blank = {}
  <1>1. ASSUME NEW s \in Lines(Before) PROVE Done(s)
    <2>1. PICK i \in 1 .. Len(Before) : s = Before[i]
      BY DEF Lines
    <2>2. i \in 1 .. K /\ i \in 1 .. at - 1
      <3>1. at \in Nat /\ K \in Nat
        BY Sizes DEF IInv, TypeOK
      <3>2. i \in 1 .. K
        BY <2>1 DEF K
      <3> QED
        BY <3>1, <3>2
    <2>3. Steps[i] = s
      BY <2>1, <2>2, EarlyLines
    <2> QED
      BY <2>2, <2>3 DEF IInv, DoneSoFar
  <1>2. ASSUME NEW t \in EarlyTable PROVE Whole(t) \ Indexes \subseteq has[t]
    <2>1. t \notin {"config", "config_new"}
      BY DEF EarlyTable
    <2>2. "table" \in has[t]
      <3>1. Done(Create(t))
        BY <1>1, BeforeEarly
      <3> QED
        BY <2>1, <3>1 DEF Done
    <2>3. ASSUME NEW c \in Later[t] \ Indexes PROVE c \in has[t]
      <3>1. Done(Add(t, c))
        BY <1>1, BeforeEarly
      <3> QED
        BY <3>1 DEF Done
    <2> QED
      BY <2>2, <2>3 DEF Whole
  <1>3. Done(Fill("default")) /\ Done(Fill("admin"))
    BY <1>1, BeforeEarly
  <1>4. blank \subseteq {"admin", "default"}
    BY DEF IInv, TypeOK
  <1>5. "default" \notin blank /\ "admin" \notin blank
    BY <1>3 DEF Done
  <1> QED
    BY <1>2, <1>4, <1>5

LEMMA NodesMade ==
    ASSUME NEW o, RunStatement(o), IInv, has.nodes = {}, has'.nodes # {}
    PROVE  "account_id" \in has'.nodes
  <1> DEFINE s == Steps[at]
  <1>1. /\ Placed(at, s) /\ at \in 1 .. Len(Steps)
        /\ UNCHANGED <<has, rows>> \/ (Possible(s) /\ Perform(s))
    BY Run, Kinds DEF IInv, Booleans, Schemas
  <1>2. s.do = "add" => "table" \in has[s.t]
    BY <1>1, TableThere, Sizes DEF Placed
  <1>3. s.do = "indexIfNotExists" => "table" \in has.nodes
    BY <1>1, IndexAsked
  <1> HIDE DEF s
  <1>4. DOMAIN has = Table /\ "nodes" \in Table /\ "config" \in Table /\ "config_new" \in Table
    BY Tables DEF IInv, TypeOK
  <1>5. Possible(s) /\ Perform(s)
    BY <1>1
  <1>6. s.do # "drop" /\ s.do # "rename"
    <2>1. CASE s.do = "drop"
      <3>1. has' = [has EXCEPT !["config"] = {}]
        BY <1>1, <1>5, <2>1 DEF Perform, DropTable, Placed
      <3> QED
        BY <1>4, <3>1
    <2>2. CASE s.do = "rename"
      <3>1. has' = [has EXCEPT !["config"] = has["config_new"], !["config_new"] = {}]
        BY <1>5, <2>2 DEF Perform, RenameConfig
      <3> QED
        BY <1>4, <3>1
    <2> QED
      BY <2>1, <2>2
  <1>7. s.do \in {"create", "add", "addQuietly", "indexIfNotExists"}
    BY <1>5, <1>6 DEF Perform, rows, CopyConfig, EnsureConfigRow, InsertSystemSetting,
                      InsertAccountSetting, FillPassword, InsertPrice, CreateAdmin
  <1>8. s.do # "indexIfNotExists"
    BY <1>3
  <1>9. CASE s.do = "create"
    <2>1. has' = [has EXCEPT ![s.t] = IF has[s.t] = {} THEN Created(s.t) ELSE has[s.t]]
      BY <1>5, <1>9 DEF Perform, Define
    <2>2. s.t = "nodes"
      BY <1>4, <2>1
    <2>3. "account_id" \in Created("nodes")
      BY <1>4, CreatedWhole
    <2> QED
      BY <1>4, <2>1, <2>2, <2>3
  <1>10. CASE s.do \in {"add", "addQuietly"}
    <2>1. has' = [has EXCEPT ![s.t] = has[s.t] \cup {s.c}]
      BY <1>5, <1>10 DEF Perform, Define
    <2>2. s.t = "nodes"
      BY <1>4, <2>1
    <2>3. has[s.t] # {}
      <3>1. CASE s.do = "addQuietly"
        BY <1>5, <3>1 DEF Possible
      <3> QED
        BY <1>2, <1>10, <3>1
    <2> QED
      BY <2>2, <2>3
  <1> QED
    BY <1>7, <1>8, <1>9, <1>10

LEMMA SchemasStep ==
    ASSUME NEW o, RunStatement(o), IInv
    PROVE  Schemas'
  <1> DEFINE s == Steps[at]
  <1>1. /\ Placed(at, s) /\ at \in 1 .. Len(Steps) /\ at \in Nat
        /\ \/ unprovoked' = unprovoked
           \/ unprovoked' = unprovoked + 1 /\ ~Possible(s) /\ ~Quiet(s)
    BY Run, Kinds, Numbers DEF IInv, Booleans, Schemas
  <1>2. \A t \in Table : has'[t] # {} => "table" \in has'[t]
    BY HasStep DEF HasOK
  <1>3. has.nodes \subseteq has'.nodes /\ release' = release /\ MySQL' = MySQL
    BY Same, Tables DEF Frames
  <1>4. release' # "single" /\ has'.nodes # {} => "account_id" \in has'.nodes
    BY <1>3, NodesMade DEF IInv, Schemas
  <1>5. /\ unprovoked' \in {0, 1}
        /\ unprovoked' = 1 => MySQL' /\ release' = "single" /\ "account_id" \in has'.nodes
    <2>1. CASE unprovoked' = unprovoked
      BY <1>3, <2>1 DEF IInv, Schemas
    <2>2. CASE unprovoked' = unprovoked + 1 /\ ~Possible(s) /\ ~Quiet(s)
      <3>1. s.do \in {"add", "indexIfNotExists", "rename", "load"}
        BY <2>2 DEF Possible, Quiet
      <3>2. s.do # "add"
        <4> SUFFICES ASSUME s.do = "add" PROVE FALSE
          OBVIOUS
        <4>1. at \in 1 .. K
          BY <1>1, Numbers DEF Placed
        <4> QED
          BY <2>2, <4>1 DEF IInv, Reached, Possible
      <3>3. s.do # "rename"
        <4> SUFFICES ASSUME s.do = "rename" PROVE FALSE
          OBVIOUS
        <4>1. at = K + 5
          BY <1>1 DEF Placed
        <4>2. at \in K + 3 .. K + 5
          BY <4>1, Numbers
        <4> QED
          BY <2>2, <4>1, <4>2 DEF IInv, Config, Possible
      <3>4. s.do # "load"
        <4> SUFFICES ASSUME s.do = "load" PROVE FALSE
          OBVIOUS
        <4>1. at = K2 + 3
          BY <1>1 DEF Placed
        <4>2. at >= K + 1 /\ at >= K + 6
          BY <4>1, Numbers
        <4>3. Whole("nodes") \ Indexes \subseteq has["nodes"]
          BY <4>2, AllDone DEF EarlyTable
        <4>4. "account_id" \in has["config"] /\ "table" \in has["config"]
          BY <4>2, Tables DEF IInv, Config, Schemas
        <4>5. Loadable
          BY <4>3, <4>4, Tables DEF Loadable
        <4> QED
          BY <2>2, <4>5 DEF Possible
      <3>5. s.do = "indexIfNotExists"
        BY <3>1, <3>2, <3>3, <3>4
      <3>6. MySQL
        BY <2>2, <3>5 DEF Possible
      <3>7. at \in 1 .. K
        BY <1>1, <3>5, Numbers DEF Placed
      <3>8. release = "single" /\ unprovoked = 0
        BY <3>5, <3>7 DEF IInv, Reached
      <3>9. "account_id" \in has.nodes
        BY <1>1, <3>5, IndexAsked
      <3>10. unprovoked' = 1
        BY <2>2, <3>8
      <3> QED
        BY <1>3, <3>6, <3>8, <3>9, <3>10
    <2> QED
      BY <1>1, <2>1, <2>2
  <1> QED
    BY <1>2, <1>4, <1>5 DEF Schemas

LEMMA ReachedStep ==
    ASSUME NEW o, RunStatement(o), IInv
    PROVE  Reached'
  <1> SUFFICES ASSUME at' \in 1 .. K
               PROVE  /\ Steps[at'].do = "add" => Steps[at'].c \notin has'[Steps[at'].t]
                      /\ Steps[at'].do = "indexIfNotExists" =>
                            release' = "single" /\ unprovoked' = 0
    BY Same DEF Reached
  <1>1. at' # Down
    BY Numbers
  <1>2. at \in 1 .. K /\ at < at'
    BY <1>1, From
  <1>3. /\ Moves /\ release' = release /\ unprovoked' = unprovoked
        /\ UNCHANGED <<has, rows>> \/ Perform(Steps[at])
    BY <1>1, Run, MovesHold DEF IInv, Schemas, Booleans
  <1>4. Steps[at'] = Before[at'] /\ Guarded(Before, at') /\ Steps[at' - 1] = Before[at' - 1]
    <2>1. PICK m \in Nat : m = at'
      BY Numbers
    <2>2. m <= K /\ m >= 2 /\ K \in Nat
      <3>1. at' <= K
        BY Numbers
      <3>2. at >= 1 /\ at < at' /\ at \in Nat /\ K \in Nat
        BY <1>2, Numbers
      <3> QED
        BY <2>1, <3>1, <3>2
    <2>3. m - 1 \in 1 .. K
      BY <2>2
    <2> QED
      BY <2>1, <2>3, EarlyLines
  <1>5. CASE at' = at + 1 /\ (Steps[at].do = "unless" => ~Found(Steps[at].t, Steps[at].c))
    <2>1. at' - 1 = at /\ at \in Nat
      BY <1>5, Numbers
    <2>2. ASSUME Steps[at'].do = "add" PROVE Steps[at'].c \notin has'[Steps[at'].t]
      <3>1. /\ Steps[at].do = "unless" /\ Steps[at].t = Steps[at'].t
            /\ Steps[at].c = Steps[at'].c
        BY <1>4, <2>1, <2>2 DEF Guarded
      <3>2. has' = has
        BY <1>3, <3>1 DEF Perform
      <3> QED
        BY <1>5, <3>1, <3>2 DEF Found
    <2>3. ASSUME Steps[at'].do = "indexIfNotExists" PROVE release = "single" /\ unprovoked = 0
      <3>4. Before[at' - 1] = Add("nodes", "account_id")
        BY <1>4, <2>3 DEF Guarded
      <3>5. Steps[at] = Add("nodes", "account_id")
        BY <1>4, <2>1, <3>4
      <3>1. Steps[at].do = "add" /\ Steps[at].t = "nodes" /\ Steps[at].c = "account_id"
        BY <3>5
      <3>2. "account_id" \notin has["nodes"]
        BY <1>2, <3>1 DEF IInv, Reached
      <3>3. "table" \in has["nodes"]
        BY <1>2, <3>1, TableThere
      <3> QED
        BY <3>2, <3>3 DEF IInv, Schemas
    <2> QED
      BY <1>3, <2>2, <2>3
  <1>6. CASE /\ at' = at + 1 + Steps[at].n /\ Steps[at].n \in Nat /\ Steps[at].n >= 1
             /\ \A k \in at + 1 .. at' - 1 : LeftOut(Steps[at], Steps[k])
    <2>1. PICK m \in Nat : m = Steps[at].n
      BY <1>6
    <2>2. at' = at + 1 + m /\ m >= 1 /\ at \in Nat
      BY <1>6, <2>1, Numbers
    <2>3. at' - 1 \in at + 1 .. at' - 1
      BY <2>2
    <2>4. Before[at' - 1].do \in {"add", "indexIfNotExists", "adopt"}
      BY <1>4, <1>6, <2>3 DEF LeftOut
    <2>5. Steps[at'].do # "add"
      BY <1>4, <2>4 DEF Guarded
    <2>6. Steps[at'].do # "indexIfNotExists"
      <3> SUFFICES ASSUME Steps[at'].do = "indexIfNotExists" PROVE FALSE
        OBVIOUS
      <3>1. Before[at' - 2] = Unless("nodes", "account_id", 3) /\ at' > 3
        BY <1>4 DEF Guarded
      <3>2. at' - 2 \in 1 .. K
        BY <3>1, Numbers
      <3>3. Steps[at' - 2] = Unless("nodes", "account_id", 3)
        BY <3>1, <3>2, EarlyLines
      <3>4. CASE m >= 2
        <4>1. at' - 2 \in at + 1 .. at' - 1
          BY <2>2, <3>4
        <4>2. Steps[at' - 2].do \in {"add", "indexIfNotExists", "adopt"}
          BY <1>6, <4>1 DEF LeftOut
        <4> QED
          BY <3>3, <4>2
      <3>5. CASE m = 1
        <4>1. at' - 2 = at
          BY <2>2, <3>5
        <4>2. Steps[at].n = 3
          BY <3>3, <4>1
        <4>3. m = 3
          BY <2>1, <4>2, Zenon
        <4> QED
          BY <3>5, <4>3
      <3> QED
        BY <2>2, <3>4, <3>5
    <2> QED
      BY <2>5, <2>6
  <1>7. at # K + 1 /\ at # K1 /\ at # K2 + 1
    BY <1>2, Numbers
  <1> QED
    BY <1>1, <1>3, <1>5, <1>6, <1>7 DEF Moves

LEMMA DoneStep ==
    ASSUME NEW o, RunStatement(o), IInv
    PROVE  DoneSoFar'
  <1> DEFINE DoneNow(s) ==
                /\ s.do = "create" /\ s.t \notin {"config", "config_new"} => "table" \in has'[s.t]
                /\ s.do = "add" => s.c \in has'[s.t]
                /\ s.do = "fill" => s.c \notin blank'
  <1> SUFFICES ASSUME at' # Down, NEW i \in 1 .. at' - 1 PROVE DoneNow(Steps[i])
    <2>1. at' = Down => 1 .. at' - 1 = {}
      BY Numbers
    <2>2. \A i \in 1 .. at' - 1 : DoneNow(Steps[i])
      BY <2>1
    <2> QED
      BY <2>2, Same DEF DoneSoFar, Done
  <1>1. /\ Moves /\ at \in 1 .. Len(Steps) /\ i \in 1 .. Len(Steps) /\ Placed(i, Steps[i])
        /\ at < at'
    <2>1. Moves /\ at \in 1 .. Len(Steps) /\ at < at'
      BY MovesHold, From DEF IInv, Schemas
    <2>2. i \in 1 .. Len(Steps)
      BY Numbers, Sizes
    <2> QED
      BY <2>1, <2>2, Kinds
  <1>2. Frames
    BY Same
  <1>3. CASE i < at
    <2>1. Done(Steps[i])
      <3>1. i \in 1 .. at - 1
        BY <1>1, <1>3, Numbers
      <3> QED
        BY <3>1 DEF IInv, DoneSoFar
    <2> QED
      BY <1>1, <1>2, <2>1 DEF Done, Placed, Frames
  <1>4. CASE i = at
    <2> DEFINE s == Steps[at]
    <2>1. Quiet(s) \/ Perform(s)
      BY Run DEF IInv, Booleans, Schemas
    <2>2. Placed(at, s)
      BY <1>1, <1>4
    <2> HIDE DEF s
    <2>3. DOMAIN has = Table /\ \A t \in Table : has[t] # {} => "table" \in has[t]
      BY DEF IInv, TypeOK, Schemas
    <2>4. s.do \in {"create", "add", "fill"} => Perform(s)
      BY <2>1 DEF Quiet
    <2>5. ASSUME s.do = "create" PROVE "table" \in has'[s.t]
      <3>1. has' = [has EXCEPT ![s.t] = IF has[s.t] = {} THEN Created(s.t) ELSE has[s.t]]
        BY <2>4, <2>5 DEF Perform, Define
      <3>2. s.t \in Table
        BY <2>2, <2>5 DEF Placed
      <3>3. "table" \in Created(s.t)
        BY <3>2, CreatedWhole
      <3> QED
        BY <2>3, <3>1, <3>2, <3>3
    <2>6. ASSUME s.do = "add" PROVE s.c \in has'[s.t]
      <3>1. has' = [has EXCEPT ![s.t] = has[s.t] \cup {s.c}]
        BY <2>4, <2>6 DEF Perform, Define
      <3>2. s.t \in Table
        BY <2>2, <2>6 DEF Placed
      <3> QED
        BY <2>3, <3>1, <3>2
    <2>7. ASSUME s.do = "fill" PROVE s.c \notin blank'
      BY <2>4, <2>7 DEF Perform, FillPassword
    <2>8. DoneNow(s)
      BY <2>5, <2>6, <2>7
    <2> QED
      BY <1>4, <2>8 DEF s
  <1>5. CASE i > at
    <2>1. i \in at + 1 .. at' - 1 /\ at' # at + 1
      BY <1>1, <1>5, Numbers
    <2>2. CASE /\ Found(Steps[at].t, Steps[at].c) /\ has' = has /\ at <= K
               /\ \A k \in at + 1 .. at' - 1 : LeftOut(Steps[at], Steps[k])
      <3>1. LeftOut(Steps[at], Steps[i])
        BY <2>1, <2>2
      <3>2. Steps[i].do \in {"add", "indexIfNotExists", "adopt"}
        BY <3>1 DEF LeftOut
      <3>3. ASSUME Steps[i].do = "add" PROVE Steps[i].c \in has'[Steps[i].t]
        <4>1. Steps[i].t = Steps[at].t /\ Steps[i].c = Steps[at].c
          BY <3>1, <3>3 DEF LeftOut
        <4>2. Steps[i].t \in Table /\ Steps[i].c \in Whole(Steps[i].t) \ {"table"}
          BY <1>1, <3>3 DEF Placed
        <4>3. Steps[i].t # "model_pricing"
          BY <4>2, Tables
        <4>4. Steps[i].t = "accounts" => Steps[i].c \notin accounts
          BY <4>2, Tables DEF IInv, TypeOK
        <4> QED
          BY <2>2, <4>1, <4>3, <4>4 DEF Found
      <3> QED
        BY <3>2, <3>3
    <2>3. CASE at = K + 1 /\ at' = K + 6
      <3>1. i = K + 2 \/ i = K + 3 \/ i = K + 4 \/ i = K + 5
        BY <2>1, <2>3, Numbers
      <3> QED
        BY <3>1, ConfigLines
    <2>4. CASE at = K1 /\ at' = K2 + 1
      <3>1. i \in K1 + 1 .. K2
        BY <2>1, <2>4, Numbers
      <3> QED
        BY <3>1, LastLines
    <2>5. CASE at = K2 + 1 /\ at' = K2 + 3
      <3>1. i = K2 + 2
        BY <2>1, <2>5, Numbers
      <3> QED
        BY <3>1, LastLines
    <2> QED
      BY <1>1, <2>1, <2>2, <2>3, <2>4, <2>5 DEF Moves
  <1> QED
    BY <1>1, <1>3, <1>4, <1>5, Numbers

LEMMA TypeStep ==
    ASSUME NEW o, RunStatement(o), IInv
    PROVE  TypeOK' /\ Booleans'
  <1>1. TypeOK /\ Booleans /\ Frames
    BY Same DEF IInv
  <1>2. /\ has' \in [Table -> SUBSET UNION {Whole(t) : t \in Table}]
        /\ \A t \in Table : has'[t] \subseteq Whole(t)
    BY HasStep DEF HasOK
  <1>3. /\ row' \in [{"config", "config_new"} -> {"none", "default", "site"}]
        /\ \A t \in DOMAIN row' : row'[t] # "none" => has'[t] # {}
    BY ConfigStep DEF RowOK
  <1>4. settings' \in Seq({"default", "site"}) /\ Len(settings') <= 2 * MaxStarts + 2
    <2>1. settings' \in Seq({"default", "site"}) /\ Len(settings') <= 2 * starts + 2
      BY SettingsStep, CountedStep
    <2>2. Len(settings') \in Nat
      BY <2>1, LenProperties
    <2>3. starts \in Nat /\ MaxStarts \in Nat /\ starts <= MaxStarts
      BY <1>1, ConfigAssumption DEF TypeOK
    <2>4. 2 * starts + 2 <= 2 * MaxStarts + 2 /\ 2 * starts + 2 \in Nat /\ 2 * MaxStarts + 2 \in Nat
      BY <2>3
    <2> QED
      BY <2>1, <2>2, <2>4
  <1>5. active' \in {"none", "default", "site"}
    <2>1. CASE at = K + 16
      BY <1>1, <2>1, AtActive DEF TypeOK
    <2>2. CASE at # K + 16
      BY <1>1, <2>2 DEF TypeOK, Frames
    <2> QED
      BY <2>1, <2>2
  <1>6. accounts' \subseteq {"admin", "default"} /\ blank' \subseteq accounts'
    <2>1. accounts \subseteq accounts' /\ accounts' \subseteq accounts \cup {"admin"}
      <3>1. CASE at = K2 + 2
        BY <3>1, AtAdmin
      <3>2. CASE at # K2 + 2
        BY <1>1, <3>2 DEF Frames
      <3> QED
        BY <3>1, <3>2
    <2> QED
      BY <1>1, <2>1 DEF TypeOK, Frames
  <1>7. at' \in Down .. Serving /\ Serving' = Serving
    <2>1. MySQL' = MySQL
      BY Same
    <2> QED
      BY <2>1, MovesHold, Still DEF IInv, Schemas
  <1>8. starts' \in 0 .. MaxStarts
    BY <1>1, Same DEF TypeOK
  <1>9. faults' \in 0 .. MaxFaults
    <2>1. faults' \in {faults, faults + 1} /\ (faults' = faults \/ faults < MaxFaults)
      BY Run DEF IInv, Booleans, Schemas
    <2> QED
      BY <1>1, <2>1, ConfigAssumption DEF TypeOK
  <1>10. Booleans'
    <2>1. /\ MySQL' = MySQL /\ faulty' \in BOOLEAN /\ uncopied' \in BOOLEAN /\ cut' \in BOOLEAN
      BY Run DEF IInv, Booleans, Schemas
    <2> QED
      BY <1>1, <2>1 DEF Booleans
  <1>11. prices' \subseteq Model
    BY PricedStep
  <1> QED
    BY <1>2, <1>3, <1>4, <1>5, <1>6, <1>7, <1>8, <1>9, <1>10, <1>11 DEF TypeOK, Down

LEMMA StatementStep ==
    ASSUME NEW o, RunStatement(o), IInv
    PROVE  IInv'
  BY TypeStep, DoneStep, ReachedStep, SchemasStep, ConfigStep, KeptStep, SownStep, CountedStep,
     PricedStep DEF IInv

------------------------------------------------------------------------------
(* The other steps.                                                        *)

LEMMA BeginStep ==
    ASSUME Begin, IInv
    PROVE  IInv'
  <1>1. /\ at = 0 /\ at' = 1 /\ starts < MaxStarts /\ starts' = starts + 1 /\ faulty' = FALSE
        /\ UNCHANGED <<MySQL, release, has, row, settings, active, accounts, blank, prices,
                       faults, unprovoked, uncopied, cut>>
    BY DEF Begin, made, rows, history, Down
  <1>2. /\ K' = K /\ K1' = K1 /\ K2' = K2 /\ Steps' = Steps /\ Serving' = Serving
    BY <1>1, Still
  <1>3. /\ K \in Nat /\ K1 = K + 20 /\ K2 = K1 + Prices /\ Prices \in Nat /\ Prices >= 1
        /\ Serving = K2 + 4
    BY Sizes
  <1>4. TypeOK'
    <2>1. starts' \in 0 .. MaxStarts
      BY <1>1, ConfigAssumption DEF IInv, TypeOK
    <2>2. at' \in Down' .. Serving'
      BY <1>1, <1>2, <1>3 DEF Down
    <2> QED
      BY <1>1, <2>1, <2>2 DEF IInv, TypeOK
  <1>5. Booleans'
    BY <1>1 DEF IInv, Booleans
  <1>6. DoneSoFar'
    BY <1>1 DEF DoneSoFar
  <1>7. Reached'
    <2>1. 1 \in 1 .. K => Guarded(Before, 1) /\ Steps[1] = Before[1]
      BY EarlyLines
    <2>2. 1 \in 1 .. K => Steps[1].do # "add" /\ Steps[1].do # "indexIfNotExists"
      BY <2>1 DEF Guarded
    <2> QED
      BY <1>1, <1>2, <2>2 DEF Reached
  <1>8. Schemas'
    BY <1>1 DEF IInv, Schemas
  <1>9. /\ at' \notin K + 2 .. K + 5 /\ at' \notin K + 3 .. K + 5 /\ at' # K + 5 /\ at' # K + 4
        /\ ~(at' >= K + 6) /\ ~(at' >= K + 7) /\ ~(at' >= K + 13) /\ ~(at' >= K + 16)
        /\ ~(at' >= K + 17) /\ ~(at' >= K2 + 3) /\ at' \notin K1 + 1 .. K2 /\ ~(at' >= K2 + 1)
        /\ at' \notin K + 13 .. K + 15 /\ at' # 0
    BY <1>1, <1>3
  <1>10. Config'
    BY <1>1, <1>2, <1>9 DEF IInv, Config
  <1>11. Kept'
    BY <1>1, <1>2, <1>9 DEF IInv, Kept
  <1>12. Sown'
    BY <1>1, <1>2, <1>9 DEF IInv, Sown
  <1>13. Counted'
    <2>1. Len(settings) <= 2 * starts + 2 /\ starts \in Nat /\ Len(settings) \in Nat
      BY <1>1, ConfigAssumption, LenProperties DEF IInv, Counted, TypeOK, Down
    <2>2. starts + 1 >= 1 /\ Len(settings) <= 2 * (starts + 1)
      BY <2>1
    <2> QED
      BY <1>1, <1>2, <1>9, <2>2 DEF Counted, Down
  <1>14. Priced'
    <2>1. prices \in {{}, Model} \/ cut
      BY <1>1, <1>3 DEF IInv, Priced
    <2> QED
      BY <1>1, <1>2, <1>9, <2>1 DEF Priced, Model
  <1> QED
    BY <1>4, <1>5, <1>6, <1>7, <1>8, <1>10, <1>11, <1>12, <1>13, <1>14 DEF IInv

LEMMA CrashStep ==
    ASSUME Crash, IInv
    PROVE  IInv'
  <1>1. /\ at' = 0 /\ cut' = (cut \/ prices' \notin {{}, Model})
        /\ UNCHANGED <<MySQL, release, has, row, settings, active, accounts, blank, prices,
                       starts, faults, faulty, unprovoked, uncopied>>
    BY DEF Crash, Ended, made, rows, Down
  <1>2. /\ K' = K /\ K1' = K1 /\ K2' = K2 /\ Steps' = Steps /\ Serving' = Serving
    BY <1>1, Still
  <1>3. /\ K \in Nat /\ K1 = K + 20 /\ K2 = K1 + Prices /\ Prices \in Nat /\ Prices >= 1
        /\ Serving = K2 + 4
    BY Sizes
  <1>4. TypeOK'
    <2>1. at' \in Down' .. Serving'
      BY <1>1, <1>2, <1>3 DEF Down
    <2> QED
      BY <1>1, <2>1 DEF IInv, TypeOK
  <1>5. Booleans'
    BY <1>1 DEF IInv, Booleans
  <1>6. DoneSoFar'
    BY <1>1 DEF DoneSoFar
  <1>7. Reached'
    BY <1>1 DEF Reached
  <1>8. Schemas'
    BY <1>1 DEF IInv, Schemas
  <1>9. /\ at' \notin K + 2 .. K + 5 /\ at' \notin K + 3 .. K + 5 /\ at' # K + 5 /\ at' # K + 4
        /\ ~(at' >= K + 6) /\ ~(at' >= K + 7) /\ ~(at' >= K + 13) /\ ~(at' >= K + 16)
        /\ ~(at' >= K + 17) /\ ~(at' >= K2 + 3) /\ at' \notin K1 + 1 .. K2 /\ ~(at' >= K2 + 1)
        /\ at' \notin K + 13 .. K + 15 /\ at' \notin 1 .. K + 12
    BY <1>1, <1>3
  <1>10. Config'
    BY <1>1, <1>2, <1>9 DEF IInv, Config
  <1>11. Kept'
    BY <1>1, <1>2, <1>9 DEF IInv, Kept
  <1>12. Sown'
    BY <1>1, <1>2, <1>9 DEF IInv, Sown
  <1>13. Counted'
    <2>1. starts \in Nat /\ Len(settings) \in Nat /\ at \in Nat
      BY ConfigAssumption, LenProperties, Sizes DEF IInv, TypeOK
    <2>2. /\ at >= K + 16 \/ at = 0 => Len(settings) <= 2 * starts + 2
          /\ at \in 1 .. K + 12 => Len(settings) <= 2 * starts
          /\ at \in K + 13 .. K + 15 => Len(settings) <= 2 * starts + 1
      BY DEF IInv, Counted, Down
    <2>3. Len(settings) <= 2 * starts + 2
      <3>1. PICK m \in Nat, b \in Nat : m = Len(settings) /\ b = 2 * starts
        BY <2>1
      <3>2. m <= b + 2
        BY <1>3, <2>1, <2>2, <3>1
      <3> QED
        BY <3>1, <3>2
    <2> QED
      BY <1>1, <1>2, <1>9, <2>3 DEF Counted, Down
  <1>14. Priced'
    <2>1. prices \in {{}, Model} \/ cut'
      BY <1>1
    <2> QED
      BY <1>1, <1>2, <1>9, <2>1 DEF Priced, Model
  <1> QED
    BY <1>4, <1>5, <1>6, <1>7, <1>8, <1>10, <1>11, <1>12, <1>13, <1>14 DEF IInv

LEMMA Stutter ==
    ASSUME UNCHANGED vars, IInv
    PROVE  IInv'
  <1>1. UNCHANGED <<MySQL, release, has, row, settings, active, accounts, blank, prices, at,
                    starts, faults, faulty, unprovoked, uncopied, cut>>
    BY DEF vars, made, rows, history
  <1>2. /\ K' = K /\ K1' = K1 /\ K2' = K2 /\ Steps' = Steps /\ Serving' = Serving
    BY <1>1, Still
  <1>3. TypeOK' /\ Booleans' /\ Schemas'
    BY <1>1, <1>2 DEF IInv, TypeOK, Booleans, Schemas
  <1>4. DoneSoFar'
    BY <1>1, <1>2 DEF IInv, DoneSoFar, Done
  <1>5. Reached' /\ Config'
    BY <1>1, <1>2 DEF IInv, Reached, Config
  <1>6. Kept' /\ Sown'
    BY <1>1, <1>2 DEF IInv, Kept, Sown
  <1>7. Counted' /\ Priced'
    BY <1>1, <1>2 DEF IInv, Counted, Priced
  <1> QED
    BY <1>3, <1>4, <1>5, <1>6, <1>7 DEF IInv

LEMMA AtFirst ==
    ASSUME Init
    PROVE  IInv
  <1>1. /\ K \in Nat /\ K1 = K + 20 /\ K2 = K1 + Prices /\ Prices \in Nat /\ Prices >= 1
        /\ Serving = K2 + 4 /\ at = 0 /\ starts = 0 /\ MaxStarts \in Nat /\ MaxFaults \in Nat
    BY Sizes, ConfigAssumption DEF Init, Down
  <1>2. /\ at \notin 1 .. K /\ at \notin K + 2 .. K + 5 /\ at \notin K + 3 .. K + 5 /\ at # K + 5
        /\ at # K + 4 /\ ~(at >= K + 6) /\ ~(at >= K + 7) /\ ~(at >= K + 13) /\ ~(at >= K + 16)
        /\ ~(at >= K + 17) /\ ~(at >= K2 + 3) /\ at \notin K1 + 1 .. K2 /\ ~(at >= K2 + 1)
        /\ at \notin K + 13 .. K + 15 /\ at \notin 1 .. K + 12
    BY <1>1
  <1>3. /\ DOMAIN has = Table
        /\ \A t \in Table : has[t] \subseteq Whole(t) /\ (has[t] # {} => "table" \in has[t])
        /\ has["config_new"] = {} /\ (release # "none" => has["config"] # {})
        /\ release # "single" /\ has["nodes"] # {} => "account_id" \in has["nodes"]
    <2>1. has = Schema(release) /\ release \in {"none", "single", "early", "this"}
      BY DEF Init
    <2>2. CASE release = "none"
      BY <2>1, <2>2, Tables DEF Schema
    <2>3. CASE release = "single"
      BY <2>1, <2>3, Tables DEF Schema
    <2>4. CASE release = "this"
      <3>1. DOMAIN has = Table /\ has["config_new"] = {}
        BY <2>1, <2>4, Tables DEF Schema
      <3>2. \A t \in Table \ {"config_new"} : has[t] = Whole(t)
        BY <2>1, <2>4 DEF Schema
      <3>3. "config" \in Table /\ "nodes" \in Table /\ "account_id" \in Whole("nodes")
        BY Tables
      <3> QED
        BY <3>1, <3>2, <3>3, CreatedWhole
    <2>5. CASE release = "early"
      <3>1. has["nodes"] = {"table", "disabled", "account_id", "index"}
        BY <2>1, <2>5, Tables DEF Schema
      <3>2. has["config"] = {"table", "account_id"} /\ has["config_new"] = {}
        <4>1. "config" \in Table /\ "config_new" \in Table /\ Whole("config") = {"table", "account_id"}
          BY Tables
        <4> QED
          BY <2>1, <2>5, <4>1 DEF Schema
      <3>3. \A t \in Table \ {"nodes", "config"} : has[t] \in {{}, {"table"}}
        BY <2>1, <2>5, Tables DEF Schema
      <3>4. DOMAIN has = Table
        BY <2>1 DEF Schema
      <3>5. \A t \in Table : has[t] \subseteq Whole(t) /\ (has[t] # {} => "table" \in has[t])
        BY <3>1, <3>2, <3>3, Tables, CreatedWhole
      <3> QED
        BY <3>1, <3>2, <3>4, <3>5
    <2> QED
      BY <2>1, <2>2, <2>3, <2>4, <2>5
  <1>4. has \in [Table -> SUBSET UNION {Whole(t) : t \in Table}]
    <2>1. has = [t \in Table |-> has[t]]
      BY DEF Init, Schema
    <2>2. \A t \in Table : has[t] \in SUBSET UNION {Whole(u) : u \in Table}
      BY <1>3, CreatedWhole
    <2> QED
      BY <2>1, <2>2
  <1>5. /\ row = [config |-> IF release = "none" THEN "none" ELSE "site", config_new |-> "none"]
        /\ row \in [{"config", "config_new"} -> {"none", "default", "site"}]
        /\ \A t \in DOMAIN row : row[t] # "none" => has[t] # {}
    BY <1>3 DEF Init
  <1>6. settings \in Seq({"default", "site"}) /\ (Len(settings) = 0 \/ Len(settings) = 2)
    <2>1. settings = <<"default", "site">> \/ settings = << >>
      BY DEF Init
    <2>2. <<"default", "site">> \in Seq({"default", "site"}) /\ Len(<<"default", "site">>) = 2
      OBVIOUS
    <2>3. << >> \in Seq({"default", "site"}) /\ Len(<< >>) = 0
      BY EmptySeq
    <2> QED
      BY <2>1, <2>2, <2>3
  <1>7. /\ active \in {"none", "site"} /\ prices \in {{}, Model}
        /\ accounts \subseteq {"admin", "default"} /\ blank \subseteq accounts
        /\ faults = 0 /\ unprovoked = 0 /\ Booleans
    BY DEF Init, Booleans
  <1>8. TypeOK
    <2>1. at \in Down .. Serving /\ starts \in 0 .. MaxStarts /\ faults \in 0 .. MaxFaults
      BY <1>1, <1>7 DEF Down
    <2>4. 0 <= 2 * MaxStarts + 2 /\ 2 <= 2 * MaxStarts + 2
      BY <1>1
    <2>2. Len(settings) <= 2 * MaxStarts + 2 /\ prices \subseteq Model
      BY <1>6, <1>7, <2>4
    <2>3. active \in {"none", "default", "site"}
      BY <1>7
    <2> QED
      BY <1>3, <1>4, <1>5, <1>6, <1>7, <2>1, <2>2, <2>3 DEF TypeOK
  <1>9. DoneSoFar /\ Reached
    BY <1>1, <1>2 DEF DoneSoFar, Reached
  <1>10. Schemas
    BY <1>3, <1>7 DEF Schemas
  <1>11. Config
    BY <1>2, <1>3 DEF Config
  <1>12. Kept
    BY <1>2, <1>5, <1>7 DEF Kept
  <1>13. Sown
    BY <1>2 DEF Sown
  <1>14. Counted
    <2>2. PICK m \in Nat, n \in Nat : m = Len(settings) /\ n = starts
      BY <1>1, <1>6
    <2>3. m <= 2 /\ n = 0
      BY <1>1, <1>6, <2>2
    <2>4. m <= 2 * n + 2
      BY <2>3
    <2>1. Len(settings) <= 2 * starts + 2
      BY <2>2, <2>4
    <2> QED
      BY <1>1, <1>2, <2>1 DEF Counted, Down
  <1>15. Priced
    BY <1>2, <1>7 DEF Priced
  <1> QED
    BY <1>7, <1>8, <1>9, <1>10, <1>11, <1>12, <1>13, <1>14, <1>15 DEF IInv

------------------------------------------------------------------------------
(* The theorems.                                                           *)

(* The invariant holds, whichever release made the database, however many  *)
(* starts are cut short and wherever.                                      *)
THEOREM Invariant == Spec => []IInv
  <1>1. Init => IInv
    BY AtFirst
  <1>2. IInv /\ [Next]_vars => IInv'
    BY BeginStep, StatementStep, CrashStep, Stutter DEF Next
  <1> QED
    BY <1>1, <1>2, PTL DEF Spec

(* The schema, the rows and the place of a start keep their types: no      *)
(* statement makes a column a table does not have, and a row of either     *)
(* configuration table is there only while the table is.                   *)
THEOREM TypeCorrect == Spec => []TypeOK
  <1>1. IInv => TypeOK
    BY DEF IInv
  <1> QED
    BY <1>1, Invariant, PTL

(* What the site had configured is never lost to the table being dropped   *)
(* and made again (EnsureConfigTable), wherever a start ends.              *)
THEOREM ConfigurationKept == Spec => []NothingLost
  <1>1. IInv => NothingLost
    <2> SUFFICES ASSUME IInv, release # "none", ~uncopied
                 PROVE  /\ "site" \in {row.config, row.config_new}
                        /\ at = Serving => /\ row.config = "site" /\ active = "site"
                                           /\ \E i \in DOMAIN settings : settings[i] = "site"
      BY DEF NothingLost
    <2>1. at = Serving => at >= K + 6 /\ at >= K + 16 /\ at >= K + 17
      BY Sizes
    <2> QED
      BY <2>1 DEF IInv, Kept, Sown
  <1> QED
    BY <1>1, Invariant, PTL

(* A start that meets no fault serves, whatever the starts before it left; *)
(* but for one, when a database of one tenant is upgraded on MySQL.        *)
THEOREM StartsWithoutFault == Spec => []StartsAgain
  <1>1. IInv => StartsAgain
    BY DEF IInv, Schemas, StartsAgain
  <1> QED
    BY <1>1, Invariant, PTL

(* A server that serves has all a start makes and seeds.                   *)
THEOREM CompleteWhenServing == Spec => []ServesComplete
  <1>1. IInv => ServesComplete
    <2> SUFFICES ASSUME IInv, at = Serving
                 PROVE  /\ \A t \in Table \ {"config_new"} : Whole(t) \ Indexes \subseteq has[t]
                        /\ has.config_new = {}
                        /\ row.config # "none" /\ active # "none"
                        /\ \E i \in DOMAIN settings : settings[i] = "default"
                        /\ "admin" \in accounts /\ blank = {}
                        /\ prices = Model \/ (cut /\ prices # {})
      BY DEF ServesComplete
    <2>1. /\ at >= K + 1 /\ at >= K + 6 /\ at >= K + 7 /\ at >= K + 13 /\ at >= K + 17
          /\ at >= K2 + 1 /\ at >= K2 + 3
      BY Sizes
    <2>2. ASSUME NEW t \in LateTable PROVE "table" \in has[t]
      <3>1. PICK i \in (K + 7 .. K + 11) \cup (K + 17 .. K + 19) : Steps[i] = Create(t)
        BY LateCreated
      <3>2. i \in 1 .. at - 1
        BY Sizes
      <3>3. Done(Steps[i]) /\ t \notin {"config", "config_new"}
        BY <3>2 DEF IInv, DoneSoFar, LateTable
      <3> QED
        BY <3>1, <3>3 DEF Done
    <2>3. \A t \in EarlyTable : Whole(t) \ Indexes \subseteq has[t]
      BY <2>1, AllDone
    <2>4. Whole("config") \subseteq has["config"]
      BY <2>1, Tables DEF IInv, Config, Schemas
    <2>5. \A t \in Table \ {"config_new"} : Whole(t) \ Indexes \subseteq has[t]
      <3>1. Table \ {"config_new"} \subseteq EarlyTable \cup LateTable \cup {"config"}
        BY Tables DEF EarlyTable, LateTable
      <3>2. \A t \in LateTable : t \in EarlyTable \/ Whole(t) = {"table"}
        BY Tables DEF LateTable, EarlyTable
      <3> QED
        BY <2>2, <2>3, <2>4, <3>1, <3>2
    <2>6. has.config_new = {} /\ row.config # "none"
      BY <2>1 DEF IInv, Config
    <2> QED
      BY <2>1, <2>5, <2>6, AllDone DEF IInv, Sown, Priced
  <1> QED
    BY <1>1, Invariant, PTL

================================================================================

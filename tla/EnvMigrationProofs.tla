------------------------- MODULE EnvMigrationProofs -------------------------
(***************************************************************************)
(* What module EnvMigration promises for any .env files, any of their old   *)
(* keys on odd lines, and any number of kills.                              *)
(***************************************************************************)
EXTENDS EnvMigration, SequenceTheorems, TLAPS

(* The places between two edits of .env, and those that come after one *)
Edited == {"class", "dropClass", "backend", "enabled", "dropEnabled", "retention", "dropDays",
           "record"}
Edits == {"overlay"} \cup Edited

(* What COMPOSE_FILE lists *)
Overlay == STRING \cup {BASE_FILE, GRAFANA}

(* An .env as its readers need it *)
Mapping(e) == e = [k \in DOMAIN e |-> e[k]]

WellFormed(e) ==
    /\ Mapping(e)
    /\ DOMAIN e \subseteq Keys
    /\ Holds(e, COMPOSE_FILE) => e[COMPOSE_FILE] \in Seq(Overlay)
    /\ Holds(e, OLD_DAYS) => WithUnit(e[OLD_DAYS]) # Blank

(* The operator's settings, of which .env may be a truncated copy just now *)
Settings == IF pc = "idle" THEN disk ELSE mem

(* 0003 gets from them where it would get from the first .env, unless they   *)
(* are lost; then even what 0003 passes through is                          *)
Kept ==
    /\ WellFormed(Settings)
    /\ torn <=> ~Holds(Settings, REST)
    /\ ~torn => Migrated(Settings) = Migrated(first)
    /\ pc # "idle" => disk = mem \/ (disk = Nothing /\ pc \in Edited)

(* A snapshot is older than the record, and good unless its .env was lost;   *)
(* there is a good one when .env may be lost                                 *)
Snapshots ==
    /\ \A s \in snaps :
         /\ ~s.recorded
         /\ WellFormed(s.env)
         /\ Holds(s.env, REST) => Migrated(s.env) = Migrated(first)
    /\ torn \/ pc \in Edits => \E s \in snaps : Holds(s.env, REST)

(* What the edits so far have achieved *)
Reached ==
    /\ recorded => pc \notin Edits
    /\ pc \in Edited => ~LacksGrafana(FilesOf(mem))
    /\ pc = "dropClass" => ~IsOptimized(mem) \/ IsSet(mem, LOG_CLASS)
    /\ pc \in Edited \ {"class", "dropClass"} => ~Holds(mem, OLD_CLASS)
    /\ pc \in Edited \ {"class", "dropClass", "backend"} => IsSet(mem, LOG_BACKEND)
    /\ pc = "dropEnabled" => EnabledAfter(mem) = NEW_ENABLED
    /\ pc \in {"retention", "dropDays", "record"} => ~Holds(mem, OLD_ENABLED)
    /\ pc \in {"dropDays", "record"} /\ ~IsSet(mem, RETENTION) =>
           ~IsSet(mem, OLD_DAYS) /\ ~CmsOn(mem, NEW_ENABLED)
    /\ pc = "record" => ~Holds(mem, OLD_DAYS)

Finished == recorded /\ ~torn => Settings = Migrated(first)

(* What render has to leave for the .env that 0003 leaves *)
Rendered(e) ==
    IF Has(FilesOf(e), GRAFANA)
      THEN [grafana |-> TRUE, source |-> DataSource(LogBackend(e, FilesOf(e)), FilesOf(e))]
      ELSE NoGrafana

(* The Scenario from before 0003 decides about Grafana and the store as one  *)
(* from after it would                                                       *)
Foresees(fs) ==
    /\ RunsGrafana(fs) <=> Has(FilesOf(Migrated(first)), GRAFANA)
    /\ Has(fs, LOGS) <=> Has(FilesOf(Migrated(first)), LOGS)

Started ==
    /\ cmd = "up" /\ pc # "check" => ~torn
    /\ pc \in {"render", "compose"} => cmd = "up" /\ recorded
    /\ pc # "idle" /\ ~torn => Foresees(files)
    /\ pc = "compose" => generated = Rendered(Migrated(first))
    /\ DOMAIN stack # {} =>
           stack = Migrated(first) /\ generated = Rendered(Migrated(first))

EInv == TypeOK /\ Kept /\ Snapshots /\ Reached /\ Finished /\ Started
-----------------------------------------------------------------------------
(* Grafana's overlay comes right before that of the metrics; all other stay  *)
LEMMA GrafanaInserted ==
    ASSUME NEW fs \in Seq(Overlay), Has(fs, METRICS)
    PROVE  /\ WithGrafana(fs) \in Seq(Overlay)
           /\ \A f : Has(WithGrafana(fs), f) <=> f = GRAFANA \/ Has(fs, f)
           /\ \E i, j \in DOMAIN WithGrafana(fs) :
                 i < j /\ WithGrafana(fs)[i] = GRAFANA /\ WithGrafana(fs)[j] = METRICS
<1> DEFINE m == CHOOSE i \in DOMAIN fs : fs[i] = METRICS
           ws == WithGrafana(fs)
<1>1. m \in 1..Len(fs) /\ fs[m] = METRICS
  BY DEF Has, Contains
<1> HIDE DEF m
<1>2. /\ SubSeq(fs, 1, m - 1) \in Seq(Overlay) /\ Len(SubSeq(fs, 1, m - 1)) = m - 1
      /\ \A i \in 1..(m - 1) : SubSeq(fs, 1, m - 1)[i] = fs[i]
  BY <1>1
<1>3. /\ SubSeq(fs, m, Len(fs)) \in Seq(Overlay) /\ Len(SubSeq(fs, m, Len(fs))) = Len(fs) - m + 1
      /\ \A i \in 1..(Len(fs) - m + 1) : SubSeq(fs, m, Len(fs))[i] = fs[m + i - 1]
  BY <1>1
<1> DEFINE front == SubSeq(fs, 1, m - 1)
           back == SubSeq(fs, m, Len(fs))
           head == front \o <<GRAFANA>>
<1>4. ws = head \o back
  BY DEF WithGrafana, m
<1> HIDE DEF ws, front, back
<1>5. /\ head \in Seq(Overlay) /\ Len(head) = m
      /\ head[m] = GRAFANA
      /\ \A i \in 1..(m - 1) : head[i] = fs[i]
  <2>1. front \in Seq(Overlay) /\ Len(front) = m - 1 /\ \A i \in 1..(m - 1) : front[i] = fs[i]
    BY <1>2 DEF front
  <2>2. /\ <<GRAFANA>> \in Seq(Overlay) /\ Len(<<GRAFANA>>) = 1 /\ <<GRAFANA>>[1] = GRAFANA
        /\ m \in Nat \ {0}
    <3>1. GRAFANA \in Overlay
      BY DEF Overlay
    <3>2. <<GRAFANA>> \in Seq(Overlay) /\ Len(<<GRAFANA>>) = 1 /\ <<GRAFANA>>[1] = GRAFANA
      BY ONLY <3>1
    <3>3. m \in Nat \ {0}
      BY <1>1
    <3> QED
      BY <3>2, <3>3
  <2>3. /\ head \in Seq(Overlay) /\ Len(head) = Len(front) + Len(<<GRAFANA>>)
        /\ \A i \in 1..(Len(front) + Len(<<GRAFANA>>)) :
             head[i] = IF i <= Len(front) THEN front[i] ELSE <<GRAFANA>>[i - Len(front)]
    <3> HIDE DEF front
    <3> QED
      BY <2>1, <2>2, ConcatProperties
  <2> HIDE DEF head, front
  <2>4. Len(head) = m /\ head[m] = <<GRAFANA>>[m - Len(front)] /\ m - Len(front) = 1
    BY <2>1, <2>2, <2>3
  <2>5. head[m] = GRAFANA
    BY <2>2, <2>4
  <2>6. ASSUME NEW i \in 1..(m - 1) PROVE head[i] = fs[i]
    <3>1. i \in 1..(Len(front) + Len(<<GRAFANA>>)) /\ i <= Len(front)
      BY <2>1, <2>2
    <3> QED
      BY <2>1, <2>3, <3>1
  <2> QED
    BY <2>3, <2>4, <2>5, <2>6
<1> HIDE DEF head
<1>6. /\ ws \in Seq(Overlay) /\ Len(ws) = Len(fs) + 1
      /\ \A i \in 1..m : ws[i] = head[i]
      /\ \A i \in (m + 1)..(Len(fs) + 1) : ws[i] = back[i - m]
  <2>1. back \in Seq(Overlay) /\ Len(back) = Len(fs) - m + 1
    BY <1>3 DEF back
  <2>2. /\ ws \in Seq(Overlay) /\ Len(ws) = Len(head) + Len(back)
        /\ \A i \in 1..(Len(head) + Len(back)) :
             ws[i] = IF i <= Len(head) THEN head[i] ELSE back[i - Len(head)]
    BY <1>4, <1>5, <2>1, ConcatProperties
  <2>3. Len(head) + Len(back) = Len(fs) + 1 /\ Len(head) = m
    BY <1>1, <1>5, <2>1
  <2>4. \A i \in 1..m : i \in 1..(Len(fs) + 1) /\ i <= m
    BY <1>1
  <2>5. \A i \in (m + 1)..(Len(fs) + 1) : i \in 1..(Len(fs) + 1) /\ ~(i <= m)
    BY <1>1
  <2> QED
    BY <2>2, <2>3, <2>4, <2>5
<1>7. \A i \in (m + 1)..(Len(fs) + 1) : ws[i] = fs[i - 1]
  <2> SUFFICES ASSUME NEW i \in (m + 1)..(Len(fs) + 1) PROVE ws[i] = fs[i - 1]
    OBVIOUS
  <2>1. i - m \in 1..(Len(fs) - m + 1) /\ m + (i - m) - 1 = i - 1
    BY <1>1
  <2>2. back[i - m] = fs[m + (i - m) - 1]
    BY <1>3, <2>1 DEF back
  <2> QED
    BY <1>6, <2>1, <2>2
<1>8. ASSUME NEW f PROVE Has(ws, f) <=> f = GRAFANA \/ Has(fs, f)
  <2>1. ASSUME Has(ws, f) PROVE f = GRAFANA \/ Has(fs, f)
    <3>1. PICK i \in 1..(Len(fs) + 1) : ws[i] = f
      BY <1>6, <2>1 DEF Has, Contains
    <3>2. CASE i < m
      BY <1>1, <1>5, <1>6, <3>1, <3>2 DEF Has, Contains
    <3>3. CASE i = m
      BY <1>1, <1>5, <1>6, <3>1, <3>3
    <3>4. CASE i > m
      <4>1. i - 1 \in 1..Len(fs) /\ fs[i - 1] = f
        BY <1>1, <1>7, <3>1, <3>4
      <4> QED
        BY <4>1 DEF Has, Contains
    <3> QED
      BY <1>1, <3>2, <3>3, <3>4
  <2>2. ASSUME f = GRAFANA PROVE Has(ws, f)
    <3>1. m \in 1..Len(ws) /\ ws[m] = f
      BY <1>1, <1>5, <1>6, <2>2
    <3> QED
      BY <3>1 DEF Has, Contains
  <2>3. ASSUME Has(fs, f) PROVE Has(ws, f)
    <3>1. PICK i \in 1..Len(fs) : fs[i] = f
      BY <2>3 DEF Has, Contains
    <3>2. CASE i < m
      <4>1. i \in 1..Len(ws) /\ ws[i] = f
        BY <1>1, <1>5, <1>6, <3>1, <3>2
      <4> QED
        BY <4>1 DEF Has, Contains
    <3>3. CASE i >= m
      <4>1. i + 1 \in 1..Len(ws) /\ ws[i + 1] = f
        BY <1>1, <1>6, <1>7, <3>1, <3>3
      <4> QED
        BY <4>1 DEF Has, Contains
    <3> QED
      BY <1>1, <3>2, <3>3
  <2> QED
    BY <2>1, <2>2, <2>3
<1>9. m \in DOMAIN ws /\ m + 1 \in DOMAIN ws /\ ws[m] = GRAFANA /\ ws[m + 1] = METRICS /\ m < m + 1
  BY <1>1, <1>5, <1>6, <1>7
<1> QED
  BY <1>6, <1>8, <1>9 DEF ws

(* A key as docker compose reads it *)
Plain(e, k) == IF Holds(e, k) THEN e[k] ELSE Blank

(* NewValue key by key *)
LEMMA NewValues ==
    ASSUME NEW e
    PROVE  /\ NewValue(e, COMPOSE_FILE) = IF LacksGrafana(FilesOf(e)) THEN WithGrafana(FilesOf(e))
                                          ELSE Plain(e, COMPOSE_FILE)
           /\ NewValue(e, LOG_CLASS) = IF ~IsSet(e, LOG_CLASS) /\ IsOptimized(e) THEN Optimized
                                       ELSE Plain(e, LOG_CLASS)
           /\ NewValue(e, LOG_BACKEND) = IF ~IsSet(e, LOG_BACKEND) THEN "db" ELSE Plain(e, LOG_BACKEND)
           /\ NewValue(e, NEW_ENABLED) = IF EnabledAfter(e) = OLD_ENABLED THEN e[OLD_ENABLED]
                                         ELSE Plain(e, NEW_ENABLED)
           /\ NewValue(e, RETENTION) =
                IF IsSet(e, RETENTION) THEN Plain(e, RETENTION)
                ELSE IF IsSet(e, OLD_DAYS) THEN WithUnit(e[OLD_DAYS])
                ELSE IF CmsOn(e, EnabledAfter(e)) THEN "90d" ELSE Plain(e, RETENTION)
           /\ NewValue(e, LOG_URL) = Plain(e, LOG_URL)
           /\ NewValue(e, REST) = Plain(e, REST)
<1> USE DEF NewValue, Plain, COMPOSE_FILE, LOG_CLASS, LOG_BACKEND, NEW_ENABLED, RETENTION, LOG_URL, REST
<1>1. NewValue(e, COMPOSE_FILE) = IF LacksGrafana(FilesOf(e)) THEN WithGrafana(FilesOf(e))
                                  ELSE Plain(e, COMPOSE_FILE)
  OBVIOUS
<1>2. NewValue(e, LOG_CLASS) = IF ~IsSet(e, LOG_CLASS) /\ IsOptimized(e) THEN Optimized
                               ELSE Plain(e, LOG_CLASS)
  OBVIOUS
<1>3. NewValue(e, LOG_BACKEND) = IF ~IsSet(e, LOG_BACKEND) THEN "db" ELSE Plain(e, LOG_BACKEND)
  OBVIOUS
<1>4. NewValue(e, NEW_ENABLED) = IF EnabledAfter(e) = OLD_ENABLED THEN e[OLD_ENABLED]
                                 ELSE Plain(e, NEW_ENABLED)
  OBVIOUS
<1>5. NewValue(e, RETENTION) =
        IF IsSet(e, RETENTION) THEN Plain(e, RETENTION)
        ELSE IF IsSet(e, OLD_DAYS) THEN WithUnit(e[OLD_DAYS])
        ELSE IF CmsOn(e, EnabledAfter(e)) THEN "90d" ELSE Plain(e, RETENTION)
  OBVIOUS
<1>6. NewValue(e, LOG_URL) = Plain(e, LOG_URL) /\ NewValue(e, REST) = Plain(e, REST)
  OBVIOUS
<1> QED
  BY <1>1, <1>2, <1>3, <1>4, <1>5, <1>6

(* The keys 0003 leaves *)
LEMMA NewKeys ==
    /\ Keys \ OldKeys = {COMPOSE_FILE, LOG_CLASS, LOG_BACKEND, LOG_URL, NEW_ENABLED, RETENTION, REST}
    /\ OldKeys = {OLD_CLASS, OLD_ENABLED, OLD_DAYS}
    /\ OldKeys \subseteq Keys
    /\ OLD_CLASS # OLD_ENABLED /\ OLD_CLASS # OLD_DAYS /\ OLD_ENABLED # OLD_DAYS
BY DEF Keys, OldKeys, COMPOSE_FILE, LOG_CLASS, LOG_BACKEND, LOG_URL, NEW_ENABLED, RETENTION, REST,
       OLD_CLASS, OLD_ENABLED, OLD_DAYS

(* No two of the keys are the same *)
LEMMA Distinct ==
    /\ COMPOSE_FILE \notin {LOG_CLASS, LOG_BACKEND, NEW_ENABLED, RETENTION, REST} \cup OldKeys
    /\ LOG_CLASS \notin {LOG_BACKEND, NEW_ENABLED, RETENTION, REST} \cup OldKeys
    /\ LOG_BACKEND \notin {NEW_ENABLED, RETENTION, REST} \cup OldKeys
    /\ NEW_ENABLED \notin {RETENTION, REST} \cup OldKeys
    /\ RETENTION \notin {REST} \cup OldKeys
    /\ REST \notin OldKeys
BY DEF OldKeys, COMPOSE_FILE, LOG_CLASS, LOG_BACKEND, NEW_ENABLED, RETENTION, REST,
       OLD_CLASS, OLD_ENABLED, OLD_DAYS

(* Migrated, without its definition *)
LEMMA MigratedIs ==
    ASSUME NEW e
    PROVE  /\ Mapping(Migrated(e))
           /\ DOMAIN Migrated(e) = {k \in Keys \ OldKeys : Holds(e, k) \/ NewValue(e, k) # Blank}
           /\ \A k \in DOMAIN Migrated(e) : Migrated(e)[k] = NewValue(e, k)
BY DEF Migrated, Mapping

(* What 0003 makes of an .env depends on these values only *)
LEMMA SameMigrated ==
    ASSUME NEW e, NEW f,
           \A k \in Keys \ OldKeys :
               /\ NewValue(f, k) = NewValue(e, k)
               /\ Holds(f, k) \/ NewValue(f, k) # Blank <=> Holds(e, k) \/ NewValue(e, k) # Blank
    PROVE  Migrated(f) = Migrated(e)
<1>1. DOMAIN Migrated(f) = DOMAIN Migrated(e)
  BY MigratedIs
<1>2. ASSUME NEW k \in DOMAIN Migrated(f) PROVE Migrated(f)[k] = Migrated(e)[k]
  <2>1. k \in Keys \ OldKeys
    BY MigratedIs
  <2>2. Migrated(f)[k] = NewValue(f, k) /\ Migrated(e)[k] = NewValue(e, k)
    BY <1>1, MigratedIs
  <2> QED
    BY <2>1, <2>2
<1>3. /\ Migrated(e) = [k \in DOMAIN Migrated(e) |-> Migrated(e)[k]]
      /\ Migrated(f) = [k \in DOMAIN Migrated(f) |-> Migrated(f)[k]]
  BY MigratedIs DEF Mapping
<1> HIDE DEF Migrated
<1> QED
  BY <1>1, <1>2, <1>3, Zenon

(* set_key *)
LEMMA SetDoes ==
    ASSUME NEW e, NEW k, NEW v
    PROVE  /\ DOMAIN SetKey(e, k, v) = DOMAIN e \cup {k}
           /\ SetKey(e, k, v)[k] = v
           /\ \A j \in DOMAIN e : j # k => SetKey(e, k, v)[j] = e[j]
           /\ Mapping(SetKey(e, k, v))
BY DEF SetKey, Mapping

(* unset_key *)
LEMMA UnsetDoes ==
    ASSUME NEW e, NEW k
    PROVE  /\ DOMAIN UnsetKey(e, k) = DOMAIN e \ {k}
           /\ \A j \in DOMAIN e : j # k => UnsetKey(e, k)[j] = e[j]
           /\ Mapping(UnsetKey(e, k))
BY DEF UnsetKey, Mapping

(* f is as good a file for 0003 to go on with as e *)
Keeps(e, f) ==
    /\ WellFormed(f)
    /\ Holds(f, REST) <=> Holds(e, REST)
    /\ Migrated(f) = Migrated(e)

(* e and f differ in k at most *)
Alike(e, f, k) ==
    \A j \in Keys \ {k} : (Holds(f, j) <=> Holds(e, j)) /\ (Holds(e, j) => f[j] = e[j])

(* A write changes the key it is for *)
LEMMA ChangesAreLocal ==
    ASSUME NEW e, NEW k \in Keys, NEW v, DOMAIN e \subseteq Keys
    PROVE  Alike(e, SetKey(e, k, v), k) /\ Alike(e, UnsetKey(e, k), k)
<1>1. ASSUME NEW j \in Keys \ {k}
      PROVE  /\ Holds(SetKey(e, k, v), j) <=> Holds(e, j)
             /\ Holds(e, j) => SetKey(e, k, v)[j] = e[j]
  BY DEF Holds, SetKey, UnsetKey
<1>2. ASSUME NEW j \in Keys \ {k}
      PROVE  /\ Holds(UnsetKey(e, k), j) <=> Holds(e, j)
             /\ Holds(e, j) => UnsetKey(e, k)[j] = e[j]
  BY DEF Holds, SetKey, UnsetKey
<1> QED
  BY <1>1, <1>2 DEF Alike

(* ... so what is read from the other keys is the same *)
LEMMA ReadAlike ==
    ASSUME NEW e, NEW f, NEW k, Alike(e, f, k)
    PROVE  /\ \A j \in Keys \ {k} :
                /\ IsSet(f, j) <=> IsSet(e, j)
                /\ Plain(f, j) = Plain(e, j)
                /\ CmsOn(f, j) <=> CmsOn(e, j)
           /\ k # COMPOSE_FILE => FilesOf(f) = FilesOf(e)
           /\ k # OLD_CLASS => (IsOptimized(f) <=> IsOptimized(e))
           /\ k \notin {OLD_ENABLED, NEW_ENABLED} =>
                /\ EnabledAfter(f) = EnabledAfter(e)
                /\ CmsOn(f, EnabledAfter(f)) <=> CmsOn(e, EnabledAfter(e))
<1>1. {COMPOSE_FILE, OLD_CLASS, OLD_ENABLED, NEW_ENABLED} \subseteq Keys
  BY DEF Keys, OldKeys
<1>2. ASSUME NEW j \in Keys \ {k}
      PROVE  /\ IsSet(f, j) <=> IsSet(e, j)
             /\ Plain(f, j) = Plain(e, j)
             /\ CmsOn(f, j) <=> CmsOn(e, j)
  BY <1>2 DEF Alike, IsSet, Plain, CmsOn
<1>3. k # COMPOSE_FILE => FilesOf(f) = FilesOf(e)
  BY <1>1 DEF Alike, FilesOf
<1>4. k # OLD_CLASS => (IsOptimized(f) <=> IsOptimized(e))
  BY <1>1 DEF Alike, IsOptimized
<1>5. k \notin {OLD_ENABLED, NEW_ENABLED} =>
        /\ EnabledAfter(f) = EnabledAfter(e)
        /\ CmsOn(f, EnabledAfter(f)) <=> CmsOn(e, EnabledAfter(e))
  BY <1>1, <1>2 DEF EnabledAfter
<1> QED
  BY <1>2, <1>3, <1>4, <1>5

(* A key set to what 0003 is to make of it *)
LEMMA SetKeeps ==
    ASSUME NEW e, WellFormed(e), NEW k \in Keys \ (OldKeys \cup {REST}), NEW v,
           k = COMPOSE_FILE => v \in Seq(Overlay) /\ Holds(e, k),
           k # COMPOSE_FILE => v # Blank,
           v = NewValue(e, k),
           \A j \in Keys \ OldKeys : NewValue(SetKey(e, k, v), j) = NewValue(e, j)
    PROVE  Keeps(e, SetKey(e, k, v))
<1> DEFINE f == SetKey(e, k, v)
<1>1. /\ DOMAIN f = DOMAIN e \cup {k} /\ f[k] = v
      /\ \A j \in DOMAIN e : j # k => f[j] = e[j]
      /\ Mapping(f)
  <2>1. DOMAIN f = DOMAIN e \cup {k}
    BY SetDoes
  <2>2. f[k] = v
    BY DEF SetKey
  <2>3. \A j \in DOMAIN e : j # k => f[j] = e[j]
    BY DEF SetKey
  <2>4. Mapping(f)
    BY SetDoes
  <2> QED
    BY <2>1, <2>2, <2>3, <2>4
<1> HIDE DEF f
<1>2. /\ Holds(f, REST) <=> Holds(e, REST)
      /\ k # OLD_DAYS /\ OLD_DAYS \in OldKeys /\ REST # k
  BY <1>1, NewKeys DEF Holds
<1>3. WellFormed(f)
  <2>1. DOMAIN f \subseteq Keys
    BY <1>1 DEF WellFormed
  <2>2. Holds(f, COMPOSE_FILE) => f[COMPOSE_FILE] \in Seq(Overlay)
    BY <1>1 DEF WellFormed, Holds
  <2>3. Holds(f, OLD_DAYS) => WithUnit(f[OLD_DAYS]) # Blank
    BY <1>1, <1>2 DEF WellFormed, Holds
  <2> QED
    BY <1>1, <2>1, <2>2, <2>3 DEF WellFormed
<1>4. ASSUME NEW j \in Keys \ OldKeys
      PROVE  /\ NewValue(f, j) = NewValue(e, j)
             /\ Holds(f, j) \/ NewValue(f, j) # Blank <=> Holds(e, j) \/ NewValue(e, j) # Blank
  <2>1. NewValue(f, j) = NewValue(e, j)
    BY DEF f
  <2>2. j # k => (Holds(f, j) <=> Holds(e, j))
    BY <1>1 DEF Holds
  <2>3. j = k => Holds(f, j) /\ (Holds(e, j) \/ NewValue(e, j) # Blank)
    BY <1>1 DEF Holds
  <2> QED
    BY <2>1, <2>2, <2>3
<1>5. Migrated(f) = Migrated(e)
  BY <1>4, SameMigrated
<1> QED
  BY <1>2, <1>3, <1>5 DEF Keeps, f

(* An old key that 0003 has no use for any more *)
LEMMA UnsetKeeps ==
    ASSUME NEW e, WellFormed(e), NEW k \in OldKeys,
           \A j \in Keys \ OldKeys : NewValue(UnsetKey(e, k), j) = NewValue(e, j)
    PROVE  Keeps(e, UnsetKey(e, k))
<1> DEFINE f == UnsetKey(e, k)
<1>0. k \in Keys /\ REST \notin OldKeys /\ COMPOSE_FILE \notin OldKeys
  BY NewKeys
<1>1. /\ DOMAIN f = DOMAIN e \ {k}
      /\ \A j \in DOMAIN e : j # k => f[j] = e[j]
      /\ Mapping(f)
  BY UnsetDoes
<1> HIDE DEF f
<1>2. \A j \in Keys \ OldKeys : Holds(f, j) <=> Holds(e, j)
  BY <1>1 DEF Holds
<1>3. WellFormed(f)
  <2>1. DOMAIN f \subseteq Keys
    BY <1>1 DEF WellFormed
  <2>2. Holds(f, COMPOSE_FILE) => f[COMPOSE_FILE] \in Seq(Overlay)
    BY <1>1 DEF WellFormed, Holds
  <2>3. Holds(f, OLD_DAYS) => WithUnit(f[OLD_DAYS]) # Blank
    BY <1>1 DEF WellFormed, Holds
  <2> QED
    BY <1>1, <2>1, <2>2, <2>3 DEF WellFormed
<1>4. \A j \in Keys \ OldKeys : NewValue(f, j) = NewValue(e, j)
  BY DEF f
<1>5. Migrated(f) = Migrated(e)
  BY <1>2, <1>4, SameMigrated
<1>6. REST \in Keys
  BY NewKeys
<1> QED
  BY <1>0, <1>2, <1>3, <1>5, <1>6 DEF Keeps, f

(* A new key that is not read for another one *)
LEMMA OtherValues ==
    ASSUME NEW e, NEW f, NEW k, Alike(e, f, k), NEW j \in (Keys \ OldKeys) \ {k},
           j = COMPOSE_FILE => FilesOf(f) = FilesOf(e),
           j = LOG_CLASS => (IsOptimized(f) <=> IsOptimized(e)),
           j = NEW_ENABLED => EnabledAfter(f) = EnabledAfter(e) /\ k # OLD_ENABLED,
           j = RETENTION => /\ k # OLD_DAYS
                            /\ CmsOn(f, EnabledAfter(f)) <=> CmsOn(e, EnabledAfter(e))
    PROVE  NewValue(f, j) = NewValue(e, j)
<1>1. (IsSet(f, j) <=> IsSet(e, j)) /\ Plain(f, j) = Plain(e, j)
  BY ReadAlike
<1>2. CASE j = COMPOSE_FILE
  BY <1>1, <1>2, NewValues
<1>3. CASE j = LOG_CLASS
  BY <1>1, <1>3, NewValues
<1>4. CASE j = LOG_BACKEND \/ j = LOG_URL \/ j = REST
  BY <1>1, <1>4, NewValues
<1>5. CASE j = NEW_ENABLED
  <2>1. EnabledAfter(e) = OLD_ENABLED => Holds(e, OLD_ENABLED)
    BY DEF EnabledAfter, IsSet, NEW_ENABLED, OLD_ENABLED
  <2>2. Holds(e, OLD_ENABLED) => f[OLD_ENABLED] = e[OLD_ENABLED]
    BY <1>5, NewKeys DEF Alike
  <2> QED
    BY <1>1, <1>5, <2>1, <2>2, NewValues
<1>6. CASE j = RETENTION
  <2>1. IsSet(f, OLD_DAYS) <=> IsSet(e, OLD_DAYS)
    BY <1>6, ReadAlike, NewKeys
  <2>2. IsSet(e, OLD_DAYS) => f[OLD_DAYS] = e[OLD_DAYS]
    BY <1>6, NewKeys DEF Alike, IsSet
  <2> QED
    BY <1>1, <1>6, <2>1, <2>2, NewValues
<1> QED
  BY <1>2, <1>3, <1>4, <1>5, <1>6, NewKeys

(* What the values of 0003 are: none of them is blank *)
LEMMA NotBlank == "db" # Blank /\ "90d" # Blank /\ Optimized # Blank /\ ~EnvBool(Blank)
BY DEF Blank, Optimized, EnvBool

(* The logger class: copied, then the old key is dropped *)
LEMMA CopyClassKeeps ==
    ASSUME NEW e, WellFormed(e), IsOptimized(e), ~IsSet(e, LOG_CLASS)
    PROVE  Keeps(e, SetKey(e, LOG_CLASS, e[OLD_CLASS]))
<1> DEFINE f == SetKey(e, LOG_CLASS, e[OLD_CLASS])
<1>1. e[OLD_CLASS] = Optimized /\ LOG_CLASS \in Keys \ (OldKeys \cup {REST})
      /\ LOG_CLASS # COMPOSE_FILE /\ LOG_CLASS # OLD_CLASS
  BY NewKeys DEF IsOptimized, LOG_CLASS, COMPOSE_FILE, OLD_CLASS, REST
<1>2. Alike(e, f, LOG_CLASS)
  BY <1>1, ChangesAreLocal DEF WellFormed
<1>3. Holds(f, LOG_CLASS) /\ f[LOG_CLASS] = Optimized
  BY <1>1 DEF Holds, SetKey
<1> HIDE DEF f
<1>4. NewValue(f, LOG_CLASS) = Optimized /\ NewValue(e, LOG_CLASS) = Optimized
  BY <1>3, NewValues DEF Plain
<1>5. ASSUME NEW j \in (Keys \ OldKeys) \ {LOG_CLASS} PROVE NewValue(f, j) = NewValue(e, j)
  <2>1. LOG_CLASS \notin {OLD_CLASS, OLD_ENABLED, NEW_ENABLED, OLD_DAYS, COMPOSE_FILE}
    BY DEF LOG_CLASS, OLD_CLASS, OLD_ENABLED, NEW_ENABLED, OLD_DAYS, COMPOSE_FILE
  <2> QED
    BY <1>2, <1>5, <2>1, ReadAlike, OtherValues
<1> QED
  BY <1>1, <1>4, <1>5, NotBlank, SetKeeps DEF f

(* ... the class that has no successor is dropped only *)
LEMMA DropClassKeeps ==
    ASSUME NEW e, WellFormed(e), IsOptimized(e) => IsSet(e, LOG_CLASS)
    PROVE  Keeps(e, UnsetKey(e, OLD_CLASS))
<1> DEFINE f == UnsetKey(e, OLD_CLASS)
<1>1. Alike(e, f, OLD_CLASS)
  BY ChangesAreLocal, NewKeys DEF WellFormed
<1>2. ~IsOptimized(f)
  BY DEF IsOptimized, Holds, UnsetKey
<1> HIDE DEF f
<1>3. NewValue(f, LOG_CLASS) = NewValue(e, LOG_CLASS)
  <2>1. (IsSet(f, LOG_CLASS) <=> IsSet(e, LOG_CLASS)) /\ Plain(f, LOG_CLASS) = Plain(e, LOG_CLASS)
    BY <1>1, ReadAlike, NewKeys
  <2> QED
    BY <1>2, <2>1, NewValues
<1>4. ASSUME NEW j \in (Keys \ OldKeys) \ {LOG_CLASS} PROVE NewValue(f, j) = NewValue(e, j)
  <2>1. OLD_CLASS \notin {OLD_ENABLED, NEW_ENABLED, OLD_DAYS, COMPOSE_FILE} /\ OLD_CLASS \in OldKeys
    BY Distinct, NewKeys
  <2> QED
    BY <1>1, <1>4, <2>1, ReadAlike, OtherValues
<1> QED
  BY <1>3, <1>4, UnsetKeeps, NewKeys DEF f

(* The store of the release before, named *)
LEMMA SetBackendKeeps ==
    ASSUME NEW e, WellFormed(e), ~IsSet(e, LOG_BACKEND)
    PROVE  Keeps(e, SetKey(e, LOG_BACKEND, "db"))
<1> DEFINE f == SetKey(e, LOG_BACKEND, "db")
<1>1. LOG_BACKEND \in Keys \ (OldKeys \cup {REST}) /\ LOG_BACKEND # COMPOSE_FILE
  BY NewKeys, Distinct
<1>2. Alike(e, f, LOG_BACKEND)
  BY <1>1, ChangesAreLocal DEF WellFormed
<1>3. Holds(f, LOG_BACKEND) /\ f[LOG_BACKEND] = "db"
  BY DEF Holds, SetKey
<1> HIDE DEF f
<1>4. NewValue(f, LOG_BACKEND) = "db" /\ NewValue(e, LOG_BACKEND) = "db"
  BY <1>3, NewValues DEF Plain
<1>5. ASSUME NEW j \in (Keys \ OldKeys) \ {LOG_BACKEND} PROVE NewValue(f, j) = NewValue(e, j)
  <2>1. LOG_BACKEND \notin {OLD_CLASS, OLD_ENABLED, NEW_ENABLED, OLD_DAYS, COMPOSE_FILE}
    BY Distinct, NewKeys
  <2> QED
    BY <1>2, <1>5, <2>1, ReadAlike, OtherValues
<1> QED
  BY <1>1, <1>4, <1>5, NotBlank, SetKeeps DEF f

(* The toggle of the retention *)
LEMMA CopyEnabledKeeps ==
    ASSUME NEW e, WellFormed(e), IsSet(e, OLD_ENABLED), ~IsSet(e, NEW_ENABLED)
    PROVE  /\ Keeps(e, SetKey(e, NEW_ENABLED, e[OLD_ENABLED]))
           /\ EnabledAfter(SetKey(e, NEW_ENABLED, e[OLD_ENABLED])) = NEW_ENABLED
<1> DEFINE f == SetKey(e, NEW_ENABLED, e[OLD_ENABLED])
<1>1. NEW_ENABLED \in Keys \ (OldKeys \cup {REST}) /\ NEW_ENABLED # COMPOSE_FILE
      /\ NEW_ENABLED # OLD_ENABLED /\ e[OLD_ENABLED] # Blank
  BY NewKeys, Distinct DEF IsSet
<1>2. Alike(e, f, NEW_ENABLED)
  BY <1>1, ChangesAreLocal DEF WellFormed
<1>3. Holds(f, NEW_ENABLED) /\ f[NEW_ENABLED] = e[OLD_ENABLED]
  BY DEF Holds, SetKey
<1> HIDE DEF f
<1>4. EnabledAfter(e) = OLD_ENABLED /\ EnabledAfter(f) = NEW_ENABLED
  BY <1>1, <1>3 DEF EnabledAfter, IsSet
<1>5. NewValue(f, NEW_ENABLED) = e[OLD_ENABLED] /\ NewValue(e, NEW_ENABLED) = e[OLD_ENABLED]
  BY <1>1, <1>3, <1>4, NewValues DEF Plain
<1>6. CmsOn(f, EnabledAfter(f)) <=> CmsOn(e, EnabledAfter(e))
  BY <1>3, <1>4 DEF CmsOn, IsSet
<1>7. ASSUME NEW j \in (Keys \ OldKeys) \ {NEW_ENABLED} PROVE NewValue(f, j) = NewValue(e, j)
  <2>1. NEW_ENABLED \notin {OLD_CLASS, OLD_DAYS, COMPOSE_FILE}
    BY Distinct, NewKeys
  <2> QED
    BY <1>2, <1>6, <1>7, <2>1, ReadAlike, OtherValues
<1> QED
  BY <1>1, <1>4, <1>5, <1>7, SetKeeps DEF f

(* ... and its old key dropped, once the new one holds what counts *)
LEMMA DropEnabledKeeps ==
    ASSUME NEW e, WellFormed(e), EnabledAfter(e) = NEW_ENABLED
    PROVE  Keeps(e, UnsetKey(e, OLD_ENABLED))
<1> DEFINE f == UnsetKey(e, OLD_ENABLED)
<1>1. Alike(e, f, OLD_ENABLED)
  BY ChangesAreLocal, NewKeys DEF WellFormed
<1>2. ~IsSet(f, OLD_ENABLED)
  BY DEF IsSet, Holds, UnsetKey
<1> HIDE DEF f
<1>3. EnabledAfter(f) = NEW_ENABLED /\ NEW_ENABLED # OLD_ENABLED /\ NEW_ENABLED \in Keys
  BY <1>2, Distinct, NewKeys DEF EnabledAfter
<1>4. NewValue(f, NEW_ENABLED) = NewValue(e, NEW_ENABLED)
  <2>1. Plain(f, NEW_ENABLED) = Plain(e, NEW_ENABLED)
    BY <1>1, <1>3, ReadAlike
  <2> QED
    BY <1>3, <2>1, NewValues
<1>5. CmsOn(f, EnabledAfter(f)) <=> CmsOn(e, EnabledAfter(e))
  BY <1>1, <1>3, ReadAlike
<1>6. ASSUME NEW j \in (Keys \ OldKeys) \ {NEW_ENABLED} PROVE NewValue(f, j) = NewValue(e, j)
  <2>1. OLD_ENABLED \notin {OLD_CLASS, OLD_DAYS, COMPOSE_FILE} /\ OLD_ENABLED \in OldKeys
    BY Distinct, NewKeys
  <2> QED
    BY <1>1, <1>5, <1>6, <2>1, ReadAlike, OtherValues
<1> QED
  BY <1>4, <1>6, UnsetKeeps, NewKeys DEF f

(* ... and its horizon *)
LEMMA CarryKeeps ==
    ASSUME NEW e, WellFormed(e), PreviousHorizon(e) # Blank, ~IsSet(e, RETENTION),
           ~Holds(e, OLD_ENABLED)
    PROVE  Keeps(e, SetKey(e, RETENTION, PreviousHorizon(e)))
<1> DEFINE v == PreviousHorizon(e)
           f == SetKey(e, RETENTION, v)
<1>1. RETENTION \in Keys \ (OldKeys \cup {REST}) /\ RETENTION # COMPOSE_FILE
  BY NewKeys, Distinct
<1>2. Alike(e, f, RETENTION)
  BY <1>1, ChangesAreLocal DEF WellFormed
<1>3. Holds(f, RETENTION) /\ f[RETENTION] = v
  BY DEF Holds, SetKey
<1>4. EnabledAfter(e) = NEW_ENABLED
  BY DEF EnabledAfter, IsSet
<1>5. v = NewValue(e, RETENTION)
  <2>1. CASE IsSet(e, OLD_DAYS)
    BY <2>1, NewValues DEF PreviousHorizon
  <2>2. CASE ~IsSet(e, OLD_DAYS)
    <3>1. CmsOn(e, NEW_ENABLED) /\ v = "90d"
      BY <2>2 DEF PreviousHorizon, CmsOn, CmsReadsAsOn, EnvBool, PREVIOUS_DEFAULT_HORIZON
    <3> QED
      BY <1>4, <2>2, <3>1, NewValues
  <2> QED
    BY <2>1, <2>2
<1> HIDE DEF f, v
<1>6. v # Blank
  BY DEF v
<1>7. NewValue(f, RETENTION) = v
  BY <1>3, <1>6, NewValues DEF Plain, IsSet
<1>8. ASSUME NEW j \in (Keys \ OldKeys) \ {RETENTION} PROVE NewValue(f, j) = NewValue(e, j)
  <2>1. RETENTION \notin {OLD_CLASS, OLD_ENABLED, NEW_ENABLED, OLD_DAYS, COMPOSE_FILE}
    BY Distinct, NewKeys
  <2> QED
    BY <1>2, <1>8, <2>1, ReadAlike, OtherValues
<1> QED
  BY <1>1, <1>5, <1>6, <1>7, <1>8, SetKeeps DEF f, v

(* ... and the days dropped, once they are a horizon *)
LEMMA DropDaysKeeps ==
    ASSUME NEW e, WellFormed(e), IsSet(e, OLD_DAYS) => IsSet(e, RETENTION)
    PROVE  Keeps(e, UnsetKey(e, OLD_DAYS))
<1> DEFINE f == UnsetKey(e, OLD_DAYS)
<1>1. Alike(e, f, OLD_DAYS)
  BY ChangesAreLocal, NewKeys DEF WellFormed
<1>2. ~IsSet(f, OLD_DAYS)
  BY DEF IsSet, Holds, UnsetKey
<1> HIDE DEF f
<1>3. OLD_DAYS \notin {OLD_CLASS, OLD_ENABLED, NEW_ENABLED, COMPOSE_FILE, RETENTION} /\ OLD_DAYS \in OldKeys
  BY Distinct, NewKeys
<1>4. NewValue(f, RETENTION) = NewValue(e, RETENTION)
  <2>1. (IsSet(f, RETENTION) <=> IsSet(e, RETENTION)) /\ Plain(f, RETENTION) = Plain(e, RETENTION)
    BY <1>1, <1>3, ReadAlike, NewKeys
  <2>2. CmsOn(f, EnabledAfter(f)) <=> CmsOn(e, EnabledAfter(e))
    BY <1>1, <1>3, ReadAlike
  <2> QED
    BY <1>2, <2>1, <2>2, NewValues
<1>5. ASSUME NEW j \in (Keys \ OldKeys) \ {RETENTION} PROVE NewValue(f, j) = NewValue(e, j)
  BY <1>1, <1>3, <1>5, ReadAlike, OtherValues
<1> QED
  BY <1>3, <1>4, <1>5, UnsetKeeps DEF f

(* COMPOSE_FILE and what docker compose takes for it *)
LEMMA FilesAre ==
    ASSUME NEW e, WellFormed(e)
    PROVE  /\ FilesOf(e) \in Seq(Overlay)
           /\ Has(FilesOf(e), METRICS) => Holds(e, COMPOSE_FILE)
<1>1. <<BASE_FILE>> \in Seq(Overlay) /\ ~Has(<<BASE_FILE>>, METRICS)
  <2>1. BASE_FILE \in Overlay /\ BASE_FILE # METRICS
    BY DEF Overlay, BASE_FILE, METRICS
  <2>2. ASSUME NEW b \in Overlay PROVE <<b>> \in Seq(Overlay) /\ Len(<<b>>) = 1 /\ <<b>>[1] = b
    OBVIOUS
  <2>3. <<BASE_FILE>> \in Seq(Overlay) /\ Len(<<BASE_FILE>>) = 1 /\ <<BASE_FILE>>[1] = BASE_FILE
    BY <2>1, <2>2
  <2>4. ASSUME NEW s, Len(s) = 1, s[1] # METRICS PROVE ~Has(s, METRICS)
    BY <2>4 DEF Has, Contains
  <2> QED
    BY <2>1, <2>3, <2>4
<1> QED
  BY <1>1 DEF FilesOf, WellFormed

(* The COMPOSE_FILE that 0003 leaves *)
LEMMA MigratedFiles ==
    ASSUME NEW e, WellFormed(e)
    PROVE  FilesOf(Migrated(e)) =
               IF LacksGrafana(FilesOf(e)) THEN WithGrafana(FilesOf(e)) ELSE FilesOf(e)
<1>1. COMPOSE_FILE \in Keys \ OldKeys
  BY NewKeys, Distinct
<1>2. Holds(Migrated(e), COMPOSE_FILE) <=> Holds(e, COMPOSE_FILE)
  <2>1. ~Holds(e, COMPOSE_FILE) => NewValue(e, COMPOSE_FILE) = Blank
    BY FilesAre, NewValues DEF LacksGrafana, Plain
  <2> QED
    BY <1>1, <2>1, MigratedIs DEF Holds
<1>3. Holds(e, COMPOSE_FILE) => Migrated(e)[COMPOSE_FILE] = NewValue(e, COMPOSE_FILE)
  BY <1>2, MigratedIs DEF Holds
<1>4. LacksGrafana(FilesOf(e)) => Holds(e, COMPOSE_FILE)
  BY FilesAre DEF LacksGrafana
<1> QED
  BY <1>2, <1>3, <1>4, NewValues DEF FilesOf, Plain

(* ... and what it says of Grafana and of the store does not depend on       *)
(* whether it was read before or after                                       *)
LEMMA Foreseen ==
    ASSUME NEW e, WellFormed(e)
    PROVE  /\ ~LacksGrafana(FilesOf(Migrated(e)))
           /\ RunsGrafana(FilesOf(e)) <=> Has(FilesOf(Migrated(e)), GRAFANA)
           /\ Has(FilesOf(e), LOGS) <=> Has(FilesOf(Migrated(e)), LOGS)
           /\ Has(FilesOf(e), METRICS) <=> Has(FilesOf(Migrated(e)), METRICS)
<1>1. GRAFANA # LOGS /\ GRAFANA # METRICS
  BY DEF GRAFANA, LOGS, METRICS
<1>2. CASE LacksGrafana(FilesOf(e))
  <2>1. \A f : Has(FilesOf(Migrated(e)), f) <=> f = GRAFANA \/ Has(FilesOf(e), f)
    BY <1>2, FilesAre, MigratedFiles, GrafanaInserted DEF LacksGrafana
  <2> QED
    BY <1>1, <1>2, <2>1 DEF LacksGrafana, RunsGrafana
<1>3. CASE ~LacksGrafana(FilesOf(e))
  BY <1>3, MigratedFiles DEF LacksGrafana, RunsGrafana
<1> QED
  BY <1>2, <1>3

(* Grafana's overlay added *)
LEMMA OverlayKeeps ==
    ASSUME NEW e, WellFormed(e), LacksGrafana(FilesOf(e))
    PROVE  /\ Keeps(e, SetKey(e, COMPOSE_FILE, WithGrafana(FilesOf(e))))
           /\ ~LacksGrafana(FilesOf(SetKey(e, COMPOSE_FILE, WithGrafana(FilesOf(e)))))
<1> DEFINE v == WithGrafana(FilesOf(e))
           f == SetKey(e, COMPOSE_FILE, v)
<1>1. COMPOSE_FILE \in Keys \ (OldKeys \cup {REST}) /\ Holds(e, COMPOSE_FILE)
  BY NewKeys, Distinct, FilesAre DEF LacksGrafana
<1>2. v \in Seq(Overlay) /\ Has(v, GRAFANA)
  BY FilesAre, GrafanaInserted DEF LacksGrafana
<1>3. Alike(e, f, COMPOSE_FILE)
  BY <1>1, ChangesAreLocal DEF WellFormed
<1>4. Holds(f, COMPOSE_FILE) /\ f[COMPOSE_FILE] = v
  BY DEF Holds, SetKey
<1>5. v = NewValue(e, COMPOSE_FILE)
  BY NewValues
<1> HIDE DEF f, v
<1>6. FilesOf(f) = v /\ ~LacksGrafana(FilesOf(f))
  BY <1>2, <1>4 DEF FilesOf, LacksGrafana
<1>7. NewValue(f, COMPOSE_FILE) = v
  BY <1>4, <1>6, NewValues DEF Plain
<1>8. ASSUME NEW j \in (Keys \ OldKeys) \ {COMPOSE_FILE} PROVE NewValue(f, j) = NewValue(e, j)
  <2>1. COMPOSE_FILE \notin {OLD_CLASS, OLD_ENABLED, NEW_ENABLED, OLD_DAYS}
    BY Distinct, NewKeys
  <2> QED
    BY <1>3, <1>8, <2>1, ReadAlike, OtherValues
<1>9. Keeps(e, SetKey(e, COMPOSE_FILE, v))
  BY <1>1, <1>2, <1>5, <1>7, <1>8, SetKeeps DEF f
<1> QED
  BY <1>6, <1>9 DEF f, v

(* A rename in place is a copy and the removal of the old key *)
LEMMA RenameIsBoth ==
    ASSUME NEW e, NEW old, NEW new, NEW v, old # new
    PROVE  SetKey(UnsetKey(e, old), new, v) = UnsetKey(SetKey(e, new, v), old)
<1> DEFINE f == SetKey(UnsetKey(e, old), new, v)
           g == UnsetKey(SetKey(e, new, v), old)
<1>1. Mapping(f) /\ Mapping(g)
  BY SetDoes, UnsetDoes
<1>2. DOMAIN f = (DOMAIN e \cup {new}) \ {old} /\ DOMAIN g = DOMAIN f
  BY DEF SetKey, UnsetKey
<1>3. \A j \in DOMAIN f : f[j] = g[j]
  BY DEF SetKey, UnsetKey
<1> HIDE DEF f, g
<1>4. f = g
  BY <1>1, <1>2, <1>3 DEF Mapping
<1> QED
  BY <1>4 DEF f, g

(* Two changes in one write *)
LEMMA KeepsTransitive ==
    ASSUME NEW e, NEW f, NEW g, Keeps(e, f), Keeps(f, g)
    PROVE  Keeps(e, g)
BY DEF Keeps

(* Where 0003 ends: it finds nothing more to do *)
LEMMA Ends ==
    ASSUME NEW e, WellFormed(e), DOMAIN e \cap OldKeys = {}, ~LacksGrafana(FilesOf(e)),
           IsSet(e, LOG_BACKEND), ~IsSet(e, RETENTION) => ~CmsOn(e, NEW_ENABLED)
    PROVE  Migrated(e) = e
<1>1. ASSUME NEW k \in OldKeys PROVE ~IsSet(e, k) /\ ~Holds(e, k)
  BY DEF IsSet, Holds
<1>2. EnabledAfter(e) = NEW_ENABLED /\ ~IsOptimized(e) /\ NEW_ENABLED # OLD_ENABLED
  BY <1>1, NewKeys, Distinct DEF EnabledAfter, IsOptimized
<1>3. ASSUME NEW k \in Keys \ OldKeys PROVE NewValue(e, k) = Plain(e, k)
  BY <1>1, <1>2, NewValues, NewKeys
<1>4. DOMAIN Migrated(e) = DOMAIN e
  <2>1. ASSUME NEW k \in Keys \ OldKeys PROVE Holds(e, k) \/ NewValue(e, k) # Blank <=> k \in DOMAIN e
    BY <1>3 DEF Plain, Holds
  <2> QED
    BY <2>1, MigratedIs DEF WellFormed
<1>5. \A k \in DOMAIN e : Migrated(e)[k] = e[k]
  <2> SUFFICES ASSUME NEW k \in DOMAIN e PROVE Migrated(e)[k] = e[k]
    OBVIOUS
  <2>1. k \in Keys \ OldKeys
    BY DEF WellFormed
  <2> QED
    BY <1>3, <1>4, <2>1, MigratedIs DEF Plain, Holds
<1> QED
  BY <1>4, <1>5, MigratedIs DEF Mapping, WellFormed
-----------------------------------------------------------------------------
(* What python-dotenv reads from an empty file *)
LEMMA EmptyFile == WellFormed(Nothing) /\ DOMAIN Nothing = {} /\ \A k : ~Holds(Nothing, k)
<1>1. DOMAIN Nothing = {}
  BY DEF Nothing
<1>2. Mapping(Nothing)
  BY DEF Nothing, Mapping
<1> QED
  BY <1>1, <1>2 DEF WellFormed, Holds

(* The .env files of an installation are well-formed *)
LEMMA FirstWellFormed == ASSUME NEW e \in Envs PROVE WellFormed(e) /\ Holds(e, REST)
<1>1. Mapping(e) /\ DOMAIN e \subseteq Keys /\ REST \in DOMAIN e
  BY EnvAssumption DEF Mapping
<1>2. Seq(STRING) \subseteq Seq(Overlay)
  BY DEF Overlay
<1>3. COMPOSE_FILE \in DOMAIN e => e[COMPOSE_FILE] \in Seq(Overlay)
  BY <1>2, EnvAssumption
<1> QED
  BY <1>1, <1>3, EnvAssumption DEF WellFormed, Holds

(* The .env an installation brings along *)
LEMMA InitInv == Init => EInv
<1> SUFFICES ASSUME Init PROVE EInv
  OBVIOUS
<1>1. WellFormed(disk) /\ Holds(disk, REST) /\ disk = first
  BY FirstWellFormed DEF Init
<1>2. TypeOK
  <2>1. \A e \in {disk, mem, stack} : DOMAIN e \subseteq Keys
    BY <1>1, EmptyFile DEF Init, WellFormed
  <2>2. generated \in [grafana : BOOLEAN, source : {"none", "victorialogs", "loki"}]
    BY DEF Init, NoGrafana
  <2>3. kills \in 0..MaxKills
    BY EnvAssumption DEF Init
  <2> QED
    BY <2>1, <2>2, <2>3 DEF Init, TypeOK, Places
<1>3. Kept
  BY <1>1 DEF Init, Kept, Settings
<1>4. Snapshots /\ Reached /\ Finished /\ Started
  BY EmptyFile DEF Init, Snapshots, Reached, Finished, Started, Edits, Edited
<1> QED
  BY <1>2, <1>3, <1>4 DEF EInv

(* An edit that keeps what 0003 is to make of .env keeps all but the places  *)
LEMMA EditStep ==
    ASSUME EInv, pc \in Edits, disk = mem, NEW e, NEW place \in Edited, Keeps(mem, e),
           InPlaceChange(e, place) \/ MovedChange(e, place)
    PROVE  TypeOK' /\ Kept' /\ Snapshots' /\ Finished' /\ Started' /\ ~recorded'
<1>1. /\ mem' = e /\ pc' = place
      /\ UNCHANGED <<odd, files, cmd, recorded, snaps, generated, stack, first, torn, kills>>
      /\ disk' \in {e, Nothing}
  BY DEF InPlaceChange, MovedChange, Change
<1>2. ~recorded /\ Settings = mem /\ pc # "idle" /\ pc # "check" /\ place \notin {"idle", "check", "render", "compose"}
      /\ place \in Places
  BY DEF EInv, Reached, Settings, Edits, Edited, Places
<1>3. Settings' = e
  BY <1>1, <1>2 DEF Settings
<1>4. Kept'
  BY <1>1, <1>2, <1>3 DEF EInv, Kept, Keeps
<1>5. TypeOK'
  <2>1. DOMAIN e \subseteq Keys /\ DOMAIN disk' \subseteq Keys
    BY <1>1, EmptyFile DEF Keeps, WellFormed
  <2> QED
    BY <1>1, <1>2, <2>1 DEF EInv, TypeOK
<1>6. Snapshots'
  BY <1>1 DEF EInv, Snapshots
<1>7. Started'
  BY <1>1, <1>2 DEF EInv, Started, Foresees
<1> QED
  BY <1>1, <1>2, <1>4, <1>5, <1>6, <1>7 DEF Finished

(* Nothing changed: the next place *)
LEMMA SameKeeps == ASSUME EInv, pc \in Edits PROVE Keeps(mem, mem) /\ WellFormed(mem)
<1>1. Settings = mem
  BY DEF Settings, Edits, Edited
<1> QED
  BY <1>1 DEF EInv, Kept, Keeps

(* _add_grafana_overlay *)
LEMMA OverlayStep == EInv /\ AddGrafanaOverlay => EInv'
<1> SUFFICES ASSUME EInv, AddGrafanaOverlay PROVE EInv'
  OBVIOUS
<1> DEFINE e == IF LacksGrafana(FilesOf(mem)) THEN SetKey(mem, COMPOSE_FILE, WithGrafana(FilesOf(mem)))
                ELSE mem
<1>1. pc = "overlay" /\ disk = mem /\ MovedChange(e, "class")
  BY DEF AddGrafanaOverlay, At
<1>2. Keeps(mem, e) /\ ~LacksGrafana(FilesOf(e))
  BY <1>1, SameKeeps, OverlayKeeps DEF Edits
<1> HIDE DEF e
<1>3. TypeOK' /\ Kept' /\ Snapshots' /\ Finished' /\ Started' /\ ~recorded'
  BY <1>1, <1>2, EditStep DEF Edits, Edited
<1>4. mem' = e /\ pc' = "class"
  BY <1>1 DEF MovedChange, Change
<1>5. Reached'
  BY <1>2, <1>3, <1>4 DEF Reached
<1> QED
  BY <1>3, <1>5 DEF EInv

(* _move, in place or not, copies the value and perhaps drops the old key *)
LEMMA MoveKeeps ==
    ASSUME EInv, pc \in Edits, NEW old, NEW new, old # new, NEW place, Move(old, new, place),
           IsSet(mem, old) /\ ~IsSet(mem, new) =>
               LET f == SetKey(mem, new, mem[old]) IN Keeps(mem, f) /\ Keeps(f, UnsetKey(f, old))
    PROVE  \E e : /\ InPlaceChange(e, place) \/ MovedChange(e, place)
                  /\ Keeps(mem, e)
                  /\ IF IsSet(mem, old) /\ ~IsSet(mem, new)
                       THEN \/ e = SetKey(mem, new, mem[old])
                            \/ e = UnsetKey(SetKey(mem, new, mem[old]), old)
                       ELSE e = mem
<1> DEFINE f == SetKey(mem, new, mem[old])
<1>1. CASE InPlace(old, new)
  <2>1. IsSet(mem, old) /\ ~IsSet(mem, new)
    BY <1>1 DEF InPlace, IsSet
  <2>2. InPlaceChange(UnsetKey(f, old), place)
    BY <1>1, RenameIsBoth DEF Move, Copies
  <2>3. Keeps(mem, UnsetKey(f, old))
    BY <2>1, KeepsTransitive
  <2> QED
    BY <2>1, <2>2, <2>3
<1>2. CASE Copies(old, new)
  <2>1. IsSet(mem, old) /\ ~IsSet(mem, new) /\ MovedChange(f, place)
    BY <1>2 DEF Copies, Move
  <2> QED
    BY <2>1
<1>3. CASE ~InPlace(old, new) /\ ~Copies(old, new)
  <2>1. ~(IsSet(mem, old) /\ ~IsSet(mem, new)) /\ MovedChange(mem, place)
    BY <1>3 DEF Copies, Move
  <2> QED
    BY <2>1, SameKeeps
<1> QED
  BY <1>1, <1>2, <1>3

(* _move_logger_class, in place or by a copy *)
LEMMA ClassStep == EInv /\ MoveLoggerClass => EInv'
<1> SUFFICES ASSUME EInv, MoveLoggerClass PROVE EInv'
  OBVIOUS
<1>1. pc = "class" /\ disk = mem /\ pc \in Edits /\ WellFormed(mem) /\ Keeps(mem, mem)
  BY SameKeeps DEF MoveLoggerClass, At, Edits, Edited
<1>2. \E e : /\ InPlaceChange(e, "dropClass") \/ MovedChange(e, "dropClass")
             /\ Keeps(mem, e)
             /\ IsOptimized(e) => IsSet(e, LOG_CLASS)
             /\ FilesOf(e) = FilesOf(mem)
  <2>1. CASE ~IsOptimized(mem)
    <3>1. MovedChange(mem, "dropClass")
      BY <2>1 DEF MoveLoggerClass
    <3> QED
      BY <1>1, <2>1, <3>1
  <2>2. CASE IsOptimized(mem)
    <3> DEFINE f == SetKey(mem, LOG_CLASS, mem[OLD_CLASS])
               g == UnsetKey(f, OLD_CLASS)
    <3>1. Move(OLD_CLASS, LOG_CLASS, "dropClass") /\ OLD_CLASS # LOG_CLASS /\ IsSet(mem, OLD_CLASS)
      BY <2>2, NotBlank, Distinct, NewKeys DEF MoveLoggerClass, IsOptimized, IsSet
    <3>2. IsSet(f, LOG_CLASS) /\ FilesOf(f) = FilesOf(mem) /\ ~IsOptimized(g) /\ FilesOf(g) = FilesOf(mem)
      <4>1. f[LOG_CLASS] = Optimized /\ Holds(f, LOG_CLASS) /\ ~Holds(g, OLD_CLASS)
        BY <2>2 DEF Holds, SetKey, UnsetKey, IsOptimized
      <4>2. COMPOSE_FILE # LOG_CLASS /\ COMPOSE_FILE # OLD_CLASS /\ LOG_CLASS \in Keys /\ OLD_CLASS \in Keys
        BY Distinct, NewKeys
      <4>3. DOMAIN mem \subseteq Keys /\ DOMAIN f \subseteq Keys
        BY <1>1, <4>2 DEF WellFormed, SetKey
      <4>4. Alike(mem, f, LOG_CLASS) /\ Alike(f, g, OLD_CLASS)
        BY <4>2, <4>3, ChangesAreLocal
      <4> HIDE DEF f, g
      <4>5. FilesOf(f) = FilesOf(mem) /\ FilesOf(g) = FilesOf(f)
        BY <4>2, <4>4, ReadAlike
      <4> QED
        BY <4>1, <4>5, NotBlank DEF IsSet, IsOptimized
    <3>3. ~IsSet(mem, LOG_CLASS) => Keeps(mem, f) /\ Keeps(f, g)
      <4> SUFFICES ASSUME ~IsSet(mem, LOG_CLASS) PROVE Keeps(mem, f) /\ Keeps(f, g)
        OBVIOUS
      <4>1. Keeps(mem, f)
        BY <1>1, <2>2, CopyClassKeeps
      <4> HIDE DEF f
      <4>2. Keeps(f, g)
        BY <3>2, <4>1, DropClassKeeps DEF Keeps
      <4> QED
        BY <4>1, <4>2
    <3>4. PICK e : /\ InPlaceChange(e, "dropClass") \/ MovedChange(e, "dropClass")
                   /\ Keeps(mem, e)
                   /\ IF IsSet(mem, OLD_CLASS) /\ ~IsSet(mem, LOG_CLASS) THEN e = f \/ e = g ELSE e = mem
      BY <1>1, <3>1, <3>3, MoveKeeps
    <3> HIDE DEF f, g
    <3> QED
      BY <3>1, <3>2, <3>4
  <2> QED
    BY <2>1, <2>2
<1>3. PICK e : /\ InPlaceChange(e, "dropClass") \/ MovedChange(e, "dropClass")
               /\ Keeps(mem, e)
               /\ IsOptimized(e) => IsSet(e, LOG_CLASS)
               /\ FilesOf(e) = FilesOf(mem)
  BY <1>2
<1>4. TypeOK' /\ Kept' /\ Snapshots' /\ Finished' /\ Started' /\ ~recorded'
  BY <1>1, <1>3, EditStep DEF Edited
<1>5. mem' = e /\ pc' = "dropClass"
  BY <1>3 DEF MovedChange, InPlaceChange, Change
<1>6. Reached'
  BY <1>1, <1>3, <1>4, <1>5 DEF EInv, Reached, Edited
<1> QED
  BY <1>4, <1>6 DEF EInv

(* ... and its unset *)
LEMMA DropClassStep == EInv /\ DropClass => EInv'
<1> SUFFICES ASSUME EInv, DropClass PROVE EInv'
  OBVIOUS
<1> DEFINE e == UnsetKey(mem, OLD_CLASS)
<1>1. pc = "dropClass" /\ disk = mem /\ pc \in Edits /\ WellFormed(mem) /\ MovedChange(e, "backend")
  BY SameKeeps DEF DropClass, At, Edits, Edited
<1>2. Keeps(mem, e)
  BY <1>1, DropClassKeeps DEF EInv, Reached
<1>3. Alike(mem, e, OLD_CLASS) /\ ~Holds(e, OLD_CLASS)
  BY <1>1, ChangesAreLocal, NewKeys DEF WellFormed, Holds, UnsetKey
<1> HIDE DEF e
<1>4. TypeOK' /\ Kept' /\ Snapshots' /\ Finished' /\ Started' /\ ~recorded'
  BY <1>1, <1>2, EditStep DEF Edited
<1>5. mem' = e /\ pc' = "backend"
  BY <1>1 DEF MovedChange, Change
<1>6. FilesOf(e) = FilesOf(mem)
  BY <1>3, ReadAlike, Distinct, NewKeys
<1>7. Reached'
  BY <1>1, <1>3, <1>4, <1>5, <1>6 DEF EInv, Reached, Edited
<1> QED
  BY <1>4, <1>7 DEF EInv

(* The store, set unless the operator chose one *)
LEMMA BackendStep == EInv /\ SetBackend => EInv'
<1> SUFFICES ASSUME EInv, SetBackend PROVE EInv'
  OBVIOUS
<1> DEFINE e == IF IsSet(mem, LOG_BACKEND) THEN mem ELSE SetKey(mem, LOG_BACKEND, "db")
<1>1. pc = "backend" /\ disk = mem /\ pc \in Edits /\ WellFormed(mem) /\ MovedChange(e, "enabled")
  BY SameKeeps DEF SetBackend, At, Edits, Edited
<1>2. Keeps(mem, e)
  BY <1>1, SameKeeps, SetBackendKeeps
<1>3. Alike(mem, e, LOG_BACKEND) /\ IsSet(e, LOG_BACKEND)
  <2>1. CASE IsSet(mem, LOG_BACKEND)
    BY <2>1 DEF Alike
  <2>2. CASE ~IsSet(mem, LOG_BACKEND)
    <3>1. IsSet(e, LOG_BACKEND)
      BY <2>2, NotBlank DEF IsSet, Holds, SetKey
    <3> QED
      BY <1>1, <2>2, <3>1, ChangesAreLocal, NewKeys DEF WellFormed
  <2> QED
    BY <2>1, <2>2
<1> HIDE DEF e
<1>4. TypeOK' /\ Kept' /\ Snapshots' /\ Finished' /\ Started' /\ ~recorded'
  BY <1>1, <1>2, EditStep DEF Edited
<1>5. mem' = e /\ pc' = "enabled"
  BY <1>1 DEF MovedChange, Change
<1>6. FilesOf(e) = FilesOf(mem) /\ (Holds(e, OLD_CLASS) <=> Holds(mem, OLD_CLASS))
  BY <1>3, ReadAlike, Distinct, NewKeys DEF Alike
<1>7. Reached'
  BY <1>1, <1>3, <1>4, <1>5, <1>6 DEF EInv, Reached, Edited
<1> QED
  BY <1>4, <1>7 DEF EInv

(* The toggle, moved in place or by a copy *)
LEMMA EnabledStep == EInv /\ MoveEnabled => EInv'
<1> SUFFICES ASSUME EInv, MoveEnabled PROVE EInv'
  OBVIOUS
<1> DEFINE f == SetKey(mem, NEW_ENABLED, mem[OLD_ENABLED])
           g == UnsetKey(f, OLD_ENABLED)
<1>1. pc = "enabled" /\ disk = mem /\ pc \in Edits /\ WellFormed(mem)
      /\ Move(OLD_ENABLED, NEW_ENABLED, "dropEnabled") /\ OLD_ENABLED # NEW_ENABLED
  BY SameKeeps, Distinct, NewKeys DEF MoveEnabled, At, Edits, Edited
<1>2. IsSet(mem, OLD_ENABLED) /\ ~IsSet(mem, NEW_ENABLED) =>
        /\ Keeps(mem, f) /\ Keeps(f, g)
        /\ EnabledAfter(f) = NEW_ENABLED /\ EnabledAfter(g) = NEW_ENABLED
  <2> SUFFICES ASSUME IsSet(mem, OLD_ENABLED), ~IsSet(mem, NEW_ENABLED)
               PROVE  /\ Keeps(mem, f) /\ Keeps(f, g)
                      /\ EnabledAfter(f) = NEW_ENABLED /\ EnabledAfter(g) = NEW_ENABLED
    OBVIOUS
  <2>1. Keeps(mem, f) /\ EnabledAfter(f) = NEW_ENABLED
    BY <1>1, CopyEnabledKeeps
  <2>2. ~IsSet(g, OLD_ENABLED)
    BY DEF IsSet, Holds, UnsetKey
  <2> HIDE DEF f
  <2>3. Keeps(f, g)
    BY <2>1, DropEnabledKeeps DEF Keeps
  <2>4. EnabledAfter(g) = NEW_ENABLED
    BY <2>2 DEF EnabledAfter
  <2> QED
    BY <2>1, <2>3, <2>4
<1>3. Alike(mem, f, NEW_ENABLED) /\ Alike(f, g, OLD_ENABLED)
  <2>1. DOMAIN mem \subseteq Keys /\ DOMAIN f \subseteq Keys /\ NEW_ENABLED \in Keys /\ OLD_ENABLED \in Keys
    BY <1>1, NewKeys DEF WellFormed, SetKey
  <2> QED
    BY <2>1, ChangesAreLocal
<1> HIDE DEF f, g
<1>4. PICK e : /\ InPlaceChange(e, "dropEnabled") \/ MovedChange(e, "dropEnabled")
               /\ Keeps(mem, e)
               /\ IF IsSet(mem, OLD_ENABLED) /\ ~IsSet(mem, NEW_ENABLED) THEN e = f \/ e = g ELSE e = mem
  BY <1>1, <1>2, MoveKeeps DEF f, g
<1>5. EnabledAfter(e) = NEW_ENABLED
  BY <1>2, <1>4 DEF EnabledAfter
<1>6. /\ FilesOf(e) = FilesOf(mem)
      /\ Holds(e, OLD_CLASS) <=> Holds(mem, OLD_CLASS)
      /\ IsSet(e, LOG_BACKEND) <=> IsSet(mem, LOG_BACKEND)
  <2>1. /\ {OLD_CLASS, LOG_BACKEND, COMPOSE_FILE} \cap {NEW_ENABLED, OLD_ENABLED} = {}
        /\ {OLD_CLASS, LOG_BACKEND} \subseteq Keys
    BY Distinct, NewKeys
  <2>2. /\ FilesOf(f) = FilesOf(mem)
        /\ Holds(f, OLD_CLASS) <=> Holds(mem, OLD_CLASS)
        /\ IsSet(f, LOG_BACKEND) <=> IsSet(mem, LOG_BACKEND)
    BY <1>3, <2>1, ReadAlike DEF Alike
  <2>3. /\ FilesOf(g) = FilesOf(f)
        /\ Holds(g, OLD_CLASS) <=> Holds(f, OLD_CLASS)
        /\ IsSet(g, LOG_BACKEND) <=> IsSet(f, LOG_BACKEND)
    BY <1>3, <2>1, ReadAlike DEF Alike
  <2> QED
    BY <1>4, <2>2, <2>3
<1>7. TypeOK' /\ Kept' /\ Snapshots' /\ Finished' /\ Started' /\ ~recorded'
  BY <1>1, <1>4, EditStep DEF Edited
<1>8. mem' = e /\ pc' = "dropEnabled"
  BY <1>4 DEF MovedChange, InPlaceChange, Change
<1>9. Reached'
  BY <1>1, <1>5, <1>6, <1>7, <1>8 DEF EInv, Reached, Edited
<1> QED
  BY <1>7, <1>9 DEF EInv

(* ... and its unset *)
LEMMA DropEnabledStep == EInv /\ DropEnabled => EInv'
<1> SUFFICES ASSUME EInv, DropEnabled PROVE EInv'
  OBVIOUS
<1> DEFINE e == UnsetKey(mem, OLD_ENABLED)
<1>1. pc = "dropEnabled" /\ disk = mem /\ pc \in Edits /\ WellFormed(mem) /\ MovedChange(e, "retention")
  BY SameKeeps DEF DropEnabled, At, Edits, Edited
<1>2. Keeps(mem, e)
  BY <1>1, DropEnabledKeeps DEF EInv, Reached
<1>3. Alike(mem, e, OLD_ENABLED) /\ ~Holds(e, OLD_ENABLED)
  BY <1>1, ChangesAreLocal, NewKeys DEF WellFormed, Holds, UnsetKey
<1> HIDE DEF e
<1>4. TypeOK' /\ Kept' /\ Snapshots' /\ Finished' /\ Started' /\ ~recorded'
  BY <1>1, <1>2, EditStep DEF Edited
<1>5. mem' = e /\ pc' = "retention"
  BY <1>1 DEF MovedChange, Change
<1>6. /\ FilesOf(e) = FilesOf(mem)
      /\ Holds(e, OLD_CLASS) <=> Holds(mem, OLD_CLASS)
      /\ IsSet(e, LOG_BACKEND) <=> IsSet(mem, LOG_BACKEND)
  BY <1>3, ReadAlike, Distinct, NewKeys DEF Alike
<1>7. Reached'
  BY <1>1, <1>3, <1>4, <1>5, <1>6 DEF EInv, Reached, Edited
<1> QED
  BY <1>4, <1>7 DEF EInv

(* No horizon is left to carry over: nothing says that executions expire *)
LEMMA CarryStep == EInv /\ CarryRetentionOver => EInv'
<1> SUFFICES ASSUME EInv, CarryRetentionOver PROVE EInv'
  OBVIOUS
<1> DEFINE carries == PreviousHorizon(mem) # Blank /\ ~IsSet(mem, RETENTION)
           e == IF carries THEN SetKey(mem, RETENTION, PreviousHorizon(mem)) ELSE mem
<1>1. /\ pc = "retention" /\ disk = mem /\ pc \in Edits /\ WellFormed(mem) /\ MovedChange(e, "dropDays")
      /\ ~Holds(mem, OLD_ENABLED)
  BY SameKeeps DEF CarryRetentionOver, At, Edits, Edited, EInv, Reached
<1>2. Keeps(mem, e)
  BY <1>1, SameKeeps, CarryKeeps
<1>3. Alike(mem, e, RETENTION)
  <2>1. CASE carries
    BY <1>1, <2>1, ChangesAreLocal, NewKeys DEF WellFormed
  <2>2. CASE ~carries
    BY <2>2 DEF Alike
  <2> QED
    BY <2>1, <2>2
<1>4. ~IsSet(e, RETENTION) => ~IsSet(e, OLD_DAYS) /\ ~CmsOn(e, NEW_ENABLED)
  <2>1. CASE carries
    BY <2>1 DEF IsSet, Holds, SetKey
  <2>2. CASE ~carries /\ ~IsSet(mem, RETENTION)
    <3>1. PreviousHorizon(mem) = Blank
      BY <2>2
    <3>2. ~IsSet(mem, OLD_DAYS)
      BY <1>1, <3>1 DEF PreviousHorizon, WellFormed, IsSet
    <3>3. ~CmsOn(mem, NEW_ENABLED)
      BY <3>1, <3>2, NotBlank DEF PreviousHorizon, CmsOn, CmsReadsAsOn, EnvBool, PREVIOUS_DEFAULT_HORIZON
    <3> QED
      BY <2>2, <3>2, <3>3
  <2>3. CASE ~carries /\ IsSet(mem, RETENTION)
    BY <2>3
  <2> QED
    BY <2>1, <2>2, <2>3
<1> HIDE DEF e, carries
<1>5. TypeOK' /\ Kept' /\ Snapshots' /\ Finished' /\ Started' /\ ~recorded'
  BY <1>1, <1>2, EditStep DEF Edited
<1>6. mem' = e /\ pc' = "dropDays"
  BY <1>1 DEF MovedChange, Change
<1>7. /\ FilesOf(e) = FilesOf(mem)
      /\ Holds(e, OLD_CLASS) <=> Holds(mem, OLD_CLASS)
      /\ IsSet(e, LOG_BACKEND) <=> IsSet(mem, LOG_BACKEND)
      /\ ~Holds(e, OLD_ENABLED)
  BY <1>1, <1>3, ReadAlike, Distinct, NewKeys DEF Alike
<1>8. Reached'
  BY <1>1, <1>4, <1>5, <1>6, <1>7 DEF EInv, Reached, Edited
<1> QED
  BY <1>5, <1>8 DEF EInv

(* The days, unset *)
LEMMA DropDaysStep == EInv /\ DropDays => EInv'
<1> SUFFICES ASSUME EInv, DropDays PROVE EInv'
  OBVIOUS
<1> DEFINE e == UnsetKey(mem, OLD_DAYS)
<1>1. pc = "dropDays" /\ disk = mem /\ pc \in Edits /\ WellFormed(mem) /\ MovedChange(e, "record")
  BY SameKeeps DEF DropDays, At, Edits, Edited
<1>2. Keeps(mem, e)
  BY <1>1, DropDaysKeeps DEF EInv, Reached
<1>3. Alike(mem, e, OLD_DAYS) /\ ~Holds(e, OLD_DAYS) /\ ~IsSet(e, OLD_DAYS)
  BY <1>1, ChangesAreLocal, NewKeys DEF WellFormed, Holds, UnsetKey, IsSet
<1> HIDE DEF e
<1>4. TypeOK' /\ Kept' /\ Snapshots' /\ Finished' /\ Started' /\ ~recorded'
  BY <1>1, <1>2, EditStep DEF Edited
<1>5. mem' = e /\ pc' = "record"
  BY <1>1 DEF MovedChange, Change
<1>6. /\ FilesOf(e) = FilesOf(mem)
      /\ Holds(e, OLD_CLASS) <=> Holds(mem, OLD_CLASS)
      /\ Holds(e, OLD_ENABLED) <=> Holds(mem, OLD_ENABLED)
      /\ IsSet(e, LOG_BACKEND) <=> IsSet(mem, LOG_BACKEND)
      /\ IsSet(e, RETENTION) <=> IsSet(mem, RETENTION)
      /\ CmsOn(e, NEW_ENABLED) <=> CmsOn(mem, NEW_ENABLED)
  BY <1>3, ReadAlike, Distinct, NewKeys DEF Alike
<1>7. Reached'
  BY <1>1, <1>3, <1>4, <1>5, <1>6 DEF EInv, Reached, Edited
<1> QED
  BY <1>4, <1>7 DEF EInv

(* The write that was begun is completed *)
LEMMA RewriteStep == EInv /\ Rewrite => EInv'
<1> SUFFICES ASSUME EInv, Rewrite PROVE EInv'
  OBVIOUS
<1>1. /\ pc # "idle" /\ disk' = mem
      /\ UNCHANGED <<odd, mem, files, cmd, pc, recorded, snaps, generated, stack, first, torn, kills>>
  BY DEF Rewrite
<1>2. TypeOK'
  BY <1>1 DEF EInv, TypeOK
<1>3. Settings' = Settings
  BY <1>1 DEF Settings
<1>4. Kept'
  BY <1>1, <1>3 DEF EInv, Kept
<1>5. Snapshots' /\ Reached' /\ Finished' /\ Started'
  BY <1>1, <1>3 DEF EInv, Snapshots, Reached, Finished, Started, Foresees
<1> QED
  BY <1>2, <1>4, <1>5 DEF EInv

(* A command reads what .env holds *)
LEMMA BeginStep == ASSUME EInv, NEW c \in {"migrate", "up"}, Begin(c) PROVE EInv'
<1>1. /\ pc = "idle" /\ cmd' = c /\ mem' = disk /\ files' = FilesOf(disk)
      /\ pc' = IF c = "up" THEN "check" ELSE "migrate"
      /\ UNCHANGED <<disk, odd, recorded, snaps, generated, stack, first, torn, kills>>
  BY DEF Begin
<1>2. TypeOK'
  BY <1>1 DEF EInv, TypeOK, Places
<1>3. Settings = disk /\ Settings' = disk
  BY <1>1 DEF Settings
<1>4. Kept'
  BY <1>1, <1>3 DEF EInv, Kept
<1>5. Snapshots' /\ Reached' /\ Finished'
  BY <1>1, <1>3 DEF EInv, Snapshots, Reached, Finished, Edits, Edited
<1>6. ~torn => Foresees(files)'
  <2>1. WellFormed(disk) /\ (~torn => Migrated(disk) = Migrated(first))
    BY <1>3 DEF EInv, Kept
  <2> QED
    BY <1>1, <2>1, Foreseen DEF Foresees
<1>7. Started'
  BY <1>1, <1>6 DEF EInv, Started
<1> QED
  BY <1>2, <1>4, <1>5, <1>7 DEF EInv

(* The places outside of 0003: .env is what the command read and wrote *)
LEMMA OutsideEdits ==
    ASSUME EInv, pc \notin Edited
    PROVE  Settings = disk /\ (pc # "idle" => disk = mem)
BY DEF EInv, Kept, Settings

(* A step that leaves .env alone and ends the command, or goes on outside of *)
(* the edits                                                                *)
LEMMA GoOn ==
    ASSUME EInv, pc # "idle", disk = mem,
           UNCHANGED <<disk, odd, stack, first, torn, kills>>,
           snaps' = snaps, recorded' \in BOOLEAN, generated' = generated,
           AtRest \/ \E place \in {"migrate", "render"} : Goto(place),
           recorded' /\ ~torn => disk = Migrated(first),
           pc' = "render" => cmd = "up" /\ recorded',
           cmd = "up" /\ pc' # "idle" => ~torn
    PROVE  EInv'
<1>1. /\ pc' \in {"idle", "migrate", "render"}
      /\ pc' = "idle" => cmd' = "none" /\ mem' = Nothing
      /\ pc' # "idle" => UNCHANGED <<cmd, mem, files>>
  BY DEF AtRest, Goto
<1>2. Settings = disk /\ Settings' = disk
  BY <1>1 DEF Settings
<1>3. TypeOK'
  BY <1>1, EmptyFile DEF EInv, TypeOK, Places
<1>4. Kept'
  BY <1>1, <1>2 DEF EInv, Kept
<1>5. Snapshots' /\ Reached'
  BY <1>1 DEF EInv, Snapshots, Reached, Edits, Edited
<1>6. Finished'
  BY <1>2 DEF Finished
<1>7. Started'
  BY <1>1 DEF EInv, Started, Foresees, TypeOK
<1> QED
  BY <1>3, <1>4, <1>5, <1>6, <1>7 DEF EInv

(* check, and a run that finds nothing to migrate, leave everything as it is *)
LEMMA CheckStep == EInv /\ (Check \/ Blocked \/ NothingPending) => EInv'
<1> SUFFICES ASSUME EInv, Check \/ Blocked \/ NothingPending PROVE EInv'
  OBVIOUS
<1>1. /\ pc \in {"check", "migrate"} /\ pc # "idle" /\ disk = mem
      /\ UNCHANGED <<disk, odd, recorded, snaps, generated, stack, first, torn, kills>>
      /\ recorded \in BOOLEAN
  <2>1. /\ pc \in {"check", "migrate"}
        /\ UNCHANGED <<disk, odd, recorded, snaps, generated, stack, first, torn, kills>>
    BY DEF Check, Blocked, NothingPending, At
  <2>2. pc # "idle" /\ pc \notin Edited
    BY <2>1 DEF Edited
  <2>3. disk = mem
    BY <2>2, OutsideEdits
  <2>4. recorded \in BOOLEAN
    BY DEF EInv, TypeOK
  <2> QED
    BY <2>1, <2>2, <2>3, <2>4
<1>2. recorded /\ ~torn => disk = Migrated(first)
  BY <1>1, OutsideEdits DEF EInv, Finished, Edited
<1>3. CASE Check
  <2>1. Goto("migrate") /\ ~torn
    BY <1>1, <1>3, OutsideEdits DEF Check, Accepted, EInv, Kept, Edited
  <2> QED
    BY <1>1, <1>2, <2>1, GoOn DEF Goto
<1>4. CASE Blocked
  BY <1>1, <1>2, <1>4, GoOn DEF Blocked, AtRest
<1>5. CASE NothingPending
  <2>1. recorded /\ (cmd = "up" => ~torn) /\ AfterMigrations
    BY <1>5 DEF NothingPending, At, EInv, Started
  <2>2. CASE cmd = "up"
    BY <1>1, <1>2, <2>1, <2>2, GoOn DEF AfterMigrations, Goto
  <2>3. CASE cmd # "up"
    BY <1>1, <1>2, <2>1, <2>3, GoOn DEF AfterMigrations, AtRest
  <2> QED
    BY <2>2, <2>3
<1> QED
  BY <1>3, <1>4, <1>5

(* What 0003 ends with, it is recorded for *)
LEMMA RecordStep == EInv /\ Record => EInv'
<1> SUFFICES ASSUME EInv, Record PROVE EInv'
  OBVIOUS
<1>1. /\ pc = "record" /\ disk = mem /\ recorded' = TRUE /\ AfterMigrations
      /\ UNCHANGED <<disk, odd, snaps, generated, stack, first, torn, kills>>
      /\ (cmd = "up" => ~torn)
  BY DEF Record, At, EInv, Started
<1>2. Settings = mem
  BY <1>1 DEF Settings
<1>3. Migrated(mem) = mem
  <2>1. WellFormed(mem)
    BY <1>2 DEF EInv, Kept
  <2>2. /\ DOMAIN mem \cap OldKeys = {}
        /\ ~LacksGrafana(FilesOf(mem)) /\ IsSet(mem, LOG_BACKEND)
        /\ ~IsSet(mem, RETENTION) => ~CmsOn(mem, NEW_ENABLED)
    BY <1>1, NewKeys DEF EInv, Reached, Edited, Holds
  <2> QED
    BY <2>1, <2>2, Ends
<1>4. ~torn => disk = Migrated(first)
  BY <1>1, <1>2, <1>3 DEF EInv, Kept
<1>5. CASE cmd = "up"
  BY <1>1, <1>4, <1>5, GoOn DEF AfterMigrations, Goto
<1>6. CASE cmd # "up"
  BY <1>1, <1>4, <1>6, GoOn DEF AfterMigrations, AtRest
<1> QED
  BY <1>5, <1>6

(* The snapshot is taken of what 0003 starts from *)
LEMMA SnapshotStep == EInv /\ Snapshot => EInv'
<1> SUFFICES ASSUME EInv, Snapshot PROVE EInv'
  OBVIOUS
<1> DEFINE s == [env |-> disk, recorded |-> recorded]
<1>1. /\ pc = "migrate" /\ disk = mem /\ ~recorded /\ pc' = "overlay" /\ snaps' = snaps \cup {s}
      /\ UNCHANGED <<cmd, mem, files, disk, odd, recorded, generated, stack, first, torn, kills>>
  BY DEF Snapshot, At, Goto
<1>2. s.env = disk /\ s.recorded = recorded
  OBVIOUS
<1> HIDE DEF s
<1>3. Settings = disk /\ Settings' = disk
  BY <1>1 DEF Settings
<1>4. WellFormed(disk) /\ DOMAIN disk \subseteq Keys /\ recorded \in BOOLEAN
  BY <1>3 DEF EInv, Kept, WellFormed, TypeOK
<1>5. TypeOK'
  BY <1>1, <1>2, <1>4 DEF EInv, TypeOK, Places
<1>6. Kept'
  BY <1>1, <1>3 DEF EInv, Kept
<1>7. Snapshots'
  <2>1. torn <=> ~Holds(disk, REST)
    BY <1>3 DEF EInv, Kept
  <2>2. ~torn => Migrated(disk) = Migrated(first)
    BY <1>3 DEF EInv, Kept
  <2>3. ASSUME NEW t \in snaps'
        PROVE ~t.recorded /\ WellFormed(t.env) /\ (Holds(t.env, REST) => Migrated(t.env) = Migrated(first))
    BY <1>1, <1>2, <1>4, <2>1, <2>2 DEF EInv, Snapshots
  <2>4. \E t \in snaps' : Holds(t.env, REST)
    BY <1>1, <1>2, <2>1 DEF EInv, Snapshots
  <2> QED
    BY <1>1, <2>3, <2>4 DEF Snapshots
<1>8. Reached' /\ Finished' /\ Started'
  BY <1>1 DEF EInv, Reached, Finished, Started, Foresees, Edited
<1> QED
  BY <1>5, <1>6, <1>7, <1>8 DEF EInv

(* Whatever the Scenario is from, Grafana's files are those of the new .env *)
LEMMA RenderStep == EInv /\ Render => EInv'
<1> SUFFICES ASSUME EInv, Render PROVE EInv'
  OBVIOUS
<1>1. /\ pc = "render" /\ disk = mem /\ pc' = "compose"
      /\ generated' = IF RunsGrafana(files)
                        THEN [grafana |-> TRUE, source |-> DataSource(LogBackend(mem, files), files)]
                        ELSE NoGrafana
      /\ UNCHANGED <<cmd, mem, files, disk, odd, recorded, snaps, stack, first, torn, kills>>
  BY DEF Render, At, Goto
<1>2. cmd = "up" /\ recorded /\ ~torn /\ Foresees(files)
  BY <1>1 DEF EInv, Started
<1>3. Settings = mem /\ Settings' = mem
  BY <1>1 DEF Settings
<1>4. mem = Migrated(first)
  BY <1>2, <1>3 DEF EInv, Finished
<1>5. DataSource(LogBackend(mem, files), files) = DataSource(LogBackend(mem, FilesOf(mem)), FilesOf(mem))
  BY <1>2, <1>4 DEF Foresees, LogBackend, DataSource
<1>6. generated' = Rendered(Migrated(first))
  BY <1>1, <1>2, <1>4, <1>5 DEF Foresees, Rendered
<1>7. generated' \in [grafana : BOOLEAN, source : {"none", "victorialogs", "loki"}]
  BY <1>1 DEF DataSource, NoGrafana
<1>8. TypeOK'
  BY <1>1, <1>7 DEF EInv, TypeOK, Places
<1>9. Kept' /\ Snapshots' /\ Reached' /\ Finished'
  BY <1>1, <1>3 DEF EInv, Kept, Snapshots, Reached, Finished, Edits, Edited
<1>10. Started'
  BY <1>1, <1>2, <1>6 DEF EInv, Started, Foresees
<1> QED
  BY <1>8, <1>9, <1>10 DEF EInv

(* The stack starts from the .env that 0003 left *)
LEMMA StartStep == EInv /\ Start => EInv'
<1> SUFFICES ASSUME EInv, Start PROVE EInv'
  OBVIOUS
<1>1. /\ pc = "compose" /\ disk = mem /\ stack' = disk
      /\ cmd' = "none" /\ pc' = "idle" /\ mem' = Nothing
      /\ UNCHANGED <<disk, odd, recorded, snaps, generated, first, torn, kills>>
  BY DEF Start, At, AtRest
<1>2. cmd = "up" /\ recorded /\ ~torn /\ generated = Rendered(Migrated(first))
  BY <1>1 DEF EInv, Started
<1>3. Settings = disk /\ Settings' = disk
  BY <1>1 DEF Settings
<1>4. disk = Migrated(first)
  BY <1>2, <1>3 DEF EInv, Finished
<1>5. TypeOK'
  BY <1>1, EmptyFile DEF EInv, TypeOK, Places
<1>6. Kept' /\ Snapshots' /\ Reached' /\ Finished'
  BY <1>1, <1>3 DEF EInv, Kept, Snapshots, Reached, Finished, Edits, Edited
<1>7. Started'
  BY <1>1, <1>2, <1>4 DEF Started
<1> QED
  BY <1>5, <1>6, <1>7 DEF EInv

(* A command killed in a write loses .env, and leaves a snapshot *)
LEMMA KillStep == EInv /\ Kill => EInv'
<1> SUFFICES ASSUME EInv, Kill PROVE EInv'
  OBVIOUS
<1>1. /\ pc # "idle" /\ torn' = (torn \/ disk # mem) /\ kills < MaxKills /\ kills' = kills + 1
      /\ cmd' = "none" /\ pc' = "idle" /\ mem' = Nothing
      /\ UNCHANGED <<disk, odd, recorded, snaps, generated, stack, first>>
  BY DEF Kill, AtRest
<1>2. Settings = mem /\ Settings' = disk
  BY <1>1 DEF Settings
<1>3. TypeOK'
  <2>1. kills' \in 0..MaxKills
    BY <1>1, EnvAssumption DEF EInv, TypeOK
  <2>2. torn' \in BOOLEAN
    BY <1>1 DEF EInv, TypeOK
  <2> QED
    BY <1>1, <2>1, <2>2, EmptyFile DEF EInv, TypeOK, Places
<1>4. CASE disk = mem
  <2>1. torn' = torn
    BY <1>1, <1>4 DEF EInv, TypeOK
  <2>2. Kept' /\ Finished'
    BY <1>1, <1>2, <1>4, <2>1 DEF EInv, Kept, Finished
  <2>3. Snapshots' /\ Reached' /\ Started'
    BY <1>1, <2>1 DEF EInv, Snapshots, Reached, Started, Edits, Edited
  <2> QED
    BY <1>3, <2>2, <2>3 DEF EInv
<1>5. CASE disk # mem
  <2>1. disk = Nothing /\ pc \in Edited /\ torn'
    BY <1>1, <1>5 DEF EInv, Kept
  <2>2. Kept' /\ Finished'
    BY <1>1, <1>2, <2>1, EmptyFile DEF Kept, Finished
  <2>3. Snapshots' /\ Reached' /\ Started'
    BY <1>1, <2>1 DEF EInv, Snapshots, Reached, Started, Edits, Edited
  <2> QED
    BY <1>3, <2>2, <2>3 DEF EInv
<1> QED
  BY <1>4, <1>5

(* The operator puts back a snapshot from before 0003 *)
LEMMA RestoreStep == EInv /\ Restore => EInv'
<1> SUFFICES ASSUME EInv, Restore PROVE EInv'
  OBVIOUS
<1>1. PICK s \in snaps : Holds(s.env, REST) /\ disk' = s.env /\ recorded' = s.recorded
  BY DEF Restore
<1>2. /\ pc = "idle" /\ torn' = FALSE
      /\ UNCHANGED <<odd, mem, files, cmd, pc, snaps, generated, stack, first, kills>>
  BY DEF Restore
<1>3. /\ ~recorded' /\ recorded' \in BOOLEAN
      /\ WellFormed(disk') /\ Holds(disk', REST) /\ Migrated(disk') = Migrated(first)
  BY <1>1 DEF EInv, Snapshots, TypeOK
<1>4. Settings' = disk'
  BY <1>2 DEF Settings
<1>5. TypeOK'
  BY <1>2, <1>3 DEF EInv, TypeOK, WellFormed
<1>6. Kept'
  BY <1>2, <1>3, <1>4 DEF Kept
<1>7. Snapshots' /\ Reached' /\ Finished' /\ Started'
  BY <1>2, <1>3 DEF EInv, Snapshots, Reached, Finished, Started, Edits, Edited
<1> QED
  BY <1>5, <1>6, <1>7 DEF EInv
-----------------------------------------------------------------------------
(* Every step, whoever takes it *)
LEMMA NextInv == EInv /\ [Next]_vars => EInv'
<1> SUFFICES ASSUME EInv, [Next]_vars PROVE EInv'
  OBVIOUS
<1>1. ASSUME NEW c \in {"migrate", "up"}, Begin(c) PROVE EInv'
  BY <1>1, BeginStep
<1>2. CASE Check \/ Blocked \/ NothingPending
  BY <1>2, CheckStep
<1>3. CASE Snapshot
  BY <1>3, SnapshotStep
<1>4. CASE Apply
  BY <1>4, OverlayStep, ClassStep, DropClassStep, BackendStep, EnabledStep, DropEnabledStep,
     CarryStep, DropDaysStep, RewriteStep DEF Apply
<1>5. CASE Record
  BY <1>5, RecordStep
<1>6. CASE Render
  BY <1>6, RenderStep
<1>7. CASE Start
  BY <1>7, StartStep
<1>8. CASE Kill
  BY <1>8, KillStep
<1>9. CASE Restore
  BY <1>9, RestoreStep
<1>10. CASE UNCHANGED vars
  <2>1. /\ UNCHANGED <<disk, odd, mem, files, cmd, pc, recorded>>
        /\ UNCHANGED <<snaps, generated, stack, first, torn, kills>>
    BY <1>10 DEF vars
  <2>2. Settings' = Settings
    BY <2>1 DEF Settings
  <2>3. TypeOK' /\ Kept'
    BY <2>1, <2>2 DEF EInv, TypeOK, Kept
  <2>4. Snapshots' /\ Reached'
    BY <2>1 DEF EInv, Snapshots, Reached
  <2>5. Finished' /\ Started'
    BY <2>1, <2>2 DEF EInv, Finished, Started, Foresees
  <2> QED
    BY <2>3, <2>4, <2>5 DEF EInv
<1> QED
  BY <1>1, <1>2, <1>3, <1>4, <1>5, <1>6, <1>7, <1>8, <1>9, <1>10 DEF Next, Progress

(* The invariant all of the following comes from *)
THEOREM Inductive == Spec => []EInv
<1> QED
  BY InitInv, NextInv, PTL DEF Spec

(* TypeOK: what .env, its copies and a command at work may be *)
THEOREM TypeCorrect == Spec => []TypeOK
<1>1. EInv => TypeOK
  BY DEF EInv
<1> QED
  BY <1>1, Inductive, PTL

(* RerunEndsAsUndisturbed: wherever 0003 and the runs that repeat it were    *)
(* cut off, in a write of .env included, it is not recorded for anything but *)
(* the .env an undisturbed run ends with                                     *)
THEOREM RerunSound == Spec => []RerunEndsAsUndisturbed
<1>1. EInv => RerunEndsAsUndisturbed
  <2> SUFFICES ASSUME EInv, recorded, ~torn PROVE disk = Migrated(first)
    BY DEF RerunEndsAsUndisturbed
  <2>1. pc \notin Edited
    BY DEF EInv, Reached, Edits
  <2> QED
    BY <2>1, OutsideEdits DEF EInv, Finished
<1> QED
  BY <1>1, Inductive, PTL

(* LostIsRecoverable: when a kill has left a truncated .env, a snapshot from *)
(* before it is kept that leads to the same end                              *)
THEOREM LostSound == Spec => []LostIsRecoverable
<1>1. EInv => LostIsRecoverable
  BY DEF EInv, Snapshots, LostIsRecoverable
<1> QED
  BY <1>1, Inductive, PTL

(* What the CMS of the new release deletes, and when *)
LEMMA SameHorizon ==
    ASSUME NEW e \in Envs, ~IsSet(e, NEW_ENABLED), ~IsSet(e, RETENTION),
           IsSet(e, OLD_DAYS) => WithUnit(e[OLD_DAYS]) \in Horizons
    PROVE  NewHorizon(Migrated(e)) >= OldHorizon(e)
<1> DEFINE m == Migrated(e)
<1>1. Keys \ OldKeys = {COMPOSE_FILE, LOG_CLASS, LOG_BACKEND, LOG_URL, NEW_ENABLED, RETENTION, REST}
  BY NewKeys
<1>2. CmsOn(m, NEW_ENABLED) <=> CmsOn(e, OLD_ENABLED)
  <2>1. NewValue(e, NEW_ENABLED) = IF IsSet(e, OLD_ENABLED) THEN e[OLD_ENABLED]
                                   ELSE Plain(e, NEW_ENABLED)
    BY NewValues, Distinct, NewKeys DEF EnabledAfter
  <2>2. ~EnvBool(Plain(e, NEW_ENABLED))
    BY NotBlank DEF Plain, IsSet
  <2>3. CmsOn(e, OLD_ENABLED) <=> IsSet(e, OLD_ENABLED) /\ EnvBool(e[OLD_ENABLED])
    BY NotBlank DEF CmsOn, IsSet
  <2>4. Holds(m, NEW_ENABLED) => m[NEW_ENABLED] = NewValue(e, NEW_ENABLED)
    BY MigratedIs DEF Holds
  <2>5. EnvBool(NewValue(e, NEW_ENABLED)) => Holds(m, NEW_ENABLED)
    BY <1>1, NotBlank, MigratedIs DEF Holds
  <2> HIDE DEF m
  <2> QED
    BY <2>1, <2>2, <2>3, <2>4, <2>5 DEF CmsOn
<1>3. CASE ~CmsOn(e, OLD_ENABLED)
  BY <1>2, <1>3 DEF OldHorizon, NewHorizon, Forever
<1>4. CASE CmsOn(e, OLD_ENABLED)
  <2>1. EnabledAfter(e) = OLD_ENABLED
    BY <1>4, NotBlank DEF EnabledAfter, CmsOn, IsSet
  <2>2. NewValue(e, RETENTION) = IF IsSet(e, OLD_DAYS) THEN WithUnit(e[OLD_DAYS]) ELSE "90d"
    BY <1>4, <2>1, NewValues
  <2>3. NewValue(e, RETENTION) # Blank
    <3>1. IsSet(e, OLD_DAYS) => WithUnit(e[OLD_DAYS]) # Blank
      BY FirstWellFormed DEF WellFormed, IsSet
    <3> QED
      BY <2>2, <3>1, NotBlank
  <2>4. IsSet(m, RETENTION) /\ m[RETENTION] = NewValue(e, RETENTION)
    BY <1>1, <2>3, MigratedIs DEF Holds, IsSet
  <2> HIDE DEF m
  <2>5. NewHorizon(m) = DaysOf(NewValue(e, RETENTION))
    BY <1>2, <1>4, <2>4 DEF NewHorizon
  <2>6. DaysOf(NewValue(e, RETENTION)) = OldHorizon(e)
    <3>1. DaysOf("90d") = 90
      BY DEF DaysOf
    <3>2. OldHorizon(e) = IF IsSet(e, OLD_DAYS) THEN DaysOf(WithUnit(e[OLD_DAYS])) ELSE 90
      BY <1>4 DEF OldHorizon
    <3>3. CASE IsSet(e, OLD_DAYS)
      BY <2>2, <3>2, <3>3
    <3>4. CASE ~IsSet(e, OLD_DAYS)
      BY <2>2, <3>1, <3>2, <3>4
    <3> QED
      BY <3>3, <3>4
  <2>7. NewValue(e, RETENTION) \in Horizons
    BY <2>2 DEF Horizons
  <2>8. DaysOf(NewValue(e, RETENTION)) \in Nat
    BY <2>7 DEF DaysOf, Horizons
  <2> QED
    BY <2>5, <2>6, <2>8 DEF m
<1> QED
  BY <1>3, <1>4

(* RetentionNotShortened: no stack is ever started that deletes executions   *)
(* sooner than the previous release did, given that the days an operator had *)
(* set are among those DaysOf knows                                          *)
THEOREM RetentionSound ==
    ASSUME \A e \in Envs : IsSet(e, OLD_DAYS) => WithUnit(e[OLD_DAYS]) \in Horizons
    PROVE  Spec => []RetentionNotShortened
<1>1. EInv => RetentionNotShortened
  <2> SUFFICES ASSUME EInv, DOMAIN stack # {}, ~IsSet(first, NEW_ENABLED), ~IsSet(first, RETENTION)
               PROVE  NewHorizon(stack) >= OldHorizon(first)
    BY DEF RetentionNotShortened
  <2>1. first \in Envs /\ stack = Migrated(first)
    BY DEF EInv, TypeOK, Started
  <2> QED
    BY <2>1, SameHorizon
<1> QED
  BY <1>1, Inductive, PTL

(* GrafanaAsStarted: Grafana never starts without the files of its own, with *)
(* those for another store, or behind the metrics, given an operator who, if *)
(* he lists both of their overlays, lists Grafana's first                    *)
THEOREM GrafanaSound ==
    ASSUME \A e \in Envs :
               Has(FilesOf(e), GRAFANA) /\ Has(FilesOf(e), METRICS) =>
                   \E i, j \in DOMAIN FilesOf(e) :
                       i < j /\ FilesOf(e)[i] = GRAFANA /\ FilesOf(e)[j] = METRICS
    PROVE  Spec => []GrafanaAsStarted
<1>1. EInv => GrafanaAsStarted
  <2> SUFFICES ASSUME EInv, DOMAIN stack # {} PROVE GrafanaAsStarted
    BY DEF GrafanaAsStarted
  <2>1. first \in Envs /\ stack = Migrated(first) /\ generated = Rendered(stack)
    BY DEF EInv, TypeOK, Started
  <2>2. WellFormed(first)
    BY <2>1, FirstWellFormed
  <2>3. Has(FilesOf(stack), GRAFANA) =>
            generated.grafana /\ generated.source = DataSource(LogBackend(stack, FilesOf(stack)), FilesOf(stack))
    BY <2>1 DEF Rendered
  <2>4. ASSUME Has(FilesOf(stack), METRICS)
        PROVE  \E i, j \in DOMAIN FilesOf(stack) :
                   i < j /\ FilesOf(stack)[i] = GRAFANA /\ FilesOf(stack)[j] = METRICS
    <3>1. Has(FilesOf(first), METRICS)
      BY <2>1, <2>2, <2>4, Foreseen
    <3>2. CASE LacksGrafana(FilesOf(first))
      BY <2>1, <2>2, <3>1, <3>2, FilesAre, MigratedFiles, GrafanaInserted
    <3>3. CASE ~LacksGrafana(FilesOf(first))
      <4>1. FilesOf(stack) = FilesOf(first)
        BY <2>1, <2>2, <3>3, MigratedFiles
      <4> QED
        BY <2>1, <3>1, <3>3, <4>1 DEF LacksGrafana
    <3> QED
      BY <3>2, <3>3
  <2> QED
    BY <2>3, <2>4 DEF GrafanaAsStarted
<1> QED
  BY <1>1, Inductive, PTL
=============================================================================

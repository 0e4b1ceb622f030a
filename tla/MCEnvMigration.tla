--------------------------- MODULE MCEnvMigration ---------------------------
(* EnvMigration for TLC.  The logger class, the retention and the overlays  *)
(* do not meet in any branch of 0003, so each is varied with the others as   *)
(* in a plain installation.                                                  *)
EXTENDS EnvMigration

(* The .env files that hold `key` with one of `values`, or not at all *)
Holding(key, values) == {[k \in {key} |-> v] : v \in values} \cup {Nothing}

Joined(e, f) == [k \in DOMAIN e \cup DOMAIN f |-> IF k \in DOMAIN e THEN e[k] ELSE f[k]]
Product(A, B) == {Joined(e, f) : e \in A, f \in B}

Rest == [k \in {REST} |-> "kept"]

Overlays == Holding(COMPOSE_FILE,
    {<<BASE_FILE>>, <<BASE_FILE, METRICS>>, <<BASE_FILE, GRAFANA, METRICS>>,
     <<BASE_FILE, GRAFANA, LOGS>>, <<BASE_FILE, GRAFANA, METRICS, LOGS>>})
Backends ==
    Holding(LOG_BACKEND, {Blank})
        \cup {[k \in {LOG_BACKEND, LOG_URL} |-> IF k = LOG_URL THEN "url" ELSE store] :
                 store \in {"loki", "victorialogs"}}

Classes ==
    Product(Holding(OLD_CLASS, {Blank, "DbLogger", "LokiLogger", Optimized}),
            Holding(LOG_CLASS, {Blank, "own"}))

Retentions ==
    Product(Product(Holding(OLD_ENABLED, {Blank, "True", "ok", "off"}),
                    Holding(NEW_ENABLED, {Blank, "True", "off"})),
            Product(Holding(OLD_DAYS, {"120"}), Holding(RETENTION, {Blank, "7d"})))

Plain == {Rest}
MCEnvs ==
    UNION {Product(Plain, Product(Overlays, Backends)),
           Product(Plain, Product({[k \in {COMPOSE_FILE} |-> <<BASE_FILE, METRICS>>]}, Classes)),
           Product(Plain, Retentions)}

MCOddities == {{}, {OLD_CLASS, OLD_ENABLED}}
=============================================================================

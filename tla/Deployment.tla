----------------------------- MODULE Deployment -----------------------------
(***************************************************************************)
(* Which configuration an instance starts with (config.py) and what it     *)
(* reports of itself while the services behind it come and go              *)
(* (observability.py, healthz).  A URL is reduced to its scheme.           *)
(***************************************************************************)
CONSTANTS Unset  \* a variable that is not in the environment

ASSUME DeploymentAssumption ==
    Unset \notin {"production", "own", "postgres", "postgresql", "sqlite", "redis"}

\* The environment of an instance.
Environments ==
    [FLASK_ENV : {Unset, "development", "testing", "production", "staging"},
     SECRET_KEY : {Unset, "dev-only", "own"},
     DATABASE_URL : {Unset, "postgres", "postgresql", "postgresql+psycopg", "sqlite"},
     REDIS_URL : {Unset, "redis"}]

\* _normalize_db_url
NormalizeDbUrl(url) ==
    IF url \in {"postgres", "postgresql"} THEN "postgresql+psycopg" ELSE url

\* SQLALCHEMY_DATABASE_URI: a file of its own if nothing is set.
DatabaseUri(env) ==
    IF env.DATABASE_URL = Unset THEN "sqlite" ELSE NormalizeDbUrl(env.DATABASE_URL)

\* get_config: an unknown name means development.
ConfigName(env) ==
    IF env.FLASK_ENV \in {"testing", "production"} THEN env.FLASK_ENV ELSE "development"

\* A bug: only a missing secret is refused.
SecretOnly(env) == env.SECRET_KEY = "own"

\* ProductionConfig.__init__: everything it does not raise on.
FitForProduction(env) ==
    /\ env.SECRET_KEY = "own"
    /\ env.DATABASE_URL # Unset /\ DatabaseUri(env) # "sqlite"
    /\ env.REDIS_URL # Unset

Boots(env) == ConfigName(env) = "production" => FitForProduction(env)

\* What the instance uses, its cache and message queue one and the same Redis or none.
Config(env) ==
    [name |-> ConfigName(env),
     database |-> IF ConfigName(env) = "testing" THEN "sqlite" ELSE DatabaseUri(env),
     cache |-> IF ConfigName(env) = "testing" \/ env.REDIS_URL = Unset THEN "SimpleCache"
               ELSE "RedisCache",
     queue |-> env.REDIS_URL]

\* Only the database takes an instance out of rotation.
StatusCode(dbUp, redisUp) == IF dbUp THEN 200 ELSE 503

\* healthz
Healthz(env, dbUp, redisUp) ==
    LET redis == IF env.REDIS_URL # "redis" THEN "n/a" ELSE IF redisUp THEN "ok" ELSE "error"
        status == StatusCode(dbUp, redisUp)
    IN  [code |-> status, redis |-> redis,
         status |-> IF status = 200 /\ redis # "error" THEN "ok" ELSE "degraded"]

=============================================================================

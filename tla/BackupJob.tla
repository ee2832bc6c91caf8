------------------------------ MODULE BackupJob ------------------------------
(***************************************************************************)
(* What internal/backup builds from a ScheduledBackup: the script, the     *)
(* pod, the CronJob, the Job of a manual run and the claim of restic's     *)
(* cache; what internal/healthchecks wraps around the script; and the      *)
(* one-off Jobs that internal/cli/runner derives from the CronJob.         *)
(*                                                                         *)
(* An optional field is a set: {} when it is not given, {v} when it is v.  *)
(* A quoted name stands for any value of its own: Secrets, claims, images. *)
(***************************************************************************)
EXTENDS Integers, Sequences, FiniteSets, Schedule

Or(given, default) == IF given = {} THEN default ELSE CHOOSE v \in given : TRUE

-------------------------------------------------------------------------------
(* The script *)

\* EffectiveTag and EffectivePath; the dump of a database is read from a pipe,
\* which restic stores under one path.
SourceTag(source)  == Or(source.tag, IF source.type = "files" THEN "files" ELSE "db")
SourcePath(source) == IF source.type = "files" THEN Or(source.path, ".") ELSE "/stdin"

Backup(source, retry) ==
  [command |-> "backup", tag |-> SourceTag(source), path |-> SourcePath(source), retry |-> retry]
\* keep = 0: the spec has no retention; n > 0 stands for a policy that keeps n
\* snapshots. The variant does not pass --retry-lock on.
ForgetAtOnce(keep, retry) == [command |-> "forget", keep |-> keep, retry |-> FALSE]
Forget(keep, retry) == [command |-> "forget", keep |-> keep, retry |-> retry]
Line(command) == [command |-> command, retry |-> FALSE]

\* The variant makes room for the backups before they are made.
RenderForgetFirst(spec) ==
  (IF spec.keep = 0 THEN <<>> ELSE <<Forget(spec.keep, spec.retryLock)>>)
    \o [i \in DOMAIN spec.sources |-> Backup(spec.sources[i], spec.retryLock)]
    \o <<Line("cache")>>

\* Every restic command of the sources and the retention takes --retry-lock when
\* the spec has a positive one. A spec.script replaces them all.
Render(spec) ==
  LET commands ==
        IF spec.script THEN <<Line("script")>>
        ELSE [i \in DOMAIN spec.sources |-> Backup(spec.sources[i], spec.retryLock)]
               \o (IF spec.keep = 0 THEN <<>> ELSE <<Forget(spec.keep, spec.retryLock)>>)
  IN  commands \o <<Line("cache")>>

-------------------------------------------------------------------------------
(* Healthchecks *)

\* Resolve, with the namespace for a default slug.
Reporter(hc, config, namespace) ==
  [enabled |-> Or(hc.enabled, config.enabled), create |-> Or(hc.create, config.autoCreate),
   apiURL  |-> IF hc.apiURL = {} THEN config.apiURL ELSE hc.apiURL,
   slug    |-> Or(hc.slug, namespace), pingKey |-> hc.pingKey, uuid |-> hc.uuid]

\* The variant asks for a new check even of a UUID, which names an existing one.
CreatesAlways(reporter) == reporter.create
Creates(reporter) == reporter.create /\ reporter.uuid = {}

Wrap(reporter, script) ==
  [runitor |-> reporter.enabled, create |-> reporter.enabled /\ Creates(reporter),
   script |-> script]

\* Environments: a variable by itself, and one environment over another.
NoVariable == [n \in {} |-> {}]
Variable(name, value) == [n \in {name} |-> value]
Over(env, below) ==
  [n \in DOMAIN env \cup DOMAIN below |-> IF n \in DOMAIN env THEN env[n] ELSE below[n]]

\* Env refuses a reporter that could not ping. A namespace is never empty, so
\* that there is always a slug.
EnvFails(reporter) ==
  reporter.enabled /\ (reporter.apiURL = {} \/ (reporter.uuid = {} /\ reporter.pingKey = {}))

ReporterEnv(reporter) ==
  IF ~reporter.enabled THEN NoVariable
  ELSE Over(Variable("HC_API_URL", reporter.apiURL),
            IF reporter.uuid # {} THEN Variable("CHECK_UUID", reporter.uuid)
            ELSE Over(Variable("CHECK_SLUG", {reporter.slug}),
                      Variable("PING_KEY", reporter.pingKey)))

-------------------------------------------------------------------------------
(* The pod and its Job *)

CachePath == "/cache"
SecretPath == "/var/run/secrets/borgbase/database"
MountPath(volume) == Or(volume.mountPath, volume.defaultPath)

Claim(name) == [kind |-> "claim", name |-> name]
Secret(name) == [kind |-> "secret", name |-> name]
EmptyDir == [kind |-> "empty", name |-> ""]
Volume(name, source) == [name |-> name, source |-> source]
Mount(name, path, readOnly) == [name |-> name, path |-> path, readOnly |-> readOnly]

OwnCache == "own cache"
CacheEnabled(spec) == Or(spec.cache.enabled, TRUE)

\* BuildCachePVC: none when the cache is off.
CacheClaim(spec, config) ==
  IF ~CacheEnabled(spec) THEN {}
  ELSE {[name |-> OwnCache, size |-> Or(spec.cache.size, "1Gi"),
         accessMode |-> Or(spec.cache.accessMode, "ReadWriteMany"),
         storageClass |-> IF spec.cache.storageClass = {} THEN config.cacheStorageClass
                          ELSE spec.cache.storageClass]}

DatabaseSecret(db) ==
  Or(db.secretName, IF db.engine = "mariadb" THEN "mariadb" ELSE "postgresql-app")

\* buildVolumes: the cache, the credentials of the database, the data.
Volumes(spec) ==
  (IF CacheEnabled(spec) THEN {Volume("cache", Claim(OwnCache))} ELSE {})
    \cup {Volume("db-credentials", Secret(DatabaseSecret(db))) : db \in spec.database}
    \cup {Volume("data", Claim(v.existingClaim)) : v \in spec.volume}
Mounts(spec) ==
  (IF CacheEnabled(spec) THEN {Mount("cache", CachePath, FALSE)} ELSE {})
    \cup {Mount("db-credentials", SecretPath, TRUE) : db \in spec.database}
    \cup {Mount("data", MountPath(v), v.readOnly) : v \in spec.volume}

MariaDB(spec) == \E db \in spec.database : db.engine = "mariadb"

\* buildAffinity: the pod has to run beside the app that holds the volume, or
\* beside the database; beside the primary of a CNPG cluster if it can.
NoAffinity == [required |-> {}, preferred |-> {}]
DefaultAffinity(spec) ==
  CASE spec.volume # {} -> [NoAffinity EXCEPT !.required = {"app of the namespace"}]
    [] spec.volume = {} /\ MariaDB(spec) -> [NoAffinity EXCEPT !.required = {"mariadb"}]
    [] spec.volume = {} /\ spec.database # {} /\ ~MariaDB(spec) ->
         [NoAffinity EXCEPT !.preferred = {"cnpg primary"}]
    [] OTHER -> NoAffinity

\* buildEnv: a variable of the spec comes last, and wins.
Env(spec, reporter) ==
  LET host == Over(Variable("RESTIC_HOST", {spec.namespace}), Variable("TZ", spec.timeZone))
      own  == IF ~MariaDB(spec) THEN host
              ELSE Over(host, [v \in {"DB_HOST", "DB_DATABASE", "DB_USERNAME"} |-> {v}])
  IN  Over(spec.env, Over(ReporterEnv(reporter), own))

\* The error of buildEnv that the CRD's rule refuses as well.
DatabaseFails(spec) == \E db \in spec.database : db.engine = "mariadb" /\ ~db.complete

\* BuildJobTemplate; the Secret of the Repository gives the environment its
\* credentials. backoffLimit is 0: a run is never retried.
JobTemplate(spec, config) ==
  LET reporter == Reporter(spec.healthchecks, config.healthchecks, spec.namespace) IN
  IF \/ spec.image \cup config.image = {} \/ DatabaseFails(spec) \/ EnvFails(reporter)
    THEN Rejected
    ELSE [command |-> Wrap(reporter, Render(spec)), image |-> Or(spec.image, Or(config.image, "")),
          env |-> Env(spec, reporter), envFrom |-> {Secret("repository")},
          volumes |-> Volumes(spec), mounts |-> Mounts(spec),
          workingDir |-> {MountPath(v) : v \in spec.volume},
          affinity |-> Or(spec.affinity, DefaultAffinity(spec)),
          labels |-> (IF MariaDB(spec) THEN {"mariadb-client"} ELSE {}) \cup spec.podLabels,
          idle |-> FALSE, ttl |-> 3600]

BuildCronJob(spec, config) ==
  LET schedule == ResolveSchedule(spec.schedule, spec.jitter)
      template == JobTemplate(spec, config)
  IN  IF schedule = Rejected \/ template = Rejected THEN Rejected
      ELSE [schedule |-> schedule, timeZone |-> spec.timeZone, suspend |-> spec.suspend,
            concurrency |-> Or(spec.concurrency, "Forbid"), template |-> template]

-------------------------------------------------------------------------------
(* The one-off Jobs of corg *)

\* filterVolumes and filterMounts; the variant leaves the mounts as they are.
WithoutVolumes(job, names) == [job EXCEPT !.volumes = {v \in @ : v.name \notin names}]
Without(job, names) ==
  [job EXCEPT !.volumes = {v \in @ : v.name \notin names},
              !.mounts  = {m \in @ : m.name \notin names}]

\* useEphemeralCache; the variant keeps the claim.
KeepSharedCache(job) == job
EphemeralCache(job) ==
  [job EXCEPT !.volumes =
    {IF v.name = "cache" THEN Volume("cache", EmptyDir) ELSE v : v \in @}]

WritableData(job) ==
  [job EXCEPT !.mounts = {IF m.name = "data" THEN [m EXCEPT !.readOnly = FALSE] ELSE m : m \in @}]

\* dropData: a Job that does not mount the data need not run beside the app.
DropData(job) == [Without(job, {"data"}) EXCEPT !.affinity.required = {}]

\* Build: the pod of the CronJob with another command and fewer volumes. It does
\* not run under runitor, and lives for ten minutes after its end.
RunnerJob(template, o) ==
  LET base  == [template EXCEPT !.ttl = 600, !.idle = o.tty, !.image = Or(o.image, @),
                  !.command = [runitor |-> FALSE, create |-> FALSE, script |-> o.command],
                  !.labels = {"corg"} \cup (@ \cap {"mariadb-client"})]
      cache == IF o.mountCache THEN base ELSE EphemeralCache(base)
      data  == IF o.mountData THEN WritableData(cache) ELSE DropData(cache)
      db    == IF o.mountDatabase THEN data ELSE Without(data, {"db-credentials"})
  IN  [db EXCEPT !.volumes = @ \cup {Volume(x.name, x.source) : x \in o.extra},
                 !.mounts  = @ \cup {Mount(x.name, x.path, x.readOnly) : x \in o.extra}]

\* Preflight: every Secret and claim the Job names exists.
Preflight(job, existing) ==
  {v.source : v \in job.volumes} \cup job.envFrom \subseteq existing \cup {EmptyDir}

\* The commands of corg that are one restic command in a one-off Job.
Options(command) ==
  [command |-> <<command>>, tty |-> FALSE, image |-> {}, extra |-> {}, mountData |-> FALSE,
   mountCache |-> FALSE, mountDatabase |-> FALSE]
UnlockCommand(removeAll) == [command |-> "unlock", all |-> removeAll, retry |-> FALSE]
\* Refused without a policy, and on a repository that is append-only.
PruneCommand(spec, appendOnly) ==
  IF appendOnly \/ spec.keep = 0 THEN Rejected ELSE Forget(spec.keep, FALSE)
===============================================================================

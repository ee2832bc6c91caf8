----------------------------- MODULE MCBackupPod -----------------------------
\* A few backups whose runs overlap, and many whose pods and schedules are only
\* built: no run of theirs starts.
EXTENDS BackupPod, TLC

CONSTANTS r1, r2, r3

Files == [type |-> "files", tag |-> {}, path |-> {}]
Postgres == [type |-> "cnpg", tag |-> {}, path |-> {}]
Reporting == [type |-> "cnpg", tag |-> {"db-external"}, path |-> {}]

NoOverrides == [enabled |-> {}, create |-> {}, apiURL |-> {}, slug |-> {}, pingKey |-> {},
                uuid |-> {}]
NoCache == [enabled |-> {FALSE}, size |-> {}, accessMode |-> {}, storageClass |-> {}]
Config == [image |-> {"restic"}, cacheStorageClass |-> {},
           healthchecks |-> [enabled |-> FALSE, autoCreate |-> TRUE, apiURL |-> {"hc"}]]

Plain ==
  [sources |-> <<Files>>, script |-> FALSE, keep |-> 1, retryLock |-> TRUE, image |-> {},
   namespace |-> "ns", timeZone |-> {}, suspend |-> FALSE, concurrency |-> {},
   schedule |-> [form |-> "shorthand", name |-> "@daily"], jitter |-> 1000,
   volume |-> {}, database |-> {}, cache |-> NoCache, affinity |-> {}, podLabels |-> {},
   env |-> << >>, healthchecks |-> NoOverrides]
Built(s, config) == [spec |-> s, config |-> config, appendOnly |-> FALSE, kinds |-> {}]

Reported == [NoOverrides EXCEPT !.enabled = {TRUE}, !.uuid = {"uuid"}]

\* Runs of one source or two, which overlap, fail and are killed.
Running ==
  {[Built([Plain EXCEPT !.sources = s[1], !.keep = s[2], !.retryLock = s[3],
                        !.healthchecks = Reported], Config)
     EXCEPT !.appendOnly = s[4], !.kinds = s[5]] :
   s \in {<< <<Files>>, 1, TRUE, FALSE, {"backup", "prune"} >>,
          << <<Files, Postgres>>, 1, TRUE, FALSE, {"backup", "unlock"} >>,
          << <<Files, Postgres>>, 2, FALSE, FALSE, {"backup"} >>,
          << <<Postgres, Reporting>>, 1, TRUE, FALSE, {"backup"} >>,
          << <<Postgres>>, 0, TRUE, FALSE, {"backup", "prune"} >>,
          << <<Files>>, 1, TRUE, TRUE, {"backup", "prune"} >>}}

Maybe(S) == {{}} \cup {{v} : v \in S}

\* Every combination of the settings that decide about healthchecks.
Pinged ==
  {Built([Plain EXCEPT !.healthchecks =
            [enabled |-> e, create |-> c, apiURL |-> a, slug |-> s, pingKey |-> k, uuid |-> u]],
         [Config EXCEPT !.healthchecks = [enabled |-> on, autoCreate |-> auto, apiURL |-> url]]) :
     e \in Maybe({TRUE, FALSE}), c \in Maybe({TRUE}), a \in Maybe({"own"}), s \in Maybe({"slug"}),
     k \in Maybe({"key"}), u \in Maybe({"uuid"}), on, auto \in BOOLEAN, url \in Maybe({"hc"})}

Caches == {NoCache, [NoCache EXCEPT !.enabled = {}, !.storageClass = {"nfs"}]}
DataVolumes ==
  Maybe({[existingClaim |-> "app", mountPath |-> p, defaultPath |-> "/app", readOnly |-> ro] :
           p \in Maybe({"/data"}), ro \in BOOLEAN})
Databases == Maybe({[engine |-> e, secretName |-> s, complete |-> c] :
                      e \in {"cnpg", "mariadb"}, s \in Maybe({"db"}), c \in BOOLEAN})

\* Every combination of what the pod mounts.
Mounting ==
  {Built([Plain EXCEPT !.cache = c, !.volume = v, !.database = d, !.image = i, !.podLabels = l,
                       !.affinity = a, !.script = s], [Config EXCEPT !.image = {}]) :
     c \in Caches, v \in DataVolumes, d \in Databases, i \in Maybe({"own"}), l \in {{}, {"x"}},
     a \in {{}, {NoAffinity}}, s \in BOOLEAN}

\* Jitters of the first and the last minute, hour, day and month, and some between.
SomeJitters ==
  {minute + 60 * hour + 1440 * day + 40320 * month :
     minute \in {0, 17, 59}, hour \in {0, 13, 23}, day \in {0, 6, 27}, month \in {0, 1, 11}}
FewJitters == {minute + 60 * hour : minute \in {0, 1, 17, 59}, hour \in {0, 1, 23}}

Scheduled(schedules, jitters) ==
  {Built([Plain EXCEPT !.schedule = s, !.jitter = j], Config) : s \in schedules, j \in jitters}
Every == {[form |-> "every", seconds |-> n] :
            n \in {0, 30, 90} \cup {60 * m : m \in 1..60} \cup {Hour * h : h \in 2..25}}
Crons ==
  {[form |-> "cron", cron |-> EveryDay(m, h)] :
     m \in {Only(0), Only(59), AnyMinute, Stepped(7, 59, 15)},
     h \in {AnyHour, Only(0), Only(23), Stepped(8, 18, 2)} \cup {Stepped(0, 23, n) : n \in (2..12) \cup {24, 30}}}
  \cup {[form |-> "cron", cron |-> Cron(Only(5), Only(4), AnyDom, AnyMonth, Only(1))]}

MCInputs ==
  Running \cup Pinged \cup Mounting
    \cup Scheduled({[form |-> "shorthand", name |-> n] : n \in Shorthands}, SomeJitters)
    \cup Scheduled(Every, FewJitters) \cup Scheduled(Crons, {0, 1439})

\* The pods are interchangeable.
MCSymmetry == Permutations(Runs)
===============================================================================

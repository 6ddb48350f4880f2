------------------------------ MODULE Settings ------------------------------
(***************************************************************************)
(* How a configuration is loaded: Config::from_toml and the resolve        *)
(* functions of src/src/config.rs, and the key under which what each rule  *)
(* finds is known to the dispatcher (Condition of src/src/evaluate.rs).    *)
(*                                                                         *)
(* A file is the tree its TOML parses to, as a function from the paths of  *)
(* its keys to their values. An element of an array of tables is a segment *)
(* of its own, as in the path the program prints: job[0].                  *)
(***************************************************************************)
EXTENDS Integers, Sequences, FiniteSets, SequencesExt

CONSTANTS
    Jobs, Checks, Ratios,  \* segments: elements of the arrays job, check and ratio
    Usable,                \* names that validate_subject_name accepts
    Addresses,             \* texts that parse as a socket address
    Urls,                  \* texts that parse as a URL
    Patterns,              \* texts that compile as a regular expression
    Blanks                 \* literals of nothing but white space

ASSUME SettingsAssumption ==
    /\ Jobs \cap Checks = {} /\ Jobs \cap Ratios = {} /\ Checks \cap Ratios = {}

-----------------------------------------------------------------------------
(* Values *)

\* Durations are in milliseconds.
Second == 1000
Minute == 60 * Second
Hour == 60 * Minute

\* A text is a sequence of literals, ${VAR}s, and a ${ that nothing ends.
Literal(x) == [is |-> "literal", name |-> x]
Variable(x) == [is |-> "variable", name |-> x]
Unterminated == [is |-> "unterminated", name |-> ""]

\* What a key can hold: a table, a text, or a number, which stands for a duration
\* too, and for a float in hundredths.
Table == [type |-> "table"]
Text(t) == [type |-> "text", is |-> t]
Number(n) == [type |-> "number", is |-> n]

Has(tree, p) == p \in DOMAIN tree
Get(tree, p, default) == IF Has(tree, p) THEN tree[p].is ELSE default

Parent(p) == SubSeq(p, 1, Len(p) - 1)

\* A file has a root, and nothing without all that it is in.
IsTree(tree) ==
    /\ <<>> \in DOMAIN tree
    /\ \A p \in DOMAIN tree :
        p \in Seq(STRING) /\ \A n \in 0..Len(p) : SubSeq(p, 1, n) \in DOMAIN tree

\* A tree and another that is laid over it: `more @@ tree`, of which the prover knows
\* nothing.
Over(tree, more) ==
    [p \in DOMAIN tree \cup DOMAIN more |-> IF p \in DOMAIN more THEN more[p] ELSE tree[p]]

-----------------------------------------------------------------------------
(* Step 2: ${VAR} *)

\* expand fails at a variable that is not set, and at a ${ without its }.
Expandable(t, env) ==
    \A i \in DOMAIN t :
        /\ t[i].is # "unterminated"
        /\ t[i].is = "variable" => t[i].name \in DOMAIN env

\* What a variable holds is inserted as it is, and not expanded again.
Expand(t, env) ==
    FlattenSeq([i \in DOMAIN t |->
        IF t[i].is = "variable" THEN env[t[i].name] ELSE <<t[i]>>])

Interpolable(tree, env) ==
    \A p \in DOMAIN tree : tree[p].type = "text" => Expandable(tree[p].is, env)

Interpolate(tree, env) ==
    [p \in DOMAIN tree |->
        IF tree[p].type = "text" THEN Text(Expand(tree[p].is, env)) ELSE tree[p]]

-----------------------------------------------------------------------------
(* Step 3: STILLWATCH_* *)

\* OVERRIDABLE_PATHS with env_var_for.
Overridable ==
    << <<"listen">>, <<"notify", "telegram", "token">>, <<"notify", "telegram", "chat_id">> >>

VariableFor(p) ==
    CASE p = <<"listen">> -> "STILLWATCH_LISTEN"
      [] p = <<"notify", "telegram", "token">> -> "STILLWATCH_NOTIFY_TELEGRAM_TOKEN"
      [] p = <<"notify", "telegram", "chat_id">> -> "STILLWATCH_NOTIFY_TELEGRAM_CHAT_ID"

\* set_path makes the tables it needs, and gives up where a key is no table.
SetPath(tree, p, value) ==
    LET above == {SubSeq(p, 1, n) : n \in 1..(Len(p) - 1)}
    IN  IF \E q \in above : Has(tree, q) /\ tree[q] # Table THEN tree
        ELSE Over(Over([q \in above |-> Table], tree), [q \in {p} |-> value])

\* apply_env_overrides
Override(tree, env) ==
    LET Supply(t, p) ==
            IF VariableFor(p) \in DOMAIN env THEN SetPath(t, p, Text(env[VariableFor(p)])) ELSE t
    IN  Supply(Supply(Supply(tree, Overridable[1]), Overridable[2]), Overridable[3])

-----------------------------------------------------------------------------
(* Keys *)

\* The key of a path: its last segment, or the array that is an element of.
KeyOf(p) ==
    IF p = <<>> THEN "root"
    ELSE LET s == p[Len(p)]
         IN  IF s \in Jobs THEN "job" ELSE IF s \in Checks THEN "check"
             ELSE IF s \in Ratios THEN "ratio" ELSE s

\* The keys of each table that warn_unrecognized has no objection to.
Known ==
    [root        |-> {"listen", "confirm_after", "incidents", "notify", "job", "check"},
     incidents   |-> {"path", "max_bytes"},
     notify      |-> {"telegram"},
     telegram    |-> {"token", "chat_id"},
     job         |-> {"name", "mode", "alive", "worked", "freshness", "ratio", "process",
                      "log", "artifact"},
     process     |-> {"pidfile", "absent_after"},
     log         |-> {"path", "stale_after", "error_regex"},
     artifact    |-> {"path", "stale_after", "min_bytes"},
     alive       |-> {"expect_every", "warn_after", "critical_after"},
     worked      |-> {"warn_after", "critical_after"},
     freshness   |-> {"warn_after", "critical_after"},
     ratio       |-> {"name", "numerator", "denominator", "window", "min", "min_sample",
                      "message"},
     check       |-> {"name", "type", "url", "method", "interval", "timeout", "down_after",
                      "degradation"},
     degradation |-> {"baseline_window", "warn_multiple", "critical_multiple",
                      "absolute_ceiling", "min_samples"}]

\* Keys are strings, which the prover does not know, and no elements of an array.
ASSUME KeyAssumption ==
    \A table \in DOMAIN Known :
        Known[table] \subseteq STRING /\ Known[table] \cap (Jobs \cup Checks \cup Ratios) = {}

\* The fields of the Raw structs that serde insists on, and those it does not.
Required ==
    [root        |-> {},
     incidents   |-> {"path"},
     notify      |-> {},
     telegram    |-> {"token", "chat_id"},
     job         |-> {"name"},
     process     |-> {"pidfile"},
     log         |-> {"path", "stale_after"},
     artifact    |-> {"path", "stale_after"},
     alive       |-> {"expect_every"},
     worked      |-> {"warn_after"},
     freshness   |-> {"warn_after"},
     ratio       |-> {"name", "numerator", "denominator", "window", "min"},
     check       |-> {"name", "url"},
     degradation |-> {"baseline_window", "warn_multiple", "critical_multiple",
                      "absolute_ceiling"}]

Optional ==
    [root        |-> {"listen", "confirm_after", "notify", "incidents", "job", "check"},
     incidents   |-> {"max_bytes"},
     notify      |-> {"telegram"},
     telegram    |-> {},
     job         |-> {"mode", "alive", "worked", "freshness", "ratio", "process", "log",
                      "artifact"},
     process     |-> {"absent_after"},
     log         |-> {"error_regex"},
     artifact    |-> {"min_bytes"},
     alive       |-> {"warn_after", "critical_after"},
     worked      |-> {"critical_after"},
     freshness   |-> {"critical_after"},
     ratio       |-> {"min_sample", "message"},
     check       |-> {"type", "method", "interval", "timeout", "down_after", "degradation"},
     degradation |-> {"min_samples"}]

Consumed == [k \in DOMAIN Required |-> Required[k] \cup Optional[k]]

\* A key that a list has, in a table it has, and so on up to the root.
Listed(p, list) ==
    \A n \in 1..Len(p) :
        LET table == KeyOf(SubSeq(p, 1, n - 1))
        IN  table \in DOMAIN list /\ KeyOf(SubSeq(p, 1, n)) \in list[table]

\* The bug of looking into no section.
WarnedAtTheTop(tree) == {p \in DOMAIN tree : Len(p) = 1 /\ ~Listed(p, Known)}

\* warn_unrecognized: the keys it names, which stand for all there is below them.
Warned(tree) == {p \in DOMAIN tree : Listed(Parent(p), Known) /\ ~Listed(p, Known)}

\* deserialize: a table where one is wanted, and no field amiss. Other keys are
\* passed over, and other values are of the type they should be.
Deserializes(tree) ==
    LET read == {p \in DOMAIN tree : Listed(p, Consumed)}
        Children(p) == {KeyOf(q) : q \in {r \in read : r # <<>> /\ Parent(r) = p}}
    IN  \A p \in read :
            /\ tree[p] = Table <=> KeyOf(p) \in DOMAIN Required
            /\ tree[p] = Table => Required[KeyOf(p)] \subseteq Children(p)

-----------------------------------------------------------------------------
(* Step 4: defaults and validation *)

WARN_MULTIPLE == 5
CRITICAL_MULTIPLE == 15
DEFAULT_CHECK_INTERVAL == 30 * Second
DEFAULT_CHECK_TIMEOUT == 5 * Second
DOWN_AFTER_INTERVALS == 2
DEFAULT_MIN_SAMPLES == 30
RECENT_INTERVALS == 20
DEFAULT_MIN_SAMPLE == 30
DEFAULT_INCIDENT_MAX_BYTES == 8 * 1024 * 1024
MIN_INCIDENT_MAX_BYTES == 4 * 1024

\* RawAlive::resolve
Alive(tree, p) ==
    LET expect == tree[p \o <<"expect_every">>].is
    IN  [expect_every   |-> expect,
         warn_after     |-> Get(tree, p \o <<"warn_after">>, WARN_MULTIPLE * expect),
         critical_after |-> Get(tree, p \o <<"critical_after">>, CRITICAL_MULTIPLE * expect)]

AliveAccepted(a) ==
    a.expect_every > 0 /\ a.warn_after > a.expect_every /\ a.critical_after > a.warn_after

\* RawSilence::resolve; without critical_after there is nothing that is critical.
Silence(tree, p) ==
    [warn_after     |-> tree[p \o <<"warn_after">>].is,
     critical_after |-> Get(tree, p \o <<"critical_after">>, -1)]

SilenceAccepted(s) ==
    s.warn_after > 0 /\ (s.critical_after = -1 \/ s.critical_after > s.warn_after)

\* RawRatio::resolve
RatioAccepted(tree, p) ==
    /\ \E i \in DOMAIN tree[p \o <<"name">>].is : tree[p \o <<"name">>].is[i] \notin Blanks
    /\ tree[p \o <<"numerator">>].is # <<>> /\ tree[p \o <<"denominator">>].is # <<>>
    /\ tree[p \o <<"numerator">>] # tree[p \o <<"denominator">>]
    /\ tree[p \o <<"window">>].is > 0
    /\ tree[p \o <<"min">>].is \in 1..100
    /\ Get(tree, p \o <<"min_sample">>, DEFAULT_MIN_SAMPLE) > 0

\* RawProcess, RawLog and RawArtifact resolve.
WatchAccepted(tree, p) ==
    IF KeyOf(p) = "process" THEN tree[p \o <<"pidfile">>].is # <<>>
    ELSE /\ tree[p \o <<"path">>].is # <<>>
         /\ tree[p \o <<"stale_after">>].is > 0
         /\ KeyOf(p) = "log" /\ Has(tree, p \o <<"error_regex">>) =>
                tree[p \o <<"error_regex">>].is \in Patterns

\* The blocks of a job or check that are there, of the kinds in a set.
Blocks(tree, p, kinds) ==
    {q \in DOMAIN tree : q # <<>> /\ Parent(q) = p /\ KeyOf(q) \in kinds}

\* RawJob::resolve
JobAccepted(tree, p) ==
    LET mode == Get(tree, p \o <<"mode">>, <<Literal("active")>>)
        watches == Blocks(tree, p, {"process", "log", "artifact"})
        ratios == Blocks(tree, p, {"ratio"})
        Name(q) == tree[q \o <<"name">>]
    IN  /\ tree[p \o <<"name">>].is \in Usable
        /\ \A q \in Blocks(tree, p, {"alive"}) : AliveAccepted(Alive(tree, q))
        /\ \A q \in Blocks(tree, p, {"worked", "freshness"}) : SilenceAccepted(Silence(tree, q))
        /\ \A q \in ratios : RatioAccepted(tree, q)
        /\ \A q, r \in ratios : Name(q) = Name(r) => q = r
        /\ \A q \in watches : WatchAccepted(tree, q)
        /\ mode \in {<<Literal("active")>>, <<Literal("passive")>>}
        /\ mode = <<Literal("passive")>> =>
                Blocks(tree, p, {"alive"}) = {} /\ watches # {}

\* RawDegradation::resolve. A third of the window is rounded up: the rest of a
\* millisecond is no room for a probe. The program counts the probes there is room
\* for in floating point, which for whole seconds is as here; of fractions of a
\* second it can count one less where they fill the room exactly.
DegradationAccepted(tree, p, interval) ==
    LET window == tree[p \o <<"baseline_window">>].is
        warn == tree[p \o <<"warn_multiple">>].is
        recent == Min({RECENT_INTERVALS * interval, (window + 2) \div 3})
        samples == Get(tree, p \o <<"min_samples">>, DEFAULT_MIN_SAMPLES)
    IN  /\ window > 0
        /\ tree[p \o <<"absolute_ceiling">>].is > 0
        /\ warn > 100
        /\ tree[p \o <<"critical_multiple">>].is > warn
        /\ samples > 0
        /\ samples * interval <= window - recent

\* RawCheck::resolve
CheckAccepted(tree, p) ==
    LET interval == Get(tree, p \o <<"interval">>, DEFAULT_CHECK_INTERVAL)
        timeout == Get(tree, p \o <<"timeout">>, DEFAULT_CHECK_TIMEOUT)
        kind == Get(tree, p \o <<"type">>, <<Literal("http")>>)
    IN  /\ tree[p \o <<"name">>].is \in Usable
        /\ tree[p \o <<"url">>].is \in Urls
        /\ kind \in {<<Literal("http")>>, <<Literal("jsonrpc")>>}
        /\ kind = <<Literal("jsonrpc")>> <=> Has(tree, p \o <<"method">>)
        /\ interval > 0 /\ timeout > 0 /\ timeout < interval
        /\ Get(tree, p \o <<"down_after">>, DOWN_AFTER_INTERVALS * interval) >= interval
        /\ \A q \in Blocks(tree, p, {"degradation"}) : DegradationAccepted(tree, q, interval)

Subjects(tree) == Blocks(tree, <<>>, {"job", "check"})
SubjectName(tree, p) == tree[p \o <<"name">>]

\* The bug of telling jobs from checks only.
ClaimedAcross(tree) ==
    \A p, q \in Subjects(tree) :
        KeyOf(p) # KeyOf(q) => SubjectName(tree, p) # SubjectName(tree, q)

\* claim: one namespace for jobs and checks.
Claimed(tree) ==
    \A p, q \in Subjects(tree) : SubjectName(tree, p) = SubjectName(tree, q) => p = q

\* The rest of RawConfig::resolve.
IncidentsAccepted(tree) ==
    Has(tree, <<"incidents">>) =>
        /\ tree[<<"incidents", "path">>].is # <<>>
        /\ Get(tree, <<"incidents", "max_bytes">>, DEFAULT_INCIDENT_MAX_BYTES)
                >= MIN_INCIDENT_MAX_BYTES

Resolves(tree) ==
    /\ Has(tree, <<"listen">>) => tree[<<"listen">>].is \in Addresses
    /\ \A p \in Blocks(tree, <<>>, {"job"}) : JobAccepted(tree, p)
    /\ \A p \in Blocks(tree, <<>>, {"check"}) : CheckAccepted(tree, p)
    /\ Claimed(tree)
    /\ IncidentsAccepted(tree)

-----------------------------------------------------------------------------
(* from_toml *)

\* The bug of expanding what the environment supplied.
EffectiveLate(tree, env) == Interpolate(Override(tree, env), env)

\* What is deserialized.
Effective(tree, env) == Override(Interpolate(tree, env), env)

Loads(tree, env) ==
    /\ Interpolable(tree, env)
    /\ Deserializes(Effective(tree, env))
    /\ Resolves(Effective(tree, env))

-----------------------------------------------------------------------------
(* Findings *)

\* Reason::condition: what the findings of a rule are about. A rule is the table
\* that declares it, or the check itself.
Conditions(tree, p) ==
    CASE KeyOf(p) = "alive" -> {<<"no-heartbeat">>}
      [] KeyOf(p) = "worked" -> {<<"no-work">>}
      [] KeyOf(p) = "freshness" -> {<<"stale">>, <<"freshness-unreported">>}
      [] KeyOf(p) = "ratio" -> {<<"ratio", tree[p \o <<"name">>]>>,
                                <<"ratio-unreported", tree[p \o <<"name">>]>>}
      [] KeyOf(p) = "process" -> {<<"process-absent">>}
      [] KeyOf(p) = "log" -> {<<"file-stale", "log">>, <<"file-missing", "log">>, <<"logged-error">>}
      [] KeyOf(p) = "artifact" ->
            {<<"file-stale", "artifact">>, <<"file-missing", "artifact">>, <<"artifact-too-small">>}
      [] KeyOf(p) = "check" -> {<<"down">>}
      [] KeyOf(p) = "degradation" -> {<<"degraded">>, <<"untrustworthy-baseline">>}

RuleKinds == {"alive", "worked", "freshness", "ratio", "process", "log", "artifact",
              "check", "degradation"}
Rules(tree) == {p \in DOMAIN tree : Listed(p, Consumed) /\ KeyOf(p) \in RuleKinds}

\* The bug of a list that is not kept up with the blocks there are.
AnnouncedBeats(tree) ==
    (UNION {Blocks(tree, p, {"alive", "worked", "freshness", "ratio"}) : p \in Subjects(tree)})
    \cup Blocks(tree, <<>>, {"check"})

\* describe: the rules that are named at the start, by a list of its own.
Announced(tree) ==
    (UNION {Blocks(tree, p, {"alive", "worked", "freshness", "ratio", "process", "log",
                             "artifact"}) : p \in Blocks(tree, <<>>, {"job"})})
    \cup (UNION {Blocks(tree, p, {"degradation"}) : p \in Blocks(tree, <<>>, {"check"})})
    \cup Blocks(tree, <<>>, {"check"})

\* And what it says there is not: a job's heartbeat rule, a check's latency rule,
\* anything to watch, a channel.
Disclaimed(tree) ==
    LET Without(kind, block) ==
            {p \o <<block>> : p \in {q \in Blocks(tree, <<>>, {kind}) : ~Has(tree, q \o <<block>>)}}
    IN  Without("job", "alive") \cup Without("check", "degradation")
        \cup {p \in {<<>>} : Subjects(tree) = {}}
        \cup {p \in {<<"notify", "telegram">>} : ~Has(tree, p)}

\* IncidentKey: the subject, and the condition.
KeysOf(tree, p) == {SubjectName(tree, <<p[1]>>)} \X Conditions(tree, p)

=============================================================================

------------------------------- MODULE MCLearn -------------------------------
(***************************************************************************)
(* Instances of Learn. Gaps are multiples of 4 ms, so that the margins are *)
(* whole; the number of intervals, the multiple and the share that the     *)
(* derivation insists on are smaller than the program's, so that windows   *)
(* of a few beats are accepted, with an incident and without.              *)
(***************************************************************************)
EXTENDS Learn

\* The names, addresses, URLs and patterns that are of use.
Word(x) == <<Literal(x)>>
MCUsable == {Word("scraper"), Word("export"), Word("api")}
MCAddresses == {Word("127.0.0.1:9111"), Word("0.0.0.0:80")}
MCUrls == {Word("https://api"), Word("https://api/rpc")}
MCPatterns == {Word("ERROR")}
MCBlanks == {Literal(" ")}

\* A file, as a tree: a job that is watched for nothing, and what else there is.
File(rest) ==
    rest @@ (<<>> :> Table) @@ (<<"job[0]">> :> Table)
         @@ (<<"job[0]", "name">> :> Text(Word("scraper")))

Plain == File(<<>>)

Telegram(token, chat) ==
    (<<"notify">> :> Table) @@ (<<"notify", "telegram">> :> Table)
    @@ (<<"notify", "telegram", "token">> :> Text(token))
    @@ (<<"notify", "telegram", "chat_id">> :> Text(chat))

Secret == <<Literal("bot:"), Variable("HOST")>>

\* Environments: nothing, a token that looks like a variable, an address, a chat
\* without a token.
MCEnvironments ==
    { <<>>,
      "TOKEN" :> Secret @@ "HOST" :> Word("0.0.0.0:80"),
      "STILLWATCH_LISTEN" :> Word("0.0.0.0:80"),
      "HOST" :> Word("0.0.0.0:80") @@ "STILLWATCH_NOTIFY_TELEGRAM_TOKEN" :> Secret,
      "STILLWATCH_NOTIFY_TELEGRAM_CHAT_ID" :> Word("7") }

\* Where the channel and the address come from.
ChannelFiles ==
    { Plain,
      File(<<"listen">> :> Text(<<Variable("HOST")>>)),
      File(<<"listen">> :> Text(Word("nowhere"))),
      File(<<"listen">> :> Text(<<Unterminated>>)),
      File(Telegram(<<Variable("TOKEN")>>, Word("7"))),
      File(Telegram(Word("none"), Word("7"))),
      File(<<"notify">> :> Text(Word("telegram"))),
      File(<<"notify">> :> Table @@ <<"notify", "telegram">> :> Text(Word("on"))) }

Blk(p, fields) ==
    (p :> Table) @@ [q \in {p \o <<k>> : k \in DOMAIN fields} |-> fields[q[Len(q)]]]

N(n) == Number(n)
T(x) == Text(Word(x))

CheckBlock(c, name, fields) == Blk(<<c>>, [name |-> T(name), url |-> T("https://api")] @@ fields)
RatioBlock(r, name, fields) ==
    Blk(<<"job[0]", r>>,
        fields @@ [name |-> T(name), numerator |-> T("parsed"), denominator |-> T("fetched"),
                   window |-> N(180 * Second), min |-> N(80)])
Degradation(fields) ==
    Blk(<<"check[0]", "degradation">>,
        fields @@ [baseline_window |-> N(60 * Minute), warn_multiple |-> N(200),
                   critical_multiple |-> N(400), absolute_ceiling |-> N(2 * Second)])
Process == Blk(<<"job[0]", "process">>, [pidfile |-> T("/run/pid")])
Log(fields) == Blk(<<"job[0]", "log">>, fields @@ [path |-> T("/var/log"), stale_after |-> N(Hour)])
Artifact == Blk(<<"job[0]", "artifact">>,
                [path |-> T("/out"), stale_after |-> N(24 * Hour), min_bytes |-> N(1)])
Mode(m) == <<"job[0]", "mode">> :> T(m)

\* Rules of every kind, names that are used twice, limits on either side, keys that
\* are mistyped in every section, and keys that are not there.
RuleFiles ==
    { File(r) : r \in
        { Process @@ Log(<<>>) @@ Artifact,
          Mode("passive") @@ Process,
          Mode("passive"),
          Mode("idle"),
          Mode("active") @@ Blk(<<"job[0]", "alive">>, [expect_every |-> N(Minute)]),
          Blk(<<"job[0]", "alive">>, [expect_every |-> N(Minute), warn_after |-> N(Minute)]),
          Blk(<<"job[0]", "alive">>, [expect_evry |-> N(Minute)]),
          Mode("passive") @@ Process @@ Blk(<<"job[0]", "alive">>, [expect_every |-> N(Minute)]),
          Log([error_regexp |-> T("ERROR")]),
          Log([error_regex |-> T("ERROR")]),
          Log([error_regex |-> T("(ERROR")]),
          RatioBlock("ratio[0]", "rate", <<>>) @@ RatioBlock("ratio[1]", "rate", [min |-> N(90)]),
          RatioBlock("ratio[0]", "rate", <<>>)
            @@ RatioBlock("ratio[1]", "yield", [mesage |-> T("low")]),
          RatioBlock("ratio[0]", "rate", [min_sample |-> N(0)]),
          RatioBlock("ratio[0]", " ", <<>>),
          CheckBlock("check[0]", "api", <<>>) @@ Degradation(<<>>),
          CheckBlock("check[0]", "scraper", <<>>),
          CheckBlock("check[0]", "api", <<>>) @@ CheckBlock("check[1]", "api", <<>>),
          CheckBlock("check[0]", "api", <<>>) @@ Degradation([min_samples |-> N(99)]),
          CheckBlock("check[0]", "api", <<>>) @@ Degradation([min_samples |-> N(100)]),
          CheckBlock("check[0]", "api", <<>>) @@ Degradation([min_sample |-> N(1)]),
          CheckBlock("check[0]", "api", [type |-> T("jsonrpc"), method |-> T("ping")]),
          CheckBlock("check[0]", "api", [method |-> T("ping")]),
          CheckBlock("check[0]", "api", [interval |-> N(5 * Second)]),
          CheckBlock("check[0]", "api", [timeot |-> N(Second)]),
          Blk(<<"job[1]">>, [name |-> T("export")]),
          Process @@ Blk(<<"job[1]">>, [name |-> T("scraper")])
            @@ Blk(<<"job[1]", "process">>, [pidfile |-> T("/run/pid")]),
          Blk(<<"job[1]">>, [nmae |-> T("export")]),
          Blk(<<"incidents">>, [path |-> T("/incidents")]),
          Blk(<<"incidents">>, [path |-> T("/incidents"), max_bytes |-> N(4095)]),
          Blk(<<"incidents">>, [max_byte |-> N(9000)]),
          Blk(<<"alive">>, [expect_every |-> N(Minute)]),
          Telegram(Word("t"), Word("7")) @@ <<"notify", "telegram", "chat">> :> T("7"),
          <<"confirm">> :> N(0) } }

\* What is observed: beats at a pace, with the outages and bursts of a few decades of
\* time; data of some age; counters; latencies.
Quiet == [worked |-> FALSE, age |-> None, num |-> None, den |-> None]
Work == [Quiet EXCEPT !.worked = TRUE]

Observed(gaps, details, latencies, files) ==
    [gaps |-> gaps, details |-> details, latencies |-> latencies, files |-> files,
     environments |-> {<<>>}]

MCScenarios ==
    { Observed(g, {Work}, {}, {Plain}) :
        g \in { {4, 400, 1000, 1248}, {4, 2800, 9600}, {90000, 95000, 271000},
                {200000, 600000, 601000}, {2000000, 6000000, 36000000} } }
    \cup
    { Observed({60000, 180000, 181000}, {Quiet, Work}, {}, {Plain}),
      Observed({60000}, {[Quiet EXCEPT !.age = a] : a \in {-30000, 70000, 4000000, 90000000}}, {}, {Plain}),
      Observed({60000}, {[Quiet EXCEPT !.num = c[1], !.den = c[2]] :
                            c \in {<<7, 9>>, <<None, 2>>, <<5, None>>}},
               {}, {File(RatioBlock("ratio[0]", "rate", <<>>))}),
      Observed({}, {}, {None, 0, 48, 1500, 20001}, {Plain}),
      [Observed({}, {}, {}, ChannelFiles) EXCEPT !.environments = MCEnvironments],
      Observed({}, {}, {}, RuleFiles) }

=============================================================================

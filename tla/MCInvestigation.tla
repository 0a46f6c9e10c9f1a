--------------------------- MODULE MCInvestigation ---------------------------
(* The instance of Investigation for TLC. *)
EXTENDS Investigation

(* Artifacts: the names are words of letters in the order of their numbers. *)
Letters(name) == <<<<1, 2, 3, 4>>, <<1, 2, 3, 4, 5>>, <<5>>, <<6, 1, 2>>, <<7>>, <<8>>>>[name]
Text(name, description) ==
    [name |-> Letters(name), path |-> <<50>> \o Letters(name), description |-> description,
     tags |-> IF name = 3 THEN {<<60>>} ELSE {}]
EntryFor(type, package, name, nodes) ==
    [id |-> <<type, package, name>>, package |-> package, type |-> type,
     materialized |-> IF name = 2 THEN "ephemeral" ELSE "table",
     text |-> Text(name, IF name = 4 THEN <<70>> ELSE <<>>),
     relation |-> IF type \in {"model", "source"} THEN <<<<80 + package>>, Letters(name)>> ELSE <<>>,
     nodes |-> nodes, macros |-> IF name = 1 THEN <<<<"macro", 1, 6>>>> ELSE <<>>,
     attached |-> Nobody, column |-> ""]
S == <<"source", 1, 4>>
M1 == <<"model", 1, 1>>
M2 == <<"model", 1, 2>>
M3 == <<"model", 1, 3>>
T == <<"test", 1, 5>>
U == <<"unit_test", 1, 6>>
Manifest(nodes, parentMap, project) ==
    [nodes |-> nodes, source |-> <<EntryFor("source", 1, 4, <<>>)>>,
     macro |-> <<EntryFor("macro", 1, 6, <<>>)>>, exposure |-> <<EntryFor("exposure", 1, 5, <<M1>>)>>,
     metric |-> <<>>, semantic_model |-> <<>>, unit_test |-> <<EntryFor("unit_test", 1, 6, <<M1>>)>>,
     disabled |-> <<EntryFor("model", 1, 5, <<>>)>>, parentMap |-> parentMap, project |-> project]
Model(name, nodes) == EntryFor("model", 1, name, nodes)
TestOf(nodes, attached) == [EntryFor("test", 1, 5, nodes) EXCEPT !.attached = attached]
MCQueryDepths == {1, 2, Unlimited}
Row(child, parents) == [child |-> child, parents |-> parents]
Chain == Manifest(<<Model(1, <<S>>), Model(2, <<M1>>), Model(3, <<M1, M2>>), TestOf(<<M3>>, M3)>>,
                  <<Row(M3, <<M2>>), Row(U, <<M1>>)>>, 1)
Cycle == Manifest(<<Model(1, <<S, M2>>), Model(2, <<M1>>), Model(3, <<M2>>), TestOf(<<>>, Nobody)>>,
                  <<Row(T, <<S>>)>>, 0)
Fork == Manifest(<<Model(1, <<S>>), Model(2, <<S>>), Model(3, <<M1, M2>>),
                   EntryFor("model", 2, 1, <<S>>), TestOf(<<S>>, Nobody)>>,
                 <<Row(T, <<S>>)>>, 2)

Metric(n) == [metric \in Metrics |-> IF metric = "slot_ms" THEN n ELSE 0]
Result(id, word, spelling, time, compile, execute) ==
    [id |-> id, status |-> <<word, spelling>>, time |-> time, thread |-> time % 2,
     compile |-> compile, execute |-> execute, message |-> "", metrics |-> Metric(time)]
AllRan == <<Result(M1, "success", 0, 3, <<5, 6>>, <<6, 8>>), Result(M2, "error", 0, 1, NoTiming, <<8, 9>>),
            Result(M3, "success", 1, 1, <<8, 8>>, NoTiming), Result(T, "fail", 0, 2, NoTiming, <<9, 11>>)>>
SomeRan == <<Result(M3, "success", 0, 2, NoTiming, <<2, 4>>), Result(M1, "skipped", 0, 0, NoTiming, NoTiming),
             Result(T, "warn", 0, 1, NoTiming, <<1, 2>>), Result(U, "pass", 0, 1, <<3, 3>>, <<3, 4>>)>>
OtherRan == <<Result(M2, "success", 0, 2, NoTiming, <<4, 6>>), Result(T, "runtime error", 0, 2, NoTiming, <<3, 5>>)>>
(* The run of a manifest that had one model more. *)
GoneRan == <<Result(<<"model", 1, 6>>, "success", 0, 1, <<3, 4>>, <<4, 5>>),
             Result(M1, "error", 0, 2, NoTiming, <<1, 3>>)>>
MCBundles ==
    {[kind |-> "bundle", manifest |-> m, results |-> r, warehouse |-> "bigquery",
      columns |-> IF m = Chain THEN <<[id |-> M1, columns |-> <<1, 2>>], [id |-> M2, columns |-> <<1>>]>>
                  ELSE <<>>,
      analyses |-> IF m = Chain
                   THEN <<[id |-> M2, dependencies |->
                              <<[target |-> 1, sources |-> <<[table |-> <<Letters(1)>>, column |-> 2]>>]>>]>>
                   ELSE <<>>] :
         m \in {Chain, Cycle, Fork}, r \in {AllRan, SomeRan, OtherRan, GoneRan}}

Request(types, status, limit, sort, blocks, pattern) ==
    [types |-> types, status |-> status, min |-> Unset, max |-> 2, pattern |-> pattern, sort |-> sort,
     limit |-> limit, offset |-> 0, blocks |-> blocks]
SlotBlock == [warehouse |-> "bigquery", sort |-> "slot_ms", min |-> [NoMin EXCEPT !["slot_ms"] = 1]]
Every == KnownTypes \cup {"operation"}
MCListings ==
    {[list |-> l, request |-> Request(Every, {}, n, "unique_id", {}, <<>>)] :
         l \in {"runs.query", "query-executions", "failures", "run-report", "inventory", "timeline"},
         n \in {1, 2}}
    \cup {[list |-> l, request |-> Request(DefaultTypes, {}, 1, None, {SlotBlock}, <<>>)] :
              l \in {"runs.query", "query-executions"}}
    \cup {[list |-> l, request |-> Request(Every, {"success", "fail"}, 1, "execution_time_asc", {}, <<>>)] :
              l \in {"runs.query", "failures", "timeline"}}
Word(word) == <<None, word>>
MCSearched ==
    {<<Word(w)>> : w \in {<<1, 2, 3, 4>>, <<1, 2>>, <<5>>, <<201>>, <<50>>, <<60>>, <<70>>, <<1, 2, 3, 9>>,
                          <<9>>, IdText([type |-> "model", package |-> 1, text |-> Text(2, <<>>)])}}
    \cup {<<Word(<<1, 2>>), <<"type", {"model"}>>, <<"package", 1>> >>, <<<<"tag", {<<60>>}>>>>,
          <<<<"path", <<50, 1>>>>, Word(<<4>>)>>, <<<<"type", {"source"}>>>>,
          <<>>, <<Word(<<>>)>>, <<Word(<<1, 2>>), Word(<<4>>)>>}

(* The Runs view. *)
ResultRow(name, type, tone, time, materialization, metric, words) ==
    [name |-> name, type |-> type, tone |-> tone, status |-> name % 2, time |-> time,
     start |-> 5 - name, materialization |-> materialization, metric |-> metric, words |-> words]
MCRunAnalyses ==
    {<<ResultRow(1, "model", "positive", 2, 1, 0, {1}), ResultRow(2, "model", "danger", 6, 2, 3, {2}),
       ResultRow(3, "test", "warning", 0, 0, 5, {1})>>,
     <<ResultRow(4, "seed", "positive", 1, 0, 0, {1}), ResultRow(5, "model", "danger", 2, 1, 0, {2})>>}
Controls(kind, status, query, materializations, sortBy) ==
    [kind |-> kind, status |-> status, query |-> query, materializations |-> materializations,
     band |-> "all", sortBy |-> sortBy]
MCQuestions == {Controls("all", "all", 0, {1}, "metric"), Controls("tests", "all", 1, {}, "name"),
                Controls("all", "issues", 0, {}, "attention")}

(* Navigation. *)
Page(url, metrics) == [url |-> url, metrics |-> metrics]
MCFirstPages ==
    {Page([NoParameters EXCEPT !.view = "lineage", !.resource = "a"], TRUE),
     Page([NoParameters EXCEPT !.view = "dependencies", !.resource = "a", !.up = 11, !.down = 1], FALSE),
     Page([NoParameters EXCEPT !.view = "runs", !.tab = "timeline", !.selected = "b"], FALSE),
     Page([NoParameters EXCEPT !.view = "inventory", !.resource = "a", !.assetTab = "summary", !.q = "q"], TRUE)}

(* The explorer. *)
Resource(id, type, package, tone, materialization, file, database, words) ==
    [id |-> id, type |-> type, package |-> package, tone |-> tone,
     materialization |-> materialization, file |-> file, database |-> database,
     schema |-> database, words |-> words]
ResourcesWith(tone) ==
    {Resource(1, "model", 1, "positive", 1, <<1, 2, 9>>, 1, {1}),
     Resource(2, "model", 1, "danger", 1, <<1, 9>>, 1, {2}),
     Resource(3, "seed", 2, "positive", 2, <<3, 9>>, 0, {1}),
     Resource(4, "macro", 1, "neutral", 2, <<>>, 0, {1}),
     Resource(5, "test", 1, tone, 2, <<1, 8>>, 1, {1}),
     Resource(6, "test", 2, "skipped", 2, <<1, 8>>, 1, {1})}
Tested == [id \in 1 .. 6 |-> CASE id = 5 -> {1} [] id = 6 -> {1, 3} [] OTHER -> {}]
MCCatalogs ==
    {[resources |-> ResourcesWith("warning"), upstreamOf |-> Tested, project |-> 0, executed |-> <<2, 1, 1>>],
     [resources |-> ResourcesWith("positive"), upstreamOf |-> Tested, project |-> 1, executed |-> <<1>>]}
MCSearches == {{}, {1}}

(* The lineage. *)
Node(type, name, tone) == [type |-> type, name |-> name, tone |-> tone, described |-> name > 3]
GraphOf(types, edges) ==
    [nodes |-> [i \in DOMAIN types |->
                   Node(types[i], 10 - i, IF i % 2 = 0 THEN "danger" ELSE "positive")],
     up |-> [i \in DOMAIN types |-> SetToSortSeq({e[1] : e \in {f \in edges : f[2] = i}}, <)],
     down |-> [i \in DOMAIN types |-> SetToSortSeq({e[2] : e \in {f \in edges : f[1] = i}}, >)]]
LineageTypes == <<"source", "model", "model", "model", "metric", "test">>
MCLineageGraphs ==
    {GraphOf(LineageTypes, {<<1, 2>>, <<1, 3>>, <<2, 3>>, <<2, 4>>, <<3, 4>>, <<4, 5>>, <<3, 6>>, <<2, 6>>}),
     GraphOf(LineageTypes, {<<1, 2>>, <<2, 3>>, <<3, 2>>, <<3, 4>>, <<4, 6>>, <<1, 5>>})}

(* The timeline. *)
Bar(id, type, package, status, start, end, parent, words) ==
    [id |-> id, type |-> type, package |-> package, internal |-> id = 7, status |-> status,
     start |-> start, end |-> end, parent |-> parent, words |-> words]
Adjacency(ids, edges) ==
    [id \in ids |-> [inbound |-> SetToSortSeq({e[1] : e \in {x \in edges : x[2] = id}}, <),
                     outbound |-> SetToSortSeq({e[2] : e \in {x \in edges : x[1] = id}}, >)]]
LongRun ==
    [items |-> <<Bar(1, "source", 1, "success", 0, 8, NoItem, {}), Bar(8, "test", 1, "success", 0, 3, 1, {}),
                 Bar(2, "model", 1, "success", 1, 3, NoItem, {1}), Bar(5, "seed", 1, "success", 1, 2, NoItem, {}),
                 Bar(6, "model", 2, "success", 2, 3, NoItem, {}), Bar(7, "model", 1, "success", 2, 4, NoItem, {1}),
                 Bar(3, "model", 1, "error", 3, 5, NoItem, {1}), Bar(9, "test", 1, "fail", 5, 7, 3, {}),
                 Bar(10, "test", 1, "success", 5, 6, 3, {}), Bar(11, "unit_test", 1, "success", 6, 6, 3, {}),
                 Bar(4, "model", 1, "success", 6, 8, NoItem, {1})>>,
     adjacency |-> Adjacency(1 .. 11, {<<1, 2>>, <<2, 3>>, <<5, 3>>, <<3, 9>>, <<3, 10>>, <<3, 11>>,
                                       <<1, 8>>, <<2, 4>>, <<1, 5>>, <<5, 6>>, <<5, 7>>, <<6, 4>>}),
     issues |-> (1 :> 0) @@ (3 :> 1), project |-> 1]
ShortRun ==
    [items |-> <<Bar(1, "seed", 1, "success", 0, 1, NoItem, {}), Bar(2, "model", 1, "skipped", 0, 0, NoItem, {1}),
                 Bar(3, "metric", 2, "success", 0, 1, NoItem, {})>>,
     adjacency |-> Adjacency(1 .. 3, {<<1, 2>>}), issues |-> <<>>, project |-> NoItem]
MCTimelineRuns == {LongRun, ShortRun}
Preferences(showTests, failuresOnly, direction, depth) ==
    [showTests |-> showTests, failuresOnly |-> failuresOnly, direction |-> direction, depth |-> depth]
MCTimelineDefaults == {Preferences(TRUE, FALSE, "both", 2), Preferences(FALSE, TRUE, "upstream", 3)}
MCTimelineQueries == {{1}}
MCPointerXs == {-1, 9, 21}
MCPointerYs == {0, 55, 120, 165, 200}
MCBrushPoints == {-1, 0, 1, 4, 8, 9}

(* Opening. *)
NothingSet == [f \in RemoteFlags \cup DirectoryVariables |-> <<>>]
InBucket == <<"s3:", "/", "/", "b", "/", "p", "/">>
InGcs == <<"gs:", "/", "/", "b", "/", "p">>
InTarget == <<"target">>
Environments ==
    {NothingSet,
     [NothingSet EXCEPT !.target = InBucket, !.region = <<"r">>, !.projectId = <<"j">>],
     [NothingSet EXCEPT !.target = InGcs, !.impersonate = <<"a">>, !.targetDir = InTarget],
     [NothingSet EXCEPT !.targetDir = <<"~", "/", "out">>, !.legacyDir = <<"..", "/", "out">>],
     [NothingSet EXCEPT !.legacyTarget = <<"..">>, !.region = <<"r">>]}
Arg(flag, value) == [flag |-> flag, value |-> value]
Missed == <<"--">>
ArgumentLists ==
    {<<>>, <<Arg("target", InTarget)>>, <<Arg("target", InBucket)>>, <<Arg("target", InGcs)>>,
     <<Arg("target", <<>>)>>, <<Arg("target", Missed)>>, <<Arg("target", <<"-", "x">>)>>,
     <<Arg("target", <<"s3:", "/", "/">>)>>, <<Arg("target", <<"..", "/", "x">>)>>,
     <<Arg("target", <<"/", "home", "/", ".", "/", "work", "/", "target", "/">>)>>,
     <<Arg("target", <<"/", "home", "/", "work", "/", "target", "/", "..">>)>>,
     <<Arg("target", <<"s3:", "/", "/", "b">>)>>, <<Arg("target", InTarget), Arg("target", InBucket)>>,
     <<Arg("target", InBucket), Arg("region", <<"q">>)>>, <<Arg("region", <<"q">>), Arg("endpoint", <<"e">>)>>,
     <<Arg("projectId", <<"k">>)>>, <<Arg("target", InGcs), Arg("impersonate", <<"c">>)>>,
     <<Arg("alias", InTarget)>>, <<Arg("alias", InGcs), Arg("projectId", <<"k">>)>>,
     <<Arg("alias", InTarget), Arg("target", InTarget)>>, <<Arg("port", <<"3000">>), Arg("noOpen", <<>>)>>,
     <<Arg("port", <<"0">>)>>, <<Arg("help", <<>>), Arg("unknown", <<>>)>>,
     <<Arg("unknown", <<>>), Arg("version", <<>>)>>, <<Arg("maxCached", <<"0">>), Arg("target", InBucket)>>,
     <<Arg("ttl", <<"x">>)>>}
Everywhere(place, files) == {Object(place, f) : f \in files}
Files(names) == {<<n>> : n \in names}
FourFiles == Files(ToSet(ArtifactFiles))
Pair == Files(RequiredFiles)
Versions(objects) == [o \in objects |-> 1]
TheDirectory == ParseTarget(InTarget)
TheBucket == ParseTarget(<<"s3:", "/", "/", "b">>)
ThePrefix == ParseTarget(InBucket)
OpeningOf(text, objects, published) ==
    [args |-> <<Arg("target", text)>>, env |-> NothingSet, stored |-> Versions(objects), published |-> published]
PlacesOpened ==
    {OpeningOf(InTarget, Everywhere(TheDirectory, FourFiles), Everywhere(TheDirectory, Pair)),
     OpeningOf(InTarget, Everywhere(TheDirectory, Files({"manifest.json"})), {}),
     OpeningOf(InTarget, Everywhere(TheDirectory, Files({"run_results.json", "sources.json"})), {}),
     OpeningOf(InTarget, Everywhere(TheDirectory, {<<"old", "/", "manifest.json">>, <<"run_results.json">>}), {}),
     OpeningOf(InBucket, Everywhere(ThePrefix, FourFiles) \cup Everywhere(TheBucket, Pair),
               Everywhere(ThePrefix, Pair)),
     OpeningOf(InBucket, Everywhere(ThePrefix, Files({"run_results.json"}))
                         \cup Everywhere(TheBucket, {<<"p", "x", "manifest.json">>, <<"p">>}), {}),
     OpeningOf(InBucket, Everywhere(ThePrefix, Pair)
                         \cup {<<"s3", <<"b">>, <<"p", "/", "/", f>>>> : f \in RequiredFiles}, {}),
     OpeningOf(<<"s3:", "/", "/", "b">>,
               {<<"s3", <<"b">>, <<"/", "manifest.json">>>>} \cup Everywhere(TheBucket, Files({"run_results.json"})), {}),
     OpeningOf(<<"s3:", "/", "/", "b">>, Everywhere(TheBucket, Pair) \cup Everywhere(ThePrefix, Pair), {})}
MCNames == {"b", "p", "target", "out", "old", "x", "px", "a", "c", "e", "j", "k", "q", "r", "0", "3000"}
MCOpenings ==
    PlacesOpened \cup
    {[args |-> a, env |-> e, stored |-> <<>>, published |-> {}] : a \in ArgumentLists, e \in Environments}
=============================================================================

-------------------------- MODULE ResourceDiscovery --------------------------
(***************************************************************************)
(* Finding a resource by words: core discovery (query-parse.ts, rank.ts,   *)
(* graph-search.ts, legacy-search-score.ts), the target of an intent       *)
(* (intent/resolve-target.ts) and the commands deps, impact and explain.   *)
(*                                                                         *)
(* Words are sequences of letters, already in lower case.  A query is a    *)
(* sequence of <<key, value>> tokens, key None for a plain word.  Scores   *)
(* are the code's integers, shares of the best one are in thousandths.     *)
(* The bonus for a node of eight neighbours and more is left out.          *)
(***************************************************************************)
EXTENDS ResultQuery

Dot == 0
TypeText(type) == <<100 + TypeRank(type)>>
PackageText(package) == <<200 + package>>
IdText(attrs) == TypeText(attrs.type) \o <<Dot>> \o PackageText(attrs.package) \o <<Dot>>
                     \o attrs.text.name
Includes(text, term) == IndexFrom(text, term, 0) # -1

(* Filters: sets of types and tags, a package, a path; {} or <<>> or 0 is no filter. *)
NoFilter == [types |-> {}, package |-> 0, tags |-> {}, path |-> <<>>]
LastSaid(tokens, key, default) ==
    LET at == {i \in DOMAIN tokens : tokens[i][1] = key}
    IN IF at = {} THEN default ELSE tokens[Max(at)][2]
FilterKeys == {"type", "package", "tag", "path"}
ParseQueryTokens(tokens) ==
    LET words == Only(tokens, {t \in ToSet(tokens) : t[1] \notin FilterKeys})
    IN [terms |-> [k \in DOMAIN words |-> words[k][2]],
        filter |-> [types |-> LastSaid(tokens, "type", {}), package |-> LastSaid(tokens, "package", 0),
                    tags |-> LastSaid(tokens, "tag", {}), path |-> LastSaid(tokens, "path", <<>>)]]
EffectiveFilter(options, parsed) ==
    [types |-> IF options.types # {} THEN options.types ELSE parsed.types,
     package |-> IF options.package # 0 THEN options.package ELSE parsed.package,
     tags |-> IF options.tags # {} THEN options.tags ELSE parsed.tags,
     path |-> IF options.path # <<>> THEN options.path ELSE parsed.path]
PassesFilters(attrs, filter) ==
    /\ attrs.type # "field"
    /\ filter.types = {} \/ attrs.type \in filter.types
    /\ filter.package = 0 \/ attrs.package = filter.package
    /\ filter.tags = {} \/ filter.tags \cap attrs.text.tags # {}
    /\ filter.path = <<>> \/ Includes(attrs.text.path, filter.path)

-----------------------------------------------------------------------------
(* The distances of the first i letters of a to the beginnings of b, from those of the first i - 1. *)
NextDistances(row, i, a, b) ==
    LET Distance[j \in 0 .. Len(b)] ==
            IF j = 0 THEN i
            ELSE Min({row[j] + 1, Distance[j - 1] + 1,
                      row[j - 1] + (IF a[i] = b[j] THEN 0 ELSE 1)})
    IN Distance
LevenshteinDistance(a, b) ==
    LET Row[i \in 0 .. Len(a)] ==
            IF i = 0 THEN [j \in 0 .. Len(b) |-> j] ELSE NextDistances(Row[i - 1], i, a, b)
    IN Row[Len(a)][Len(b)]

(* Mutant of ReasonsOf: the package is forgotten. *)
ReasonsButPackage(attrs, term) ==
    (IF Includes(IdText(attrs), term) THEN {<<"substring_unique_id_match", 60>>} ELSE {})
    \cup (IF Includes(attrs.text.description, term) THEN {<<"description_match", 35>>} ELSE {})
(* The reasons a term matches a node, each with its score; the best one counts. *)
ReasonsOf(attrs, term) ==
    LET name == attrs.text.name
        id == IdText(attrs)
    IN (IF name = term THEN {<<"exact_name_match", 100>>} ELSE {})
       \cup (IF id = term THEN {<<"exact_unique_id_match", 100>>} ELSE {})
       \cup (IF name # term /\ Includes(name, term) THEN {<<"substring_name_match", 60>>} ELSE {})
       \cup (IF id # term /\ Includes(id, term) THEN {<<"substring_unique_id_match", 60>>} ELSE {})
       \cup (IF Includes(attrs.text.path, term) THEN {<<"path_match", 30>>} ELSE {})
       \cup (IF Includes(attrs.text.description, term) THEN {<<"description_match", 35>>} ELSE {})
       \cup (IF \E t \in attrs.text.tags : Includes(t, term) THEN {<<"tag_match", 40>>} ELSE {})
       \cup (IF PackageText(attrs.package) = term THEN {<<"package_match", 50>>}
             ELSE IF Includes(PackageText(attrs.package), term) THEN {<<"package_match", 25>>}
             ELSE {})
BestOf(reasons) == Max({r[2] : r \in reasons} \cup {0})
AliasAndFuzzy(graph, attrs, term, best) ==
    LET alias == ResolveRelation(graph, <<term>>) = attrs.id
        reached == IF alias THEN Max({best, 90}) ELSE best
        distance == LevenshteinDistance(attrs.text.name, term)
        fuzzy == /\ Len(term) >= 4 /\ Len(attrs.text.name) \in 1 .. 64 /\ reached < 60
                 /\ distance <= 2 /\ distance < Len(attrs.text.name)
    IN (IF alias THEN {<<"alias_match", 90>>} ELSE {})
       \cup (IF fuzzy THEN {<<"fuzzy_name_match", 45 - distance * 5>>} ELSE {})
BestScore(graph, attrs, term, reasons) ==
    BestOf(reasons \cup AliasAndFuzzy(graph, attrs, term, BestOf(reasons)))
ScoreTermAgainstNode(graph, attrs, term) ==
    IF term = <<>> THEN 0 ELSE BestScore(graph, attrs, term, ReasonsOf(attrs, term))

(* Every term must score; a query of filters alone finds what passes them. *)
SumOfScores(scores, alone) ==
    LET Sum[n \in 0 .. Len(scores)] == IF n = 0 THEN 0 ELSE Sum[n - 1] + scores[n]
    IN CASE scores = <<>> -> alone
         [] 0 \in ToSet(scores) -> 0
         [] OTHER -> Sum[Len(scores)]
RawScore(graph, attrs, terms) ==
    SumOfScores([k \in DOMAIN terms |-> ScoreTermAgainstNode(graph, attrs, terms[k])], 5)
Related(graph, id) ==
    LET IsRelated(n) == Attributes(graph, n).type # "field" /\ n # id
        up == SelectSeq(Inbound(graph, id), IsRelated)
        upSix == SubSeq(up, 1, Min({6, Len(up)}))
        down == SelectSeq(Outbound(graph, id), LAMBDA n : IsRelated(n) /\ n \notin ToSet(upSix))
    IN upSix \o SubSeq(down, 1, Min({Max({1, 10 - Len(upSix)}), Len(down)}))
Confidence(raw, best) ==
    CASE raw * 100 >= 85 * best -> "high"
      [] raw * 100 < 85 * best /\ raw * 2 >= best -> "medium"
      [] OTHER -> "low"
ScoreShare(raw, best) == (2000 * raw + best) \div (2 * best)
Distance(a, b) == IF a < b THEN b - a ELSE a - b
Disambiguation(rows, row) ==
    LET alike == SelectSeq(rows, LAMBDA r : /\ r.id # row.id /\ r.name = row.name
                                            /\ Distance(r.raw, row.raw) * 100 <= 12 * row.raw)
    IN [i \in 1 .. Min({8, Len(alike)}) |-> alike[i].id]

(* The rows that score, in order of score, then of id. *)
RankedBefore(rows) ==
    {p \in Pairs(rows) : \/ p[1].raw > p[2].raw
                         \/ p[1].raw = p[2].raw /\ IdBefore(p[1].id, p[2].id)}
Ranked(rows) ==
    LET found == Only(rows, {row \in ToSet(rows) : row.raw > 0}) IN Sorted(found, RankedBefore(found))
Passing(graph, filter) == Only(graph.nodes, {n \in ToSet(graph.nodes) : PassesFilters(n, filter)})
RankedRows(graph, terms, filter) ==
    LET passing == Passing(graph, filter)
    IN Ranked([i \in DOMAIN passing |->
                  [id |-> passing[i].id, name |-> passing[i].text.name, type |-> passing[i].type,
                   raw |-> RawScore(graph, passing[i], terms)]])
Discovered(graph, rows, limit) ==
    [i \in 1 .. Min({Len(rows), Min({Max({1, limit}), ListMaxLimit})}) |->
        [id |-> rows[i].id, name |-> rows[i].name, type |-> rows[i].type,
         score |-> ScoreShare(rows[i].raw, rows[1].raw),
         confidence |-> Confidence(rows[i].raw, rows[1].raw),
         disambiguation |-> Disambiguation(rows, rows[i]),
         related |-> Related(graph, rows[i].id)]]
DiscoverResources(graph, tokens, options, limit) ==
    LET parsed == ParseQueryTokens(tokens)
        filter == EffectiveFilter(options, parsed.filter)
    IN IF parsed.terms = <<>> /\ filter = NoFilter THEN <<>>
       ELSE Discovered(graph, RankedRows(graph, parsed.terms, filter), limit)

-----------------------------------------------------------------------------
(* The older search: every term must be somewhere, in the description excepted. *)
LegacyTermScore(attrs, term) ==
    LET name == attrs.text.name
        id == IdText(attrs)
    IN CASE name = term \/ id = term -> 10
         [] ~(name = term \/ id = term) /\ (Includes(name, term) \/ Includes(id, term)) -> 5
         [] ~(Includes(name, term) \/ Includes(id, term))
               /\ (Includes(PackageText(attrs.package), term) \/ Includes(attrs.text.path, term)) -> 2
         [] OTHER -> IF \E t \in attrs.text.tags : Includes(t, term) THEN 3 ELSE 0
LegacySearchScore(attrs, terms) ==
    SumOfScores([k \in DOMAIN terms |-> LegacyTermScore(attrs, terms[k])], 1)
SearchDefaultLimit == 20
SearchResources(graph, tokens, options, limit, offset) ==
    LET parsed == ParseQueryTokens(tokens)
        filter == EffectiveFilter(options, parsed.filter)
        passing == Passing(graph, filter)
        rows == [i \in DOMAIN passing |->
                    [id |-> passing[i].id, raw |-> LegacySearchScore(passing[i], parsed.terms)]]
    IN Paged(Ranked(rows), offset,
             IF limit = Unset THEN SearchDefaultLimit ELSE Min({Max({1, limit}), ListMaxLimit}))

(* The target of an intent: a known id as it is, else the best match unless the next one is as *)
(* good under the same name and type.                                                          *)
Ambiguous == <<"ambiguous">>
Unmatched == <<"unmatched">>
(* Mutant of TargetAmong: the candidates are not compared. *)
FirstAmong(matches) == IF matches = <<>> THEN Unmatched ELSE matches[1].id
TargetAmong(matches) ==
    IF /\ Len(matches) > 1
       /\ Distance(matches[1].score, matches[2].score) < 50
       /\ matches[1].name = matches[2].name
       /\ matches[1].type = matches[2].type
    THEN Ambiguous ELSE IF matches = <<>> THEN Unmatched ELSE matches[1].id
ResolveIntentTarget(graph, id, tokens) ==
    IF HasNode(graph, id) THEN id
    ELSE TargetAmong(DiscoverResources(graph, tokens, NoFilter, 15))
Resolves(target) == target \notin {Ambiguous, Unmatched}

(* impact: everything reachable, and the downstream models with the most immediate dependents. *)
DownstreamModelFanout(graph, ids) ==
    LET models == Only(ids, {n \in ToSet(ids) : Attributes(graph, n).type = "model"})
        More(a, b) == Len(Outbound(graph, a)) > Len(Outbound(graph, b))
        ranked == Sorted(models, {p \in Pairs(models) : More(p[1], p[2])})
    IN SubSeq(ranked, 1, Min({8, Len(ranked)}))
ImpactOf(graph, target) ==
    LET down == Downstream(graph, target, Unlimited)
    IN IF ~Resolves(target) THEN [target |-> target]
       ELSE [target |-> target, upstream |-> Len(Upstream(graph, target, Unlimited)),
             downstream |-> Len(down),
             critical |-> DownstreamModelFanout(graph, [i \in DOMAIN down |-> down[i].id])]
Impact(graph, id, tokens) == ImpactOf(graph, ResolveIntentTarget(graph, id, tokens))
ExplanationOf(graph, target) ==
    IF ~Resolves(target) THEN [target |-> target]
    ELSE [target |-> target, type |-> Attributes(graph, target).type,
          materialized |-> Attributes(graph, target).materialized]
Explain(graph, id, tokens) == ExplanationOf(graph, ResolveIntentTarget(graph, id, tokens))
(* deps of a column: the catalog's columns and the SQL analyses join the graph first. *)
AddFieldLevelLineage(graph, catalog, analyses) ==
    AddFields(graph, LineageColumns(catalog, analyses))
Deps(graph, id, column, catalog, analyses, options) ==
    LET byField == column # 0 /\ catalog # <<>>
        used == IF byField THEN AddFieldLevelLineage(graph, catalog, analyses) ELSE graph
        target == IF byField THEN FieldId(id, column) ELSE id
    IN CASE options.direction = "downstream" /\ options.buildOrder -> Refused
         [] options.tree /\ ~options.buildOrder ->
                GetDependenciesTree(used, target, options.direction, options.depth)
         [] OTHER ->
                GetDependencies(used, target, options.direction, options.depth, options.buildOrder)
=============================================================================

--------------------------- MODULE ArtifactOpening ---------------------------
(***************************************************************************)
(* From the flags and the environment of an entry point (a command of the  *)
(* CLI, the MCP server, the web server) to a pair of artifacts: where the  *)
(* target points, with which settings of the client, and what is found     *)
(* there.  A command looks for the four files one by one and then loads    *)
(* what it uses; a session lists the place and looks for a set of          *)
(* artifacts.  dbt, or whoever publishes, writes and removes files         *)
(* meanwhile, and reads fail.                                              *)
(*                                                                         *)
(* A text is a sequence of tokens: names, "/", "..", "~", "s3:", "gs:",    *)
(* and "-" or "--" at the start of one; <<>> is empty or not set.  What    *)
(* trimming removes and the case of a scheme are left out.                 *)
(***************************************************************************)
EXTENDS Integers, FiniteSets, SequencesExt, FiniteSetsExt

CONSTANTS
    Names,              \* what files, directories, buckets and settings are called
    Openings,           \* [args, env, stored, published]: flags, environment, files, files that change
    MaxPublications,    \* bounds the changes while a command runs
    MaxReadFaults       \* bounds the reads that fail

VARIABLES
    opening,        \* how this starts, and where the command is
    stored,         \* object -> version
    held,           \* <<object, version>> that were there since the start; version 0: absent
    publications, readFaults
openingVars == <<opening, stored, held, publications, readFaults>>

ArtifactFiles == <<"manifest.json", "run_results.json", "catalog.json", "sources.json">>
Tokens == Names \cup ToSet(ArtifactFiles)
          \cup {"/", ".", "..", "~", "-", "--", "s3:", "gs:", "home", "work"}
Texts == Seq(Tokens)
Objects == {"s3", "gcs", "local"} \X Texts \X Texts
RequiredFiles == {"manifest.json", "run_results.json"}
Cwd == <<"home", "work">>
Home == <<"/", "home">>

-----------------------------------------------------------------------------
(* Places: a directory, or a prefix in a bucket. *)
NamesAt(text) == {i \in DOMAIN text : text[i] # "/"}
StripSlashes(text) ==
    IF NamesAt(text) = {} THEN <<>> ELSE SubSeq(text, Min(NamesAt(text)), Len(text))
NormalizePrefix(text) ==
    IF NamesAt(text) = {} THEN <<>> ELSE SubSeq(text, Min(NamesAt(text)), Max(NamesAt(text)))
JoinKey(prefix, relative) ==
    IF prefix = <<>> THEN StripSlashes(relative) ELSE prefix \o <<"/">> \o StripSlashes(relative)

NoPlace == [provider |-> "none", bucket |-> <<>>, prefix |-> <<>>]
SchemeOf(provider) == IF provider = "s3" THEN <<"s3:", "/", "/">> ELSE <<"gs:", "/", "/">>
RemotePlace(provider, text) ==
    LET slash == SelectInSeq(text, LAMBDA t : t = "/")
        bucket == IF slash = 0 THEN text ELSE SubSeq(text, 1, slash - 1)
        prefix == IF slash = 0 THEN <<>> ELSE SubSeq(text, slash + 1, Len(text))
    IN IF bucket = <<>> THEN NoPlace
       ELSE [provider |-> provider, bucket |-> bucket, prefix |-> NormalizePrefix(prefix)]
ResolvePath(text) ==
    LET Enter(path, t) == CASE t \in {"/", "."} -> path
                            [] t = ".." -> SubSeq(path, 1, Len(path) - 1)
                            [] OTHER -> Append(path, t)
        Path[n \in 0 .. Len(text)] ==
            IF n = 0 THEN IF text # <<>> /\ Head(text) = "/" THEN <<>> ELSE Cwd
            ELSE Enter(Path[n - 1], text[n])
    IN Path[Len(text)]
JoinNames(names) == [i \in 1 .. 2 * Len(names) - 1 |-> IF i % 2 = 0 THEN "/" ELSE names[(i + 1) \div 2]]
Directory(text) ==
    [provider |-> "local", bucket |-> <<>>, prefix |-> JoinNames(ResolvePath(text))]
LeavesPath(text) == \E i \in 1 .. Len(text) - 1 : text[i] = ".." /\ text[i + 1] = "/"
LocalPlace(text) == IF text = <<>> \/ LeavesPath(text) THEN NoPlace ELSE Directory(text)

(* A target (strict) names its provider by the scheme; a location (loose) need not. *)
ParseTarget(text) ==
    LET Rest(provider) == SubSeq(text, Len(SchemeOf(provider)) + 1, Len(text))
    IN CASE IsPrefix(SchemeOf("s3"), text) -> RemotePlace("s3", Rest("s3"))
         [] IsPrefix(SchemeOf("gcs"), text) -> RemotePlace("gcs", Rest("gcs"))
         [] OTHER -> LocalPlace(text)
ParseLocation(provider, text) ==
    IF provider = "local" THEN LocalPlace(text)
    ELSE IF IsPrefix(SchemeOf(provider), text) THEN ParseTarget(text)
    ELSE RemotePlace(provider, text)

-----------------------------------------------------------------------------
(* Flags: named for what they set; the value <<"--">> is another flag, or none is left. *)
ClientFlags == {"projectId", "impersonate", "region", "endpoint"}
RemoteFlags == {"target"} \cup ClientFlags
DirectoryVariables == {"targetDir", "legacyDir", "legacyTarget"}
CacheFlags == {"poll", "maxCached", "ttl"}
ASSUME OpeningsAreTexts ==
    \A o \in Openings :
        /\ (\A i \in DOMAIN o.args : o.args[i].value \in Texts) /\ o.args \in Seq(ToSet(o.args))
        /\ o.env \in [RemoteFlags \cup DirectoryVariables -> Texts]
        /\ o.published \subseteq Objects /\ DOMAIN o.stored \subseteq Objects
        /\ o.stored \in [DOMAIN o.stored -> Nat \ {0}]
SettingsOf(provider) ==
    CASE provider = "s3" -> {"region", "endpoint"}
      [] provider = "gcs" -> {"projectId", "impersonate"}
      [] OTHER -> {}
StartsWith(value, dashes) == value # <<>> /\ Head(value) \in dashes
GivenValue(args, flag) ==
    LET last == SelectLastInSeq(args, LAMBDA a : a.flag = flag)
    IN IF last = 0 THEN <<>> ELSE args[last].value
FlagsGiven(args) == [f \in RemoteFlags |-> GivenValue(args, f)]
Overlay(env, flags) == [s \in ClientFlags |-> IF flags[s] # <<>> THEN flags[s] ELSE env[s]]
TargetOf(flags, env) == IF flags.target # <<>> THEN flags.target ELSE env.target
RemoteFlagsMatch(text, flags) ==
    LET given == {s \in ClientFlags : flags[s] # <<>>}
    IN text = <<>> \/ given = {} \/ given \subseteq SettingsOf(ParseTarget(text).provider)

Ends(kind) == [kind |-> kind, place |-> NoPlace, client |-> <<>>]
OpensAt(place, settings) ==
    IF place = NoPlace THEN Ends("rejected")
    ELSE [kind |-> "place", place |-> place,
          client |-> [s \in SettingsOf(place.provider) |-> settings[s]]]

OpensCli(args, env) ==
    LET flags == FlagsGiven(args)
    IN IF (\E i \in DOMAIN args : args[i].flag # "target") \/ TargetOf(flags, env) = <<>>
       THEN Ends("rejected") ELSE OpensAt(ParseTarget(TargetOf(flags, env)), env)

(* The first argument that stops the reading says how it ends. *)
StopsMcp(arg) ==
    \/ arg.flag \in {"help", "version"}
    \/ arg.flag \in RemoteFlags \cup CacheFlags /\ StartsWith(arg.value, {"--"})
    \/ arg.flag \in CacheFlags /\ arg.value \notin {<<"0">>, <<"3000">>}
StopsAt(arg) == Ends(IF arg.flag \in {"help", "version"} THEN arg.flag ELSE "rejected")
OpensMcp(args, env) ==
    LET stop == SelectInSeq(args, StopsMcp)
        flags == FlagsGiven(args)
        text == TargetOf(flags, env)
    IN IF stop # 0 THEN StopsAt(args[stop])
       ELSE IF \/ \E i \in DOMAIN args : args[i].flag \notin RemoteFlags \cup CacheFlags
               \/ ~RemoteFlagsMatch(text, flags) THEN Ends("rejected")
       ELSE IF text = <<>> THEN Ends("unbound")
       ELSE OpensAt(ParseTarget(text), Overlay(env, flags))

(* The web server writes its flags into the environment that its service starts from. *)
StopsWeb(arg) ==
    \/ arg.flag \notin RemoteFlags \cup {"alias", "port", "noOpen"}
    \/ arg.flag \in RemoteFlags \cup {"alias", "port"} /\ StartsWith(arg.value, {"-", "--"})
    \/ arg.flag = "alias" /\ arg.value = <<>>
    \/ arg.flag = "port" /\ arg.value # <<"3000">>
ExpandHome(text) ==
    IF StartsWith(text, {"~"}) /\ (Len(text) = 1 \/ text[2] = "/") THEN Home \o Tail(text) ELSE text
SeedFromEnvironment(env) ==
    LET parsed == ParseTarget(env.target)
        directories == <<env.targetDir, env.legacyDir, env.legacyTarget>>
        first == SelectInSeq(directories, LAMBDA d : d # <<>>)
    IN IF env.target # <<>>
       THEN OpensAt(IF parsed.provider \in {"s3", "gcs"}
                    THEN ParseLocation(parsed.provider, env.target) ELSE parsed, env)
       ELSE IF first # 0 THEN OpensAt(Directory(ExpandHome(directories[first])), env)
       ELSE Ends("unbound")
ApplyUnset(flags, env) ==
    [f \in DOMAIN env |-> IF f \in RemoteFlags /\ env[f] = <<>> THEN flags[f] ELSE env[f]]
ApplyToEnv(flags, env) ==
    [f \in DOMAIN env |-> IF f \in RemoteFlags /\ flags[f] # <<>> THEN flags[f] ELSE env[f]]
Alias(args) == GivenValue(args, "alias")
WebFlags(args) ==
    IF Alias(args) = <<>> THEN FlagsGiven(args) ELSE [FlagsGiven(args) EXCEPT !.target = Alias(args)]
BothTargets(args) == Alias(args) # <<>> /\ FlagsGiven(args).target # <<>>
OpensWeb(args, env) ==
    LET stop == SelectInSeq(args, StopsWeb)
        flags == WebFlags(args)
    IN IF stop # 0 THEN StopsAt(args[stop])
       ELSE IF BothTargets(args) \/ ~RemoteFlagsMatch(TargetOf(flags, env), flags)
       THEN Ends("rejected")
       ELSE SeedFromEnvironment(ApplyToEnv(flags, env))

Opens(entry, args, env) ==
    CASE entry = "cli" -> OpensCli(args, env)
      [] entry = "mcp" -> OpensMcp(args, env)
      [] OTHER -> OpensWeb(args, env)

-----------------------------------------------------------------------------
(* Discovery: what is listed under the place, as sets of artifacts. *)
Object(place, relative) == <<place.provider, place.bucket, JoinKey(place.prefix, relative)>>
RelativeKey(place, key) ==
    IF place.prefix = <<>> THEN StripSlashes(key) ELSE SubSeq(key, Len(place.prefix) + 2, Len(key))
ListObjects(place) ==
    LET keys == {o[3] : o \in {x \in DOMAIN stored : x[1] = place.provider /\ x[2] = place.bucket}}
        under == {k \in keys : place.prefix = <<>> \/ IsStrictPrefix(place.prefix \o <<"/">>, k)}
    IN {RelativeKey(place, k) : k \in under}
IsAllowed(relative) ==
    Len(StripSlashes(relative)) = 1 /\ Last(relative) \in ToSet(ArtifactFiles)
RunIdOf(relative) ==
    IF Len(relative) = 1 THEN <<"current">> ELSE SubSeq(relative, 1, Len(relative) - 2)
FilesOf(listed, run) == {Last(r) : r \in {x \in listed : RunIdOf(x) = run}}
Candidates(listed) ==
    {run \in {RunIdOf(r) : r \in listed} : RequiredFiles \subseteq FilesOf(listed, run)}
MissingOf(listed) == RequiredFiles \ {Last(r) : r \in listed}
DiscoverCandidates(relatives) ==
    LET listed == {r \in relatives : IsAllowed(r)}
        candidates == Candidates(listed)
        Result(kind, found, missing) == [kind |-> kind, relatives |-> found, missing |-> missing]
    IN CASE Cardinality(candidates) > 1 -> Result("ambiguous", {}, {})
         [] Cardinality(candidates) = 1 ->
                Result("found", {r \in listed : RunIdOf(r) \in candidates}, {})
         [] OTHER -> Result("missing", {}, MissingOf(listed))
DiscoverPlace(place) == DiscoverCandidates(ListObjects(place))

-----------------------------------------------------------------------------
(* Commands: what each requires, and what it loads, in order. *)
Commands == {"graph", "graph-field", "field", "failures", "timeline",
             "diagnose-run", "diagnose-node", "status"}
RequiresOfAllButStatus(command, place) ==
    IF command \in {"graph", "graph-field", "field", "failures", "timeline"} THEN {"manifest.json"}
    ELSE IF command = "status" /\ place.provider = "local" THEN {} ELSE RequiredFiles
Requires(command, place) ==
    CASE command \in {"graph", "graph-field", "field"} -> {"manifest.json"}
      [] command \in {"failures", "timeline"} -> {"run_results.json"}
      [] command = "status" /\ place.provider = "local" -> {}
      [] OTHER -> RequiredFiles
(* A load that must succeed, one that may find the file gone, one whose failure is passed over. *)
MustLoad(file) == [file |-> file, gone |-> FALSE, bad |-> FALSE]
LoadUnlessGone(file) == [file |-> file, gone |-> TRUE, bad |-> FALSE]
TryLoad(file) == [file |-> file, gone |-> TRUE, bad |-> TRUE]
IfFound(found, load) == IF load.file \in found THEN <<load>> ELSE <<>>
(* Mutant of Plan: the files that only add to an answer are forgotten. *)
PlanWithoutAdditions(command, found) ==
    CASE command \in {"failures", "timeline"} -> <<MustLoad("run_results.json")>>
      [] command \in {"graph", "graph-field", "field", "diagnose-node"} -> <<MustLoad("manifest.json")>>
      [] OTHER -> <<>>
Plan(command, found) ==
    CASE command \in {"graph", "diagnose-node"} -> <<MustLoad("manifest.json")>>
      [] command = "graph-field" ->
             <<MustLoad("manifest.json")>> \o IfFound(found, LoadUnlessGone("catalog.json"))
      [] command = "field" -> <<MustLoad("manifest.json")>> \o IfFound(found, TryLoad("catalog.json"))
      [] command = "failures" ->
             <<MustLoad("run_results.json")>> \o IfFound(found, MustLoad("manifest.json"))
      [] command = "timeline" -> <<MustLoad("run_results.json"), TryLoad("manifest.json")>>
      [] OTHER -> <<>>
Readiness(found) ==
    CASE "manifest.json" \notin found -> "unavailable"
      [] "run_results.json" \notin found -> "manifest-only"
      [] OTHER -> "full"

With(f, x, value) == [y \in DOMAIN f \cup {x} |-> IF y = x THEN value ELSE f[y]]
VersionOf(object) == IF object \in DOMAIN stored THEN stored[object] ELSE 0
IsLocal == opening.place.provider = "local"
(* What a read of a file of the place returns; a command reads its own copy of a remote file. *)
Current(file) == VersionOf(Object(opening.place, <<file>>))
Readable(file) == IF IsLocal THEN Current(file) ELSE opening.copies[file]

OpeningStart(o) ==
    /\ opening = [args |-> o.args, env |-> o.env, published |-> o.published, at |-> "start",
                  entry |-> "none", command |-> "none", place |-> NoPlace, looked |-> 0, copies |-> <<>>,
                  found |-> {}, plan |-> <<>>, loaded |-> <<>>, discovery |-> <<>>, result |-> "none"]
    /\ stored = o.stored /\ publications = 0 /\ readFaults = 0
    /\ held = {<<x, o.stored[x]>> : x \in DOMAIN o.stored}
              \cup {<<x, 0>> : x \in o.published \ DOMAIN o.stored}
IdleOpening ==
    /\ opening = [at |-> "idle"] /\ stored = <<>> /\ publications = 0 /\ readFaults = 0 /\ held = {}

OnlyOpening == UNCHANGED <<stored, held, publications>>
Ended(o, result) == [o EXCEPT !.at = "end", !.result = result]
CommandOpens(command, opens) ==
    LET asked == [opening EXCEPT !.entry = "cli", !.command = command, !.place = opens.place]
    IN IF opens.kind # "place" THEN Ended(asked, opens.kind) ELSE [asked EXCEPT !.at = "look"]
RunCommand ==
    /\ opening.at = "start"
    /\ \E command \in Commands :
           opening' = CommandOpens(command, OpensCli(opening.args, opening.env))
    /\ OnlyOpening /\ UNCHANGED readFaults
LookFor ==
    /\ opening.at = "look" /\ opening.looked < Len(ArtifactFiles)
    /\ \E fails \in IF IsLocal THEN {FALSE} ELSE BOOLEAN :
           LET file == ArtifactFiles[opening.looked + 1]
               version == IF fails THEN 0 ELSE Current(file)
           IN /\ fails => readFaults < MaxReadFaults
              /\ readFaults' = readFaults + IF fails THEN 1 ELSE 0
              /\ opening' = [opening EXCEPT !.looked = @ + 1, !.copies = With(@, file, version),
                                           !.found = IF version = 0 THEN @ ELSE @ \cup {file}]
    /\ OnlyOpening
(* The manifest of failures and run-report is looked for once more before anything is loaded. *)
Decide ==
    /\ opening.at = "look" /\ opening.looked = Len(ArtifactFiles)
    /\ LET here == {f \in ToSet(ArtifactFiles) : Readable(f) # 0}
           enrichments == IF opening.command = "failures" THEN here ELSE opening.found
       IN opening' =
              IF ~(Requires(opening.command, opening.place) \subseteq opening.found)
              THEN Ended(opening, "refused")
              ELSE IF opening.command = "status" THEN Ended(opening, Readiness(opening.found))
              ELSE [opening EXCEPT !.at = "load", !.plan = Plan(opening.command, enrichments)]
    /\ OnlyOpening /\ UNCHANGED readFaults
(* A load fails when the file has gone, cannot be read or does not parse. *)
LoadFile ==
    /\ opening.at = "load" /\ opening.plan # <<>>
    /\ \E fails \in BOOLEAN :
           LET next == Head(opening.plan)
               version == Readable(next.file)
           IN /\ fails => version # 0 /\ readFaults < MaxReadFaults
              /\ readFaults' = readFaults + IF fails THEN 1 ELSE 0
              /\ opening' =
                     IF ~fails /\ version # 0
                     THEN [opening EXCEPT !.plan = Tail(@), !.loaded = With(@, next.file, version)]
                     ELSE IF next.bad \/ (next.gone /\ version = 0)
                     THEN [opening EXCEPT !.plan = Tail(@)]
                     ELSE Ended(opening, "failed")
    /\ OnlyOpening
Answer ==
    /\ opening.at = "load" /\ opening.plan = <<>>
    /\ opening' = Ended(opening, "answered")
    /\ OnlyOpening /\ UNCHANGED readFaults

(* A session (MCP, web) lists the place; reading what it found is up to the session. *)
DiscoveryEnds(asked, discovery) == Ended([asked EXCEPT !.discovery = discovery], discovery.kind)
SessionEnds(entry, opens) ==
    LET asked == [opening EXCEPT !.entry = entry, !.place = opens.place]
    IN IF opens.kind # "place" THEN Ended(asked, opens.kind)
       ELSE DiscoveryEnds(asked, DiscoverPlace(opens.place))
OpenSession ==
    /\ opening.at = "start"
    /\ \E entry \in {"mcp", "web"} :
           opening' = SessionEnds(entry, Opens(entry, opening.args, opening.env))
    /\ OnlyOpening /\ UNCHANGED readFaults

(* dbt writes or removes one file at a time, whoever is reading. *)
Publish ==
    /\ opening.at \in {"look", "load"} /\ publications < MaxPublications
    /\ publications' = publications + 1
    /\ \E o \in opening.published :
           /\ stored' = With(stored, o, VersionOf(o) + 1)
           /\ held' = held \cup {<<o, stored'[o]>>}
    /\ UNCHANGED <<opening, readFaults>>
Withdraw ==
    /\ opening.at \in {"look", "load"} /\ publications < MaxPublications
    /\ publications' = publications + 1
    /\ \E o \in opening.published \cap DOMAIN stored :
           /\ stored' = [x \in DOMAIN stored \ {o} |-> stored[x]]
           /\ held' = held \cup {<<o, 0>>}
    /\ UNCHANGED <<opening, readFaults>>

OpeningNext ==
    \/ RunCommand \/ LookFor \/ Decide \/ LoadFile \/ Answer \/ OpenSession \/ Publish \/ Withdraw

-----------------------------------------------------------------------------
(* Whoever takes the same flags and environment opens the same place with the same client: the *)
(* entry points that find a target agree, and a flag wins over the environment; what only the  *)
(* web takes is a directory (entrypoint-options.ts:174, cli-artifact-resolve.ts:18,            *)
(* options.ts:131, source-service.ts:192).                                                     *)
Agree(opens) ==
    LET Won(s) == IF GivenValue(opening.args, s) # <<>> THEN GivenValue(opening.args, s)
                  ELSE opening.env[s]
    IN /\ Cardinality(opens) <= 1
       /\ \A o \in opens : \A s \in DOMAIN o.client : o.client[s] = Won(s)
       /\ \A o \in opens : GivenValue(opening.args, "target") # <<>> =>
              o.place = ParseTarget(GivenValue(opening.args, "target"))
EntriesAgree ==
    opening.at = "start" =>
        Agree({o \in {Opens(e, opening.args, opening.env) : e \in {"cli", "mcp", "web"}} :
                  o.kind = "place"})

(* What a command reports of a place is what was there while it ran: each file it loads is a   *)
(* version the place held, each it says is missing was absent at some time or could not be     *)
(* read.  As long as nothing changes and no read fails, a command is refused exactly when a    *)
(* file that it cannot do without is not there, and otherwise loads just those of its files    *)
(* that are: the catalog with the fields of nodes, the manifest with the rows of a run.        *)
(* Status says "full" exactly when the pair is there, and the list of a session leads to the   *)
(* files that a command finds (dbt-artifact-bundle.ts:118, artifact-discovery.ts:200).         *)
InPlace(place, key) ==
    place.prefix = <<>> \/ IsPrefix(place.prefix \o <<"/">>, key)
Direct(place) ==
    {f \in ToSet(ArtifactFiles) :
        \E o \in DOMAIN stored :
            /\ o[1] = place.provider /\ o[2] = place.bucket /\ Last(o[3]) = f /\ InPlace(place, o[3])
            /\ Len(o[3]) = IF place.prefix = <<>> THEN 1 ELSE Len(place.prefix) + 2}
HasOddKeys(place) ==
    \E o \in DOMAIN stored :
        /\ o[1] = place.provider /\ o[2] = place.bucket /\ InPlace(place, o[3])
        /\ \E i \in DOMAIN o[3] : o[3][i] = "/" /\ (i = 1 \/ o[3][i - 1] = "/")
AboutNodes == {"graph", "graph-field", "field"}
AboutRun == {"failures", "timeline"}
Needs(command, place) ==
    {f \in RequiredFiles :
        CASE command \in AboutNodes -> f = "manifest.json"
          [] command \in AboutRun -> f = "run_results.json"
          [] OTHER -> command # "status" \/ place.provider # "local"}
Shows(command) ==
    {f \in ToSet(ArtifactFiles) :
        \/ f = "manifest.json" /\ command \notin {"status", "diagnose-run"}
        \/ f = "run_results.json" /\ command \in AboutRun
        \/ f = "catalog.json" /\ command \in {"graph-field", "field"}}
OpenedIsStored ==
    opening.at = "end" /\ opening.place # NoPlace =>
        LET place == opening.place
            here == Direct(place)
            lacking == ToSet(ArtifactFiles) \ opening.found
        IN /\ \A f \in DOMAIN opening.loaded : <<Object(place, <<f>>), opening.loaded[f]>> \in held
           /\ opening.entry = "cli" /\ readFaults = 0 =>
                  \A f \in lacking : <<Object(place, <<f>>), 0>> \in held \/ f \notin here
           /\ publications = 0 /\ readFaults = 0 =>
                  IF opening.entry # "cli"
                  THEN \/ HasOddKeys(place)
                       \/ /\ {JoinKey(place.prefix, r) : r \in opening.discovery.relatives}
                                 = IF RequiredFiles \subseteq here
                                   THEN {Object(place, <<f>>)[3] : f \in here} ELSE {}
                          /\ opening.discovery.missing = RequiredFiles \ here
                  ELSE /\ (opening.result = "refused") <=> ~(Needs(opening.command, place) \subseteq here)
                       /\ opening.result # "refused" =>
                              /\ IF opening.command # "status" THEN opening.result = "answered"
                                 ELSE (opening.result = "full") <=> RequiredFiles \subseteq here
                              /\ DOMAIN opening.loaded = Shows(opening.command) \cap here
=============================================================================

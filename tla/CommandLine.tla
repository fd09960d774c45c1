------------------------------ MODULE CommandLine ------------------------------
(***************************************************************************)
(* `telekio cargo`: which Cargo commands it runs for the user's, each with    *)
(* the Tokio of one role.  Cargo itself is external: what it reads in its      *)
(* arguments, which packages it selects, and whether it succeeds.  The files   *)
(* of a patch are in PatchFiles; here a patch is its configuration.            *)
(***************************************************************************)
EXTENDS CargoArguments

CONSTANTS
  Members,      \* packages of the workspace
  Library,      \* a package outside of it that uses Tokio
  Tokio,
  Requests,     \* the arguments a user may give
  Aliases,      \* alias.<name> of Cargo's configuration
  Environment,  \* CARGO_ALIAS_<name>
  Graphs,       \* [always, net: dependencies, the second with a feature only]
  Manifests     \* what packages depend on of Telekio

Nodes == Members \cup {Library, Tokio}
ASSUME CommandLineAssumption ==
  /\ Library \notin Members /\ Tokio \notin Members \cup {Library}
  /\ \A g \in Graphs : g.always \cup g.net \subseteq Nodes \X Nodes
  /\ IsFiniteSet(Members)
  /\ \A m \in Manifests : m \subseteq {"telekio-host", "telekio-abi"}

PackageRoles == {"Host", "Guest"}
Patches == {"host", "guest", "mixed"}

VARIABLES
  arguments,  \* the user's
  telekio, defaults, graph, origin,  \* the workspace, and where its Tokio comes from
  locked,     \* the Tokio in the lockfile: "patch" once it is the generated one
  phase, expanded, visited,
  todo,       \* Cargo commands to run, [arguments, interpreted, config, packages]
  runs,       \* those that ran, [arguments, locked, succeeded]
  exit     \* what telekio exits with

workspace == <<arguments, telekio, defaults, graph, origin>>
commandVars == <<workspace, locked, phase, expanded, visited, todo, runs, exit>>

CommandInit ==
  /\ arguments \in Requests /\ graph \in Graphs
  /\ telekio \in [Members -> Manifests] /\ defaults \in (SUBSET Members) \ {{}}
  /\ origin \in {"crates.io", "fork"} /\ locked \in {"patch", "another"}
  /\ origin = "fork" => locked = "another"
  /\ phase = "expanding" /\ expanded = arguments /\ visited = {}
  /\ todo = <<>> /\ runs = <<>> /\ exit = "none"

Exit(code) == phase' = "exited" /\ exit' = code

(* ------------------------------ aliases -------------------------------- *)
AliasOf(name) ==
  IF name \in DOMAIN Environment THEN Environment[name]
  ELSE IF name \in DOMAIN Aliases THEN Aliases[name] ELSE DefaultAlias(name)
IsAlias(name) == name \in DOMAIN Environment \cup DOMAIN Aliases \/ DefaultAlias(name) # <<>>

\* The alias the arguments start with, "" when there is none to expand.
NextAlias(given) ==
  LET name == operation(given) IN IF name # "" /\ ~builtin(name) /\ IsAlias(name) THEN name ELSE ""

NotDefault(name) == name \in visited /\ DefaultAlias(name) = <<>>  \* mutant
Recursive(name) == name \in visited
Shell(target) == target # <<>> /\ target[1].name = "!"
Refused(name) == AliasOf(name) = <<>> \/ Recursive(name) \/ Shell(AliasOf(name))

ExpandAlias ==
  LET name == NextAlias(expanded) IN
  /\ phase = "expanding" /\ name # "" /\ ~Refused(name)
  /\ visited' = visited \cup {name}
  /\ expanded' = Splice(expanded, command_index(expanded), AliasOf(name))
  /\ UNCHANGED <<workspace, locked, phase, todo, runs, exit>>

RefuseAlias ==
  /\ phase = "expanding" /\ NextAlias(expanded) # "" /\ Refused(NextAlias(expanded)) /\ Exit("error")
  /\ UNCHANGED <<workspace, locked, expanded, visited, todo, runs>>

Interpret ==
  /\ phase = "expanding" /\ NextAlias(expanded) = "" /\ phase' = "interpreted"
  /\ UNCHANGED <<workspace, locked, expanded, visited, todo, runs, exit>>

(* --------------------------- the workspace ------------------------------ *)
Dependencies(given) ==
  graph.always \cup IF option_values(given, FeatureOptions) # {} THEN graph.net ELSE {}

DirectDependencies(edges, selected) ==  \* mutant
  selected \cup {e[2] : e \in {d \in edges : d[1] \in selected}}

\* What the loop has found after it has looked at every package it found.
reachable_packages(edges, selected) ==
  LET found[n \in 0 .. Cardinality(Nodes)] ==
        IF n = 0 THEN selected
        ELSE LET before == found[n - 1]
             IN  before \cup {e[2] : e \in {d \in edges : d[1] \in before}}
  IN  found[Cardinality(Nodes)]

(* cargo tree --depth 0, which fails (here: no package) when it excludes       *)
(* packages of no workspace.                                                   *)
Tree(all, packages, excluded) ==
  IF all THEN Members \ excluded
  ELSE IF excluded # {} THEN {} ELSE IF packages # {} THEN packages ELSE defaults

AllMembers(given) == has_option(given, "--workspace") \/ has_option(given, "--all")
selected_packages(given) ==
  Tree(AllMembers(given), option_values(given, {"--package", "-p"}), option_values(given, {"--exclude"}))

\* What Cargo is to say on the packages asked for, if they are asked for by name.
ByName(given) ==
  /\ package_selects_workspace(operation(given))
  /\ has_option(given, "--exclude") \/ option_values(given, {"-p", "--package"}) # {}
workspace_selection(given) ==
  IF ByName(given) THEN selected_packages(given) \subseteq Members
  ELSE package_selects_workspace(operation(given))
SelectedMembers(given) ==
  IF ByName(given) /\ workspace_selection(given) THEN selected_packages(given)
  ELSE IF AllMembers(given) THEN Members ELSE defaults

package_role(p) ==
  IF "telekio-host" \notin telekio[p] /\ "telekio-abi" \in telekio[p] THEN "Guest" ELSE "Host"

Mixed == \A r \in PackageRoles : \E p \in Members : package_role(p) = r
Group(given, r) == SetToSeq({p \in SelectedMembers(given) : package_role(p) = r})

\* The directory of the patch that prepare_config makes.
PatchOf(r, mixed) == IF r = "Host" THEN "host" ELSE IF mixed THEN "mixed" ELSE "guest"

uses_tokio(given) ==
  origin = "crates.io" /\ Tokio \in reachable_packages(Dependencies(metadata_options(given)), Members)

(* --------------------------- which commands ----------------------------- *)
Job(given, config, packages) ==
  [arguments |-> given, interpreted |-> expanded, config |-> config, packages |-> packages]
NoPatch == ""

Plain ==
  \/ operation(expanded) = "" \/ kind(operation(expanded)) = "Plain"
  \/ has_option(arguments, "--help") \/ has_option(arguments, "-h")
NoManifest == operation(expanded) = "install" /\ ~has_option(expanded, "--path")
Selects == ByName(expanded) => selected_packages(expanded) # {}

Run(jobs, next) ==
  /\ todo' = jobs /\ phase' = next
  /\ UNCHANGED <<workspace, locked, expanded, visited, runs, exit>>

PassThrough ==
  /\ phase = "interpreted" /\ Plain
  /\ Run(<<Job(arguments, NoPatch, {})>>, "ready")

InstallPackage ==
  /\ phase = "interpreted" /\ ~Plain /\ NoManifest
  /\ Run(<<Job(arguments, "host", {})>>, "ready")

Inspects == phase = "interpreted" /\ ~Plain /\ ~NoManifest

WithoutTokio ==
  /\ Inspects /\ ~uses_tokio(expanded)
  /\ Run(<<Job(arguments, NoPatch, {})>>, "ready")

Patched == Inspects /\ uses_tokio(expanded) /\ Selects
Host == Group(expanded, "Host")
Guest == Group(expanded, "Guest")

OneRole ==
  /\ Patched
  /\ \E r \in PackageRoles :
       /\ \A s \in PackageRoles : (Group(expanded, s) # <<>>) = (s = r)
       /\ Run(<<Job(arguments, PatchOf(r, Mixed), ToSet(Group(expanded, r)))>>, "preparing")

GroupJob(r, select) ==
  LET packages == Group(expanded, r)
      given == IF select THEN package_arguments(expanded, packages) ELSE expanded
  IN  [Job(given, PatchOf(r, TRUE), ToSet(packages)) EXCEPT !.interpreted = given]
SelectsGroups == kind(operation(expanded)) = "Packages" /\ workspace_selection(expanded)
KeepsGroups == kind(operation(expanded)) = "Workspace" \/ operation(expanded) = "tree"

TwoRoles ==
  /\ Patched /\ Host # <<>> /\ Guest # <<>> /\ (SelectsGroups \/ KeepsGroups)
  /\ Run(<<GroupJob("Host", SelectsGroups), GroupJob("Guest", SelectsGroups)>>, "preparing")

RefuseRoles ==
  /\ Inspects /\ uses_tokio(expanded)
  /\ ~Selects \/ (Host # <<>> /\ Guest # <<>> /\ ~SelectsGroups /\ ~KeepsGroups)
  /\ Exit("error")
  /\ UNCHANGED <<workspace, locked, expanded, visited, todo, runs>>

(* A command that telekio asks something fails, or the patch cannot be made.  *)
AskingFails ==
  /\ \/ phase = "expanding" /\ visited = {} /\ operation(expanded) # "" /\ ~builtin(operation(expanded))
     \/ Inspects \/ phase = "preparing"
  /\ Exit("error")
  /\ UNCHANGED <<workspace, locked, expanded, visited, todo, runs>>

(* ---------------------------- one command ------------------------------- *)
\* The Tokio of the lockfile that the packages of the command reach is another one.
Held(job) ==
  /\ origin = "crates.io" /\ locked = "another" /\ operation(job.interpreted) # "update"
  /\ Tokio \in reachable_packages(Dependencies(metadata_options(job.interpreted)), job.packages)

PrepareGraph ==
  /\ phase = "preparing" /\ phase' = "ready"
  /\ locked' = IF Held(Head(todo)) THEN "patch" ELSE locked
  /\ UNCHANGED <<workspace, expanded, visited, todo, runs, exit>>

KeepsGoing(given) == has_option(given, "--keep-going") \/ has_option(given, "--no-fail-fast")
Given(job) == IF job.config = NoPatch THEN job.arguments ELSE status(job.arguments, job.config)
Failed(commands) == \E k \in DOMAIN commands : ~commands[k].succeeded

RunCargo(succeeded) ==
  /\ phase = "ready"
  /\ runs' = Append(runs, [arguments |-> Given(Head(todo)), locked |-> locked, succeeded |-> succeeded])
  /\ todo' = Tail(todo)
  /\ IF Tail(todo) = <<>> \/ (~succeeded /\ ~KeepsGoing(Head(todo).arguments))
     THEN Exit(IF Failed(runs') THEN "failed" ELSE "ok")
     ELSE phase' = "preparing" /\ exit' = exit
  /\ UNCHANGED <<workspace, locked, expanded, visited>>

CommandNext ==
  \/ ExpandAlias \/ RefuseAlias \/ Interpret \/ AskingFails
  \/ PassThrough \/ InstallPackage \/ WithoutTokio \/ OneRole \/ TwoRoles \/ RefuseRoles
  \/ PrepareGraph \/ \E succeeded \in BOOLEAN : RunCargo(succeeded)

(* telekio is one thread, and every Cargo command it waits for ends.          *)
CommandSpec == CommandInit /\ [][CommandNext]_commandVars /\ WF_commandVars(CommandNext)

(* ------------------------- what Cargo makes of it ----------------------- *)
CargoTakes == CommandTakes \cup FeatureOptions \cup PackageTakes
(* Cargo expands its aliases itself, and what follows one stays behind it.    *)
CargoExpands(given) ==
  LET names == DOMAIN Aliases \cup DOMAIN Environment
      after[n \in 0 .. Cardinality(names) + 1] ==
        IF n = 0 THEN given
        ELSE LET before == after[n - 1]
                 name == NextAlias(before)
             IN  IF name = "" THEN before ELSE Splice(before, command_index(before), AliasOf(name))
  IN  after[Cardinality(names) + 1]

\* Where the values of an option are, and the values in the order Cargo reads them.
CargoPlaces(given, names) ==
  {IF given[i].value # "" THEN i ELSE i + 1 : i \in {j \in Heads(given, CargoTakes) : given[j].name \in names}}
CargoValues(given, names) ==
  LET values == At(given, CargoPlaces(given, names)) IN [k \in DOMAIN values |-> values[k].value]
CargoOptions(given) == {given[i].name : i \in Heads(given, CargoTakes)}

CargoSelects(given) ==
  Tree(CargoOptions(given) \cap {"--workspace", "--all"} # {},
       ToSet(CargoValues(given, {"-p", "--package"})), ToSet(CargoValues(given, {"--exclude"})))

\* The last --config that names a patch of tokio is the one that counts.
CargoConfig(given) ==
  LET configs == CargoValues(given, {"--config"})
  IN  IF configs # <<>> /\ Last(configs) \in Patches THEN Last(configs) ELSE NoPatch

\* Tokio is in every set with the package that holds what its members depend on.
UsesTokio(given, package) ==
  LET edges == graph.always \cup IF CargoValues(given, FeatureOptions) # <<>> THEN graph.net ELSE {}
  IN  \A nodes \in SUBSET Nodes :
        package \in nodes /\ (\A e \in edges : e[1] \in nodes => e[2] \in nodes) => Tokio \in nodes

CargoBuilds(given) ==
  package_selects_workspace(operation(given)) /\ CargoOptions(given) \cap {"--help", "-h"} = {}

(* Every package of the workspace that one of the Cargo commands builds and   *)
(* that uses Tokio, however indirectly, gets the generated Tokio of its own     *)
(* role, the mixed one for a guest that shares the workspace with hosts.       *)
EveryTokioIsItsRoles ==
  \A k \in DOMAIN runs :
    LET given == CargoExpands(runs[k].arguments) IN
    CargoBuilds(given) /\ origin = "crates.io" =>
      \A p \in CargoSelects(given) \cap Members :
        UsesTokio(given, p) =>
          CargoConfig(given) = PatchOf(package_role(p), Mixed) /\ runs[k].locked = "patch"

Others(given) ==
  LET kept == {i \in Heads(given, CargoTakes) : given[i].name \notin PackageNames \cup {"--config"}}
      configs == {i \in CargoPlaces(given, {"--config"}) : given[i].value \notin Patches}
  IN  <<At(given, WithValues(given, CargoTakes, kept)), At(given, configs), AfterDashes(given)>>

(* When telekio ends well, or has been told to go on after a failure, its      *)
(* Cargo commands together build every package the user asked for, none of      *)
(* them twice, with all the other arguments in the user's order.               *)
WholeRequest ==
  LET asked == CargoExpands(arguments)
      done == [k \in DOMAIN runs |-> CargoExpands(runs[k].arguments)]
  IN  /\ exit = "ok" \/ (exit = "failed" /\ KeepsGoing(asked))
      /\ CargoBuilds(asked)
      => /\ UNION {CargoSelects(done[k]) : k \in DOMAIN runs} = CargoSelects(asked)
         /\ \A k, l \in DOMAIN runs :
              k # l => CargoSelects(done[k]) \cap CargoSelects(done[l]) \cap Members = {}
         /\ \A k \in DOMAIN runs : Others(done[k]) = Others(asked)

(* When one of several names given to -p is no package of the workspace,       *)
(* telekio takes the default packages for the command's: not these.             *)
MembersOrNone ==
  \/ option_values(expanded, {"-p", "--package"}) \subseteq Members
  \/ option_values(expanded, {"-p", "--package"}) \cap Members = {}

(* Every command line is carried out or refused: no chain of aliases, a        *)
(* default one named in terms of itself included, is expanded for ever.        *)
Ends == <>(phase = "exited")

(* --------------------- what is taken for arguments ----------------------- *)
(* The strings that the definitions above name are in STRING already: they     *)
(* are listed for the proofs, whose provers do not know that they are.         *)
Literals == {"", "--config", "--package", "build", "check", "doc", "run", "test", "remove"} \cup Patches
Text == STRING \cup Nodes \cup Literals
Argument == [name : Text, value : Text]
Arguments == Seq(Argument)

\* An option that takes a value has one, joined or after it.
Valued(given) ==
  \A i \in Before(given) : Takes(CargoTakes, given[i]) =>
    i + 1 \in Before(given) /\ given[i + 1].name = "" /\ given[i + 1].value # ""
Listed(given) == given \in Arguments /\ Valued(given)

\* The words that are no option's value: the command is the first of them.
Free(given) ==
  {i \in Before(given) : given[i].name = "" /\ (i = 1 \/ ~Takes(CargoTakes, given[i - 1]))}

\* Options of the command, which do not come before it.
Ordered(given) ==
  \A i \in Before(given) : Takes(CargoTakes \ CommandTakes, given[i]) => \E j \in Free(given) : j < i
ToolFirst(given) == \A i \in Before(given) : given[i] = Toolchain => i = 1
Regular(given) == Listed(given) /\ Ordered(given) /\ ToolFirst(given)

\* What an alias may stand for: a command with options, and nothing after "--".
Target(given) ==
  Regular(given) /\ Free(given) # {} /\ \A i \in DOMAIN given : given[i] # Dashes /\ given[i] # Toolchain

AliasNames == DOMAIN Aliases \cup DOMAIN Environment
ASSUME ArgumentAssumption ==
  /\ \A given \in Requests : Regular(given)
  /\ IsFiniteSet(AliasNames)
  /\ \A name \in AliasNames : LET t == AliasOf(name) IN Target(t) \/ t = <<>> \/ Shell(t)
  /\ \A p \in Members : p # ""
===============================================================================

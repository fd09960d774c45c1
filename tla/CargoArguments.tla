---------------------------- MODULE CargoArguments ----------------------------
(***************************************************************************)
(* How the command line reads and rewrites the arguments of Cargo.  An        *)
(* argument is a word (no name), an option (no value) or both joined:         *)
(* --package=a, -pa and -p=a are Joined("-p", a).  Options given with their    *)
(* value in the next argument have one there, and short options are not       *)
(* combined (-vp).                                                            *)
(***************************************************************************)
EXTENDS Integers, Sequences, FiniteSets, SequencesExt

Word(w) == [name |-> "", value |-> w]
Opt(n) == [name |-> n, value |-> ""]
Joined(n, v) == [name |-> n, value |-> v]
Dashes == Opt("--")
Toolchain == Joined("+", "nightly")

\* The value of an option is in the argument after it.
Takes(names, argument) == argument.value = "" /\ argument.name \in names

(* The positions at which a loop over the arguments looks that steps over     *)
(* the values of the options `takes` and ends at "--".                         *)
Heads(arguments, takes) ==
  LET from[i \in 1 .. Len(arguments) + 2] ==
        IF i > Len(arguments) THEN {}
        ELSE IF arguments[i] = Dashes THEN {}
        ELSE {i} \cup from[IF Takes(takes, arguments[i]) THEN i + 2 ELSE i + 1]
  IN  from[1]

WithValues(arguments, takes, places) ==
  places \cup ({i + 1 : i \in {j \in places : Takes(takes, arguments[j])}} \cap DOMAIN arguments)

At(arguments, places) ==
  FlattenSeq([i \in DOMAIN arguments |-> IF i \in places THEN <<arguments[i]>> ELSE <<>>])

Before(arguments) == {i \in DOMAIN arguments : \A j \in 1 .. i : arguments[j] # Dashes}
AfterDashes(arguments) == At(arguments, DOMAIN arguments \ Before(arguments))

GlobalTakes == {"--config", "-C", "-Z"}
global_options(arguments) ==
  LET looked == Heads(arguments, GlobalTakes)
      global == {i \in looked : \/ arguments[i].name \in GlobalTakes
                                \/ arguments[i] = Toolchain /\ i = 1}
  IN  At(arguments, WithValues(arguments, GlobalTakes, global))

(* What metadata is given of the features; --target goes the same way.         *)
FeatureOptions == {"--features", "-F"}
metadata_options(arguments) ==
  LET looked == Heads(arguments, FeatureOptions)
  IN  At(arguments, WithValues(arguments, FeatureOptions,
                               {i \in looked : arguments[i].name \in FeatureOptions}))

CommandTakes == GlobalTakes \cup {"--color", "--explain"}
command_index(arguments) ==
  LET commands == {i \in Heads(arguments, CommandTakes) :
                     arguments[i].name = "" \/ (arguments[i] = Toolchain /\ i # 1)}
  IN  IF commands = {} THEN 0 ELSE CHOOSE i \in commands : \A j \in commands : i <= j

operation(arguments) ==
  IF command_index(arguments) = 0 THEN "" ELSE arguments[command_index(arguments)].value

option_values(arguments, names) ==
  LET seen == {i \in Before(arguments) : arguments[i].name \in names}
  IN  {arguments[i].value : i \in {j \in seen : arguments[j].value # ""}}
        \cup {arguments[i + 1].value : i \in {j \in seen : arguments[j].value = "" /\ j < Len(arguments)}}

has_option(arguments, name) == \E i \in Before(arguments) : arguments[i].name = name

PackageTakes == {"-p", "--package", "--exclude"}
PackageNames == PackageTakes \cup {"--workspace", "--all"}
ForgetDashes(arguments, packages) ==  \* mutant
  LET kept == {i \in Heads(arguments, PackageTakes) : arguments[i].name \notin PackageNames}
      named(p) == <<Opt("--package"), Word(p)>>
  IN  At(arguments, kept) \o FlattenSeq([k \in DOMAIN packages |-> named(packages[k])])
package_arguments(arguments, packages) ==
  LET kept == {i \in Heads(arguments, PackageTakes) : arguments[i].name \notin PackageNames}
      named(p) == <<Opt("--package"), Word(p)>>
  IN  At(arguments, kept) \o (FlattenSeq([k \in DOMAIN packages |-> named(packages[k])])
        \o AfterDashes(arguments))

(* status, given the configuration of a patch.                                 *)
status(arguments, config) ==
  LET first == IF arguments # <<>> /\ arguments[1] = Toolchain THEN {1} ELSE {}
      looked == Heads(arguments, {"--config"}) \ first
      configs == {i \in looked : arguments[i].name = "--config"}
  IN  At(arguments, first) \o (At(arguments, looked \ configs)
        \o (At(arguments, WithValues(arguments, {"--config"}, configs))
        \o (<<Opt("--config"), Word(config)>> \o AfterDashes(arguments))))

Kinds ==
  [Packages |-> {"bench", "build", "check", "clippy", "doc", "fix", "package", "publish", "test", "tree"},
   Workspace |-> {"fetch", "generate-lockfile", "update"},
   Single |-> {"add", "install", "remove", "run", "rustc", "rustdoc"},
   Output |-> {"metadata", "vendor"},
   Plain |-> {"clean", "config", "fmt", "help", "info", "init", "locate-project", "login", "logout",
              "new", "owner", "report", "search", "uninstall", "yank"}]

\* "" for an extension, None in the code.
kind(command) ==
  IF \E k \in DOMAIN Kinds : command \in Kinds[k]
  THEN CHOOSE k \in DOMAIN Kinds : command \in Kinds[k] ELSE ""

builtin(command) == kind(command) # "" /\ command \notin {"clippy", "fmt"}
package_selects_workspace(command) == command # "install" /\ kind(command) \in {"Packages", "Single"}

DefaultAlias(name) ==
  CASE name = "b" -> <<Word("build")>> [] name = "c" -> <<Word("check")>>
    [] name = "d" -> <<Word("doc")>> [] name = "r" -> <<Word("run")>>
    [] name = "t" -> <<Word("test")>> [] name = "rm" -> <<Word("remove")>>
    [] OTHER -> <<>>

\* The argument at `place` replaced by what the alias stands for.
Splice(arguments, place, target) ==
  SubSeq(arguments, 1, place - 1) \o (target \o SubSeq(arguments, place + 1, Len(arguments)))
===============================================================================

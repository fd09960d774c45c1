----------------------------- MODULE MCCommandLine -----------------------------
(* Command lines of every kind of command and alias, with each way to select  *)
(* packages, and once with each other argument.                               *)
EXTENDS CommandLine, TLC

CONSTANTS a, b, Library_, Tokio_

MCAliases ==
  "mine" :> <<Word("build"), Joined("-p", a)>> @@ "loop" :> <<Word("knot")>> @@ "knot" :> <<Word("loop")>>
    @@ "t" :> <<Word("t")>> @@ "list" :> <<Word("ls"), Opt("--workspace")>> @@ "shell" :> <<Joined("!", "ls")>>
    @@ "fetch" :> <<Word("build")>> @@ "empty" :> <<>> @@ "netted" :> <<Word("check"), Opt("-F"), Word("net")>>
MCEnvironment == "ls" :> <<Word("tree")>> @@ "loop" :> <<Word("b")>> @@ "knot" :> <<Word("knot")>>

Commands == {"build", "run", "tree", "update", "metadata", "install", "clippy", "nextest", "b", "c"}
Selections ==
  {<<>>, <<Opt("--workspace")>>, <<Opt("-p"), Word(a)>>, <<Joined("-p", a)>>,
   <<Joined("--package", a), Opt("--package"), Word(b)>>, <<Opt("-p"), Word(Library_)>>,
   <<Opt("--all"), Opt("--exclude"), Word(a)>>, <<Opt("--workspace"), Joined("--exclude", b)>>,
   <<Opt("--exclude"), Word(b)>>}
Options ==
  {<<Opt("-F"), Word("net")>>, <<Joined("--features", "net")>>, <<Opt("--keep-going")>>,
   <<Opt("--config"), Word("own")>>, <<Opt("--help")>>, <<Opt("--path"), Word("dir")>>,
   <<Dashes, Opt("-p"), Word(b), Opt("--config"), Word("own")>>}
Globals == {<<Toolchain>>, <<Opt("--config"), Word("own")>>, <<Opt("--color"), Word("always")>>, <<Joined("-Z", "x")>>}

MCRequests ==
  {<<Word(c)>> \o s : c \in Commands, s \in Selections}
    \cup {<<Word(c)>> \o s \o o : c \in {"build", "c", "tree", "install"},
                                  s \in {<<>>, <<Opt("--workspace")>>}, o \in Options}
    \cup {g \o <<Word(c)>> : c \in {"build", "mine"}, g \in Globals}
    \cup {<<Word(c)>> : c \in DOMAIN MCAliases \cup DOMAIN MCEnvironment \cup {"fmt"}} \cup {<<>>, <<Opt("--list")>>}

MCGraphs ==
  {[always |-> {<<a, Tokio_>>, <<b, Tokio_>>, <<Library_, Tokio_>>}, net |-> {}],
   [always |-> {<<a, b>>, <<b, Library_>>, <<Library_, Tokio_>>}, net |-> {}],
   [always |-> {<<Library_, Tokio_>>}, net |-> {<<a, Library_>>, <<b, Library_>>}]}
===============================================================================

----------------------------- MODULE MCCallGraph -----------------------------
(***************************************************************************)
(* One caller in a.ts, with every form of target, and one name declared in *)
(* as many places as the scopes look at: a.ts, b.ts, b/index.ts and two    *)
(* files nothing imports. The programs vary who declares the name and how, *)
(* what is imported and how, and what a server and the plugins add.        *)
(***************************************************************************)
EXTENDS CallGraph

MCExtensions == <<"ts", "js">>

A == <<"a", "ts">>
B == <<"b", "ts">>
BIndex == <<"b", "index", "ts">>
Far == <<"far", "ts">>
Farther == <<"farther", "ts">>
Files == {A, B, BIndex, Far, Farther}

Symbol(file, name, component) ==
    [language |-> "ts", file |-> file, name |-> name, component |-> component,
     kept |-> TRUE, owner |-> FALSE, default |-> FALSE]
Dropped(s) == [s EXCEPT !.kept = FALSE]
Owner(s) == [s EXCEPT !.owner = TRUE]
Default(s) == [s EXCEPT !.default = TRUE]

Run == Symbol(A, <<"run">>, "one")
Logger(file) == Symbol(file, <<"Logger">>, "one")
Log(file, component) == Symbol(file, <<"Logger", ".", "log">>, component)
StaticLog(file) == Symbol(file, <<"Logger", "::", "log">>, "one")

\* A class, a dropped class of fields, a value made elsewhere, nothing.
Declared(file) == {{}, {Logger(file)}, {Owner(Logger(file))}, {Dropped(Owner(Logger(file)))}}

InA == {d \cup m : d \in Declared(A), m \in {{}, {Log(A, "one")}, {Dropped(Log(A, "one"))}}}
InB == {d \cup m : d \in Declared(B) \cup {{Default(Owner(Logger(B)))},
                                           {Default(Logger(B)), Default(Symbol(B, <<"log">>, "one"))}},
                   m \in {{}, {Log(B, "one")}, {Log(B, "one"), StaticLog(B)}}}
InIndex == {{}, {Owner(Logger(BIndex)), Log(BIndex, "two")}}
InFar == {{}, {Log(Far, "two"), [Log(Farther, "one") EXCEPT !.language = "py"]},
          {Log(Far, "one"), Log(Farther, "two")}, {Log(Far, "two"), Log(Farther, "two")}}

Path(extension, directory) ==
    [relative |-> TRUE, directory |-> directory, stem |-> <<"b">>, extension |-> extension]
Package == [relative |-> FALSE, directory |-> FALSE, stem |-> <<"b">>, extension |-> <<>>]
Import(imported, local, specifier) ==
    [imported |-> imported, local |-> local, specifier |-> specifier, dynamic |-> FALSE]
Plain == Path(<<>>, FALSE)
Edges ==
    {{}, {Import("Logger", "Logger", Plain)}, {Import("Logger", "Logger", Package)},
     {Import("Logger", "Alias", Path(<<"js">>, FALSE))}, {Import("default", "Alias", Plain)},
     {Import("*", "Alias", Plain)}, {Import("Logger", "Alias", Package)},
     {[Import("Logger", "Logger", Plain) EXCEPT !.dynamic = TRUE]},
     {Import("Logger", "Logger", Path(<<>>, TRUE)), Import("Logger", "Logger", Plain)}}

Go == Symbol(A, <<"go">>, "one")
Call(caller, line, target) == [caller |-> caller, line |-> line, target |-> target]
MCSites ==
    <<Call(Go, 1, <<"Logger", "log">>),
      Call(Run, 2, <<"Logger">>), Call(Run, 3, <<"Logger", "log">>), Call(Run, 4, <<"Logger", "log">>),
      Call(Run, 5, <<"Alias">>), Call(Run, 6, <<"Alias", "log">>),
      Call(Run, 7, <<"Alias", "Logger", "log">>), Call(Run, 8, <<"this", "log">>), Call(Run, 9, <<>>)>>
MCParameters == Id(Go) :> {"Logger"} @@ Id(Run) :> {}

Key(line, target) == [file |-> A, line |-> line, target |-> target]
MCDynamic == {Key(4, <<"Logger", "log">>)}
MCHints ==
    {<<>>, Key(8, <<"this", "log">>) :> [kind |-> "this", target |-> Id(Log(A, "one"))]}

MCSymbols ==
    {{Run, Go} \cup a \cup b \cup i \cup f : a \in InA, b \in InB, i \in InIndex, f \in InFar}
MCImports == {(A :> of) @@ [f \in Files |-> {}] : of \in Edges}
=============================================================================

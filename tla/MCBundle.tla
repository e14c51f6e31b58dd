------------------------------ MODULE MCBundle ------------------------------
(* Configurations for model-checking Bundle.                               *)
EXTENDS Bundle

Plain == [parent |-> 0, path |-> <<>>, dot |-> FALSE, id |-> <<>>, identity |-> "none",
          restricted |-> FALSE, profile |-> FALSE, binary |-> TRUE, info |-> TRUE,
          extra |-> FALSE, icon |-> FALSE, readOnly |-> FALSE]

App == [Plain EXCEPT !.id = <<"app">>]
In(parent, path, name) ==
    [Plain EXCEPT !.parent = parent, !.path = path, !.dot = TRUE, !.id = <<name>>]

Ext == <<"PlugIns", "Ext">>
Lib == <<"Frameworks", "Lib">>

\* A bundle alone, one with an extension, with a library in the extension, with
\* both side by side, and with the library listed, as it must be then, before
\* the extension that it lies in.
Layouts == {<<App>>,
            <<App, In(1, Ext, "ext")>>,
            <<App, In(1, Ext, "ext"), In(2, Lib, "lib")>>,
            <<App, In(1, Lib, "lib"), In(1, Ext, "ext")>>,
            <<App, In(1, Ext \o <<"Contents">> \o Lib, "lib"), In(1, Ext, "ext")>>}

\* What distinguishes a bundle from a plain one.
Rich(s) == [s EXCEPT !.profile = TRUE, !.restricted = TRUE, !.extra = TRUE, !.icon = TRUE]

\* Whose identity there is: nobody's, the top-level bundle's, with all that a
\* bundle can have in the last one, or the last one's.
Good == UNION {{l, [l EXCEPT ![1].identity = "devID", ![Len(l)] =
                        [Rich(@) EXCEPT !.identity = IF Len(l) = 1 THEN "devID" ELSE @]],
                [l EXCEPT ![Len(l)].identity = "development"]} : l \in Layouts}

\* One for each thing that Validate or a step rejects, and one that may not be
\* removed without its permissions being restored.
Odd == LET two == <<App, In(1, Ext, "ext")>>
       IN  {[two EXCEPT ![2].path = <<"..", "Ext">>], [two EXCEPT ![2].path = <<>>],
            [two EXCEPT ![2].dot = FALSE, ![2].id = <<"app">>], [two EXCEPT ![1].id = <<>>],
            [two EXCEPT ![1].dot = TRUE], [two EXCEPT ![2].binary = FALSE],
            [two EXCEPT ![1].identity = "devID", ![2].restricted = TRUE],
            [two EXCEPT ![2].info = FALSE], [two EXCEPT ![2].readOnly = TRUE]}

Configurations ==
    {[ext |-> TRUE, creds |-> TRUE, specs |-> s] : s \in Good \cup Odd}
    \cup {[ext |-> FALSE, creds |-> TRUE, specs |-> <<App>>],
          [ext |-> TRUE, creds |-> FALSE, specs |-> <<[App EXCEPT !.identity = "devID"]>>]}
=============================================================================

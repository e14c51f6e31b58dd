----------------------------- MODULE MCGoBundle -----------------------------
(* Command lines for model-checking GoBundle.                              *)
EXTENDS GoBundle

Line(verb, args) ==
    [verb |-> verb, args |-> args, config |-> "", bundle |-> "", notarize |-> FALSE, credentials |-> FALSE]

Builds == {Line("build", a) : a \in {<<"pkg">>, <<>>, <<"-race", "-tags", "t", ".">>, <<"-o", "/abs/", "pkg">>,
                                     <<"-v", "-o", "x", "pkg">>, <<"-cover", "pkg">>}}
Installs == {Line("install", a) : a \in {<<"pkg">>, <<"-tags", "t", "pkg">>, <<"-cover", "pkg">>}}
Runs == {Line("run", a) : a \in {<<"pkg">>, <<"pkg", "arg">>, <<>>, <<"-race", "pkg">>,
                                 <<"-exec", "pkg">>, <<"pkg", "-exec">>}}
Configured ==
    {[l EXCEPT !.config = "named", !.bundle = b, !.notarize = n, !.credentials = c] :
        l \in {Line("build", <<"pkg">>), Line("install", <<"pkg">>), Line("run", <<"pkg">>)},
        b \in {"sub", "/abs"}, n \in BOOLEAN, c \in BOOLEAN}

Lines == Builds \cup Installs \cup Runs \cup Configured \cup {Line("other", <<"pkg">>)}

\* With -o and a path that is relative, or that of a file elsewhere.
Relative == {Line("build", <<"-o", o, "pkg">>) : o \in {"sub/", "sub/x", "/abs/x"}}
AllLines == Lines \cup Relative
=============================================================================

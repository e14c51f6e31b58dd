---------------------------- MODULE MCToolchain -----------------------------
(* Configurations of the tools for model-checking Toolchain.               *)
EXTENDS Toolchain

Helper == [executable |-> TRUE, browsers |-> <<"chrome">>, installed |-> "absolute", name |-> "lower",
           origins |-> TRUE, extensions |-> TRUE]
Extension == [executable |-> TRUE, resources |-> "manifest", principal |-> TRUE, point |-> "", id |-> "prefixed"]
Packager == [tool |-> "packager", helper |-> Helper, ext |-> Extension, softlink |-> TRUE,
             dirs |-> <<"missing", "writable">>, register |-> "chrome"]

\* Two that work, and one for each reason to reject a helper or an extension.
Packagers ==
    {Packager, [Packager EXCEPT !.helper.browsers = <<"edge", "firefox">>, !.softlink = FALSE, !.register = "firefox"]}
    \cup {[Packager EXCEPT !.helper = h] :
            h \in {[Helper EXCEPT !.executable = FALSE], [Helper EXCEPT !.browsers = <<"firefox", "safari">>],
                   [Helper EXCEPT !.installed = "relative"], [Helper EXCEPT !.origins = FALSE]}}
    \cup {[Packager EXCEPT !.helper.name = "mixed", !.register = "firefox"],
          [Packager EXCEPT !.helper.extensions = FALSE, !.helper.browsers = <<"firefox">>, !.register = "safari"],
          [Packager EXCEPT !.ext.id = "other"], [Packager EXCEPT !.dirs = <<"missing", "readonly">>]}

Services == {[tool |-> "service", agent |-> [label |-> l, program |-> p]] :
                l \in {"plain", "path"}, p \in BOOLEAN}

Product == [buildDir |-> "plain", script |-> TRUE, identified |-> TRUE, gui |-> TRUE, location |-> TRUE]
Products == {[tool |-> "product", package |-> p] :
                p \in {Product, [Product EXCEPT !.script = FALSE, !.gui = FALSE],
                       [Product EXCEPT !.buildDir = "root"], [Product EXCEPT !.identified = FALSE],
                       [Product EXCEPT !.location = FALSE]}}

Configurations == Packagers \cup Services \cup Products
=============================================================================

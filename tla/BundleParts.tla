---------------------------- MODULE BundleParts -----------------------------
(***************************************************************************)
(* What a tool adds to an application bundle before it signs and installs   *)
(* it: the native messaging helper that browsers launch, with a manifest    *)
(* for each browser, and the Safari web extension.                          *)
(***************************************************************************)
EXTENDS ToolSteps, SequencesExt, Naturals

\* A manifest: the location of the helper it names, whether it lists chrome
\* origins and firefox extensions, and the form of its name.
NoManifest == [path |-> "none", origins |-> FALSE, extensions |-> FALSE, name |-> "none"]
TornManifest == [NoManifest EXCEPT !.path = "torn"]

Browsers == {"chrome", "edge", "firefox"}
Chromium == {"chrome", "edge"}

\* A helper, as it is configured.
Helpers ==
    [executable : BOOLEAN, browsers : Seq(Browsers \cup {"safari"}),
     installed : {"absolute", "relative"}, name : {"lower", "mixed"},
     origins : BOOLEAN, extensions : BOOLEAN]

\* The manifest for each browser in the bundle, and where the browser looks.
Shown == [chrome |-> "shown/chrome", edge |-> "shown/edge", firefox |-> "shown/firefox"]
Hosts == [chrome |-> "hosts/chrome", edge |-> "hosts/edge", firefox |-> "hosts/firefox"]

\* Mutant: the manifest is the same for all browsers.
ManifestForAll(h, browser) ==
    [path |-> h.installed, name |-> h.name, origins |-> h.origins, extensions |-> h.extensions]

\* NativeMessagingManifest: each browser is only given what is its own.
Manifest(h, browser) ==
    [path |-> h.installed, name |-> h.name,
     origins |-> h.origins /\ browser # "firefox",
     extensions |-> h.extensions /\ browser \notin Chromium]

\* ValidateChrome, ValidateFirefox: a name of lower case words is good for
\* both, one with upper case letters for firefox only.
ManifestIsValid(m, browser) ==
    /\ m.path = "absolute"
    /\ \/ browser \in Chromium /\ m.name = "lower" /\ m.origins
       \/ browser = "firefox" /\ m.name \in {"lower", "mixed"} /\ m.extensions

WriteManifest(h, browser, where) ==
    <<Step("validate", browser, Manifest(h, browser)), Step("mkdir", where[browser], 0),
      Step("write", where[browser], Manifest(h, browser))>>

AddNativeMessagingHelper(h, v) ==
    IF ~h.executable \/ h.browsers = <<>> \/ "safari" \in ToSet(h.browsers) THEN <<ErrorStep>>
    ELSE <<Step("mkdir", "Helpers", 0), Step("copy", "helper", v)>>
         \o FlattenSeq([i \in DOMAIN h.browsers |-> WriteManifest(h, h.browsers[i], Shown)])

InstallNativeMessagingManifest(h, browser) ==
    IF browser = "safari" THEN <<ErrorStep>> ELSE WriteManifest(h, browser, Hosts)

\* An extension, as it is configured.
Extensions ==
    [executable : BOOLEAN, resources : STRING, principal : BOOLEAN, point : STRING, id : STRING]

\* SafariWebExtension.validate, with the identifier of the containing app.
ExtensionIsValid(e) ==
    /\ e.executable /\ e.resources = "manifest" /\ e.principal
    /\ e.point \in {"", "web-extension"}
    /\ e.id = "prefixed"

AddSafariWebExtension(e, v) ==
    IF ExtensionIsValid(e)
    THEN <<Step("mkdir", "appexMacOS", 0), Step("mkdir", "appexResources", 0),
           Step("plist", "appexInfo", v), Step("copy", "appexExe", v),
           Step("copydir", "appexResources", v)>>
    ELSE <<ErrorStep>>

SignSafariWebExtension(e) == <<Step("sign", "appexExe", 0), Step("sign", "appex", 0)>>

\* The order that the comments of the package ask for: what is nested is
\* signed before what contains it.
BuildSteps(c, v) ==
    <<Step("mkdir", "MacOS", 0), Step("mkdir", "Resources", 0),
      Step("plist", "info", v), Step("copy", "exe", v)>>
    \o AddNativeMessagingHelper(c.helper, v) \o AddSafariWebExtension(c.ext, v)
    \o <<Step("sign", "helper", 0)>> \o SignSafariWebExtension(c.ext)
    \o <<Step("sign", "exe", 0), Step("sign", "bundle", 0)>>

\* InstallDir: the first directory that exists and can be written.
InstallDirs(dirs) == {i \in DOMAIN dirs : dirs[i] = "writable"}

\* AppBundle.Install; its commands are steps of their own here.
InstallBundle(dirs, softlink) ==
    IF InstallDirs(dirs) = {} THEN <<ErrorStep>>
    ELSE <<Step("rsync", "dest", 0)>> \o (IF softlink THEN <<Step("link", "dest", 0)>> ELSE <<>>)
-----------------------------------------------------------------------------
(* What the commands do (external).  A bundle has files, each known by the  *)
(* version it comes from, the manifests shown to browsers, and the seals,   *)
(* signatures that cover their contents.                                    *)

Items == <<"info", "exe", "helper", "appexInfo", "appexExe", "appexResources">>
Appex == {"appexInfo", "appexExe", "appexResources"}
Covers ==
    [s \in {"helper", "exe", "appexExe", "appex", "bundle"} |->
        CASE s = "appex" -> Appex [] s = "bundle" -> ToSet(Items) [] OTHER -> {s}]

NoBundle ==
    [files |-> [i \in ToSet(Items) |-> 0], dirs |-> {}, seals |-> {},
     shown |-> [b \in Browsers |-> NoManifest]]
NoBundles == [built |-> NoBundle, dest |-> NoBundle, link |-> FALSE,
              hosts |-> [b \in Browsers |-> NoManifest]]

\* A file is written: what covers it is no longer sealed.
Put(b, item, v) ==
    [b EXCEPT !.files[item] = v, !.seals = {s \in @ : item \notin Covers[s]}]

\* A seal is part of what it covers, and so of all that contains that.
Seal(b, s) ==
    [b EXCEPT !.seals = {t \in @ : ~(Covers[s] \subseteq Covers[t])} \cup {s}]

Shows(b, browser, m) == [b EXCEPT !.shown[browser] = m, !.seals = @ \ {"bundle"}]

ShownTo(st) == CHOOSE b \in Browsers : st.what \in {Shown[b], Hosts[b]}
InBundle(st) == \E b \in Browsers : st.what = Shown[b]

\* rsync works through its list in order: after n items of it.
Synced(w, n) ==
    [w EXCEPT !.dest =
        IF n > Len(Items) THEN w.built
        ELSE [w.dest EXCEPT
                !.files = [i \in DOMAIN @ |-> IF \E k \in 1..n : Items[k] = i
                                              THEN w.built.files[i] ELSE @[i]],
                !.seals = {s \in @ : \A i \in Covers[s] : \A k \in 1..n : Items[k] # i}]]

PartsDone(st, w) ==
    CASE st.do = "mkdir" -> [w EXCEPT !.built.dirs = @ \cup {st.what}]
      [] st.do \in {"plist", "copy", "copydir"} -> [w EXCEPT !.built = Put(@, st.what, st.arg)]
      [] st.do = "write" /\ InBundle(st)  -> [w EXCEPT !.built = Shows(@, ShownTo(st), st.arg)]
      [] st.do = "write" /\ ~InBundle(st) -> [w EXCEPT !.hosts[ShownTo(st)] = st.arg]
      [] st.do = "sign"  -> [w EXCEPT !.built = Seal(@, st.what)]
      [] st.do = "rsync" -> Synced(w, Len(Items) + 1)
      [] st.do = "link"  -> [w EXCEPT !.link = TRUE]
      [] OTHER -> w

PartsPartly(st, w) ==
    {w, PartsDone(st, w)} \cup
    CASE st.do = "write" -> {PartsDone([st EXCEPT !.arg = TornManifest], w)}
      [] st.do = "rsync" -> {Synced(w, n) : n \in 1..Len(Items)}
      [] OTHER -> {}

PartsAble(st, w) ==
    CASE st.do = "validate" -> ManifestIsValid(st.arg, st.what)
      [] st.do = "write"    -> st.what \in w.built.dirs
      [] st.do = "copy"     ->
            (CASE st.what = "exe" -> "MacOS" [] st.what = "helper" -> "Helpers"
               [] OTHER -> "appexMacOS") \in w.built.dirs
      [] st.do = "copydir"  -> "appexResources" \in w.built.dirs
      [] st.do = "sign"     -> \A i \in Covers[st.what] : w.built.files[i] # 0
      [] OTHER -> TRUE
=============================================================================

--------------------------- MODULE AfmpkgContents ---------------------------
(***************************************************************************)
(* What afmpkg.c does of the manifest of one package and of its files:     *)
(* manifest_normalize of manifest.c, the metadata, install_afmpkg up to    *)
(* the generation of the units, with permset.c and path-type.c, and the    *)
(* walk of setdown_security when the package is removed.                   *)
(*                                                                         *)
(* A walk on the items of the manifest goes on after an error and the      *)
(* first error is kept (put_state_rc); a walk on the entries stops when    *)
(* its callback says so, and silently at a path that does not fit in the   *)
(* buffer.  The tree and the way names resolve in it are constants, the    *)
(* manifest and the environment are chosen at start.                       *)
(***************************************************************************)
EXTENDS Integers, Sequences, FiniteSets, SequencesExt, FiniteSetsExt

CONSTANTS
    Entries,        \* the entries of the package
    Packdir,        \* its directory
    Parent,         \* the directory of each entry
    Mode,           \* st_mode of each entry: reg, dir or other
    DirType,        \* path_type_of_dirname of the name of each entry
    Names,          \* the names that the manifest can tell
    At,             \* the entry a name designates in the package, or None
    InHtdocs,       \* the one it designates in its directory htdocs, or None
    Orders,         \* the orders, children first, of the walks
    Manifests,      \* the manifests
    Environs,       \* the paths, markers and options that give the metadata
    MaxFaults,      \* bound: number of system calls that fail
    None            \* nothing

Types == {"Unset", "Default", "Conf", "Data", "Exec", "Http", "Icon", "Id", "Lib",
          "Plug", "Public", "Public_Exec", "Public_Lib"}
PublicTypes == {"Public", "Public_Exec", "Public_Lib"}

ASSUME EntriesAssumption ==
    /\ Packdir \in Entries /\ Parent \in [Entries \ {Packdir} -> Entries]
    /\ Mode \in [Entries -> {"reg", "dir", "other"}] /\ DirType \in [Entries -> Types]
    /\ {At, InHtdocs} \subseteq [Names -> Entries \cup {None}]
    /\ MaxFaults \in Nat

\* A manifest has lists of names and of permissions in one of the accepted forms, the directory of a
\* package is below the root, and a walk goes once through each entry, children first.
ASSUME InputAssumption ==
    /\ None \notin Entries \cup Names
    /\ \A m \in Manifests :
          /\ m.plugs \in Seq(Names) /\ m.bindings \in Seq(Names)
          /\ m.properties \in Seq([name : Names, type : Types])
          /\ m.targets \in Seq(ToSet(m.targets))
          /\ \A t \in ToSet(m.targets) : t.src \in Names \cup {None}
          /\ \A raw \in {m.perms} \cup {t.perms : t \in ToSet(m.targets)} :
                raw # None => raw.items \in Seq(ToSet(raw.items))
    /\ \A v \in Environs :
          /\ v.root \in Nat /\ v.pack \in Nat /\ v.root <= v.pack /\ v.markers \in SUBSET Nat
          /\ v.slashes \in Nat /\ v.long \in (Entries \ {Packdir}) \cup {None}
    /\ \A o \in Orders :
          /\ o \in Seq(Entries) /\ \A e \in Entries : \E i \in DOMAIN o : o[i] = e
          /\ \A i, j \in DOMAIN o : o[i] = o[j] => i = j
          /\ \A i, j \in DOMAIN o : o[i] # Packdir /\ o[j] = Parent[o[i]] => i < j

VARIABLES
    manifest,   \* state->manifest, as read
    environ,    \* the paths, markers and options
    order,      \* the order of the walks
    stage,      \* where the processing is
    rc,         \* state->rc: "ok" or the first error
    meta,       \* the root and the installation directories of #metadata
    wanted,     \* the canonical permissions of the manifest and its targets
    checked,    \* the number of permissions checked
    permset,    \* the permissions, in the order of their addition
    lost,       \* history: the permissions whose record could not be allocated
    types,      \* the types of the entries
    computed,   \* history: the types before the propagation of public
    made,       \* the entries made executable
    tagged,     \* the tags given to the security manager
    permitted,  \* the permissions given to the security manager
    plugged,    \* the plugs given to the security manager
    faults      \* number of failures

contentsVars == <<manifest, environ, order, stage, rc, meta, wanted, checked, permset, lost, types, computed,
                  made, tagged, permitted, plugged, faults>>

Content == Entries \ {Packdir}
Default == "urn:redpesk:token:valid"

\* The package, and whether it is installed or removed.
ContentsInput ==
    /\ manifest \in Manifests
    /\ environ \in Environs
    /\ order \in Orders
    /\ stage \in {"normalize", "setdown"}

ContentsStart ==
    /\ rc = "ok"
    /\ meta = None
    /\ wanted = <<>>
    /\ checked = 0
    /\ permset = <<>>
    /\ lost = {}
    /\ types = [e \in Entries |-> "Unset"]
    /\ computed = types
    /\ made = {}
    /\ tagged = <<>>
    /\ permitted = {}
    /\ plugged = {}
    /\ faults = 0

ContentsInit == ContentsInput /\ ContentsStart

\* put_state_rc
Put(old, new) == IF old = "ok" THEN new ELSE old
Fault == faults < MaxFaults /\ faults' = faults + 1
Goto(next) == stage' = IF rc' = "ok" THEN next ELSE "failed"
Same(names) == UNCHANGED <<manifest, environ, order, names>>

\* The directories above an entry in the package.
Above(e) ==
    LET up[k \in Entries] == IF k = Packdir THEN {} ELSE {Parent[k]} \cup up[Parent[k]]
    IN  up[e]

\* do_foreach: the entries whose path does not fit in the buffer, environ.long being the one the walks
\* meet first.  They stop there, and nobody looks at the error: the entries visited are, children first,
\* the Reached first ones, and parents first also the directories above.
TooLong(e) == environ.long # None /\ (e = environ.long \/ environ.long \in Above(e))
Reached == IF environ.long = None THEN Len(order) ELSE Min({i \in DOMAIN order : TooLong(order[i])}) - 1
Visited == {order[i] : i \in 1..Reached} \cup (IF environ.long = None THEN {} ELSE Above(environ.long))

----------------------------------------------------------------------------
(* manifest_normalize: the permissions take their canonical form. *)

\* A permission item: its kind, its key if it is in an object, its name, its value.
\* process_array_perm_cb and process_object_perm_cb
Canonical(form, item) ==
    CASE item.kind = "string" /\ form = "object" -> [name |-> item.key, value |-> item.name]
      [] item.kind = "string" /\ form # "object" -> [name |-> item.name, value |-> "required"]
      [] item.kind = "object" /\ item.value # None /\ item.name # None
           /\ (form = "object" => item.key = item.name)
         -> [name |-> item.name, value |-> item.value]
      [] OTHER -> None

\* json_object_object_add: a name that comes again has its value replaced in its place.
ObjectAdd(s, c) ==
    LET old == {i \in DOMAIN s : s[i].name = c.name}
    IN  IF old = {} THEN Append(s, c) ELSE [i \in DOMAIN s |-> IF i \in old THEN c ELSE s[i]]

AddPermission(form, s, item) ==
    LET c == Canonical(form, item)
    IN  IF s = None \/ c = None THEN None ELSE ObjectAdd(s, c)

\* adapt_permissions_of: until the first item that is not valid.
Adapt(raw) ==
    IF raw = None THEN <<>>
    ELSE IF raw.form = "other" THEN None
    ELSE FoldLeft(LAMBDA s, item : AddPermission(raw.form, s, item), <<>>, raw.items)

Holders == <<manifest.perms>> \o [i \in 1..Len(manifest.targets) |-> manifest.targets[i].perms]

\* manifest_check, fulfill and retargets refuse a manifest without identifier,
\* version or target name; then adapt_all_permissions stops at the first error.
Normalize ==
    /\ stage = "normalize"
    /\ LET adapted == [i \in 1..Len(Holders) |-> Adapt(Holders[i])]
       IN  IF ~manifest.valid \/ \E i \in DOMAIN adapted : adapted[i] = None
           THEN rc' = "EINVAL" /\ UNCHANGED wanted
           ELSE rc' = rc /\ wanted' = FlattenSeq(adapted)
    /\ Goto("meta")
    /\ Same(<<meta, checked, permset, lost, types, computed, made, tagged, permitted, plugged, faults>>)

----------------------------------------------------------------------------
(* add_meta_to_manifest *)

\* A path is its length, and a package at the root is in "/".  The automatic search goes from the
\* directory of the package up to the root.
PathLength == IF environ.pack = environ.root THEN environ.root + 1 ELSE environ.pack
GetRedpakid ==
    LET below == environ.markers \cap (environ.root .. environ.pack)
    IN  IF environ.id # None THEN environ.id
        ELSE IF environ.auto /\ below # {} THEN Max(below) ELSE None

\* The path loses as many bytes as the root as it was told, its trailing slashes included, although the
\* path does not have them; or as the identifier has.  base is the length of the directory that is told.
AddMeta ==
    /\ stage = "meta"
    /\ meta' = LET red == GetRedpakid
                   inside == red # None /\ environ.auto
                   told == IF inside THEN red ELSE environ.root + environ.slashes
               IN  [base |-> IF inside THEN red ELSE environ.root, install |-> PathLength - told]
    /\ rc' = rc
    /\ Goto("permissions")
    /\ Same(<<wanted, checked, permset, lost, types, computed, made, tagged, permitted, plugged, faults>>)

----------------------------------------------------------------------------
(* permset.c and check_permissions *)

\* add: the permission of that name is updated, or appended.
PermAdd(set, name, grant, request) ==
    LET old == {i \in DOMAIN set : set[i].name = name}
        i == CHOOSE j \in old : TRUE
        new == [name |-> name, granted |-> grant, requested |-> request]
    IN  IF old = {} THEN Append(set, new)
        ELSE [set EXCEPT ![i].granted = @ \/ grant, ![i].requested = @ \/ request]

IsNew(name) == \A i \in DOMAIN permset : permset[i].name # name

\* check_one_permission_cb: what is asked with a valid value is granted and requested.  The errors of
\* permset_grant and permset_request, that only a new permission has, are ignored: what is not granted
\* is only logged.  Memory may lack for both calls or for the first one only.
CheckOnePermission ==
    /\ stage = "permissions" /\ checked < Len(wanted)
    /\ checked' = checked + 1
    /\ LET p == wanted[checked + 1]
       IN  \/ /\ p.value \notin {"required", "optional"}
              /\ UNCHANGED <<permset, lost, faults>>
           \/ /\ p.value \in {"required", "optional"}
              /\ permset' = PermAdd(PermAdd(permset, p.name, TRUE, FALSE), p.name, FALSE, TRUE)
              /\ UNCHANGED <<lost, faults>>
           \/ /\ p.value \in {"required", "optional"} /\ IsNew(p.name) /\ Fault
              /\ permset' \in {permset, PermAdd(permset, p.name, FALSE, TRUE)}
              /\ lost' = lost \cup {p.name}
    /\ UNCHANGED <<stage, rc>>
    /\ Same(<<meta, wanted, types, computed, made, tagged, permitted, plugged>>)

\* check_permissions always succeeds.
PermissionsChecked ==
    /\ stage = "permissions" /\ checked = Len(wanted)
    /\ rc' = rc
    /\ Goto("contents")
    /\ Same(<<meta, wanted, checked, permset, lost, types, computed, made, tagged, permitted, plugged, faults>>)

----------------------------------------------------------------------------
(* check_contents *)

\* check_src_type_definition: the source may be in htdocs.
SourceError(name) ==
    LET e == IF At[name] # None THEN At[name] ELSE InHtdocs[name]
    IN  IF e = None THEN "ENOENT" ELSE IF TooLong(e) THEN "ENAMETOOLONG"
        ELSE IF Mode[e] = "other" THEN "EINVAL" ELSE "ok"

\* check_config_file
ConfigError(name) ==
    IF At[name] = None THEN "ENOENT" ELSE IF TooLong(At[name]) THEN "ENAMETOOLONG"
    ELSE IF Mode[At[name]] # "reg" THEN "EINVAL" ELSE "ok"

\* check_target_cb: the content then the configs.
CheckTarget(r, target) ==
    LET source == IF target.src = None THEN "EINVAL" ELSE SourceError(target.src)
        Config(q, name) == Put(q, ConfigError(name))
    IN  FoldLeft(Config, Put(r, source), target.configs)

CheckContents ==
    /\ stage = "contents"
    /\ \/ rc' = FoldLeft(CheckTarget, rc, manifest.targets) /\ UNCHANGED faults
       \/ manifest.targets # <<>> /\ rc' = "EACCES" /\ Fault
    /\ Goto("plugs")
    /\ Same(<<meta, wanted, checked, permset, lost, types, computed, made, tagged, permitted, plugged>>)

----------------------------------------------------------------------------
(* compute_files_properties *)

Typed(t, r) == [types |-> t, rc |-> r]
SetType(s, e, type) == [s EXCEPT !.types[e] = type]
Missing(s) == [s EXCEPT !.rc = Put(@, "ENOENT")]

\* compute_implicit_plug_property_cb and compute_provided_binding_property_cb
ImplicitType(type, s, name) ==
    IF At[name] = None THEN Missing(s) ELSE SetType(s, At[name], type)

\* reset_type_cb, then the plugs and the provided bindings.
ImplicitTypes ==
    /\ stage = "plugs"
    /\ LET reset == Typed([e \in Entries |-> IF e = Packdir THEN "Id" ELSE "Unset"], rc)
           plugs == FoldLeft(LAMBDA s, n : ImplicitType("Plug", s, n), reset, manifest.plugs)
           all == IF plugs.rc # "ok" THEN plugs
                  ELSE FoldLeft(LAMBDA s, n : ImplicitType("Public_Lib", s, n), plugs, manifest.bindings)
       IN  \/ types' = all.types /\ rc' = all.rc /\ UNCHANGED faults
           \/ types' = reset.types /\ rc' = "ENOMEM" /\ Fault
    /\ Goto("explicit")
    /\ Same(<<meta, wanted, checked, permset, lost, computed, made, tagged, permitted, plugged>>)

\* compute_explicit_file_properties_cb: an entry has one type.
ExplicitType(s, p) ==
    LET e == At[p.name]
    IN  IF e = None THEN Missing(s)
        ELSE IF p.type = "Unset" THEN [s EXCEPT !.rc = Put(@, "EINVAL")]
        ELSE IF s.types[e] = "Unset" THEN SetType(s, e, p.type)
        ELSE IF s.types[e] # p.type THEN [s EXCEPT !.rc = Put(@, "EEXIST")]
        ELSE s

ExplicitTypes ==
    /\ stage = "explicit"
    /\ LET s == FoldLeft(ExplicitType, Typed(types, rc), manifest.properties)
       IN  types' = s.types /\ rc' = s.rc
    /\ Goto("targets")
    /\ Same(<<meta, wanted, checked, permset, lost, computed, made, tagged, permitted, plugged, faults>>)

\* compute_target_file_properties_cb: no search in htdocs here.
TargetType(s, target) ==
    LET e == At[target.src]
    IN  IF target.src = None THEN s
        ELSE IF e = None THEN Missing(s)
        ELSE IF s.types[e] = "Unset" /\ target.exec THEN SetType(s, e, "Exec")
        ELSE s

TargetTypes ==
    /\ stage = "targets"
    /\ LET s == FoldLeft(TargetType, Typed(types, rc), manifest.targets)
       IN  types' = s.types /\ rc' = s.rc
    /\ Goto("default")
    /\ Same(<<meta, wanted, checked, permset, lost, computed, made, tagged, permitted, plugged, faults>>)

\* compute_default_files_properties_cb, parents first: the type of the name of a
\* directory, else the type of the parent.
DefaultOf ==
    LET of[e \in Entries] ==
          IF types[e] # "Unset" \/ e \notin Visited THEN types[e]
          ELSE IF Mode[e] = "dir" /\ DirType[e] # "Unset" THEN DirType[e]
          ELSE of[Parent[e]]
    IN  of

\* The walk stops at a file whose status fails or whose kind is not allowed.
DefaultTypes ==
    /\ stage = "default"
    /\ types' = DefaultOf
    /\ computed' = DefaultOf
    /\ \/ rc' = (IF \E e \in Content \cap Visited : Mode[e] = "other" THEN "EINVAL" ELSE rc) /\ UNCHANGED faults
       \/ Fault /\ rc' = "EACCES"
    /\ Goto("public")
    /\ Same(<<meta, wanted, checked, permset, lost, made, tagged, permitted, plugged>>)

PublicTypeMutant(t, e) ==
    IF e # Packdir /\ t[e] \in PublicTypes \cup {"Plug"}
    THEN [t EXCEPT ![Parent[e]] = IF t[e] = "Plug" THEN "Plug" ELSE "Public"]
    ELSE t

\* compute_public_files_properties_cb: the directories above what is public are
\* public, those above a plug are plugs unless they are public.
PublicType(t, e) ==
    IF e = Packdir THEN t
    ELSE IF t[e] \in PublicTypes THEN [t EXCEPT ![Parent[e]] = "Public"]
    ELSE IF t[e] = "Plug" /\ t[Parent[e]] # "Public" THEN [t EXCEPT ![Parent[e]] = "Plug"]
    ELSE t

PropagatePublic ==
    /\ stage = "public"
    /\ types' = FoldLeft(PublicType, types, order)
    /\ rc' = rc
    /\ Goto("executable")
    /\ Same(<<meta, wanted, checked, permset, lost, computed, made, tagged, permitted, plugged, faults>>)

----------------------------------------------------------------------------
(* setup_files_properties and setup_security *)

\* setup_file_properties_cb: all are tried, the first error is kept.
MakeExecutable ==
    /\ stage = "executable"
    /\ LET execs == {e \in Content \cap {order[i] : i \in 1..Reached} : types[e] \in {"Exec", "Public_Exec"}}
       IN  \/ made' = execs /\ rc' = rc /\ UNCHANGED faults
           \/ \E e \in execs : made' = execs \ {e} /\ rc' = "EPERM" /\ Fault
    /\ Goto("tag")
    /\ Same(<<meta, wanted, checked, permset, lost, types, computed, tagged, permitted, plugged>>)

\* setup_security_file_cb: all the entries visited are tagged, or tried.
TagFiles ==
    /\ stage = "tag"
    /\ tagged' = [i \in 1..Reached |->
                    [entry |-> order[i],
                     type |-> IF types[order[i]] = "Unset" THEN "Conf" ELSE types[order[i]]]]
    /\ \/ rc' = rc /\ UNCHANGED faults
       \/ rc' = "ENOMEM" /\ Fault
    /\ Goto("permit")
    /\ Same(<<meta, wanted, checked, permset, lost, types, computed, made, permitted, plugged>>)

\* permset_select_first and permset_select_next: the next one that is requested
\* and granted, and was not given.
Selected == {i \in DOMAIN permset :
                permset[i].requested /\ permset[i].granted /\ permset[i].name \notin permitted}

\* permit: one permission after the other, then the default one.  The first error stops.
Permit ==
    /\ stage = "permit"
    /\ LET perm == IF Selected = {} THEN Default ELSE permset[Min(Selected)].name
       IN  \/ permitted' = permitted \cup {perm} /\ rc' = rc /\ UNCHANGED faults
           \/ UNCHANGED permitted /\ rc' = "ENOMEM" /\ Fault
    /\ Goto(IF Selected = {} THEN "plug" ELSE "permit")
    /\ Same(<<meta, wanted, checked, permset, lost, types, computed, made, tagged, plugged>>)

\* set_plug_cb for each plug: all are tried.
SetPlugs ==
    /\ stage = "plug"
    /\ plugged' = ToSet(manifest.plugs)
    /\ \/ rc' = rc /\ UNCHANGED faults
       \/ manifest.plugs # <<>> /\ rc' = "ENOMEM" /\ Fault
    /\ Goto("done")
    /\ Same(<<meta, wanted, checked, permset, lost, types, computed, made, tagged, permitted>>)

\* The walk of setdown_security is that of the children first.
SetdownOrder == order

\* setdown_security_file_cb: a failure, or a path too long, stops the walk, the plugs come next, and
\* the result is 0.
Setdown ==
    /\ stage = "setdown"
    /\ LET n == Len(tagged) + 1
       IN  \/ /\ n <= Reached
              /\ tagged' = Append(tagged, [entry |-> SetdownOrder[n], type |-> "Id"])
              /\ UNCHANGED <<stage, plugged, faults>>
           \/ /\ n > Reached
              /\ stage' = "down" /\ plugged' = ToSet(manifest.plugs)
              /\ UNCHANGED <<tagged, faults>>
           \/ /\ n <= Reached /\ Fault
              /\ stage' = "down" /\ plugged' = ToSet(manifest.plugs)
              /\ UNCHANGED tagged
    /\ rc' = rc
    /\ Same(<<meta, wanted, checked, permset, lost, types, computed, made, permitted>>)

ContentsNext ==
    \/ Normalize \/ AddMeta \/ CheckOnePermission \/ PermissionsChecked \/ CheckContents
    \/ ImplicitTypes \/ ExplicitTypes \/ TargetTypes \/ DefaultTypes \/ PropagatePublic
    \/ MakeExecutable \/ TagFiles \/ Permit \/ SetPlugs \/ Setdown

ContentsSpec == ContentsInit /\ [][ContentsNext]_contentsVars

----------------------------------------------------------------------------
(* Properties. *)

Propagated == stage \in {"executable", "tag", "permit", "plug", "done"}

\* What is public can be reached: all the directories above it in the package are
\* public, and those above a plug are public or plugs (the three passes of
\* compute_files_properties, whatever the order of the entries).
PublicReachable ==
    Propagated =>
        \A e \in Content : \A a \in Above(e) :
            /\ types[e] \in PublicTypes => types[a] = "Public"
            /\ types[e] = "Plug" => types[a] \in {"Plug", "Public"}

\* A type that the manifest gives explicitly is the one that is applied, unless
\* something below the entry is public or a plug, and nothing else is opened.
ExplicitHonoured ==
    Propagated =>
        /\ \A i \in DOMAIN manifest.properties :
              LET e == At[manifest.properties[i].name]
              IN  computed[e] = manifest.properties[i].type
        /\ \A e \in Entries :
              types[e] # computed[e] =>
                 /\ types[e] \in {"Plug", "Public"}
                 /\ \E d \in Content : e \in Above(d) /\ computed[d] \in PublicTypes \cup {"Plug"}

\* The names of the permissions a holder asks with a valid value: the last value told counts.
ValidNames(raw) ==
    LET items == IF raw = None THEN <<>> ELSE raw.items
        c(i) == Canonical(raw.form, items[i])
    IN  {c(i).name : i \in {j \in DOMAIN items :
            /\ c(j).value \in {"required", "optional"}
            /\ \A k \in j + 1 .. Len(items) : c(k).name # c(j).name}}

Asked == UNION {ValidNames(Holders[i]) : i \in DOMAIN Holders}

\* The security manager is given the default permission, nothing that the manifest and its targets do
\* not ask in one of the accepted forms, and all that they ask but what could not be recorded for lack
\* of memory, which check_one_permission_cb ignores (adapt_permissions_of, the selection of permset).
PermitsAsked ==
    stage \in {"plug", "done"} =>
        /\ Default \in permitted /\ permitted \subseteq {Default} \cup Asked
        /\ Asked \subseteq permitted \cup lost

\* The installation directory is the path of the package behind the root, or behind the directory with
\* a marker, with or without its leading slash (get_redpakid, add_meta_to_manifest).  Two cases are
\* excepted: a root told with several trailing slashes, and an explicit identifier together with the
\* automatic search, whose length is then taken for the one of a path.
InstallDirUnderRoot ==
    meta # None /\ ~(environ.id # None /\ environ.auto) /\ environ.slashes <= 1 =>
        /\ meta.base + meta.install \in {PathLength - 1, PathLength}
        /\ meta.base \in environ.root .. environ.pack

\* All the files are tagged, each with the type computed for it, and what is executable was made so,
\* unless the path of one does not fit in the buffer of the walks, whose results are ignored
\* (compute_files_properties, setup_files_properties and setup_security, three walks of the tree).
TagsApplied ==
    stage \in {"permit", "plug", "done"} /\ environ.long = None =>
        /\ ToSet(tagged) = {[entry |-> e, type |-> types[e]] : e \in Entries}
        /\ \A e \in Content : types[e] \in {"Exec", "Public_Exec"} => e \in made
        /\ \A e \in Entries : types[e] # "Unset"

\* When a removal stops in the middle of the tags, no directory was made inaccessible
\* before what it contains (setdown_security ignores the error).
SetdownBottomUp ==
    stage \in {"setdown", "down"} =>
        LET done == {tagged[i].entry : i \in DOMAIN tagged}
        IN  \A e \in Content : Parent[e] \in done => e \in done

\* What is set up for a package is what its manifest asks, in whatever order its files are visited: the
\* types and tags of its files, its permissions, its installation directory, and the tags left when it
\* is removed (install_afmpkg, setdown_security).  The failures that the code ignores are set apart, see
\* PermitsAsked, InstallDirUnderRoot and TagsApplied; any other makes the installation fail.
ManifestHonoured ==
    /\ PublicReachable /\ ExplicitHonoured /\ PermitsAsked /\ InstallDirUnderRoot
    /\ TagsApplied /\ SetdownBottomUp
=============================================================================

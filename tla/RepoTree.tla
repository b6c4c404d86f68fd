------------------------------ MODULE RepoTree ------------------------------
(***************************************************************************)
(* What one build puts into the repository tree of its product: the distro *)
(* map, StageBuild (download, nfpm, createrepo, alias links, .repo files), *)
(* StageSign and StageVerify.  RepoPublish and BuildService look at the    *)
(* same directories from outside.                                          *)
(*                                                                         *)
(* A path is a sequence of names.  An RPM, the repodata that describes it  *)
(* and the signature of the repodata are only told apart by whether they   *)
(* belong to the RPM as built or as signed.                                *)
(***************************************************************************)
EXTENDS Naturals, Sequences, FiniteSets, SequencesExt

CONSTANTS
    Target,      \* distro:version pairs a product may list
    MaxTargets,  \* bound on the pairs it lists
    Arch         \* architectures it is built for

ASSUME Parameters == MaxTargets \in Nat

(* defaultDistroMap, by product line. *)
Family == [
    el8    |-> {<<"rhel", "8">>, <<"centos", "8">>, <<"alma", "8">>, <<"rocky", "8">>,
                <<"oracle", "8">>, <<"anolis", "8">>, <<"kylin", "v10">>},
    el9    |-> {<<"rhel", "9">>, <<"centos", "9">>, <<"alma", "9">>, <<"rocky", "9">>,
                <<"oracle", "9">>, <<"anolis", "23">>, <<"alinux", "3">>, <<"kylin", "v11">>},
    el10   |-> {<<"rhel", "10">>, <<"centos", "10">>, <<"alma", "10">>, <<"rocky", "10">>,
                <<"oracle", "10">>, <<"alinux", "4">>},
    al2023 |-> {<<"amzn", "2023">>},
    fedora |-> {<<"fedora", "42">>, <<"fedora", "43">>},
    oe22   |-> {<<"openeuler", "22">>},
    oe24   |-> {<<"openeuler", "24">>}]

Known == UNION {Family[l] : l \in DOMAIN Family}

(* No architecture has the name of a version. *)
ASSUME ArchIsNoVersion == \A dv \in Known : dv[2] \notin Arch

(* Resolve: the product line of a known pair. *)
LineOf(dv) == CHOOSE l \in DOMAIN Family : dv \in Family[l]

(* ProductLine.Path *)
Path(l) == CASE l = "oe22" -> <<"openeuler", "22">>
             [] l = "oe24" -> <<"openeuler", "24">>
             [] OTHER -> <<l>>

(* SymlinksForDistros: every pair whose own path is not that of its line. *)
Aliases_Sibling(T) ==   \* Mutant: the ".." is forgotten
    {[at |-> dv, to |-> Path(LineOf(dv))] : dv \in {t \in T : Path(LineOf(t)) # t}}

Aliases(T) ==
    {[at |-> dv, to |-> <<"..">> \o Path(LineOf(dv))] : dv \in {t \in T : Path(LineOf(t)) # t}}

VARIABLES
    targets,   \* product.TargetDistros, a list whose order and repetitions do not matter
    key,       \* whether the product has a GPG key
    phase,     \* where the pipeline is
    todo,      \* what the loop it is in has left
    tree,      \* the directories with packages
    links,     \* the alias links
    repos,     \* the pairs with a .repo file
    exported,  \* gpg.key is there
    live       \* production has this tree

vars == <<targets, key, phase, todo, tree, links, repos, exported, live>>

Dir(dv, a) == Path(LineOf(dv)) \o <<a>>

Dirs == {Dir(dv, a) : dv \in targets \cap Known, a \in Arch}

(* filepath.Glob(<root>/*/*/Packages/...) and /*/*/repodata/... *)
Glob_OneLevel == {d \in DOMAIN tree : Len(d) = 1}   \* Mutant: a "*" is missing

Glob == {d \in DOMAIN tree : Len(d) = 2}

Init ==
    /\ targets \in {ToSet(s) : s \in BoundedSeq(Target, MaxTargets)}
    /\ key \in BOOLEAN
    /\ phase = "resolve" /\ todo = {}
    /\ tree = [d \in {} |-> ""] /\ links = {} /\ repos = {}
    /\ exported = FALSE /\ live = FALSE

-----------------------------------------------------------------------------

Goto(from, to, work) == phase = from /\ todo = {} /\ phase' = to /\ todo' = work

(* A loop of a stage deals with one element. *)
Does(where, what) == phase = where /\ what \in todo /\ todo' = todo \ {what} /\ UNCHANGED phase

Tree(new) == tree' = new /\ UNCHANGED <<targets, key, links, repos, exported, live>>

(* StageBuild resolves every pair, downloads a binary for each architecture
   and then packages and indexes line by line.                              *)
Resolve ==
    /\ targets \subseteq Known
    /\ Goto("resolve", "download", Arch)
    /\ Tree(tree)

Download(a) == Does("download", a) /\ Tree(tree)

StartBuild == Goto("download", "build", {"package", "index"} \X Dirs) /\ Tree(tree)

Package_WrongDir(d) ==   \* Mutant: --target is the directory of the line
    /\ Does("build", <<"package", d>>)
    /\ Tree([e \in DOMAIN tree \cup {Front(d)} |->
               IF e = Front(d) THEN [rpm |-> "built", index |-> "none", seal |-> "none"]
               ELSE tree[e]])

Package(d) ==
    /\ Does("build", <<"package", d>>)
    /\ Tree([e \in DOMAIN tree \cup {d} |->
               IF e = d THEN [rpm |-> "built", index |-> "none", seal |-> "none"] ELSE tree[e]])

(* createrepo_c, once the line is packaged for every architecture. *)
Index(d) ==
    /\ Does("build", <<"index", d>>)
    /\ \A a \in Arch : <<"package", Front(d) \o <<a>> >> \notin todo
    /\ Tree([tree EXCEPT ![d].index = tree[d].rpm])

(* CreateSymlinks fails where a directory is in the way. *)
InTheWay(p) == \E d \in DOMAIN tree : \E n \in 1..Len(d) : SubSeq(d, 1, n) = p

Link ==
    /\ Goto("build", "templates", {})
    /\ \A l \in Aliases(targets) : ~InTheWay(l.at)
    /\ links' = Aliases(targets)
    /\ UNCHANGED <<targets, key, tree, repos, exported, live>>

(* GenerateRepoTemplates, for a repository whether or not it is signed. *)
Templates ==
    /\ Goto("templates", "sign", IF key THEN Glob ELSE {})
    /\ repos' = targets
    /\ UNCHANGED <<targets, key, tree, links, exported, live>>

(* StageSign: every RPM found is signed, the repodata of what was found is
   made again, then signed, and the public key exported.                    *)
SignRpm(d) == Does("sign", d) /\ Tree([tree EXCEPT ![d].rpm = "signed"])

StartReindex_Skipped == Goto("sign", "reindex", {}) /\ Tree(tree)   \* Mutant

StartReindex == Goto("sign", "reindex", IF key THEN Glob ELSE {}) /\ Tree(tree)

Reindex(d) == Does("reindex", d) /\ Tree([tree EXCEPT ![d].index = tree[d].rpm])

StartSeal == Goto("reindex", "seal", IF key THEN Glob ELSE {}) /\ Tree(tree)

Seal(d) == Does("seal", d) /\ Tree([tree EXCEPT ![d].seal = tree[d].index])

Export ==
    /\ Goto("seal", "publish", {})
    /\ exported' = key
    /\ UNCHANGED <<targets, key, tree, links, repos, live>>

(* StagePublish, as far as this build's own output is concerned. *)
Publish ==
    /\ Goto("publish", "verify", {})
    /\ live' = TRUE
    /\ UNCHANGED <<targets, key, tree, links, repos, exported>>

(* StageVerify changes nothing: it runs rpmlint and rpm on what Glob finds
   and looks for broken links among the entries of the product directory.   *)
Verify == Goto("verify", "done", {}) /\ Tree(tree)

(* Any command, download or file operation may fail or be cancelled, and a
   pair may be unknown: the stage fails, and staging is removed.            *)
Fail ==
    /\ phase \notin {"done", "failed"}
    /\ phase' = "failed" /\ todo' = {}
    /\ UNCHANGED <<targets, key, tree, links, repos, exported, live>>

Next ==
    \/ Resolve \/ StartBuild \/ Link \/ Templates \/ StartReindex \/ StartSeal
    \/ Export \/ Publish \/ Verify \/ Fail
    \/ \E a \in Arch : Download(a)
    \/ \E d \in Dirs : Package(d) \/ Index(d) \/ SignRpm(d) \/ Reindex(d) \/ Seal(d)

Spec == Init /\ [][Next]_vars

-----------------------------------------------------------------------------
(* Properties *)

Parts == {"none", "built", "signed"}

(* Every variable has values of its kind. *)
TypeOK ==
    /\ targets \subseteq Target /\ key \in BOOLEAN
    /\ phase \in {"resolve", "download", "build", "templates", "sign", "reindex", "seal",
                  "publish", "verify", "done", "failed"}
    /\ CASE phase = "download" -> todo \subseteq Arch
         [] phase = "build" -> todo \subseteq {"package", "index"} \X Dirs
         [] OTHER -> todo \subseteq Dirs
    /\ DOMAIN tree \subseteq Dirs
    /\ \A d \in DOMAIN tree : tree[d] \in [rpm : Parts, index : Parts, seal : Parts]
    /\ links \subseteq Aliases(targets \cap Known) /\ repos \subseteq targets
    /\ exported \in BOOLEAN /\ live \in BOOLEAN

(* "Regenerate repodata after signing": production has the packages of every
   pair and architecture that was asked for, repodata that describes the
   packages as they are, and signatures of that very repodata.              *)
PublishedConsistent ==
    live => /\ DOMAIN tree = Dirs
            /\ \A d \in Dirs : /\ tree[d].index = tree[d].rpm
                               /\ tree[d].seal \in {"none", tree[d].index}

(* Where a link leads when it is followed from the directory it is in. *)
Leads(l) ==
    LET at[i \in 0..Len(l.to)] ==
            IF i = 0 THEN Front(l.at)
            ELSE IF l.to[i] = ".." THEN Front(at[i - 1]) ELSE Append(at[i - 1], l.to[i])
    IN  at[Len(l.to)]

(* "SymlinksForDistros returns a map of symlink path -> target path": under
   the name of every pair production has the directory of its line, and no
   combination of pairs wants a link where a directory is.                  *)
AliasesLead ==
    /\ live => \A dv \in targets :
          \/ dv = Path(LineOf(dv))
          \/ \E l \in links : l.at = dv /\ Leads(l) = Path(LineOf(dv))
    /\ phase = "build" /\ todo = {} => \A l \in Aliases(targets) : ~InTheWay(l.at)

(* "Download a .repo file and place it in /etc/yum.repos.d/ to enable this
   repository": the file asks for signed packages, signed repodata and a
   public key, which a product with a key has for every pair whose line is a
   directory right below the product.                                       *)
TemplatesEnable ==
    live /\ key => \A dv \in repos, a \in Arch : Len(Path(LineOf(dv))) = 1 =>
        /\ exported
        /\ tree[Dir(dv, a)].rpm = "signed" /\ tree[Dir(dv, a)].seal = "signed"
=============================================================================

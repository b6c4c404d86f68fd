--------------------------- MODULE RepoTreeProofs ---------------------------
(***************************************************************************)
(* Proofs about RepoTree, for any architectures and any number of listed   *)
(* pairs, in any order of the steps of its loops.                          *)
(***************************************************************************)
EXTENDS RepoTree, SequenceTheorems, TLAPS

-----------------------------------------------------------------------------
(* Short paths *)

(* A name below a path of one, ... *)
LEMMA BelowOne ==
    ASSUME NEW S, NEW x \in S, NEW y \in S
    PROVE  <<x>> \o <<y>> = <<x, y>>
<1>1. /\ <<x>> \in Seq(S) /\ <<y>> \in Seq(S) /\ <<x, y>> \in Seq(S)
      /\ Len(<<x>>) = 1 /\ Len(<<y>>) = 1 /\ Len(<<x, y>>) = 2
    OBVIOUS
<1>2. \A i \in 1..2 : (<<x>> \o <<y>>)[i] = <<x, y>>[i]
    BY <1>1
<1>3. <<x>> \o <<y>> \in Seq(S) /\ Len(<<x>> \o <<y>>) = 2
    BY <1>1
<1> QED
    BY <1>1, <1>2, <1>3, SeqEqual

(* ... below a path of two, ... *)
LEMMA BelowTwo ==
    ASSUME NEW S, NEW x \in S, NEW y \in S, NEW z \in S
    PROVE  <<x, y>> \o <<z>> = <<x, y, z>>
<1>1. /\ <<x, y>> \in Seq(S) /\ <<z>> \in Seq(S) /\ <<x, y, z>> \in Seq(S)
      /\ Len(<<x, y>>) = 2 /\ Len(<<z>>) = 1 /\ Len(<<x, y, z>>) = 3
    OBVIOUS
<1>2. \A i \in 1..3 : (<<x, y>> \o <<z>>)[i] = <<x, y, z>>[i]
    BY <1>1
<1>3. <<x, y>> \o <<z>> \in Seq(S) /\ Len(<<x, y>> \o <<z>>) = 3
    BY <1>1
<1> QED
    BY <1>1, <1>2, <1>3, SeqEqual

(* ... and a path of two below a path of one. *)
LEMMA BelowParent ==
    ASSUME NEW S, NEW x \in S, NEW y \in S, NEW z \in S
    PROVE  <<x>> \o <<y, z>> = <<x, y, z>>
<1>1. /\ <<x>> \in Seq(S) /\ <<y, z>> \in Seq(S) /\ <<x, y, z>> \in Seq(S)
      /\ Len(<<x>>) = 1 /\ Len(<<y, z>>) = 2 /\ Len(<<x, y, z>>) = 3
    OBVIOUS
<1>2. \A i \in 1..3 : (<<x>> \o <<y, z>>)[i] = <<x, y, z>>[i]
    BY <1>1
<1>3. <<x>> \o <<y, z>> \in Seq(S) /\ Len(<<x>> \o <<y, z>>) = 3
    BY <1>1
<1> QED
    BY <1>1, <1>2, <1>3, SeqEqual

(* The first names of a path. *)
LEMMA FirstOne ==
    ASSUME NEW S, NEW s \in Seq(S), Len(s) >= 1
    PROVE  SubSeq(s, 1, 1) = <<s[1]>>
<1>1. s[1] \in S /\ <<s[1]>> \in Seq(S) /\ Len(<<s[1]>>) = 1
    OBVIOUS
<1>2. SubSeq(s, 1, 1) \in Seq(S) /\ Len(SubSeq(s, 1, 1)) = 1
    OBVIOUS
<1>3. \A i \in 1..1 : SubSeq(s, 1, 1)[i] = <<s[1]>>[i]
    BY <1>1
<1>4. \A i \in 1..Len(SubSeq(s, 1, 1)) : SubSeq(s, 1, 1)[i] = <<s[1]>>[i]
    BY <1>2, <1>3
<1> QED
    BY <1>1, <1>2, <1>4, SeqEqual

(* Two of them. *)
LEMMA FirstTwo ==
    ASSUME NEW S, NEW s \in Seq(S), Len(s) >= 2
    PROVE  SubSeq(s, 1, 2) = <<s[1], s[2]>>
<1>1. s[1] \in S /\ s[2] \in S /\ <<s[1], s[2]>> \in Seq(S) /\ Len(<<s[1], s[2]>>) = 2
    OBVIOUS
<1>2. SubSeq(s, 1, 2) \in Seq(S) /\ Len(SubSeq(s, 1, 2)) = 2
    OBVIOUS
<1>3. \A i \in 1..2 : SubSeq(s, 1, 2)[i] = <<s[1], s[2]>>[i]
    BY <1>1
<1>4. \A i \in 1..Len(SubSeq(s, 1, 2)) : SubSeq(s, 1, 2)[i] = <<s[1], s[2]>>[i]
    BY <1>2, <1>3
<1> QED
    BY <1>1, <1>2, <1>4, SeqEqual

-----------------------------------------------------------------------------
(* The distro map *)

Deep == {"22", "24"}

(* The line of a known pair is one of the map. *)
LEMMA LineIs ==
    ASSUME NEW dv \in Known
    PROVE  LineOf(dv) \in DOMAIN Family /\ dv \in Family[LineOf(dv)]
<1>1. \E l \in DOMAIN Family : dv \in Family[l]
    BY DEF Known
<1> QED
    BY <1>1 DEF LineOf

(* The lines of the map. *)
LEMMA LinesAre ==
    DOMAIN Family = {"el8", "el9", "el10", "al2023", "fedora", "oe22", "oe24"}
BY DEF Family

(* The path of a line is its name or one of openEuler's. *)
LEMMA PathIs ==
    ASSUME NEW l \in DOMAIN Family
    PROVE  Path(l) = <<l>> \/ \E v \in Deep : Path(l) = <<"openeuler", v>>
BY LinesAre DEF Path, Deep

(* The directory of a pair and an architecture is right below it. *)
LEMMA DirIs ==
    ASSUME NEW dv \in Known, NEW a \in Arch
    PROVE  \/ /\ Path(LineOf(dv)) = <<LineOf(dv)>> /\ Dir(dv, a) = <<LineOf(dv), a>>
           \/ \E v \in Deep : /\ Path(LineOf(dv)) = <<"openeuler", v>>
                              /\ Dir(dv, a) = <<"openeuler", v, a>>
<1>1. LineOf(dv) \in DOMAIN Family
    BY LineIs
<1>2. CASE Path(LineOf(dv)) = <<LineOf(dv)>>
    <2> DEFINE S == {LineOf(dv), a}
    <2>1. <<LineOf(dv)>> \o <<a>> = <<LineOf(dv), a>>
        <3>1. LineOf(dv) \in S /\ a \in S
            OBVIOUS
        <3> QED
            BY <3>1, BelowOne
    <2> QED
        BY <1>2, <2>1 DEF Dir
<1>3. ASSUME NEW v \in Deep, Path(LineOf(dv)) = <<"openeuler", v>>
      PROVE  Dir(dv, a) = <<"openeuler", v, a>>
    <2> DEFINE S == {"openeuler", v, a}
    <2>1. <<"openeuler", v>> \o <<a>> = <<"openeuler", v, a>>
        <3>1. "openeuler" \in S /\ v \in S /\ a \in S
            OBVIOUS
        <3> QED
            BY <3>1, BelowTwo
    <2> QED
        BY <1>3, <2>1 DEF Dir
<1> QED
    BY <1>1, <1>2, <1>3, PathIs

(* It is told by its line. *)
LEMMA FrontIs ==
    ASSUME NEW dv \in Known, NEW a \in Arch
    PROVE  Front(Dir(dv, a)) \o <<a>> = Dir(dv, a)
<1>1. CASE Path(LineOf(dv)) = <<LineOf(dv)>> /\ Dir(dv, a) = <<LineOf(dv), a>>
    <2>1. PICK d, S : d = Dir(dv, a) /\ S = {LineOf(dv), a}
        OBVIOUS
    <2>2. d \in Seq(S) /\ Len(d) = 2 /\ d[1] = LineOf(dv)
        BY <1>1, <2>1
    <2>3. Front(d) = <<LineOf(dv)>>
        BY <2>2, FirstOne DEF Front
    <2> QED
        BY <1>1, <2>1, <2>3 DEF Dir
<1>2. ASSUME NEW v \in Deep, Path(LineOf(dv)) = <<"openeuler", v>>,
             Dir(dv, a) = <<"openeuler", v, a>>
      PROVE  Front(Dir(dv, a)) \o <<a>> = Dir(dv, a)
    <2>1. PICK d, S : d = Dir(dv, a) /\ S = {"openeuler", v, a}
        OBVIOUS
    <2>2. d \in Seq(S) /\ Len(d) = 3 /\ d[1] = "openeuler" /\ d[2] = v
        BY <1>2, <2>1
    <2>3. Front(d) = <<"openeuler", v>>
        BY <2>2, FirstTwo DEF Front
    <2> QED
        BY <1>2, <2>1, <2>3 DEF Dir
<1> QED
    BY <1>1, <1>2, DirIs

-----------------------------------------------------------------------------
(* What the tree has in every phase *)

Contents == [rpm : Parts, index : Parts, seal : Parts]

(* The directories that StageSign finds. *)
Signs(d) == key /\ Len(d) = 2

Shows(d, rpm, index, seal) ==
    tree[d].rpm = rpm /\ tree[d].index = index /\ tree[d].seal = seal

SignedIf(signed) == IF signed THEN "signed" ELSE "built"

(* The tree with the links is as complete as it gets ... *)
Filled == targets \subseteq Known /\ DOMAIN tree = Dirs /\ links = Aliases(targets)

(* ... and signed as far as it will be. *)
Final ==
    /\ Filled /\ exported = key
    /\ \A d \in Dirs : Shows(d, SignedIf(Signs(d)), SignedIf(Signs(d)),
                             IF Signs(d) THEN "signed" ELSE "none")

Kinds ==
    /\ targets \subseteq Target /\ key \in BOOLEAN
    /\ phase \in {"resolve", "download", "build", "templates", "sign", "reindex", "seal",
                  "publish", "verify", "done", "failed"}
    /\ DOMAIN tree \subseteq Dirs /\ \A d \in DOMAIN tree : tree[d] \in Contents
    /\ links \subseteq Aliases(targets \cap Known) /\ repos \subseteq targets
    /\ exported \in BOOLEAN /\ live \in BOOLEAN
    /\ live => phase \in {"verify", "done", "failed"}

(* Lines are packaged, then indexed. *)
Building ==
    /\ targets \subseteq Known /\ todo \subseteq {"package", "index"} \X Dirs
    /\ \A d \in Dirs :
          /\ <<"package", d>> \notin todo =>
                d \in DOMAIN tree /\ tree[d].rpm = "built" /\ tree[d].seal = "none"
          /\ <<"index", d>> \notin todo =>
                <<"package", d>> \notin todo /\ tree[d].index = "built"

Work ==
    /\ phase = "resolve" => todo = {}
    /\ phase = "download" => targets \subseteq Known /\ todo \subseteq Arch
    /\ phase = "build" => Building
    /\ phase = "templates" =>
          todo = {} /\ Filled /\ \A d \in Dirs : Shows(d, "built", "built", "none")
    /\ phase \in {"sign", "reindex", "seal"} =>
          Filled /\ todo \subseteq Dirs /\ \A d \in todo : Signs(d)
    /\ phase = "sign" =>
          \A d \in Dirs : Shows(d, SignedIf(Signs(d) /\ d \notin todo), "built", "none")
    /\ phase = "reindex" =>
          \A d \in Dirs : Shows(d, SignedIf(Signs(d)), SignedIf(Signs(d) /\ d \notin todo), "none")
    /\ phase = "seal" =>
          \A d \in Dirs : Shows(d, SignedIf(Signs(d)), SignedIf(Signs(d)),
                                IF Signs(d) /\ d \notin todo THEN "signed" ELSE "none")
    /\ phase \in {"publish", "verify", "done"} => todo = {} /\ Final
    /\ phase = "failed" => todo = {}
    /\ live => Final

TreeInv == Kinds /\ Work

(* Before anything is done. *)
LEMMA TreeStart ==
    ASSUME Init
    PROVE  TreeInv
<1>1. targets \subseteq Target
    <2>1. PICK s \in BoundedSeq(Target, MaxTargets) : targets = ToSet(s)
        BY DEF Init
    <2>2. \A i \in DOMAIN s : s[i] \in Target
        BY <2>1 DEF BoundedSeq, SeqOf
    <2> QED
        BY <2>1, <2>2 DEF ToSet
<1>2. /\ key \in BOOLEAN /\ phase = "resolve" /\ todo = {} /\ DOMAIN tree = {} /\ links = {}
      /\ repos = {} /\ exported = FALSE /\ live = FALSE
    BY DEF Init
<1> QED
    BY <1>1, <1>2 DEF TreeInv, Kinds, Work

(* The first two stages leave the tree empty. *)
LEMMA TreeResolve ==
    ASSUME TreeInv, Resolve \/ StartBuild \/ \E a \in Arch : Download(a)
    PROVE  TreeInv'
<1>1. /\ UNCHANGED <<targets, key, tree, links, repos, exported, live>>
      /\ phase \in {"resolve", "download"} /\ phase' \in {"download", "build"}
    BY DEF Resolve, StartBuild, Download, Goto, Does, Tree
<1>2. Dirs' = Dirs
    BY <1>1 DEF Dirs
<1>3. Kinds' /\ ~live'
    BY <1>1, <1>2 DEF TreeInv, Kinds
<1>4. phase' = "download" => targets' \subseteq Known /\ todo' \subseteq Arch
    BY <1>1 DEF Resolve, StartBuild, Download, Goto, Does, TreeInv, Work
<1>5. phase' = "build" => Building'
    <2> SUFFICES ASSUME phase' = "build" PROVE Building'
        OBVIOUS
    <2>1. StartBuild
        BY <1>1 DEF Resolve, Download, Goto, Does
    <2>2. todo' = {"package", "index"} \X Dirs /\ targets \subseteq Known
        BY <2>1 DEF StartBuild, Goto, TreeInv, Work
    <2> QED
        BY <1>1, <1>2, <2>2 DEF Building
<1> QED
    BY <1>1, <1>3, <1>4, <1>5 DEF TreeInv, Work

(* A line is packaged for one architecture. *)
LEMMA TreePackage ==
    ASSUME TreeInv, NEW d \in Dirs, Package(d)
    PROVE  TreeInv'
<1>1. /\ UNCHANGED <<targets, key, links, repos, exported, live>> /\ phase = "build" /\ phase' = phase
      /\ <<"package", d>> \in todo /\ todo' = todo \ {<<"package", d>>}
      /\ tree' = [e \in DOMAIN tree \cup {d} |->
               IF e = d THEN [rpm |-> "built", index |-> "none", seal |-> "none"] ELSE tree[e]]
    BY DEF Package, Does, Tree
<1>2. Dirs' = Dirs
    BY <1>1 DEF Dirs
<1>3. DOMAIN tree' = DOMAIN tree \cup {d}
    BY <1>1
<1>4. /\ tree'[d] \in Contents /\ tree'[d].rpm = "built" /\ tree'[d].seal = "none"
      /\ \A e \in DOMAIN tree : e # d => tree'[e] = tree[e]
    BY <1>1 DEF Contents, Parts
<1>5. Kinds'
    BY <1>1, <1>2, <1>3, <1>4 DEF TreeInv, Kinds
<1>6. Building
    BY <1>1 DEF TreeInv, Work
<1>7. ASSUME NEW e \in Dirs
      PROVE  /\ <<"package", e>> \notin todo' =>
                   e \in DOMAIN tree' /\ tree'[e].rpm = "built" /\ tree'[e].seal = "none"
             /\ <<"index", e>> \notin todo' =>
                   <<"package", e>> \notin todo' /\ tree'[e].index = "built"
    <2>1. CASE e = d
        <3>1. <<"index", d>> \in todo
            BY <1>1, <1>6 DEF Building
        <3>2. <<"index", d>> \in todo'
            BY <1>1, <3>1
        <3> QED
            BY <1>3, <1>4, <2>1, <3>2
    <2>2. CASE e # d
        <3>1. (<<"package", e>> \in todo' <=> <<"package", e>> \in todo)
              /\ (<<"index", e>> \in todo' <=> <<"index", e>> \in todo)
            BY <1>1, <2>2
        <3> QED
            BY <1>3, <1>4, <1>6, <2>2, <3>1 DEF Building
    <2> QED
        BY <2>1, <2>2
<1>8. Building'
    BY <1>1, <1>2, <1>6, <1>7 DEF Building
<1> QED
    BY <1>1, <1>5, <1>8 DEF TreeInv, Work, Kinds

(* One part of a directory is made again. *)
LEMMA ExceptIs ==
    ASSUME NEW d \in DOMAIN tree, tree[d] \in Contents, NEW v \in Parts, NEW t,
           \/ t = [tree EXCEPT ![d].rpm = v]
           \/ t = [tree EXCEPT ![d].index = v]
           \/ t = [tree EXCEPT ![d].seal = v]
    PROVE  /\ DOMAIN t = DOMAIN tree /\ t[d] \in Contents
           /\ \A e \in DOMAIN tree : e # d => t[e] = tree[e]
           /\ t = [tree EXCEPT ![d].rpm = v] =>
                 t[d].rpm = v /\ t[d].index = tree[d].index /\ t[d].seal = tree[d].seal
           /\ t = [tree EXCEPT ![d].index = v] =>
                 t[d].rpm = tree[d].rpm /\ t[d].index = v /\ t[d].seal = tree[d].seal
           /\ t = [tree EXCEPT ![d].seal = v] =>
                 t[d].rpm = tree[d].rpm /\ t[d].index = tree[d].index /\ t[d].seal = v
BY DEF Contents, Parts

(* A line is indexed. *)
LEMMA TreeIndex ==
    ASSUME TreeInv, NEW d \in Dirs, Index(d)
    PROVE  TreeInv'
<1>1. /\ UNCHANGED <<targets, key, links, repos, exported, live>> /\ phase = "build" /\ phase' = phase
      /\ <<"index", d>> \in todo /\ todo' = todo \ {<<"index", d>>}
      /\ tree' = [tree EXCEPT ![d].index = tree[d].rpm]
    BY DEF Index, Does, Tree
<1>2. Dirs' = Dirs
    BY <1>1 DEF Dirs
<1>3. Building
    BY <1>1 DEF TreeInv, Work
<1>4. <<"package", d>> \notin todo
    <2>1. PICK dv \in targets \cap Known, a \in Arch : d = Dir(dv, a)
        BY DEF Dirs
    <2>2. Front(d) \o <<a>> = d
        BY <2>1, FrontIs
    <2>3. <<"package", Front(d) \o <<a>> >> \notin todo
        BY DEF Index
    <2> QED
        BY <2>2, <2>3
<1>5. d \in DOMAIN tree /\ tree[d].rpm = "built" /\ tree[d].seal = "none" /\ tree[d] \in Contents
    BY <1>3, <1>4 DEF Building, TreeInv, Kinds
<1>6. /\ DOMAIN tree' = DOMAIN tree /\ tree'[d] \in Contents
      /\ \A e \in DOMAIN tree : e # d => tree'[e] = tree[e]
      /\ tree'[d].rpm = "built" /\ tree'[d].index = "built" /\ tree'[d].seal = "none"
    <2>1. tree[d].rpm \in Parts
        BY <1>5 DEF Parts
    <2> QED
        BY <1>1, <1>5, <2>1, ExceptIs
<1>7. Kinds'
    BY <1>1, <1>2, <1>6 DEF TreeInv, Kinds
<1>8. ASSUME NEW e \in Dirs
      PROVE  /\ <<"package", e>> \notin todo' =>
                   e \in DOMAIN tree' /\ tree'[e].rpm = "built" /\ tree'[e].seal = "none"
             /\ <<"index", e>> \notin todo' =>
                   <<"package", e>> \notin todo' /\ tree'[e].index = "built"
    <2>1. CASE e = d
        BY <1>1, <1>4, <1>5, <1>6, <2>1
    <2>2. CASE e # d
        <3>1. (<<"package", e>> \in todo' <=> <<"package", e>> \in todo)
              /\ (<<"index", e>> \in todo' <=> <<"index", e>> \in todo)
            BY <1>1, <2>2
        <3> QED
            BY <1>3, <1>6, <2>2, <3>1 DEF Building
    <2> QED
        BY <2>1, <2>2
<1>9. Building'
    BY <1>1, <1>2, <1>3, <1>8 DEF Building
<1> QED
    BY <1>1, <1>7, <1>9 DEF TreeInv, Work, Kinds

(* Every line is packaged and indexed. *)
LEMMA TreeLink ==
    ASSUME TreeInv, Link
    PROVE  TreeInv'
<1>1. /\ UNCHANGED <<targets, key, tree, repos, exported, live>> /\ phase = "build" /\ todo = {}
      /\ phase' = "templates" /\ todo' = {} /\ links' = Aliases(targets)
    BY DEF Link, Goto
<1>2. Dirs' = Dirs
    BY <1>1 DEF Dirs
<1>3. Building /\ Kinds
    BY <1>1 DEF TreeInv, Work
<1>4. targets \subseteq Known /\ targets \cap Known = targets
    BY <1>3 DEF Building
<1>5. DOMAIN tree = Dirs /\ \A d \in Dirs : Shows(d, "built", "built", "none")
    BY <1>1, <1>3 DEF Building, Kinds, Shows
<1>6. Filled' /\ \A d \in Dirs' : Shows(d, "built", "built", "none")'
    BY <1>1, <1>2, <1>4, <1>5 DEF Filled, Shows
<1>7. Kinds'
    BY <1>1, <1>2, <1>3, <1>4 DEF Kinds
<1> QED
    BY <1>1, <1>6, <1>7 DEF TreeInv, Work, Kinds

(* What StageSign finds once every directory is there. *)
LEMMA GlobIs ==
    ASSUME DOMAIN tree = Dirs
    PROVE  \A d \in Dirs : d \in (IF key THEN Glob ELSE {}) <=> Signs(d)
BY DEF Glob, Signs

(* A loop over what is found begins. *)
LEMMA TreeGoto ==
    ASSUME TreeInv, Templates \/ StartReindex \/ StartSeal
    PROVE  TreeInv'
<1>1. /\ UNCHANGED <<targets, key, tree, links, exported, live>>
      /\ phase \in {"templates", "sign", "reindex"} /\ todo = {} /\ repos' \subseteq targets
      /\ phase' = CASE phase = "templates" -> "sign" [] phase = "sign" -> "reindex"
                    [] OTHER -> "seal"
      /\ todo' = IF key THEN Glob ELSE {}
    BY DEF Templates, StartReindex, StartSeal, Goto, Tree, TreeInv, Kinds
<1>2. Dirs' = Dirs /\ (Filled => Filled') /\ \A d \in Dirs : Signs(d)' = Signs(d)
    BY <1>1 DEF Dirs, Filled, Signs
<1>3. Filled /\ ~live
    BY <1>1 DEF TreeInv, Work, Kinds
<1>4. todo' \subseteq Dirs /\ \A d \in Dirs : d \in todo' <=> Signs(d)
    <2>1. \A d \in Dirs : d \in (IF key THEN Glob ELSE {}) <=> Signs(d)
        BY <1>3, GlobIs DEF Filled
    <2>2. Glob \subseteq Dirs
        BY <1>3 DEF Glob, Filled
    <2> QED
        BY <1>1, <2>1, <2>2
<1>5. Kinds'
    BY <1>1, <1>2 DEF TreeInv, Kinds
<1>6. CASE phase = "templates"
    <2>1. \A d \in Dirs : Shows(d, "built", "built", "none") /\ ~(Signs(d) /\ d \notin todo')
        BY <1>4, <1>6 DEF TreeInv, Work
    <2>2. \A d \in Dirs : Shows(d, SignedIf(Signs(d) /\ d \notin todo), "built", "none")'
        BY <1>1, <1>2, <2>1 DEF Shows, SignedIf
    <2> QED
        BY <1>1, <1>2, <1>3, <1>4, <1>5, <1>6, <2>2 DEF TreeInv, Work
<1>7. CASE phase = "sign"
    <2>1. \A d \in Dirs : Shows(d, SignedIf(Signs(d)), "built", "none") /\ ~(Signs(d) /\ d \notin todo')
        BY <1>1, <1>4, <1>7 DEF TreeInv, Work, Shows, SignedIf
    <2>2. \A d \in Dirs : Shows(d, SignedIf(Signs(d)), SignedIf(Signs(d) /\ d \notin todo), "none")'
        BY <1>1, <1>2, <2>1 DEF Shows, SignedIf
    <2> QED
        BY <1>1, <1>2, <1>3, <1>4, <1>5, <1>7, <2>2 DEF TreeInv, Work
<1>8. CASE phase = "reindex"
    <2>1. \A d \in Dirs : Shows(d, SignedIf(Signs(d)), SignedIf(Signs(d)), "none")
                          /\ ~(Signs(d) /\ d \notin todo')
        BY <1>1, <1>4, <1>8 DEF TreeInv, Work, Shows, SignedIf
    <2>2. \A d \in Dirs : Shows(d, SignedIf(Signs(d)), SignedIf(Signs(d)),
                                IF Signs(d) /\ d \notin todo THEN "signed" ELSE "none")'
        BY <1>1, <1>2, <2>1 DEF Shows, SignedIf
    <2> QED
        BY <1>1, <1>2, <1>3, <1>4, <1>5, <1>8, <2>2 DEF TreeInv, Work
<1> QED
    BY <1>1, <1>6, <1>7, <1>8

(* One directory of a loop of StageSign. *)
LEMMA TreeSign ==
    ASSUME TreeInv, NEW d \in Dirs, SignRpm(d) \/ Reindex(d) \/ Seal(d)
    PROVE  TreeInv'
<1>1. /\ UNCHANGED <<targets, key, links, repos, exported, live, phase>>
      /\ phase \in {"sign", "reindex", "seal"}
      /\ d \in todo /\ todo' = todo \ {d}
      /\ phase = "sign" => tree' = [tree EXCEPT ![d].rpm = "signed"]
      /\ phase = "reindex" => tree' = [tree EXCEPT ![d].index = tree[d].rpm]
      /\ phase = "seal" => tree' = [tree EXCEPT ![d].seal = tree[d].index]
    BY DEF SignRpm, Reindex, Seal, Does, Tree
<1>2. Dirs' = Dirs /\ \A e \in Dirs : Signs(e)' = Signs(e)
    BY <1>1 DEF Dirs, Signs
<1>3. Filled /\ ~live /\ Signs(d) /\ d \in DOMAIN tree /\ tree[d] \in Contents
    BY <1>1 DEF TreeInv, Work, Kinds, Filled
<1>4. phase \in {"reindex", "seal"} => tree[d].rpm = "signed"
    BY <1>1, <1>3 DEF TreeInv, Work, Shows, SignedIf
<1>5. phase = "seal" => tree[d].index = "signed"
    BY <1>1, <1>3 DEF TreeInv, Work, Shows, SignedIf
<1>6. /\ DOMAIN tree' = DOMAIN tree /\ tree'[d] \in Contents
      /\ \A e \in DOMAIN tree : e # d => tree'[e] = tree[e]
      /\ phase = "sign" =>
            tree'[d].rpm = "signed" /\ tree'[d].index = tree[d].index /\ tree'[d].seal = tree[d].seal
      /\ phase = "reindex" =>
            tree'[d].rpm = tree[d].rpm /\ tree'[d].index = "signed" /\ tree'[d].seal = tree[d].seal
      /\ phase = "seal" =>
            tree'[d].rpm = tree[d].rpm /\ tree'[d].index = tree[d].index /\ tree'[d].seal = "signed"
    <2>1. "signed" \in Parts
        BY DEF Parts
    <2> QED
        BY <1>1, <1>3, <1>4, <1>5, <2>1, ExceptIs
<1>7. Kinds' /\ Filled'
    BY <1>1, <1>2, <1>3, <1>6 DEF TreeInv, Kinds, Filled
<1>8. todo' \subseteq Dirs' /\ \A e \in todo' : Signs(e)'
    BY <1>1, <1>2 DEF TreeInv, Work
<1>9. \A e \in Dirs : e # d => (e \in todo' <=> e \in todo) /\ tree'[e] = tree[e]
    BY <1>1, <1>3, <1>6 DEF Filled
<1>10. CASE phase = "sign"
    <2>1. ASSUME NEW e \in Dirs
          PROVE  Shows(e, SignedIf(Signs(e) /\ e \notin todo), "built", "none")'
        <3>1. Shows(e, SignedIf(Signs(e) /\ e \notin todo), "built", "none")
            BY <1>10 DEF TreeInv, Work
        <3> QED
            BY <1>1, <1>2, <1>3, <1>6, <1>9, <1>10, <3>1 DEF Shows, SignedIf
    <2> QED
        BY <1>1, <1>2, <1>3, <1>7, <1>8, <1>10, <2>1 DEF TreeInv, Work
<1>11. CASE phase = "reindex"
    <2>1. ASSUME NEW e \in Dirs
          PROVE  Shows(e, SignedIf(Signs(e)), SignedIf(Signs(e) /\ e \notin todo), "none")'
        <3>1. Shows(e, SignedIf(Signs(e)), SignedIf(Signs(e) /\ e \notin todo), "none")
            BY <1>11 DEF TreeInv, Work
        <3> QED
            BY <1>1, <1>2, <1>3, <1>6, <1>9, <1>11, <3>1 DEF Shows, SignedIf
    <2> QED
        BY <1>1, <1>2, <1>3, <1>7, <1>8, <1>11, <2>1 DEF TreeInv, Work
<1>12. CASE phase = "seal"
    <2>1. ASSUME NEW e \in Dirs
          PROVE  Shows(e, SignedIf(Signs(e)), SignedIf(Signs(e)),
                       IF Signs(e) /\ e \notin todo THEN "signed" ELSE "none")'
        <3>1. Shows(e, SignedIf(Signs(e)), SignedIf(Signs(e)),
                    IF Signs(e) /\ e \notin todo THEN "signed" ELSE "none")
            BY <1>12 DEF TreeInv, Work
        <3> QED
            BY <1>1, <1>2, <1>3, <1>6, <1>9, <1>12, <3>1 DEF Shows, SignedIf
    <2> QED
        BY <1>1, <1>2, <1>3, <1>7, <1>8, <1>12, <2>1 DEF TreeInv, Work
<1> QED
    BY <1>1, <1>10, <1>11, <1>12

(* The key is exported, production gets the tree, and nothing is changed. *)
LEMMA TreeEnd ==
    ASSUME TreeInv, Export \/ Publish \/ Verify
    PROVE  TreeInv'
<1>1. /\ UNCHANGED <<targets, key, tree, links, repos>>
      /\ phase \in {"seal", "publish", "verify"} /\ todo = {} /\ todo' = {}
      /\ phase = "seal" => phase' = "publish" /\ exported' = key /\ live' = live
      /\ phase = "publish" => phase' = "verify" /\ exported' = exported /\ live' = TRUE
      /\ phase = "verify" => phase' = "done" /\ exported' = exported /\ live' = live
    BY DEF Export, Publish, Verify, Goto, Tree
<1>2. Dirs' = Dirs /\ (Filled => Filled') /\ \A e \in Dirs : Signs(e)' = Signs(e)
    BY <1>1 DEF Dirs, Filled, Signs
<1>3. Filled
    BY <1>1 DEF TreeInv, Work, Final
<1>4. \A d \in Dirs : Shows(d, SignedIf(Signs(d)), SignedIf(Signs(d)),
                            IF Signs(d) THEN "signed" ELSE "none")
    <2>1. CASE phase = "seal"
        BY <1>1, <2>1 DEF TreeInv, Work, Shows
    <2>2. CASE phase # "seal"
        BY <1>1, <2>2 DEF TreeInv, Work, Final
    <2> QED
        BY <2>1, <2>2
<1>5. exported' = key
    BY <1>1 DEF TreeInv, Work, Final
<1>6. Final'
    BY <1>1, <1>2, <1>3, <1>4, <1>5 DEF Final, Shows
<1>7. live' \in BOOLEAN /\ (live' => phase' \in {"verify", "done", "failed"})
    <2>0. live \in BOOLEAN /\ (live => phase \in {"verify", "done", "failed"})
        BY DEF TreeInv, Kinds
    <2>1. CASE phase = "publish"
        BY <1>1, <2>1
    <2>2. CASE phase = "seal"
        <3>1. live' = live /\ ~live
            BY <1>1, <2>0, <2>2
        <3> QED
            BY <2>0, <3>1
    <2>3. CASE phase = "verify"
        <3>1. live' = live /\ phase' = "done"
            BY <1>1, <2>3
        <3> QED
            BY <2>0, <3>1
    <2> QED
        BY <1>1, <2>1, <2>2, <2>3
<1>8. phase' \in {"publish", "verify", "done"} /\ exported' \in BOOLEAN
    BY <1>1, <1>5 DEF TreeInv, Kinds
<1>9. Kinds'
    BY <1>1, <1>2, <1>7, <1>8 DEF TreeInv, Kinds
<1> QED
    BY <1>1, <1>6, <1>8, <1>9 DEF TreeInv, Work

(* A stage that fails leaves what production has. *)
LEMMA TreeRests ==
    ASSUME TreeInv, Fail \/ UNCHANGED vars
    PROVE  TreeInv'
<1>1. UNCHANGED <<targets, key, tree, links, repos, exported, live>>
    BY DEF Fail, vars
<1>2. Dirs' = Dirs /\ (Final => Final')
    BY <1>1 DEF Dirs, Final, Filled, Signs, Shows
<1>3. CASE Fail
    <2>1. phase' = "failed" /\ todo' = {}
        BY <1>3 DEF Fail
    <2> QED
        BY <1>1, <1>2, <2>1 DEF TreeInv, Kinds, Work
<1>4. CASE UNCHANGED vars
    <2>1. UNCHANGED <<phase, todo>>
        BY <1>4 DEF vars
    <2>2. Dirs' = Dirs /\ (Filled => Filled') /\ (Building => Building')
        BY <1>1, <2>1 DEF Dirs, Filled, Building
    <2>3. Kinds'
        BY <1>1, <2>1, <2>2 DEF TreeInv, Kinds
    <2>4. \A d \in Dirs : Signs(d)' = Signs(d)
        BY <1>1 DEF Signs
    <2>5. Work'
        BY <1>1, <1>2, <2>1, <2>2, <2>4 DEF TreeInv, Work, Shows
    <2> QED
        BY <2>3, <2>5 DEF TreeInv
<1> QED
    BY <1>3, <1>4

(* The invariant holds. *)
LEMMA TreeInvHolds == Spec => []TreeInv
<1>1. ASSUME TreeInv, [Next]_vars PROVE TreeInv'
    BY <1>1, TreeResolve, TreePackage, TreeIndex, TreeLink, TreeGoto, TreeSign, TreeEnd, TreeRests
    DEF Next
<1> QED
    BY <1>1, TreeStart, PTL DEF Spec

(* Every variable has values of its kind: no loop has work outside of the
   directories of the pairs, and no link another name than an alias.        *)
THEOREM TreeTypes == Spec => []TypeOK
<1>1. ASSUME TreeInv PROVE TypeOK
    <2>1. (CASE phase = "download" -> todo \subseteq Arch
             [] phase = "build" -> todo \subseteq {"package", "index"} \X Dirs
             [] OTHER -> todo \subseteq Dirs)
        <3>1. phase = "download" => todo \subseteq Arch
            BY <1>1 DEF TreeInv, Work
        <3>2. phase = "build" => todo \subseteq {"package", "index"} \X Dirs
            BY <1>1 DEF TreeInv, Work, Building
        <3>3. phase \notin {"download", "build"} => todo \subseteq Dirs
            BY <1>1 DEF TreeInv, Work, Kinds
        <3> QED
            BY <3>1, <3>2, <3>3
    <2> QED
        BY <1>1, <2>1 DEF TreeInv, Kinds, TypeOK, Contents
<1> QED
    BY <1>1, TreeInvHolds, PTL

(* StageSign and StagePublish: what becomes production is complete, described
   by its repodata, and signed as described, for any product and whenever a
   stage fails.                                                             *)
THEOREM TreePublishedConsistent == Spec => []PublishedConsistent
<1>1. ASSUME TreeInv, live PROVE PublishedConsistent
    <2>1. Final
        BY <1>1 DEF TreeInv, Work
    <2> QED
        BY <2>1 DEF Final, Filled, Shows, SignedIf, PublishedConsistent
<1>2. ~live => PublishedConsistent
    BY DEF PublishedConsistent
<1> QED
    BY <1>1, <1>2, TreeInvHolds, PTL

(* GenerateRepoTemplates: what a .repo file of a line right below the product
   asks for is there, for any product with a key.                           *)
THEOREM TreeTemplatesEnable == Spec => []TemplatesEnable
<1>1. ASSUME TreeInv PROVE TemplatesEnable
    <2> SUFFICES ASSUME live, key, NEW dv \in repos, NEW a \in Arch, Len(Path(LineOf(dv))) = 1
                 PROVE  /\ exported
                        /\ tree[Dir(dv, a)].rpm = "signed" /\ tree[Dir(dv, a)].seal = "signed"
        BY DEF TemplatesEnable
    <2>1. Final /\ dv \in Known /\ dv \in targets
        BY <1>1 DEF TreeInv, Work, Kinds, Final, Filled
    <2>2. Dir(dv, a) \in Dirs
        BY <2>1 DEF Dirs
    <2>3. Len(Dir(dv, a)) = 2
        <3>1. \A v : Len(<<"openeuler", v>>) = 2
            OBVIOUS
        <3>2. \A l : Len(<<l, a>>) = 2
            OBVIOUS
        <3> QED
            BY <2>1, <3>1, <3>2, DirIs
    <2>4. Signs(Dir(dv, a))
        BY <2>3 DEF Signs
    <2> QED
        BY <2>1, <2>2, <2>4 DEF Final, Shows, SignedIf
<1> QED
    BY <1>1, TreeInvHolds, PTL

-----------------------------------------------------------------------------
(* Aliases *)

(* A known pair is a distribution and a version; openEuler's paths are pairs. *)
LEMMA PairIs ==
    ASSUME NEW dv \in Known
    PROVE  /\ dv = <<dv[1], dv[2]>> /\ dv \in Seq({dv[1], dv[2]}) /\ Len(dv) = 2
           /\ \A v \in Deep : dv = <<"openeuler", v>> => Path(LineOf(dv)) = dv
<1>1. LineOf(dv) \in DOMAIN Family /\ dv \in Family[LineOf(dv)]
    BY LineIs
<1>2. \E x, y : dv = <<x, y>>
    BY <1>1, LinesAre DEF Family
<1>3. dv = <<dv[1], dv[2]>> /\ dv \in Seq({dv[1], dv[2]}) /\ Len(dv) = 2
    BY <1>2
<1>4. dv = <<"openeuler", "22">> => LineOf(dv) = "oe22"
    BY <1>1, LinesAre DEF Family
<1>5. dv = <<"openeuler", "24">> => LineOf(dv) = "oe24"
    BY <1>1, LinesAre DEF Family
<1>6. Path("oe22") = <<"openeuler", "22">> /\ Path("oe24") = <<"openeuler", "24">>
    BY DEF Path
<1> QED
    BY <1>3, <1>4, <1>5, <1>6 DEF Deep

(* No directory with packages is where an alias is wanted. *)
LEMMA NothingInTheWay ==
    ASSUME DOMAIN tree \subseteq Dirs, NEW dv \in Known, Path(LineOf(dv)) # dv
    PROVE  ~InTheWay(dv)
<1> SUFFICES ASSUME NEW d \in Dirs, NEW n \in 1..Len(d), SubSeq(d, 1, n) = dv PROVE FALSE
    BY DEF InTheWay
<1>1. PICK ev \in targets \cap Known, a \in Arch : d = Dir(ev, a)
    BY DEF Dirs
<1>2. dv = <<dv[1], dv[2]>> /\ Len(dv) = 2
    BY PairIs
<1>3. CASE d = <<LineOf(ev), a>>
    <2>1. PICK S : S = {LineOf(ev), a}
        OBVIOUS
    <2>2. d \in Seq(S) /\ Len(d) = 2 /\ d[1] = LineOf(ev) /\ d[2] = a
        BY <1>3, <2>1
    <2>3. Len(SubSeq(d, 1, n)) = n
        BY <2>2
    <2>4. SubSeq(d, 1, 2) = <<LineOf(ev), a>>
        BY <2>2, FirstTwo
    <2>5. n = 2
        BY <1>2, <2>3
    <2>6. dv = <<LineOf(ev), a>>
        BY <2>4, <2>5
    <2>7. dv[2] = a
        BY <2>6
    <2> QED
        BY <2>7, ArchIsNoVersion
<1>4. ASSUME NEW v \in Deep, d = <<"openeuler", v, a>> PROVE FALSE
    <2>1. PICK S : S = {"openeuler", v, a}
        OBVIOUS
    <2>2. d \in Seq(S) /\ Len(d) = 3 /\ d[1] = "openeuler" /\ d[2] = v
        BY <1>4, <2>1
    <2>3. Len(SubSeq(d, 1, n)) = n
        BY <2>2
    <2>4. SubSeq(d, 1, 2) = <<"openeuler", v>>
        BY <2>2, FirstTwo
    <2>5. dv = <<"openeuler", v>>
        BY <1>2, <2>3, <2>4
    <2> QED
        BY <2>5, PairIs
<1> QED
    BY <1>1, <1>3, <1>4, DirIs

(* What is above a name. *)
LEMMA Above ==
    ASSUME NEW S, NEW x \in S, NEW y \in S
    PROVE  /\ Front(<<x, y>>) = <<x>> /\ Front(<<x>>) = << >>
           /\ Append(<< >>, x) = <<x>> /\ Append(<<x>>, y) = <<x, y>>
<1>1. Front(<<x, y>>) = <<x>>
    <2>0. PICK s : s = <<x, y>>
        OBVIOUS
    <2>1. s = <<x, y>> /\ s \in Seq(S) /\ Len(s) = 2 /\ s[1] = x
        BY <2>0
    <2>2. SubSeq(s, 1, 1) = <<x>>
        <3>1. SubSeq(s, 1, 1) = <<s[1]>>
            <4>1. s \in Seq(S) /\ Len(s) >= 1
                BY <2>1
            <4> QED
                BY <4>1, FirstOne
        <3> QED
            BY <2>1, <3>1
    <2>3. Len(s) - 1 = 1
        BY <2>1
    <2> QED
        BY <2>1, <2>2, <2>3 DEF Front
<1>2. Front(<<x>>) = << >>
    <2>1. <<x>> \in Seq(S) /\ Len(<<x>>) = 1
        OBVIOUS
    <2>2. SubSeq(<<x>>, 1, 0) \in Seq(S) /\ Len(SubSeq(<<x>>, 1, 0)) = 0
        BY <2>1
    <2> QED
        BY <2>1, <2>2, EmptySeq DEF Front
<1>3. Append(<< >>, x) = <<x>>
    <2>1. Append(<< >>, x) \in Seq(S) /\ Len(Append(<< >>, x)) = 1 /\ Append(<< >>, x)[1] = x
        OBVIOUS
    <2>2. <<x>> \in Seq(S) /\ Len(<<x>>) = 1 /\ <<x>>[1] = x
        OBVIOUS
    <2>3. \A i \in 1..Len(Append(<< >>, x)) : Append(<< >>, x)[i] = <<x>>[i]
        BY <2>1, <2>2
    <2> QED
        BY <2>1, <2>2, <2>3, SeqEqual
<1>4. Append(<<x>>, y) = <<x, y>>
    <2>1. /\ <<x>> \in Seq(S) /\ Len(<<x>>) = 1
          /\ <<x, y>> \in Seq(S) /\ Len(<<x, y>>) = 2 /\ <<x, y>>[1] = x /\ <<x, y>>[2] = y
        OBVIOUS
    <2>2. Append(<<x>>, y) \in Seq(S) /\ Len(Append(<<x>>, y)) = 2
        BY <2>1
    <2>3. \A i \in 1..2 : Append(<<x>>, y)[i] = <<x, y>>[i]
        BY <2>1
    <2>4. \A i \in 1..Len(Append(<<x>>, y)) : Append(<<x>>, y)[i] = <<x, y>>[i]
        BY <2>2, <2>3
    <2> QED
        BY <2>1, <2>2, <2>4, SeqEqual
<1> QED
    BY <1>1, <1>2, <1>3, <1>4

(* Following a link from at by its i-th name. *)
Step(l, at, i) == IF l.to[i] = ".." THEN Front(at) ELSE Append(at, l.to[i])

(* Where following a link of at most three names ends. *)
LEMMA Followed ==
    ASSUME NEW l, NEW n \in 2..3, Len(l.to) = n, NEW v0, NEW v1, NEW v2, NEW v3,
           v0 = Front(l.at), v1 = Step(l, v0, 1), v2 = Step(l, v1, 2), v3 = Step(l, v2, 3)
    PROVE  Leads(l) = IF n = 2 THEN v2 ELSE v3
<1> DEFINE F(at) == [i \in 0..n |-> IF i = 0 THEN v0 ELSE Step(l, at[i - 1], i)]
           w == [i \in 0..n |-> IF i = 0 THEN v0 ELSE IF i = 1 THEN v1 ELSE IF i = 2 THEN v2 ELSE v3]
           u == CHOOSE at : at = F(at)
<1>1. w = F(w)
    <2>1. ASSUME NEW i \in 0..n
          PROVE  w[i] = IF i = 0 THEN v0 ELSE Step(l, w[i - 1], i)
        <3>1. CASE i = 0
            BY <3>1
        <3>2. CASE i = 1
            <4>1. w[i - 1] = v0 /\ w[i] = v1
                BY <3>2
            <4> QED
                BY <3>2, <4>1
        <3>3. CASE i = 2
            <4>1. w[i - 1] = v1 /\ w[i] = v2
                BY <3>3
            <4> QED
                BY <3>3, <4>1
        <3>4. CASE i = 3
            <4>1. w[i - 1] = v2 /\ w[i] = v3
                BY <3>4
            <4> QED
                BY <3>4, <4>1
        <3> QED
            BY <3>1, <3>2, <3>3, <3>4
    <2>2. w = [i \in 0..n |-> w[i]]
        OBVIOUS
    <2> QED
        BY <2>1, <2>2
<1>2. u = F(u)
    <2> HIDE DEF F, w
    <2> QED
        BY <1>1
<1>3. ASSUME NEW i \in 0..n PROVE u[i] = IF i = 0 THEN v0 ELSE Step(l, u[i - 1], i)
    <2> HIDE DEF u
    <2> QED
        BY <1>2
<1>4. Leads(l) = u[n]
    BY DEF Leads, Step
<1> HIDE DEF u
<1>5. u[0] = v0
    BY <1>3
<1>6. u[1] = v1
    BY <1>3, <1>5
<1>7. u[2] = v2
    BY <1>3, <1>6
<1>8. n = 3 => u[3] = v3
    BY <1>3, <1>7
<1> QED
    BY <1>4, <1>7, <1>8

(* Every alias leads to the directory of its line. *)
LEMMA AliasIs ==
    ASSUME NEW dv \in Known, NEW l, l = [at |-> dv, to |-> <<"..">> \o Path(LineOf(dv))]
    PROVE  Leads(l) = Path(LineOf(dv))
<1>1. LineOf(dv) \in DOMAIN Family /\ LineOf(dv) # ".."
    BY LineIs, LinesAre
<1>0. PICK L : L = LineOf(dv)
    OBVIOUS
<1>2. PICK x, y : dv = <<x, y>>
    <2>1. dv = <<dv[1], dv[2]>>
        BY PairIs
    <2> QED
        BY <2>1
<1>3. PICK v0, v1 : v0 = <<x>> /\ v1 = << >>
    OBVIOUS
<1>4. v0 = Front(dv) /\ v1 = Front(v0)
    <2>1. PICK S : S = {x, y}
        OBVIOUS
    <2>2. x \in S /\ y \in S
        BY <2>1
    <2> QED
        BY <1>2, <1>3, <2>2, Above
<1>5. CASE Path(LineOf(dv)) = <<L>>
    <2>1. l.at = dv /\ l.to = <<"..", L>>
        <3>1. PICK S : S = {"..", L}
            OBVIOUS
        <3>2. ".." \in S /\ L \in S
            BY <3>1
        <3>3. <<"..">> \o <<L>> = <<"..", L>>
            BY <3>2, BelowOne
        <3> QED
            BY <1>5, <3>3
    <2>2. Len(l.to) = 2 /\ l.to[1] = ".." /\ l.to[2] = L
        <3>1. PICK t : t = <<"..", L>>
            OBVIOUS
        <3>2. Len(t) = 2 /\ t[1] = ".." /\ t[2] = L
            BY <3>1
        <3>3. l.to = t
            BY <2>1, <3>1
        <3> QED
            BY <3>2, <3>3
    <2>3. PICK v2, v3 : v2 = <<L>> /\ v3 = Step(l, v2, 3)
        OBVIOUS
    <2>4. v2 = Append(v1, L)
        <3>1. PICK S : S = {L}
            OBVIOUS
        <3>2. Append(<< >>, L) = <<L>>
            BY <3>1, Above
        <3> QED
            BY <1>3, <2>3, <3>2
    <2>5. v0 = Front(l.at) /\ v1 = Step(l, v0, 1) /\ v2 = Step(l, v1, 2)
        BY <1>0, <1>1, <1>4, <2>1, <2>2, <2>4 DEF Step
    <2>6. Leads(l) = v2
        <3>1. 2 \in 2..3
            OBVIOUS
        <3> QED
            BY <2>2, <2>3, <2>5, <3>1, Followed
    <2> QED
        BY <1>5, <2>3, <2>6
<1>6. ASSUME NEW v \in Deep, Path(LineOf(dv)) = <<"openeuler", v>>
      PROVE  Leads(l) = Path(LineOf(dv))
    <2>1. l.at = dv /\ l.to = <<"..", "openeuler", v>>
        <3>1. PICK S : S = {"..", "openeuler", v}
            OBVIOUS
        <3>2. ".." \in S /\ "openeuler" \in S /\ v \in S
            BY <3>1
        <3>3. <<"..">> \o <<"openeuler", v>> = <<"..", "openeuler", v>>
            BY <3>2, BelowParent
        <3> QED
            BY <1>6, <3>3
    <2>2. Len(l.to) = 3 /\ l.to[1] = ".." /\ l.to[2] = "openeuler" /\ l.to[3] = v /\ v # ".."
        <3>1. PICK t : t = <<"..", "openeuler", v>>
            OBVIOUS
        <3>2. Len(t) = 3 /\ t[1] = ".." /\ t[2] = "openeuler" /\ t[3] = v
            BY <3>1
        <3>3. l.to = t
            BY <2>1, <3>1
        <3> QED
            BY <3>2, <3>3 DEF Deep
    <2>3. PICK v2, v3 : v2 = <<"openeuler">> /\ v3 = <<"openeuler", v>>
        OBVIOUS
    <2>4. v2 = Append(v1, "openeuler") /\ v3 = Append(v2, v)
        <3>1. PICK S : S = {"openeuler", v}
            OBVIOUS
        <3>2. "openeuler" \in S /\ v \in S
            BY <3>1
        <3>3. Append(<< >>, "openeuler") = <<"openeuler">>
              /\ Append(<<"openeuler">>, v) = <<"openeuler", v>>
            BY <3>2, Above
        <3> QED
            BY <1>3, <2>3, <3>3
    <2>5. v0 = Front(l.at) /\ v1 = Step(l, v0, 1) /\ v2 = Step(l, v1, 2) /\ v3 = Step(l, v2, 3)
        BY <1>4, <2>1, <2>2, <2>4 DEF Step
    <2>6. Leads(l) = v3
        <3>1. 3 \in 2..3 /\ 3 # 2
            OBVIOUS
        <3> QED
            BY <2>2, <2>5, <3>1, Followed
    <2> QED
        BY <1>6, <2>3, <2>6
<1> QED
    BY <1>0, <1>1, <1>5, <1>6, PathIs

(* CreateSymlinks: under the name of every pair production has the directory
   of its line, and no list of pairs wants a link where a directory is.     *)
THEOREM TreeAliasesLead == Spec => []AliasesLead
<1>1. ASSUME TreeInv, live, NEW dv \in targets, dv # Path(LineOf(dv))
      PROVE  \E l \in links : l.at = dv /\ Leads(l) = Path(LineOf(dv))
    <2>1. dv \in Known /\ links = Aliases(targets)
        BY <1>1 DEF TreeInv, Work, Final, Filled
    <2>2. PICK l : l = [at |-> dv, to |-> <<"..">> \o Path(LineOf(dv))]
        OBVIOUS
    <2>3. l \in links
        BY <1>1, <2>1, <2>2 DEF Aliases
    <2>4. Leads(l) = Path(LineOf(dv))
        BY <2>1, <2>2, AliasIs
    <2> QED
        BY <2>2, <2>3, <2>4
<1>2. ASSUME TreeInv, phase = "build", NEW l \in Aliases(targets)
      PROVE  ~InTheWay(l.at)
    <2>1. targets \subseteq Known /\ DOMAIN tree \subseteq Dirs
        BY <1>2 DEF TreeInv, Work, Building, Kinds
    <2>2. PICK dv \in targets : Path(LineOf(dv)) # dv /\ l.at = dv
        BY DEF Aliases
    <2> QED
        BY <2>1, <2>2, NothingInTheWay
<1>3. TreeInv => AliasesLead
    BY <1>1, <1>2 DEF AliasesLead
<1> QED
    BY <1>3, TreeInvHolds, PTL
=============================================================================

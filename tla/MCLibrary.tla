------------------------------ MODULE MCLibrary -------------------------------
(* Instances of Library for TLC. *)
EXTENDS Library, TLC

AboutPod(mirror, kind, owner, namespace, local, label) ==
    [mirror |-> mirror, kind |-> kind, owner |-> owner, namespace |-> namespace, local |-> local, label |-> label]

MCAbout ==
    [web    |-> AboutPod(FALSE, "ReplicaSet", "few", "default", TRUE, "x"),
     agent  |-> AboutPod(FALSE, "DaemonSet", "enough", "kube-system", TRUE, "y"),
     static |-> AboutPod(TRUE, "none", "gone", "kube-system", FALSE, "y"),
     naked  |-> AboutPod(FALSE, "none", "gone", "default", FALSE, "z"),
     dns    |-> AboutPod(FALSE, "ReplicaSet", "gone", "kube-system", FALSE, "y")]

MCPod == DOMAIN MCAbout

Pdb(namespace, selector, allowed) == [namespace |-> namespace, selector |-> selector, allowed |-> allowed]

MCBudgets ==
    {<<>>,
     <<Pdb("kube-system", {"y"}, 1)>>,
     <<Pdb("kube-system", {"invalid"}, 1), Pdb("kube-system", {"y"}, 1)>>,
     <<Pdb("default", {"x"}, 0), Pdb("kube-system", {"y"}, 0)>>}

MCLimits == [a \in Asg |-> [min |-> 0, max |-> 2]]
MCAtoi == [token \in {"", "0", "1", "3", "x", "a1", "-1"} |->
            CASE token = "0" -> 0 [] token = "1" -> 1 [] token = "3" -> 3 [] token = "-1" -> -1 [] OTHER -> NotANumber]
MCSpecs ==
    {<<>>, <<<<"1", "3", "a1">>>>, <<<<"0", "0", "a1">>, <<"1", "3", "a1", "x">>>>, <<<<"0", "3", "a1">>, <<"3", "1", "a1">>>>,
     <<<<"x", "3", "a1">>>>, <<<<"1", "3", "">>>>, <<<<"1", "3">>>>, <<<<"-1", "3", "a1">>>>}
AutoSpec(parts, discoverer, parameter, tag) ==
    [parts |-> parts, discoverer |-> discoverer, parameter |-> parameter, tag |-> tag]
MCAutoSpecs ==
    {NoSpec, AutoSpec(2, "asg", "tag", <<<<"k1", "k2">>>>), AutoSpec(2, "asg", "tag", <<<<"k1">>>>),
     AutoSpec(2, "asg", "tag", <<<<"k1", "k1">>>>), AutoSpec(2, "asg", "tag", <<<<>>>>), AutoSpec(2, "asg", "tag", <<>>),
     AutoSpec(2, "mig", "tag", <<<<"k1">>>>), AutoSpec(1, "asg", "", <<>>)}

Settings(min, max, name) == {[min |-> min, max |-> max, name |-> name]}
MCContent == {Blank, Garbage, {}, Settings(1, 3, "a1"), Settings(0, 3, "a1"), Settings(3, 1, "a1"), Settings(1, 3, "")}

NodeSymmetry == Permutations(Node)
=============================================================================

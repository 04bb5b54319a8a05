----------------------------- MODULE MCPipeline -----------------------------
(***************************************************************************)
(* Three profiles over three URLs: one that imports a fragment which       *)
(* imports another next to it, one that reaches the second through a file, *)
(* and one whose import turns back on itself, asks for a file from afar or  *)
(* runs too deep, whichever the third server hands out.                    *)
(***************************************************************************)
EXTENDS Pipeline

NoEnv == [k \in {} |-> Nothing]
Env(key, v) == [k \in {key} |-> [value |-> v, id |-> 0]]
Assume(key, v) == [k \in {key} |-> v]
None == [k \in {} |-> ""]

Phase(kind, values) == [kind |-> kind, values |-> values, id |-> 0, inner |-> {}]
Import(form, name, pin) ==
  [kind |-> "import", src |-> [form |-> form, name |-> name], pin |-> pin,
   values |-> 0, id |-> 0, inner |-> {}]
Doc(kind, caps, assumes, env, items) ==
  [kind |-> kind, caps |-> caps, assumes |-> assumes, env |-> env,
   items |-> items, id |-> 0]

Leaf == Doc("fragment", {"sh.exec"}, None, Env("HF", "a"), <<Phase("install", 0)>>)
OtherLeaf == Doc("fragment", {}, None, Env("HF", "b"), <<Phase("sh", 1)>>)
LeafPin == Hash(Leaf)

Middle == Doc("fragment", {"net.transfer", "net.http_get"}, None, NoEnv,
              <<Phase("models", 0), Import("relative", "leaf", LeafPin)>>)
MiddleExpanded == Merge([Middle EXCEPT !.items = <<Phase("models", 0)>>], Leaf)
MiddlePin == Hash(MiddleExpanded)

Loop == Doc("fragment", {}, None, NoEnv, <<Import("relative", "odd", LeafPin)>>)
Reach == Doc("fragment", {}, None, NoEnv, <<Import("absolute", "part", NoPin)>>)
Deep == Doc("fragment", {}, None, NoEnv, <<Import("relative", "middle", MiddlePin)>>)
Bare == Doc("fragment", {}, None, NoEnv, <<Import("https", "leaf", Malformed)>>)

Ours == Doc("spec", {"sh.exec", "fs.write"}, None, Env("HF", "a"),
            <<Phase("write", 1), Import("https", "middle", MiddlePin),
              Import("https", "leaf", LeafPin)>>)
Short == Doc("spec", {"sh.exec", "net.transfer"}, None, NoEnv,
             <<Phase("vacuous", 0), Import("relative", "part", NoPin),
               Phase("models", 0)>>)
Clash == Doc("spec", {}, Assume("comfyui_root", "/x"), Env("HF", "b"),
             <<Import("https", "odd", LeafPin)>>)
Part == Doc("fragment", {}, None, NoEnv, <<Import("https", "leaf", LeafPin)>>)

MCRoots == {"ours", "short", "clash"}
MCFiles == [f \in MCRoots \cup {"part"} |->
              CASE f = "ours" -> Ours
                [] f = "short" -> Short
                [] f = "clash" -> Clash
                [] f = "part" -> Part]
MCServed == [u \in {"leaf", "middle", "odd"} |->
               CASE u = "leaf" -> {Leaf, OtherLeaf}
                 [] u = "middle" -> {Middle, Leaf}
                 [] u = "odd" -> {Leaf, Loop, Reach, Deep, Bare}]
Alike == Permutations(Processes)

MCEntries == {Leaf, OtherLeaf, MiddleExpanded}
=============================================================================

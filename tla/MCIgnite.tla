------------------------------- MODULE MCIgnite -------------------------------
(* The kernel and two components, with every combination of dependencies the   *)
(* sort may meet: none, shared, in a chain, cyclic, without a provider, and a  *)
(* name that is provided twice; then a program, the system image with what is  *)
(* copied to it, and the initial RAM disk.                                   *)
EXTENDS Ignite

Names == {"kernel", "libc", "tools"}
Lists(max) == {s \in UNION {[1..n -> Names \cup {"lost"}] : n \in 0..max} : IsInjective(s)}
External(name, depends) == [provides |-> name, depends |-> depends]
MCRecipes ==
    {<<External("kernel", k), External("libc", l), External(name, t)>> :
        k \in Lists(2), l \in Lists(1), t \in Lists(1), name \in {"tools", "libc"}}

Step(target, depends, listed) == [target |-> target, depends |-> depends, listed |-> listed]
MCOthers == <<Step("init", <<"init.go">>, TRUE), Step("system", <<"init", "services">>, FALSE),
              Step("initramfs", <<"system">>, FALSE)>>
MCPaths == Names \cup {"lost", "init", "init.go", "services", "system", "initramfs"}
MCSources == {"init.go", "services"}
=============================================================================

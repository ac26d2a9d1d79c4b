------------------------------ MODULE ExternalSort ------------------------------
(***************************************************************************)
(* The order in which the build tool builds external components (Sort of      *)
(* tools/ignite/external.go): a depth-first search from the kernel image.     *)
(*                                                                          *)
(* visit calls itself; each call that has not returned is an entry of stack,   *)
(* with the component and how many of its dependencies the call took up.       *)
(***************************************************************************)
EXTENDS Integers, Sequences, SequencesExt

CONSTANTS
    Paths,          \* files, by their paths
    Recipes,        \* what external/ may hold: sequences of components
    Kernel          \* the kernel image, what the sort starts from

ASSUME RecipesType ==
    /\ Kernel \in Paths
    /\ Recipes \subseteq Seq([provides : Paths, depends : Seq(Paths)])

VARIABLES
    externals,      \* components: [provides, depends]
    sort,           \* "none", "visiting", "failed" or "sorted"
    stack,          \* calls of visit: [of, taken]
    visited,
    result          \* the order so far

local == <<sort, stack, visited, result>>

Provides(ext) == {ext[i].provides : i \in DOMAIN ext}
Unique(ext) == \A i, j \in DOMAIN ext : ext[i].provides = ext[j].provides => i = j
Provider(ext, name) == CHOOSE i \in DOMAIN ext : ext[i].provides = name
Needs(ext, i) == ToSet(ext[i].depends)

-----------------------------------------------------------------------------
Called(i) == [of |-> i, taken |-> 0]
Top == stack[Len(stack)]
Marked == {stack[k].of : k \in DOMAIN stack}

SortInit ==
    /\ externals \in Recipes
    /\ sort = "none" /\ stack = <<>> /\ visited = {} /\ result = <<>>

(* The names are looked at first: one is provided twice, or the target is not. *)
Begin ==
    /\ sort = "none"
    /\ LET good == Unique(externals) /\ Kernel \in Provides(externals) IN
       \/ good /\ sort' = "visiting" /\ stack' = <<Called(Provider(externals, Kernel))>>
       \/ ~good /\ sort' = "failed" /\ UNCHANGED stack
    /\ UNCHANGED <<externals, visited, result>>

(* The next dependency: nobody provides it, or it was visited, or it is on the  *)
(* way here, or it is visited now.                                           *)
Follow ==
    LET depends == externals[Top.of].depends
        name == depends[Top.taken + 1]
        known == name \in Provides(externals)
        i == Provider(externals, name)
        taken == [stack EXCEPT ![Len(stack)].taken = @ + 1]
    IN  /\ sort = "visiting" /\ Top.taken < Len(depends)
        /\ \/ ~known /\ sort' = "failed" /\ UNCHANGED stack
           \/ known /\ i \in visited /\ stack' = taken /\ UNCHANGED sort
           \/ known /\ i \in Marked \ visited /\ sort' = "failed" /\ UNCHANGED stack
           \/ known /\ i \notin Marked \cup visited
                /\ stack' = Append(taken, Called(i)) /\ UNCHANGED sort
        /\ UNCHANGED <<externals, visited, result>>

(* Mutant of Leave: the components are put in front. *)
LeaveFront ==
    /\ sort = "visiting" /\ Top.taken = Len(externals[Top.of].depends)
    /\ visited' = visited \cup {Top.of}
    /\ result' = <<Top.of>> \o result
    /\ stack' = Front(stack)
    /\ sort' = IF Len(stack) = 1 THEN "sorted" ELSE sort
    /\ UNCHANGED externals

(* All dependencies are there. *)
Leave ==
    /\ sort = "visiting" /\ Top.taken = Len(externals[Top.of].depends)
    /\ visited' = visited \cup {Top.of}
    /\ result' = Append(result, Top.of)
    /\ stack' = Front(stack)
    /\ sort' = IF Len(stack) = 1 THEN "sorted" ELSE sort
    /\ UNCHANGED externals

Return ==
    /\ sort \in {"failed", "sorted"}
    /\ sort' = "none" /\ stack' = <<>> /\ visited' = {} /\ result' = <<>>
    /\ UNCHANGED externals

-----------------------------------------------------------------------------
(* The reference.  What the kernel image needs, directly or not, is in every    *)
(* set that holds it and whatever its members depend on.                     *)
Named(ext) == {Kernel} \cup Provides(ext) \cup UNION {Needs(ext, i) : i \in DOMAIN ext}
Closed(ext, S) ==
    Kernel \in S /\ \A i \in DOMAIN ext : ext[i].provides \in S => Needs(ext, i) \subseteq S
Needed(ext) == {n \in Named(ext) : \A S \in SUBSET Named(ext) : Closed(ext, S) => n \in S}

(* There is no cycle among what is needed: every dependency can be given a      *)
(* smaller number.                                                          *)
Respects(ext, rank) ==
    \A i \in DOMAIN ext : ext[i].provides \in Needed(ext) =>
        \A n \in Needs(ext, i) : rank[n] < rank[ext[i].provides]
Sortable(ext) ==
    /\ Unique(ext)
    /\ Needed(ext) \subseteq Provides(ext)
    /\ \E rank \in [Named(ext) -> 0 .. Len(ext)] : Respects(ext, rank)

(* For every set of components: Sort succeeds just when names are unique and    *)
(* what the kernel image needs is all there without a cycle; it then lists     *)
(* exactly that, each component once and after all that it depends on.        *)
SortsRight ==
    LET name(k) == externals[result[k]].provides IN
    /\ sort = "failed" => ~Sortable(externals)
    /\ sort = "sorted" =>
        /\ Sortable(externals)
        /\ {name(k) : k \in DOMAIN result} = Needed(externals)
        /\ IsInjective(result)
        /\ \A k \in DOMAIN result :
              Needs(externals, result[k]) \subseteq {name(j) : j \in 1 .. (k - 1)}
=============================================================================

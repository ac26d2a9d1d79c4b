------------------------------ MODULE ModuleLoad ------------------------------
(***************************************************************************)
(* Loading kernel modules (pkg/kernel/module), by several workers of udevd  *)
(* or commands at once: Load finds a module, loads what it depends on, one  *)
(* dependency after the other, and inserts it.  A loader's stack of calls is *)
(* a sequence of frames, the innermost one first.                           *)
(*                                                                          *)
(* Load looks its path up in a map of loaded modules, and nothing writes to  *)
(* that map: the test never succeeds and is left out.                       *)
(***************************************************************************)
EXTENDS Integers, Sequences, FiniteSets, Functions

CONSTANTS
    Names,          \* names of modules, those that no file has included
    Modules,        \* the names that Search finds and Parse can read
    Depends,        \* the names a module depends on, in order
    Refused,        \* modules that the kernel does not take
    Loaders,        \* goroutines and commands that load modules
    Wanted,         \* what each loader is to load, in any order
    NoModule        \* the parent of a module that was loaded for itself

ASSUME ModulesType == Modules \subseteq Names
ASSUME RefusedType == Refused \subseteq Modules
ASSUME DependsType == Depends \in [Modules -> Seq(Names)]
ASSUME WantedType == Wanted \in [Loaders -> SUBSET Modules]

VARIABLES
    inserted,       \* modules in the kernel
    parent,         \* history: for which module a module was inserted
    stack,          \* each loader's frames, [mod, next dependency]
    wanted          \* what a loader has not tried to load yet

vars == <<inserted, parent, stack, wanted>>

Init ==
    /\ inserted = {}
    /\ parent = [m \in Modules |-> NoModule]
    /\ stack = [l \in Loaders |-> <<>>]
    /\ wanted = Wanted

Frames == [mod : Modules, next : Nat \ {0}]
Frame(m) == [mod |-> m, next |-> 1]
Caller(l) == IF Len(stack[l]) = 1 THEN NoModule ELSE stack[l][2].mod
SetStack(l, frames) == stack' = [stack EXCEPT ![l] = frames]

(* The dependency a frame is at, if it is not through with them. *)
AtDependency(f) == f.next <= Len(Depends[f.mod])
Dependency(f) == Depends[f.mod][f.next]

(* The return to the caller, which goes on to its next dependency. *)
Popped(frames) ==
    IF Tail(frames) = <<>> THEN <<>>
    ELSE [Tail(frames) EXCEPT ![1] = [mod |-> frames[2].mod,
                                      next |-> frames[2].next + 1]]

-----------------------------------------------------------------------------
(* A loader calls Load for something it wants. *)
Begin(l, m) ==
    /\ stack[l] = <<>>
    /\ m \in wanted[l]
    /\ wanted' = [wanted EXCEPT ![l] = @ \ {m}]
    /\ SetStack(l, <<Frame(m)>>)
    /\ UNCHANGED <<inserted, parent>>

(* Load calls itself for the next dependency. *)
Descend(l) ==
    /\ stack[l] # <<>>
    /\ LET top == Head(stack[l]) IN
          /\ AtDependency(top) /\ Dependency(top) \in Modules
          /\ SetStack(l, <<Frame(Dependency(top))>> \o stack[l])
    /\ UNCHANGED <<inserted, parent, wanted>>

(* Search finds no file for a dependency, or the kernel has the module or does *)
(* not take it.                                                              *)
Fails(top) ==
    \/ AtDependency(top) /\ Dependency(top) \notin Modules
    \/ ~AtDependency(top) /\ top.mod \in inserted \cup Refused

(* Mutant of Fail: a call that fails counts as one that did not. *)
PassOver(l) ==
    /\ stack[l] # <<>>
    /\ Fails(Head(stack[l]))
    /\ SetStack(l, IF AtDependency(Head(stack[l]))
                   THEN [stack[l] EXCEPT ![1].next = @ + 1] ELSE Popped(stack[l]))
    /\ UNCHANGED <<inserted, parent, wanted>>

(* An error ends every call on the stack.  What was inserted stays. *)
Fail(l) ==
    /\ stack[l] # <<>>
    /\ Fails(Head(stack[l]))
    /\ SetStack(l, <<>>)
    /\ UNCHANGED <<inserted, parent, wanted>>

(* Mutant of Insert: the module goes in before its dependencies. *)
InsertEarly(l) ==
    /\ stack[l] # <<>>
    /\ LET m == Head(stack[l]).mod IN
          /\ m \notin inserted \cup Refused
          /\ inserted' = inserted \cup {m}
          /\ parent' = [parent EXCEPT ![m] = Caller(l)]
    /\ SetStack(l, Popped(stack[l]))
    /\ UNCHANGED wanted

(* Every dependency is loaded: the kernel takes the module. *)
Insert(l) ==
    /\ stack[l] # <<>>
    /\ LET m == Head(stack[l]).mod IN
          /\ ~AtDependency(Head(stack[l])) /\ m \notin inserted \cup Refused
          /\ inserted' = inserted \cup {m}
          /\ parent' = [parent EXCEPT ![m] = Caller(l)]
    /\ SetStack(l, Popped(stack[l]))
    /\ UNCHANGED wanted

(* The end of their process takes loaders out of what they do, in whichever   *)
(* call they are.                                                            *)
Kill(gone) ==
    /\ stack' = [l \in Loaders |-> IF l \in gone THEN <<>> ELSE stack[l]]
    /\ wanted' = [l \in Loaders |-> IF l \in gone THEN {} ELSE wanted[l]]
    /\ UNCHANGED <<inserted, parent>>

Loading(l) ==
    \/ Descend(l) \/ Fail(l) \/ Insert(l)
    \/ \E m \in Modules : Begin(l, m)

Next ==
    \/ \E l \in Loaders : Loading(l)
    \/ \E gone \in SUBSET Loaders : Kill(gone)

Spec == Init /\ [][Next]_vars

-----------------------------------------------------------------------------
(* The types of the variables. *)
TypeOK ==
    /\ inserted \subseteq Modules
    /\ parent \in [Modules -> Modules \cup {NoModule}]
    /\ stack \in [Loaders -> Seq(Frames)]
    /\ \A l \in Loaders : \A i \in 1..Len(stack[l]) :
          stack[l][i].next <= Len(Depends[stack[l][i].mod]) + 1
    /\ wanted \in [Loaders -> SUBSET Modules]

(* A module is in the kernel only with all that it depends on, also after a   *)
(* load that failed half-way.                                                *)
DependenciesFirst ==
    \A m \in inserted : \A i \in 1..Len(Depends[m]) : Depends[m][i] \in inserted

(* No two modules in the kernel depend on the same module: the load that      *)
(* needs a dependency some other module brought in fails, since nothing       *)
(* records that it is loaded.  Of the devices whose drivers share one, at     *)
(* most one has its driver.                                                  *)
NoSharedDependency ==
    \A m, n \in inserted : \A i \in 1..Len(Depends[m]), k \in 1..Len(Depends[n]) :
        Depends[m][i] = Depends[n][k] => m = n

(* A module whose dependencies meet again below it cannot be inserted: what     *)
(* Load took for one dependency it cannot take for another.                  *)
Needs[m \in Modules] ==
    UNION {{Depends[m][i]} \cup (IF Depends[m][i] \in Modules
                                 THEN Needs[Depends[m][i]] ELSE {}) :
              i \in 1..Len(Depends[m])}
Tangled(m) ==
    \/ ~ (Needs[m] \cup {m} \subseteq Modules \ Refused)
    \/ \E n \in (Needs[m] \cup {m}) \cap Modules :
          \E i, k \in 1..Len(Depends[n]) : i # k /\
             LET below(j) == {Depends[n][j]} \cup
                    (IF Depends[n][j] \in Modules THEN Needs[Depends[n][j]] ELSE {})
             IN  below(i) \cap below(k) # {}
=============================================================================

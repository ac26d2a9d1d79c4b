------------------------------ MODULE Ignite_proofs ------------------------------
(***************************************************************************)
(* Proofs about the build tool: Sort is right for every set of components, in  *)
(* both directions, and a run leaves nothing stale and builds nothing twice.   *)
(***************************************************************************)
EXTENDS Ignite, SequenceTheorems, FiniteSetTheorems, TLAPS

-----------------------------------------------------------------------------
(* The search.  Calls on the stack are distinct, needed and not visited yet;     *)
(* along it every numbering that respects the dependencies goes down; what a    *)
(* call took up was visited, but for the one that was called last.            *)
Names(ext, S) == {ext[i].provides : i \in S}

StackType ==
    /\ stack \in Seq([of : DOMAIN externals, taken : Nat])
    /\ \A k \in DOMAIN stack : stack[k].taken <= Len(externals[stack[k].of].depends)
    /\ visited \subseteq DOMAIN externals
    /\ result \in Seq(DOMAIN externals)

StackNeeded ==
    /\ \A k \in DOMAIN stack : externals[stack[k].of].provides \in Needed(externals)
    /\ Names(externals, visited) \subseteq Needed(externals)

StackApart ==
    /\ \A k \in DOMAIN stack : stack[k].of \notin visited
    /\ \A j, k \in DOMAIN stack : j # k => stack[j].of # stack[k].of

GoesDown ==
    \A rank \in [Named(externals) -> Nat] : Respects(externals, rank) =>
        \A j, k \in DOMAIN stack : j < k =>
            rank[externals[stack[k].of].provides] < rank[externals[stack[j].of].provides]

(* The dependency that the call above was made for is not visited yet. *)
Taken ==
    \A k \in DOMAIN stack : \A d \in 1 .. stack[k].taken :
        LET name == externals[stack[k].of].depends[d] IN
        \/ name \in Names(externals, visited)
        \/ k < Len(stack) /\ d = stack[k].taken /\ name = externals[stack[k + 1].of].provides

Resulted ==
    /\ visited = ToSet(result)
    /\ \A j, k \in DOMAIN result : result[j] = result[k] => j = k
    /\ \A k \in DOMAIN result : \A name \in Needs(externals, result[k]) :
          \E j \in 1 .. (k - 1) : name = externals[result[j]].provides

RootBelow ==
    IF stack = <<>> THEN Kernel \in Names(externals, visited)
    ELSE externals[stack[1].of].provides = Kernel

Searching ==
    /\ Unique(externals)
    /\ StackType /\ StackNeeded /\ StackApart /\ GoesDown /\ Taken /\ Resulted /\ RootBelow

SortInv ==
    /\ externals \in Recipes
    /\ sort \in {"none", "visiting", "failed", "sorted"}
    /\ sort = "none" => stack = <<>> /\ visited = {} /\ result = <<>>
    /\ sort = "visiting" => Searching /\ stack # <<>>
    /\ sort = "sorted" => Searching /\ stack = <<>>
    /\ sort = "failed" => ~Sortable(externals)

-----------------------------------------------------------------------------
(* What a run may have to build. *)
RunSteps ==
    {Component(i) : i \in {j \in DOMAIN externals : externals[j].provides \in Needed(externals)}}
      \cup ToSet(Others)

StepType == [target : Paths, depends : Seq(Paths), listed : BOOLEAN]
Running == phase \in {"checking", "building", "done"}

TypeInv ==
    /\ plan \in Seq(StepType) /\ at \in Nat \ {0}
    /\ phase \in {"idle", "sorting", "checking", "building", "failed", "done"}
    /\ now \in Nat
    /\ time \in [Paths -> Nat] /\ version \in [Paths -> Nat]
    /\ DOMAIN madeOf = Paths
    /\ broken \subseteq Sources
    /\ edited \in BOOLEAN /\ quiet \in BOOLEAN
    /\ phase = "sorting" <=> sort # "none"
    /\ phase = "building" => /\ DOMAIN reading = ToSet(plan[at].depends)

(* The plan holds the run's steps, each after those it depends on. *)
PlanInv ==
    Running =>
        /\ Unique(externals)
        /\ ToSet(plan) = RunSteps
        /\ \A j, k \in DOMAIN plan : plan[j].target = plan[k].target => j = k
        /\ \A j, k \in DOMAIN plan : k <= j => plan[j].target \notin ToSet(plan[k].depends)
        /\ IF phase = "done" THEN at = Len(plan) + 1 ELSE at \in DOMAIN plan

(* What is not built yet in this run is older than now. *)
TimeInv ==
    /\ \A f \in Paths : time[f] <= now
    /\ phase = "sorting" => \A s \in RunSteps : time[s.target] < now
    /\ Running => \A k \in DOMAIN plan : at <= k => time[plan[k].target] < now

(* A target that is there was made of what its dependencies are, or of what was  *)
(* before they became newer than it.                                         *)
MadeInv ==
    \A s \in RunSteps :
        time[s.target] > 0 /\ s.target \notin excused =>
            \A f \in ToSet(s.depends) :
                madeOf[s.target][f] = version[f] \/ time[f] > time[s.target]

MadeNow(s) ==
    \/ s.target \in excused
    \/ Unlisted(s)
    \/ \A f \in ToSet(s.depends) : madeOf[s.target][f] = version[f]

IsFresh(s) ==
    time[s.target] > 0 /\ \A j \in DOMAIN Depends(s) : time[Depends(s)[j]] <= time[s.target]

DoneInv ==
    Running /\ ~edited =>
        \A k \in DOMAIN plan : k < at => MadeNow(plan[k]) /\ IsFresh(plan[k])

QuietInv == quiet => phase # "building" /\ \A s \in RunSteps : IsFresh(s)

IInv == SortInv /\ TypeInv /\ PlanInv /\ TimeInv /\ MadeInv /\ DoneInv /\ QuietInv

-----------------------------------------------------------------------------
LEMMA ExternalsType ==
    ASSUME externals \in Recipes
    PROVE /\ Len(externals) \in Nat
          /\ DOMAIN externals = 1 .. Len(externals)
          /\ \A i \in DOMAIN externals :
                /\ externals[i].provides \in Paths
                /\ externals[i].depends \in Seq(Paths)
                /\ Len(externals[i].depends) \in Nat
                /\ DOMAIN externals[i].depends = 1 .. Len(externals[i].depends)
<1> DEFINE Entry == [provides : Paths, depends : Seq(Paths)]
<1>1. externals \in Seq(Entry)
    BY RecipesType
<1> HIDE DEF Entry
<1>2. Len(externals) \in Nat /\ DOMAIN externals = 1 .. Len(externals)
    BY <1>1, LenProperties
<1>3. ASSUME NEW i \in DOMAIN externals
      PROVE externals[i].provides \in Paths /\ externals[i].depends \in Seq(Paths)
    <2>1. externals[i] \in Entry
        BY <1>1, <1>2, ElementOfSeq
    <2> QED BY <2>1 DEF Entry
<1> QED BY <1>2, <1>3, LenProperties

(* What is needed is a closed set, and the least one. *)
LEMMA NeededIsClosed ==
    ASSUME NEW ext, NEW i \in DOMAIN ext, ext[i].provides \in Needed(ext)
    PROVE Needs(ext, i) \subseteq Needed(ext)
<1>1. SUFFICES ASSUME NEW n \in Needs(ext, i) PROVE n \in Needed(ext)
    OBVIOUS
<1>2. n \in Named(ext)
    BY <1>1 DEF Named
<1>3. ASSUME NEW S \in SUBSET Named(ext), Closed(ext, S) PROVE n \in S
    BY <1>1, <1>3 DEF Needed, Closed
<1> QED BY <1>2, <1>3 DEF Needed

LEMMA KernelIsNeeded == ASSUME NEW ext PROVE Kernel \in Needed(ext)
BY DEF Needed, Named, Closed

LEMMA NeededIsLeast ==
    ASSUME NEW ext, NEW S \in SUBSET Named(ext), Closed(ext, S)
    PROVE Needed(ext) \subseteq S
BY DEF Needed

LEMMA ProviderProvides ==
    ASSUME NEW ext, NEW name \in Provides(ext)
    PROVE Provider(ext, name) \in DOMAIN ext /\ ext[Provider(ext, name)].provides = name
BY DEF Provider, Provides

(* With unique names a component is told by its name. *)
LEMMA NameTells ==
    ASSUME NEW ext, Unique(ext), NEW S \in SUBSET DOMAIN ext, NEW i \in DOMAIN ext
    PROVE ext[i].provides \in Names(ext, S) <=> i \in S
BY DEF Unique, Names

-----------------------------------------------------------------------------
(* Begin fails for a good reason, or calls visit for the kernel image. *)
LEMMA BeginSearch == SortInv /\ Begin => SortInv'
<1> SUFFICES ASSUME SortInv, Begin PROVE SortInv'
    OBVIOUS
<1>1. /\ sort = "none" /\ stack = <<>> /\ visited = {} /\ result = <<>>
      /\ externals \in Recipes /\ externals' = externals
      /\ visited' = {} /\ result' = <<>>
    BY DEF SortInv, Begin
<1>2. CASE ~ (Unique(externals) /\ Kernel \in Provides(externals))
    <2>1. sort' = "failed"
        BY <1>2 DEF Begin
    <2>2. ~Sortable(externals)
        BY <1>2, KernelIsNeeded DEF Sortable
    <2>3. ~Sortable(externals)'
        BY <1>1, <2>2
    <2> QED BY <1>1, <2>1, <2>3 DEF SortInv
<1>3. CASE Unique(externals) /\ Kernel \in Provides(externals)
    <2> DEFINE i == Provider(externals, Kernel)
    <2>1. sort' = "visiting" /\ stack' = <<Called(i)>>
        BY <1>3 DEF Begin
    <2>2. i \in DOMAIN externals /\ externals[i].provides = Kernel
        BY <1>3, ProviderProvides
    <2>3. Len(externals[i].depends) \in Nat
        BY <1>1, <2>2, ExternalsType
    <2> HIDE DEF i
    <2>4. stack' \in Seq([of : DOMAIN externals, taken : Nat]) /\ Len(stack') = 1
          /\ stack'[1].of = i /\ stack'[1].taken = 0 /\ DOMAIN stack' = {1} /\ stack' # <<>>
        BY <2>1, <2>2 DEF Called
    <2>5. Unique(externals)'
        BY <1>1, <1>3
    <2>6. StackType'
        BY <1>1, <2>2, <2>3, <2>4 DEF StackType
    <2>7. StackNeeded'
        <3>1. externals[i].provides \in Needed(externals)
            BY <2>2, KernelIsNeeded
        <3>2. Needed(externals)' = Needed(externals)
            BY <1>1
        <3> QED BY <1>1, <2>4, <3>1, <3>2 DEF StackNeeded, Names
    <2>8. StackApart' /\ GoesDown' /\ Taken'
        BY <1>1, <2>4 DEF StackApart, GoesDown, Taken
    <2>9. Resulted' /\ RootBelow'
        <3>1. ToSet(<<>>) = {} /\ DOMAIN <<>> = {}
            BY DEF ToSet
        <3>2. Resulted'
            BY <1>1, <3>1 DEF Resulted
        <3> QED BY <1>1, <2>2, <2>4, <3>2 DEF RootBelow
    <2> QED BY <1>1, <2>1, <2>5, <2>6, <2>7, <2>4, <2>8, <2>9 DEF SortInv, Searching
<1> QED BY <1>2, <1>3

-----------------------------------------------------------------------------
(* The call on top of the stack, and the stack with one dependency more taken    *)
(* up by it.                                                                *)
TakenUp == [stack EXCEPT ![Len(stack)].taken = @ + 1]
Upper == externals[Top.of].depends[Top.taken + 1]

LEMMA StackTop ==
    ASSUME externals \in Recipes, StackType, stack # <<>>
    PROVE /\ Len(stack) \in Nat \ {0} /\ DOMAIN stack = 1 .. Len(stack)
          /\ \A k \in DOMAIN stack : stack[k].of \in DOMAIN externals /\ stack[k].taken \in Nat
          /\ Len(stack) \in DOMAIN stack
<1> DEFINE Call == [of : DOMAIN externals, taken : Nat]
<1>1. stack \in Seq(Call)
    BY DEF StackType
<1> HIDE DEF Call
<1>2. Len(stack) \in Nat \ {0} /\ DOMAIN stack = 1 .. Len(stack)
    BY <1>1, LenProperties, EmptySeq
<1>3. ASSUME NEW k \in DOMAIN stack
      PROVE stack[k].of \in DOMAIN externals /\ stack[k].taken \in Nat
    <2>1. stack[k] \in Call
        BY <1>1, <1>2, ElementOfSeq
    <2> QED BY <2>1 DEF Call
<1> QED BY <1>2, <1>3

LEMMA TakenUpType ==
    ASSUME externals \in Recipes, StackType, stack # <<>>
    PROVE /\ TakenUp \in Seq([of : DOMAIN externals, taken : Nat])
          /\ Len(TakenUp) = Len(stack) /\ DOMAIN TakenUp = DOMAIN stack
          /\ \A k \in DOMAIN stack :
                /\ TakenUp[k].of = stack[k].of
                /\ TakenUp[k].taken = IF k = Len(stack) THEN Top.taken + 1 ELSE stack[k].taken
<1> DEFINE Call == [of : DOMAIN externals, taken : Nat]
           call == [Top EXCEPT !.taken = @ + 1]
<1>1. stack \in Seq(Call) /\ Len(stack) \in 1 .. Len(stack)
      /\ DOMAIN stack = 1 .. Len(stack) /\ Top \in Call
    <2>1. stack \in Seq(Call)
        BY DEF StackType
    <2> HIDE DEF Call
    <2> QED BY <2>1, StackTop, ElementOfSeq DEF Top
<1>2. call \in Call /\ call.of = Top.of /\ call.taken = Top.taken + 1
    BY <1>1
<1>3. TakenUp = [stack EXCEPT ![Len(stack)] = call]
    BY DEF TakenUp, Top
<1> HIDE DEF Call, call
<1>4. /\ TakenUp \in Seq(Call) /\ Len(TakenUp) = Len(stack)
      /\ \A k \in DOMAIN stack : TakenUp[k] = IF k = Len(stack) THEN call ELSE stack[k]
    BY <1>1, <1>2, <1>3, ExceptSeq
<1>5. DOMAIN TakenUp = DOMAIN stack
    BY <1>1, <1>4, LenProperties
<1>6. TakenUp \in Seq([of : DOMAIN externals, taken : Nat])
    BY <1>4 DEF Call
<1> QED BY <1>2, <1>4, <1>5, <1>6 DEF Top

(* What follows from taking up a dependency. *)
LEMMA UpperNeeded ==
    ASSUME externals \in Recipes, Searching, stack # <<>>,
           Top.taken < Len(externals[Top.of].depends)
    PROVE /\ Top.of \in DOMAIN externals /\ Top.taken \in Nat
          /\ Upper \in Needs(externals, Top.of)
          /\ externals[Top.of].provides \in Needed(externals)
          /\ Upper \in Needed(externals)
<1>1. Top.of \in DOMAIN externals /\ Top.taken \in Nat /\ Len(stack) \in DOMAIN stack
    BY StackTop DEF Searching, Top
<1>2. Top.taken + 1 \in DOMAIN externals[Top.of].depends
    BY <1>1, ExternalsType
<1>3. Upper \in Needs(externals, Top.of)
    BY <1>2 DEF Upper, Needs, ToSet
<1>4. externals[Top.of].provides \in Needed(externals)
    BY <1>1 DEF Searching, StackNeeded, Top
<1> QED BY <1>1, <1>3, <1>4, NeededIsClosed

LEMMA FollowMissing ==
    ASSUME SortInv, sort = "visiting", Top.taken < Len(externals[Top.of].depends),
           Upper \notin Provides(externals)
    PROVE ~Sortable(externals)
BY UpperNeeded DEF SortInv, Sortable

(* A dependency on the way here is a cycle: its number would be below itself. *)
LEMMA FollowCycle ==
    ASSUME SortInv, sort = "visiting", Top.taken < Len(externals[Top.of].depends),
           Upper \in Provides(externals), Provider(externals, Upper) \in Marked
    PROVE ~Sortable(externals)
<1> SUFFICES ASSUME NEW rank \in [Named(externals) -> 0 .. Len(externals)],
                    Respects(externals, rank)
             PROVE FALSE
    BY DEF Sortable
<1>1. externals \in Recipes /\ Searching /\ stack # <<>>
    BY DEF SortInv
<1>2. PICK k \in DOMAIN stack : stack[k].of = Provider(externals, Upper)
    BY DEF Marked
<1>3. externals[stack[k].of].provides = Upper
    BY <1>2, ProviderProvides
<1>4. rank[Upper] < rank[externals[Top.of].provides]
    BY <1>1, UpperNeeded DEF Respects
<1>5. /\ Len(stack) \in Nat /\ DOMAIN stack = 1 .. Len(stack) /\ Len(stack) \in DOMAIN stack
      /\ Len(externals) \in Nat
    BY <1>1, StackTop, ExternalsType DEF Searching
<1>6. rank \in [Named(externals) -> Nat]
    BY <1>5
<1>7. Upper \in Named(externals) /\ externals[Top.of].provides \in Named(externals)
    BY <1>1, UpperNeeded DEF Needed
<1>8. rank[Upper] \in Nat /\ rank[externals[Top.of].provides] \in Nat
    BY <1>6, <1>7
<1>9. CASE k = Len(stack)
    BY <1>3, <1>4, <1>8, <1>9 DEF Top
<1>10. CASE k < Len(stack)
    <2>1. rank[externals[Top.of].provides] < rank[Upper]
        BY <1>1, <1>3, <1>5, <1>6, <1>10 DEF Searching, GoesDown, Top
    <2> QED BY <1>4, <1>8, <2>1
<1> QED BY <1>5, <1>9, <1>10

(* A dependency that was visited is taken up. *)
LEMMA FollowVisited ==
    ASSUME SortInv, sort = "visiting", Top.taken < Len(externals[Top.of].depends),
           Upper \in Provides(externals), Provider(externals, Upper) \in visited,
           stack' = TakenUp, UNCHANGED <<externals, sort, visited, result>>
    PROVE SortInv'
<1>1. externals \in Recipes /\ Searching /\ stack # <<>> /\ StackType
    BY DEF SortInv, Searching
<1>2. /\ stack' \in Seq([of : DOMAIN externals, taken : Nat])
      /\ Len(stack') = Len(stack) /\ DOMAIN stack' = DOMAIN stack
      /\ \A k \in DOMAIN stack :
            /\ stack'[k].of = stack[k].of
            /\ stack'[k].taken = IF k = Len(stack) THEN Top.taken + 1 ELSE stack[k].taken
    BY <1>1, TakenUpType
<1>3. /\ Len(stack) \in Nat \ {0} /\ DOMAIN stack = 1 .. Len(stack)
      /\ \A k \in DOMAIN stack : stack[k].of \in DOMAIN externals /\ stack[k].taken \in Nat
    BY <1>1, StackTop
<1>4. stack' # <<>>
    BY <1>2, <1>3, EmptySeq
<1>5. Top.of \in DOMAIN externals /\ Top.taken \in Nat /\ Len(externals[Top.of].depends) \in Nat
    BY <1>1, <1>3, ExternalsType DEF Top
<1>6. StackType'
    <2>1. ASSUME NEW k \in DOMAIN stack PROVE stack'[k].taken <= Len(externals[stack'[k].of].depends)
        <3>1. CASE k = Len(stack)
            <4>1. stack'[k].taken = Top.taken + 1 /\ stack'[k].of = Top.of
                BY <1>2, <3>1 DEF Top
            <4> QED BY <1>5, <4>1
        <3>2. CASE k # Len(stack)
            BY <1>1, <1>2, <3>2 DEF StackType
        <3> QED BY <3>1, <3>2
    <2> QED BY <1>1, <1>2, <2>1 DEF StackType
<1>7. StackNeeded' /\ StackApart'
    <2>1. StackNeeded /\ StackApart
        BY <1>1 DEF Searching
    <2>2. StackNeeded'
        BY <1>2, <2>1 DEF StackNeeded
    <2>3. StackApart'
        BY <1>2, <2>1 DEF StackApart
    <2> QED BY <2>2, <2>3
<1>12. Resulted' /\ RootBelow'
    BY <1>1, <1>2, <1>3, <1>4 DEF Searching, Resulted, RootBelow
<1>8. GoesDown'
    BY <1>1, <1>2, <1>3 DEF Searching, GoesDown
<1>9. Upper \in Names(externals, visited)
    BY ProviderProvides DEF Names
<1>10. Taken'
    <2> SUFFICES ASSUME NEW k \in DOMAIN stack, NEW d \in 1 .. stack'[k].taken
                 PROVE LET name == externals[stack[k].of].depends[d] IN
                       \/ name \in Names(externals, visited)
                       \/ k < Len(stack) /\ d = stack'[k].taken
                            /\ name = externals[stack[k + 1].of].provides
        BY <1>2, <1>3 DEF Taken
    <2>1. CASE k = Len(stack) /\ d = Top.taken + 1
        BY <1>9, <2>1 DEF Upper, Top
    <2>2. CASE k = Len(stack) /\ d \in 1 .. Top.taken
        BY <1>1, <1>3, <2>2 DEF Searching, Taken, Top
    <2>3. CASE k # Len(stack)
        BY <1>1, <1>2, <1>3, <2>3 DEF Searching, Taken
    <2> QED BY <1>2, <1>3, <1>5, <2>1, <2>2, <2>3
<1>11. Unique(externals)' /\ sort' = "visiting"
    BY <1>1 DEF Searching
<1> QED BY <1>1, <1>4, <1>6, <1>7, <1>8, <1>10, <1>11, <1>12 DEF SortInv, Searching

(* A dependency that was not is visited: a call is pushed on the stack. *)
LEMMA FollowCall ==
    ASSUME SortInv, sort = "visiting", Top.taken < Len(externals[Top.of].depends),
           Upper \in Provides(externals), Provider(externals, Upper) \notin Marked \cup visited,
           UNCHANGED <<externals, sort, visited, result>>
    PROVE stack' = Append(TakenUp, Called(Provider(externals, Upper))) => SortInv'
<1>0. SUFFICES ASSUME stack' = Append(TakenUp, Called(Provider(externals, Upper)))
               PROVE SortInv'
    OBVIOUS
<1> DEFINE Call == [of : DOMAIN externals, taken : Nat]
<1>1. /\ externals \in Recipes /\ Searching /\ stack # <<>> /\ Unique(externals)
      /\ StackType /\ StackNeeded /\ StackApart /\ GoesDown /\ Taken /\ Resulted /\ RootBelow
    BY DEF SortInv, Searching
<1>2. PICK i : i = Provider(externals, Upper)
    OBVIOUS
<1>3. i \in DOMAIN externals /\ externals[i].provides = Upper /\ Called(i) \in Call
      /\ i \notin visited /\ (\A k \in DOMAIN stack : stack[k].of # i)
    BY <1>2, ProviderProvides DEF Called, Marked
<1>4. PICK n \in Nat \ {0} : n = Len(stack) /\ DOMAIN stack = 1 .. n
    BY <1>1, StackTop
<1>5. /\ \A k \in 1 .. n : stack[k].of \in DOMAIN externals /\ stack[k].taken \in Nat
      /\ Top = stack[n] /\ n \in 1 .. n
    BY <1>1, <1>4, StackTop DEF Top
<1>6. /\ TakenUp \in Seq(Call) /\ Len(TakenUp) = n
      /\ \A k \in 1 .. n :
            /\ TakenUp[k].of = stack[k].of
            /\ TakenUp[k].taken = IF k = n THEN Top.taken + 1 ELSE stack[k].taken
    BY <1>1, <1>4, TakenUpType
<1>7. /\ stack' \in Seq([of : DOMAIN externals, taken : Nat])
      /\ DOMAIN stack' = 1 .. (n + 1) /\ stack' # <<>> /\ Len(stack') = n + 1
      /\ \A k \in 1 .. n : stack'[k] = TakenUp[k]
      /\ stack'[n + 1] = Called(i)
    <2>1. stack' = Append(TakenUp, Called(i))
        BY <1>0, <1>2
    <2> HIDE DEF Call
    <2>2. /\ stack' \in Seq(Call) /\ stack' # <<>> /\ Len(stack') = n + 1
          /\ \A k \in 1 .. n : stack'[k] = TakenUp[k]
          /\ stack'[n + 1] = Called(i)
        BY <1>3, <1>6, <2>1, AppendProperties
    <2>3. DOMAIN stack' = 1 .. (n + 1)
        BY <2>2, LenProperties
    <2> QED BY <2>2, <2>3 DEF Call
<1> HIDE DEF Call
<1>8. stack'[n + 1].of = i /\ stack'[n + 1].taken = 0
    BY <1>7 DEF Called
<1>9. ASSUME NEW k \in 1 .. n
      PROVE /\ stack'[k].of = stack[k].of
            /\ stack'[k].taken = IF k = n THEN Top.taken + 1 ELSE stack[k].taken
    BY <1>6, <1>7
<1>10. /\ Top.of \in DOMAIN externals /\ Top.taken \in Nat
       /\ Len(externals[Top.of].depends) \in Nat /\ Len(externals[i].depends) \in Nat
    BY <1>1, <1>3, <1>5, ExternalsType
<1>11. 1 .. (n + 1) = 1 .. n \cup {n + 1} /\ n + 1 \notin 1 .. n
    BY <1>4
<1>12. StackType'
    <2>1. ASSUME NEW k \in 1 .. n
          PROVE stack'[k].taken <= Len(externals[stack'[k].of].depends)
        <3>1. CASE k = n
            BY <1>5, <1>9, <1>10, <3>1
        <3>2. CASE k # n
            BY <1>1, <1>4, <1>9, <3>2 DEF StackType
        <3> QED BY <3>1, <3>2
    <2>2. stack'[n + 1].taken <= Len(externals[stack'[n + 1].of].depends)
        BY <1>8, <1>10
    <2>3. \A k \in DOMAIN stack' : stack'[k].taken <= Len(externals[stack'[k].of].depends)
        BY <1>7, <1>11, <2>1, <2>2
    <2> QED BY <1>1, <1>7, <2>3 DEF StackType
<1>13. StackNeeded'
    <2>1. externals[stack'[n + 1].of].provides \in Needed(externals)
        BY <1>1, <1>3, <1>8, UpperNeeded
    <2>2. ASSUME NEW k \in 1 .. n PROVE externals[stack'[k].of].provides \in Needed(externals)
        BY <1>1, <1>4, <1>9 DEF StackNeeded
    <2>3. \A k \in DOMAIN stack' : externals[stack'[k].of].provides \in Needed(externals)
        BY <1>7, <1>11, <2>1, <2>2
    <2> QED BY <1>1, <2>3 DEF StackNeeded
<1>14. StackApart'
    <2>1. \A k \in 1 .. n : stack'[k].of \notin visited /\ stack'[k].of # i
        BY <1>1, <1>3, <1>4, <1>9 DEF StackApart
    <2>2. \A k \in DOMAIN stack' : stack'[k].of \notin visited
        BY <1>3, <1>7, <1>8, <1>11, <2>1
    <2>3. \A j, k \in 1 .. n : j # k => stack'[j].of # stack'[k].of
        BY <1>1, <1>4, <1>9 DEF StackApart
    <2>4. \A j, k \in DOMAIN stack' : j # k => stack'[j].of # stack'[k].of
        BY <1>7, <1>8, <1>11, <2>1, <2>3
    <2> QED BY <2>2, <2>4 DEF StackApart
<1>15. GoesDown'
    <2> SUFFICES ASSUME NEW rank \in [Named(externals) -> Nat], Respects(externals, rank)
                 PROVE \A j, k \in DOMAIN stack' : j < k =>
                         rank[externals[stack'[k].of].provides]
                           < rank[externals[stack'[j].of].provides]
        BY DEF GoesDown
    <2>1. ASSUME NEW j \in 1 .. n, NEW k \in 1 .. n, j < k
          PROVE rank[externals[stack'[k].of].provides] < rank[externals[stack'[j].of].provides]
        BY <1>1, <1>4, <1>9, <2>1 DEF GoesDown
    <2>2. ASSUME NEW j \in 1 .. n
          PROVE rank[externals[stack'[n + 1].of].provides]
                  < rank[externals[stack'[j].of].provides]
        <3>1. rank[Upper] < rank[externals[Top.of].provides]
            BY <1>1, UpperNeeded DEF Respects
        <3>2. Upper \in Named(externals) /\ externals[Top.of].provides \in Named(externals)
            BY <1>1, UpperNeeded DEF Needed
        <3>3. externals[stack[j].of].provides \in Named(externals)
            BY <1>1, <1>4 DEF StackNeeded, Needed
        <3>4. \/ j = n
              \/ rank[externals[Top.of].provides] < rank[externals[stack[j].of].provides]
            <4>1. CASE j # n
                <5>1. j \in DOMAIN stack /\ n \in DOMAIN stack /\ j < n
                    BY <1>4, <4>1
                <5> QED BY <1>1, <1>5, <5>1 DEF GoesDown
            <4> QED BY <4>1
        <3>5. rank[Upper] < rank[externals[stack[j].of].provides]
            BY <1>5, <3>1, <3>2, <3>3, <3>4
        <3> QED BY <1>3, <1>8, <1>9, <3>5
    <2>3. ASSUME NEW j \in 1 .. (n + 1), NEW k \in 1 .. (n + 1), j < k
          PROVE rank[externals[stack'[k].of].provides] < rank[externals[stack'[j].of].provides]
        <3>1. j \in 1 .. n /\ (k \in 1 .. n \/ k = n + 1)
            BY <1>4, <2>3
        <3> QED BY <2>1, <2>2, <2>3, <3>1
    <2> QED BY <1>7, <2>3
<1>16. Taken'
    <2> SUFFICES ASSUME NEW k \in 1 .. (n + 1), NEW d \in 1 .. stack'[k].taken
                 PROVE LET name == externals[stack'[k].of].depends[d] IN
                       \/ name \in Names(externals, visited)
                       \/ k < n + 1 /\ d = stack'[k].taken
                            /\ name = externals[stack'[k + 1].of].provides
        BY <1>7 DEF Taken
    <2>4. k \in 1 .. n /\ stack'[k].of = stack[k].of
        BY <1>4, <1>8, <1>9
    <2>1. CASE k = n /\ d = Top.taken + 1
        BY <1>3, <1>5, <1>8, <1>9, <2>1, <2>4 DEF Upper
    <2>2. CASE k = n /\ d \in 1 .. Top.taken
        BY <1>1, <1>4, <1>5, <2>2, <2>4 DEF Taken
    <2>3. CASE k < n
        <3>1. k + 1 \in 1 .. n /\ stack'[k + 1].of = stack[k + 1].of /\ stack'[k].taken = stack[k].taken
            BY <1>4, <1>9, <2>3
        <3> QED BY <1>1, <1>4, <2>3, <2>4, <3>1 DEF Taken
    <2> QED BY <1>4, <1>9, <1>10, <2>1, <2>2, <2>3, <2>4
<1>17. Resulted' /\ RootBelow'
    <2>1. stack'[1].of = stack[1].of
        BY <1>4, <1>9
    <2> QED BY <1>1, <1>7, <2>1 DEF Resulted, RootBelow
<1> QED BY <1>1, <1>7, <1>12, <1>13, <1>14, <1>15, <1>16, <1>17 DEF SortInv, Searching

LEMMA FollowSearch == SortInv /\ Follow => SortInv'
<1> SUFFICES ASSUME SortInv, Follow PROVE SortInv'
    OBVIOUS
<1>1. /\ sort = "visiting" /\ Top.taken < Len(externals[Top.of].depends)
      /\ UNCHANGED <<externals, visited, result>>
    BY DEF Follow
<1>2. externals \in Recipes
    BY DEF SortInv
<1>3. ASSUME ~Sortable(externals), sort' = "failed" PROVE SortInv'
    BY <1>1, <1>2, <1>3 DEF SortInv
<1>4. CASE Upper \notin Provides(externals) /\ sort' = "failed"
    BY <1>1, <1>3, <1>4, FollowMissing
<1>5. CASE /\ Upper \in Provides(externals) /\ Provider(externals, Upper) \in visited
           /\ stack' = TakenUp /\ UNCHANGED sort
    BY <1>1, <1>5, FollowVisited
<1>6. CASE /\ Upper \in Provides(externals) /\ Provider(externals, Upper) \in Marked
           /\ sort' = "failed"
    BY <1>1, <1>3, <1>6, FollowCycle
<1>7. CASE /\ Upper \in Provides(externals)
           /\ Provider(externals, Upper) \notin Marked \cup visited
           /\ stack' = Append(TakenUp, Called(Provider(externals, Upper))) /\ UNCHANGED sort
    BY <1>1, <1>7, FollowCall
<1> QED BY <1>4, <1>5, <1>6, <1>7 DEF Follow, TakenUp, Upper

(* visit returns: all that the component depends on was visited. *)
LEMMA LeaveSearch == SortInv /\ Leave => SortInv'
<1>0. SUFFICES ASSUME SortInv, Leave PROVE SortInv'
    OBVIOUS
<1>1. /\ externals \in Recipes /\ Searching /\ stack # <<>> /\ Unique(externals)
      /\ StackType /\ StackNeeded /\ StackApart /\ GoesDown /\ Taken /\ Resulted /\ RootBelow
      /\ sort = "visiting"
    BY <1>0 DEF SortInv, Searching, Leave
<1>2. PICK n \in Nat \ {0} : n = Len(stack) /\ DOMAIN stack = 1 .. n
    BY <1>1, StackTop
<1>3. PICK i : i = Top.of
    OBVIOUS
<1>4. /\ \A k \in 1 .. n : stack[k].of \in DOMAIN externals /\ stack[k].taken \in Nat
      /\ Top = stack[n] /\ n \in 1 .. n /\ i \in DOMAIN externals /\ stack[n].of = i
    BY <1>1, <1>2, <1>3, StackTop DEF Top
<1>5. /\ Top.taken = Len(externals[i].depends) /\ Len(externals[i].depends) \in Nat
      /\ DOMAIN externals[i].depends = 1 .. Len(externals[i].depends)
    BY <1>0, <1>1, <1>3, <1>4, ExternalsType DEF Leave
<1>6. /\ visited' = visited \cup {i} /\ externals' = externals
      /\ sort' = IF n = 1 THEN "sorted" ELSE "visiting"
    BY <1>0, <1>1, <1>2, <1>3 DEF Leave
<1>7. /\ stack' \in Seq([of : DOMAIN externals, taken : Nat])
      /\ Len(stack') = n - 1 /\ DOMAIN stack' = 1 .. (n - 1)
      /\ \A k \in 1 .. (n - 1) : stack'[k] = stack[k]
      /\ stack' = <<>> <=> n = 1
    <2> DEFINE Call == [of : DOMAIN externals, taken : Nat]
    <2>1. stack \in Seq(Call)
        BY <1>1 DEF StackType
    <2> HIDE DEF Call
    <2>2. stack' = SubSeq(stack, 1, n - 1) /\ n - 1 \in Int
        BY <1>0, <1>2 DEF Leave, Front
    <2>3. \A k \in 1 .. (n - 1) : stack[k] \in Call
        BY <1>2, <2>1, ElementOfSeq
    <2>4. /\ stack' \in Seq(Call) /\ Len(stack') = n - 1
          /\ \A k \in 1 .. (n - 1) : stack'[k] = stack[k]
        BY <1>2, <2>2, <2>3, SubSeqProperties
    <2>5. DOMAIN stack' = 1 .. (n - 1)
        BY <2>4, LenProperties
    <2>6. stack' = <<>> <=> n = 1
        BY <1>2, <2>4, EmptySeq
    <2> QED BY <2>4, <2>5, <2>6 DEF Call
<1>8. PICK m \in Nat : m = Len(result) /\ DOMAIN result = 1 .. m
    BY <1>1, LenProperties DEF StackType
<1>9. /\ result' \in Seq(DOMAIN externals) /\ DOMAIN result' = 1 .. (m + 1)
      /\ \A k \in 1 .. m : result'[k] = result[k]
      /\ result'[m + 1] = i
    <2>1. result' = Append(result, i) /\ result \in Seq(DOMAIN externals)
        BY <1>0, <1>1, <1>3 DEF Leave, StackType
    <2>2. /\ result' \in Seq(DOMAIN externals) /\ Len(result') = m + 1
          /\ \A k \in 1 .. m : result'[k] = result[k]
          /\ result'[m + 1] = i
        BY <1>4, <1>8, <2>1, AppendProperties
    <2> QED BY <2>2, LenProperties
<1>10. 1 .. (m + 1) = 1 .. m \cup {m + 1} /\ m + 1 \notin 1 .. m
    BY <1>8
<1>11. 1 .. (n - 1) \subseteq 1 .. n /\ n \notin 1 .. (n - 1)
    BY <1>2
<1>12. StackType'
    BY <1>1, <1>2, <1>4, <1>6, <1>7, <1>9, <1>11 DEF StackType
<1>13. StackNeeded'
    <2>1. externals[i].provides \in Needed(externals)
        BY <1>1, <1>2, <1>4 DEF StackNeeded
    <2>2. Names(externals, visited') \subseteq Needed(externals)
        BY <1>1, <1>6, <2>1 DEF StackNeeded, Names
    <2> QED BY <1>1, <1>2, <1>6, <1>7, <1>11, <2>2 DEF StackNeeded
<1>14. StackApart'
    <2>1. ASSUME NEW k \in 1 .. (n - 1) PROVE stack'[k].of \notin visited' /\ stack'[k].of = stack[k].of
        <3>1. k \in 1 .. n /\ k # n /\ stack'[k] = stack[k]
            BY <1>7, <1>11
        <3>2. stack[k].of \notin visited /\ stack[k].of # stack[n].of
            BY <1>1, <1>2, <1>4, <3>1 DEF StackApart
        <3> QED BY <1>4, <1>6, <3>1, <3>2
    <2>2. ASSUME NEW j \in 1 .. (n - 1), NEW k \in 1 .. (n - 1), j # k
          PROVE stack'[j].of # stack'[k].of
        BY <1>1, <1>2, <1>11, <2>1, <2>2 DEF StackApart
    <2> QED BY <1>7, <2>1, <2>2 DEF StackApart
<1>15. GoesDown'
    <2> SUFFICES ASSUME NEW rank \in [Named(externals) -> Nat], Respects(externals, rank),
                        NEW j \in 1 .. (n - 1), NEW k \in 1 .. (n - 1), j < k
                 PROVE rank[externals[stack'[k].of].provides]
                         < rank[externals[stack'[j].of].provides]
        BY <1>6, <1>7 DEF GoesDown
    <2>1. j \in 1 .. n /\ k \in 1 .. n /\ stack'[j] = stack[j] /\ stack'[k] = stack[k]
        BY <1>7, <1>11
    <2> QED BY <1>1, <1>2, <2>1 DEF GoesDown
<1>16. ASSUME NEW d \in 1 .. Len(externals[i].depends)
       PROVE externals[i].depends[d] \in Names(externals, visited)
    BY <1>1, <1>2, <1>4, <1>5 DEF Taken
<1>17. Names(externals, visited') = Names(externals, visited) \cup {externals[i].provides}
    BY <1>6 DEF Names
<1>18. Taken'
    <2> SUFFICES ASSUME NEW k \in 1 .. (n - 1), NEW d \in 1 .. stack[k].taken
                 PROVE LET name == externals[stack[k].of].depends[d] IN
                       \/ name \in Names(externals, visited')
                       \/ k < n - 1 /\ d = stack[k].taken
                            /\ name = externals[stack'[k + 1].of].provides
        BY <1>6, <1>7, ZenonT(40) DEF Taken
    <2>1. k \in 1 .. n /\ (k + 1 = n \/ k + 1 \in 1 .. (n - 1)) /\ k < n
        BY <1>2
    <2>2. \/ externals[stack[k].of].depends[d] \in Names(externals, visited)
          \/ /\ d = stack[k].taken
             /\ externals[stack[k].of].depends[d] = externals[stack[k + 1].of].provides
        BY <1>1, <1>2, <2>1 DEF Taken
    <2>3. k + 1 = n => externals[stack[k + 1].of].provides \in Names(externals, visited')
        BY <1>4, <1>17
    <2>4. k + 1 \in 1 .. (n - 1) => stack'[k + 1] = stack[k + 1] /\ k < n - 1
        BY <1>2, <1>7
    <2> QED BY <1>17, <2>1, <2>2, <2>3, <2>4
<1>19. Resulted'
    <2>1. visited' = ToSet(result')
        <3>1. visited = {result[k] : k \in 1 .. m}
            BY <1>1, <1>8 DEF Resulted, ToSet
        <3>2. ToSet(result') = {result'[k] : k \in 1 .. (m + 1)}
            BY <1>9 DEF ToSet
        <3>3. {result'[k] : k \in 1 .. (m + 1)} = {result[k] : k \in 1 .. m} \cup {i}
            BY <1>9, <1>10
        <3> QED BY <1>6, <3>1, <3>2, <3>3
    <2>2. i \notin visited
        BY <1>1, <1>2, <1>4 DEF StackApart
    <2>3. \A k \in 1 .. m : result[k] \in visited
        BY <1>1, <1>8 DEF Resulted, ToSet
    <2>4. \A j, k \in DOMAIN result' : result'[j] = result'[k] => j = k
        BY <1>1, <1>8, <1>9, <1>10, <2>2, <2>3 DEF Resulted
    <2>5. ASSUME NEW k \in 1 .. m, NEW name \in Needs(externals, result'[k])
          PROVE \E j \in 1 .. (k - 1) : name = externals[result'[j]].provides
        <3>0. k \in DOMAIN result /\ name \in Needs(externals, result[k])
            BY <1>8, <1>9
        <3>1. PICK j \in 1 .. (k - 1) : name = externals[result[j]].provides
            BY <1>1, <3>0 DEF Resulted
        <3>2. j \in 1 .. m
            BY <1>8, <3>1
        <3> QED BY <1>9, <3>1, <3>2
    <2>6. ASSUME NEW name \in Needs(externals, i)
          PROVE \E j \in 1 .. m : name = externals[result'[j]].provides
        <3>1. name \in Names(externals, visited)
            BY <1>5, <1>16 DEF Needs, ToSet
        <3>2. PICK c \in visited : name = externals[c].provides
            BY <3>1 DEF Names
        <3>3. PICK j \in 1 .. m : c = result[j]
            BY <1>1, <1>8, <3>2 DEF Resulted, ToSet
        <3> QED BY <1>9, <3>2, <3>3
    <2>7. ASSUME NEW k \in DOMAIN result', NEW name \in Needs(externals, result'[k])
          PROVE \E j \in 1 .. (k - 1) : name = externals[result'[j]].provides
        <3>1. CASE k \in 1 .. m
            BY <2>5, <3>1
        <3>2. CASE k = m + 1
            <4>1. k - 1 = m /\ result'[k] = i
                BY <1>8, <1>9, <3>2
            <4> QED BY <2>6, <4>1
        <3> QED BY <1>9, <1>10, <3>1, <3>2
    <2> QED BY <1>6, <2>1, <2>4, <2>7 DEF Resulted
<1>20. RootBelow'
    <2>1. CASE n = 1
        BY <1>1, <1>4, <1>6, <1>7, <1>17, <2>1 DEF RootBelow
    <2>2. CASE n # 1
        <3>1. 1 \in 1 .. (n - 1)
            BY <1>2, <2>2
        <3> QED BY <1>1, <1>6, <1>7, <2>2, <3>1 DEF RootBelow
    <2> QED BY <2>1, <2>2
<1>21. Searching'
    BY <1>1, <1>6, <1>12, <1>13, <1>14, <1>15, <1>18, <1>19, <1>20 DEF Searching
<1> QED BY <1>1, <1>6, <1>7, <1>21 DEF SortInv

LEMMA ReturnSearch == SortInv /\ Return => SortInv'
BY DEF SortInv, Return

LEMMA SortStutter == SortInv /\ UNCHANGED sorting => SortInv'
<1> SUFFICES ASSUME SortInv, UNCHANGED sorting PROVE SortInv'
    OBVIOUS
<1>1. externals' = externals /\ sort' = sort /\ stack' = stack /\ visited' = visited /\ result' = result
    BY DEF sorting, local
<1>2. Searching' = Searching
    BY <1>1 DEF Searching, StackType, StackNeeded, StackApart, GoesDown, Taken, Resulted, RootBelow
<1> QED BY <1>1, <1>2 DEF SortInv

-----------------------------------------------------------------------------
(* When the stack is empty, what was visited is what is needed: it is closed, and *)
(* all of it is needed. *)
LEMMA VisitedIsNeeded ==
    ASSUME externals \in Recipes, Searching, stack = <<>>
    PROVE Names(externals, visited) = Needed(externals)
<1> DEFINE S == Names(externals, visited)
<1>1. /\ Unique(externals) /\ visited \in SUBSET DOMAIN externals /\ S \subseteq Needed(externals)
      /\ Kernel \in S /\ Resulted
    BY DEF Searching, StackType, StackNeeded, RootBelow
<1>2. S \subseteq Named(externals)
    BY <1>1 DEF Needed
<1>3. ASSUME NEW i \in DOMAIN externals, externals[i].provides \in S
      PROVE Needs(externals, i) \subseteq S
    <2>1. i \in visited
        BY <1>1, <1>3, NameTells
    <2>2. PICK k \in DOMAIN result : result[k] = i
        BY <1>1, <2>1 DEF Resulted, ToSet
    <2>3. ASSUME NEW name \in Needs(externals, i) PROVE name \in S
        <3>1. PICK j \in 1 .. (k - 1) : name = externals[result[j]].provides
            BY <1>1, <2>2 DEF Resulted
        <3>2. result \in Seq(DOMAIN externals)
            BY DEF Searching, StackType
        <3>3. DOMAIN result = 1 .. Len(result) /\ Len(result) \in Nat
            BY <3>2, LenProperties
        <3>4. j \in DOMAIN result
            BY <3>1, <3>3
        <3>5. result[j] \in visited
            BY <1>1, <3>4 DEF Resulted, ToSet
        <3> QED BY <3>1, <3>5 DEF Names
    <2> QED BY <2>3
<1>4. Closed(externals, S)
    BY <1>1, <1>3 DEF Closed
<1> HIDE DEF S
<1>5. Needed(externals) \subseteq S
    BY <1>2, <1>4, NeededIsLeast
<1> QED BY <1>1, <1>5 DEF S

(* The place in the result numbers the components. *)
LEMMA SortedIsSortable ==
    ASSUME externals \in Recipes, Searching, stack = <<>>
    PROVE Sortable(externals)
<1>1. /\ Unique(externals) /\ Resulted /\ visited \subseteq DOMAIN externals
      /\ Names(externals, visited) = Needed(externals)
      /\ result \in Seq(DOMAIN externals)
    BY VisitedIsNeeded DEF Searching, StackType
<1>2. Needed(externals) \subseteq Provides(externals)
    BY <1>1 DEF Names, Provides
<1>3. PICK m \in Nat : m = Len(result) /\ DOMAIN result = 1 .. m /\ result \in [1 .. m -> DOMAIN externals]
    BY <1>1, LenProperties
<1>4. Len(externals) \in Nat /\ DOMAIN externals = 1 .. Len(externals)
    BY ExternalsType
<1>5. m <= Len(externals)
    <2>1. result \in Injection(1 .. m, 1 .. Len(externals))
        BY <1>1, <1>3, <1>4 DEF Resulted, Injection, IsInjective
    <2>2. /\ IsFiniteSet(1 .. Len(externals)) /\ Cardinality(1 .. Len(externals)) = Len(externals)
          /\ Cardinality(1 .. m) = m
        <3>1. ASSUME NEW l \in Nat PROVE IsFiniteSet(1 .. l) /\ Cardinality(1 .. l) = l
            <4>1. 1 \in Int /\ l \in Int
                OBVIOUS
            <4>2. IsFiniteSet(1 .. l) /\ Cardinality(1 .. l) = IF 1 > l THEN 0 ELSE l - 1 + 1
                BY <4>1, FS_Interval
            <4> QED BY <4>2
        <3> QED BY <1>4, <3>1
    <2> QED BY <2>1, <2>2, FS_Injection
<1> DEFINE Place(name) == CHOOSE k \in 1 .. m : externals[result[k]].provides = name
           rank == [name \in Named(externals) |-> IF name \in Needed(externals) THEN Place(name) ELSE 0]
<1>6. ASSUME NEW name \in Needed(externals)
      PROVE Place(name) \in 1 .. m /\ externals[result[Place(name)]].provides = name
    <2>1. PICK c \in visited : name = externals[c].provides
        BY <1>1 DEF Names
    <2>2. PICK k \in 1 .. m : c = result[k]
        BY <1>1, <1>3, <2>1 DEF Resulted, ToSet
    <2> QED BY <2>1, <2>2
<1>7. rank \in [Named(externals) -> 0 .. Len(externals)]
    <2>1. ASSUME NEW name \in Named(externals)
          PROVE (IF name \in Needed(externals) THEN Place(name) ELSE 0) \in 0 .. Len(externals)
        <3> HIDE DEF Place
        <3>1. 1 .. m \subseteq 0 .. Len(externals) /\ 0 \in 0 .. Len(externals)
            BY <1>3, <1>4, <1>5
        <3> QED BY <1>6, <3>1
    <2> HIDE DEF Place
    <2> QED BY <2>1
<1>8. ASSUME NEW i \in DOMAIN externals, externals[i].provides \in Needed(externals),
             NEW name \in Needs(externals, i)
      PROVE rank[name] < rank[externals[i].provides]
    <2>1. name \in Needed(externals)
        BY <1>8, NeededIsClosed
    <2> DEFINE p == Place(externals[i].provides)
               q == Place(name)
    <2>2. rank[name] = q /\ rank[externals[i].provides] = p
        BY <1>8, <2>1 DEF Needed
    <2>3. p \in 1 .. m /\ result[p] \in DOMAIN externals /\ externals[result[p]].provides = externals[i].provides
        BY <1>3, <1>6, <1>8
    <2>4. q \in 1 .. m /\ result[q] \in DOMAIN externals /\ externals[result[q]].provides = name
        BY <1>3, <1>6, <2>1
    <2> HIDE DEF p, q
    <2>5. result[p] = i
        BY <1>1, <2>3 DEF Unique
    <2>6. PICK j \in 1 .. (p - 1) : name = externals[result[j]].provides
        BY <1>1, <1>3, <2>3, <2>5 DEF Resulted
    <2>7. j \in 1 .. m /\ j < p /\ result[j] \in DOMAIN externals
        BY <1>3, <2>3, <2>6
    <2>8. result[j] = result[q]
        BY <1>1, <2>4, <2>6, <2>7 DEF Unique
    <2>9. j = q
        BY <1>1, <1>3, <2>4, <2>7, <2>8 DEF Resulted
    <2> QED BY <2>2, <2>7, <2>9
<1>9. Respects(externals, rank)
    <2> HIDE DEF rank
    <2> QED BY <1>8 DEF Respects
<1> HIDE DEF rank
<1> QED BY <1>1, <1>2, <1>7, <1>9 DEF Sortable

(* Sort is right: what it fails on cannot be sorted; what it returns is what is    *)
(* needed, each component once and after all that it depends on.             *)
LEMMA SortInvIsRight == SortInv => SortsRight
<1> SUFFICES ASSUME SortInv, sort = "sorted"
             PROVE /\ Sortable(externals)
                   /\ {externals[result[k]].provides : k \in DOMAIN result} = Needed(externals)
                   /\ IsInjective(result)
                   /\ \A k \in DOMAIN result : Needs(externals, result[k])
                        \subseteq {externals[result[j]].provides : j \in 1 .. (k - 1)}
    BY DEF SortInv, SortsRight
<1>1. externals \in Recipes /\ Searching /\ stack = <<>> /\ Resulted
    BY DEF SortInv, Searching
<1>2. Names(externals, visited) = {externals[result[k]].provides : k \in DOMAIN result}
    BY <1>1 DEF Names, Resulted, ToSet
<1> QED BY <1>1, <1>2, VisitedIsNeeded, SortedIsSortable DEF Resulted, IsInjective

-----------------------------------------------------------------------------
(* The steps of a run: their paths, and that they are the plan once it is sorted. *)
LEMMA OthersType ==
    /\ Len(Others) \in Nat \ {0} /\ DOMAIN Others = 1 .. Len(Others)
    /\ \A k \in DOMAIN Others : Others[k] \in StepType
<1>1. Others \in Seq(StepType) /\ Others # <<>>
    BY OthersInOrder DEF StepType
<1> QED BY <1>1, LenProperties, ElementOfSeq, EmptySeq

LEMMA ComponentType ==
    ASSUME externals \in Recipes, NEW i \in DOMAIN externals
    PROVE Component(i) \in StepType /\ Component(i).target = externals[i].provides
          /\ Component(i).depends = externals[i].depends
BY ExternalsType DEF Component, StepType

LEMMA RunStepsType ==
    ASSUME externals \in Recipes, NEW s \in RunSteps
    PROVE /\ s \in StepType /\ s.target \in Paths /\ ToSet(s.depends) \subseteq Paths
          /\ s.target \in Targets /\ s.target \notin Sources
<1>1. s \in StepType /\ s.target \in Targets /\ s.target \notin Sources
    <2>1. CASE s \in ToSet(Others)
        BY <2>1, OthersType, OthersInOrder DEF ToSet, Targets
    <2>2. ASSUME NEW i \in DOMAIN externals, s = Component(i)
          PROVE s \in StepType /\ s.target \in Targets /\ s.target \notin Sources
        BY <2>2, ComponentType, FilesApart DEF Targets, Provides
    <2> QED BY <2>1, <2>2 DEF RunSteps
<1>2. s.target \in Paths /\ s.depends \in Seq(Paths)
    BY <1>1 DEF StepType
<1>3. DOMAIN s.depends = 1 .. Len(s.depends) /\ \A j \in 1 .. Len(s.depends) : s.depends[j] \in Paths
    BY <1>2, LenProperties, ElementOfSeq
<1> QED BY <1>1, <1>2, <1>3 DEF ToSet

(* What the sort returns, and the other targets after it, is a plan. *)
LEMMA PlanIsSorted ==
    ASSUME SortInv, sort = "sorted"
    PROVE LET p == Components \o Others IN
          /\ p \in Seq(StepType) /\ 1 \in DOMAIN p
          /\ ToSet(p) = RunSteps
          /\ \A j, k \in DOMAIN p : p[j].target = p[k].target => j = k
          /\ \A j, k \in DOMAIN p : k <= j => p[j].target \notin ToSet(p[k].depends)
<1>1. /\ externals \in Recipes /\ Searching /\ stack = <<>> /\ Resulted /\ Unique(externals)
      /\ result \in Seq(DOMAIN externals) /\ visited \in SUBSET DOMAIN externals
    BY DEF SortInv, Searching, StackType
<1>2. PICK m \in Nat : m = Len(result) /\ DOMAIN result = 1 .. m
    BY <1>1, LenProperties
<1>3. \A k \in 1 .. m : result[k] \in DOMAIN externals
    BY <1>1, <1>2, ElementOfSeq
<1>4. /\ Components \in Seq(StepType) /\ Len(Components) = m
      /\ \A k \in 1 .. m : Components[k] = Component(result[k])
    <2>1. Components \in [1 .. m -> StepType]
        BY <1>1, <1>2, <1>3, ComponentType DEF Components
    <2> QED BY <1>2, <2>1 DEF Components
<1>5. PICK n \in Nat \ {0} : n = Len(Others) /\ DOMAIN Others = 1 .. n
    BY OthersType
<1>6. PICK p : p = Components \o Others
    OBVIOUS
<1>7. /\ p \in Seq(StepType) /\ Len(p) = m + n
      /\ \A k \in 1 .. (m + n) : p[k] = IF k <= m THEN Components[k] ELSE Others[k - m]
    <2>1. Others \in Seq(StepType)
        BY OthersInOrder DEF StepType
    <2> QED BY <1>4, <1>5, <1>6, <2>1, ConcatProperties, ZenonT(40)
<1>8. DOMAIN p = 1 .. (m + n)
    BY <1>7, LenProperties
<1>9. ASSUME NEW k \in 1 .. (m + n), k <= m
      PROVE /\ k \in 1 .. m /\ result[k] \in DOMAIN externals
            /\ p[k] = Component(result[k]) /\ p[k].target = externals[result[k]].provides
            /\ ToSet(p[k].depends) = Needs(externals, result[k])
    <2>1. k \in 1 .. m
        BY <1>9
    <2>2. p[k] = Component(result[k]) /\ result[k] \in DOMAIN externals
        BY <1>3, <1>4, <1>7, <1>9, <2>1
    <2> QED BY <1>1, <2>1, <2>2, ComponentType DEF Needs
<1>10. ASSUME NEW k \in 1 .. (m + n), ~ (k <= m)
       PROVE k - m \in 1 .. n /\ p[k] = Others[k - m]
    BY <1>2, <1>5, <1>7, <1>10
<1>11. ToSet(p) = RunSteps
    <2>1. visited = {j \in DOMAIN externals : externals[j].provides \in Needed(externals)}
        <3>1. Names(externals, visited) = Needed(externals)
            BY <1>1, VisitedIsNeeded
        <3> QED BY <1>1, <3>1, NameTells
    <2>2. visited = {result[k] : k \in 1 .. m}
        BY <1>1, <1>2 DEF Resulted, ToSet
    <2>3. ASSUME NEW k \in 1 .. (m + n) PROVE p[k] \in RunSteps
        <3>1. CASE k <= m
            BY <1>9, <2>1, <2>2, <3>1 DEF RunSteps
        <3>2. CASE ~ (k <= m)
            BY <1>5, <1>10, <3>2 DEF RunSteps, ToSet
        <3> QED BY <3>1, <3>2
    <2>4. ASSUME NEW s \in RunSteps PROVE \E k \in 1 .. (m + n) : p[k] = s
        <3>1. CASE s \in ToSet(Others)
            <4>1. PICK j \in 1 .. n : s = Others[j]
                BY <1>5, <3>1 DEF ToSet
            <4>2. j + m \in 1 .. (m + n) /\ ~ (j + m <= m) /\ (j + m) - m = j
                BY <1>2, <1>5
            <4>3. p[j + m] = Others[j]
                BY <1>10, <4>2
            <4> QED BY <4>1, <4>2, <4>3
        <3>2. CASE \E i \in visited : s = Component(i)
            <4>1. PICK k \in 1 .. m : s = Component(result[k])
                BY <2>2, <3>2
            <4>2. k \in 1 .. (m + n) /\ k <= m
                BY <1>2, <1>5
            <4> QED BY <1>9, <4>1, <4>2
        <3> QED BY <2>1, <3>1, <3>2 DEF RunSteps
    <2> QED BY <1>8, <2>3, <2>4 DEF ToSet
<1>12. ASSUME NEW k \in 1 .. (m + n), k <= m, NEW j \in 1 .. n
       PROVE /\ p[k].target # Others[j].target
             /\ Others[j].target \notin ToSet(p[k].depends)
    <2>1. Others[j].target \notin Provides(externals)
        BY <1>1, <1>5, FilesApart
    <2>2. p[k].target \in Provides(externals)
        BY <1>9, <1>12 DEF Provides
    <2>3. ToSet(p[k].depends) \subseteq Provides(externals)
        <3>1. ASSUME NEW name \in Needs(externals, result[k]) PROVE name \in Provides(externals)
            <4>0. k \in DOMAIN result
                BY <1>2, <1>12
            <4>1. PICK l \in 1 .. (k - 1) : name = externals[result[l]].provides
                BY <1>1, <4>0 DEF Resulted
            <4>2. l \in 1 .. m
                BY <1>2, <1>12, <4>1
            <4> QED BY <1>3, <4>1, <4>2 DEF Provides
        <3> QED BY <1>9, <1>12, <3>1
    <2> QED BY <2>1, <2>2, <2>3
<1>13. ASSUME NEW j \in 1 .. (m + n), NEW k \in 1 .. (m + n), p[j].target = p[k].target
       PROVE j = k
    <2>1. CASE j <= m /\ k <= m
        <3>0. /\ result[j] \in DOMAIN externals /\ result[k] \in DOMAIN externals
              /\ externals[result[j]].provides = externals[result[k]].provides
            BY <1>9, <1>13, <2>1
        <3>1. result[j] = result[k]
            BY <1>1, <3>0 DEF Unique
        <3> QED BY <1>1, <1>2, <1>9, <2>1, <3>1 DEF Resulted
    <2>2. CASE j <= m /\ ~ (k <= m)
        BY <1>10, <1>12, <1>13, <2>2
    <2>3. CASE ~ (j <= m) /\ k <= m
        BY <1>10, <1>12, <1>13, <2>3
    <2>4. CASE ~ (j <= m) /\ ~ (k <= m)
        <3>1. j - m \in 1 .. n /\ k - m \in 1 .. n /\ Others[j - m].target = Others[k - m].target
            BY <1>10, <1>13, <2>4
        <3>2. ~ (j - m < k - m) /\ ~ (k - m < j - m)
            BY <1>5, <3>1, OthersInOrder
        <3> QED BY <1>2, <1>5, <3>1, <3>2
    <2> QED BY <2>1, <2>2, <2>3, <2>4
<1>14. ASSUME NEW j \in 1 .. (m + n), NEW k \in 1 .. (m + n), k <= j
       PROVE p[j].target \notin ToSet(p[k].depends)
    <2>1. CASE j <= m /\ k <= m
        <3> SUFFICES ASSUME externals[result[j]].provides \in Needs(externals, result[k]) PROVE FALSE
            BY <1>9, <2>1
        <3>0. k \in DOMAIN result
            BY <1>2, <2>1
        <3>1. PICK l \in 1 .. (k - 1) : externals[result[j]].provides = externals[result[l]].provides
            BY <1>1, <3>0 DEF Resulted
        <3>2. l \in 1 .. m /\ l < j
            BY <1>2, <1>14, <2>1, <3>1
        <3>3. result[l] = result[j]
            BY <1>1, <1>3, <1>9, <2>1, <3>1, <3>2 DEF Unique
        <3> QED BY <1>1, <1>2, <1>9, <2>1, <3>2, <3>3 DEF Resulted
    <2>2. CASE ~ (j <= m) /\ k <= m
        BY <1>10, <1>12, <2>2
    <2>3. CASE ~ (j <= m) /\ ~ (k <= m)
        <3>1. j - m \in 1 .. n /\ k - m \in 1 .. n /\ k - m <= j - m
            BY <1>2, <1>5, <1>10, <1>14, <2>3
        <3> QED BY <1>5, <1>10, <2>3, <3>1, OthersInOrder
    <2> QED BY <1>2, <1>5, <1>14, <2>1, <2>2, <2>3
<1>15. 1 \in DOMAIN p
    BY <1>2, <1>5, <1>8
<1> QED BY <1>6, <1>7, <1>8, <1>11, <1>13, <1>14, <1>15

(* Components do not change, and neither do the steps of a run. *)
LEMMA SameSteps ==
    ASSUME externals' = externals
    PROVE RunSteps' = RunSteps /\ Targets' = Targets
BY DEF RunSteps, Component, Targets

LEMMA PlanSteps ==
    ASSUME TypeInv, PlanInv, Running
    PROVE /\ Len(plan) \in Nat /\ DOMAIN plan = 1 .. Len(plan)
          /\ \A k \in DOMAIN plan : plan[k] \in RunSteps
          /\ \A s \in RunSteps : \E k \in DOMAIN plan : plan[k] = s
<1>1. plan \in Seq(StepType) /\ ToSet(plan) = RunSteps
    BY DEF TypeInv, PlanInv
<1>2. Len(plan) \in Nat /\ DOMAIN plan = 1 .. Len(plan)
    BY <1>1, LenProperties
<1> QED BY <1>1, <1>2 DEF ToSet

-----------------------------------------------------------------------------
(* A run begins: everything that is there is older than it. *)
LEMMA StartStep == IInv /\ Start => IInv'
<1> SUFFICES ASSUME IInv, Start PROVE IInv'
    OBVIOUS
<1>1. /\ SortInv /\ TypeInv /\ PlanInv /\ TimeInv /\ MadeInv /\ QuietInv
      /\ Begin /\ externals' = externals /\ externals \in Recipes
      /\ phase \in {"idle", "failed", "done"} /\ phase' = "sorting"
      /\ now' = now + 1 /\ quiet' \in BOOLEAN /\ (quiet' => quiet) /\ edited' = FALSE
      /\ plan' = plan /\ at' = at /\ time' = time /\ version' = version
      /\ madeOf' = madeOf /\ broken' = broken /\ excused' = excused
    BY DEF IInv, Start, Begin, files, SortInv, TypeInv
<1>2. SortInv'
    BY <1>1, BeginSearch
<1>3. RunSteps' = RunSteps
    BY <1>1, SameSteps
<1>4. sort' # "none"
    BY <1>1 DEF Begin
<1>5. TypeInv'
    <2>1. phase' = "sorting" /\ now' = now + 1 /\ now \in Nat
        BY <1>1 DEF TypeInv
    <2>2. now' \in Nat
        BY <2>1
    <2>3. edited' \in BOOLEAN
        BY <1>1
    <2> QED BY <1>1, <1>4, <2>1, <2>2, <2>3 DEF TypeInv
<1>6. PlanInv' /\ DoneInv'
    BY <1>1 DEF PlanInv, DoneInv, Running
<1>7. TimeInv'
    <2>1. \A f \in Paths : time[f] \in Nat /\ time[f] <= now /\ now \in Nat
        BY <1>1 DEF TypeInv, TimeInv
    <2>2. \A f \in Paths : time'[f] < now'
        BY <1>1, <2>1
    <2>3. \A f \in Paths : time'[f] <= now'
        BY <1>1, <2>1
    <2> QED BY <1>1, <1>3, <2>2, <2>3, RunStepsType DEF TimeInv, Running
<1>8. MadeInv'
    BY <1>1, <1>3 DEF MadeInv
<1>9. QuietInv'
    BY <1>1, <1>3 DEF QuietInv, IsFresh, Depends, Unlisted
<1> QED BY <1>2, <1>5, <1>6, <1>7, <1>8, <1>9 DEF IInv

LEMMA SortingStep == IInv /\ Sorting => IInv'
<1> SUFFICES ASSUME IInv, Sorting PROVE IInv'
    OBVIOUS
<1>1. /\ SortInv /\ TypeInv /\ PlanInv /\ TimeInv /\ MadeInv /\ QuietInv
      /\ externals' = externals /\ sort # "none" /\ sort' # "none"
      /\ phase' = phase /\ now' = now /\ quiet' = quiet /\ edited' = edited
      /\ plan' = plan /\ at' = at /\ time' = time /\ version' = version
      /\ madeOf' = madeOf /\ broken' = broken /\ excused' = excused
    BY DEF IInv, Sorting, Follow, Leave, files
<1>2. SortInv'
    BY <1>1, FollowSearch, LeaveSearch DEF Sorting
<1>3. RunSteps' = RunSteps
    BY <1>1, SameSteps
<1>4. TypeInv' /\ phase' = "sorting"
    BY <1>1 DEF TypeInv
<1>5. PlanInv' /\ DoneInv'
    BY <1>4 DEF PlanInv, DoneInv, Running
<1>6. TimeInv' /\ MadeInv'
    BY <1>1, <1>3, <1>4 DEF TimeInv, MadeInv, Running
<1>7. QuietInv'
    BY <1>1, <1>3 DEF QuietInv, IsFresh, Depends, Unlisted
<1> QED BY <1>2, <1>4, <1>5, <1>6, <1>7 DEF IInv

(* Sort returned an order that is a plan, or the run is over. *)
LEMMA SortedStep == IInv /\ Sorted => IInv'
<1> SUFFICES ASSUME IInv, Sorted PROVE IInv'
    OBVIOUS
<1>1. /\ SortInv /\ TypeInv /\ PlanInv /\ TimeInv /\ MadeInv /\ QuietInv /\ Return
      /\ externals' = externals /\ sort # "none" /\ sort' = "none"
      /\ now' = now /\ quiet' = quiet /\ edited' = edited
      /\ time' = time /\ version' = version
      /\ madeOf' = madeOf /\ broken' = broken /\ excused' = excused
    BY DEF IInv, Sorted, Return, files
<1>2. SortInv'
    BY <1>1, ReturnSearch
<1>3. RunSteps' = RunSteps
    BY <1>1, SameSteps
<1>4. MadeInv' /\ phase = "sorting"
    BY <1>1, <1>3 DEF MadeInv, TypeInv
<1>5. QuietInv'
    <2>1. phase' # "building"
        BY DEF Sorted
    <2> QED BY <1>1, <1>3, <2>1 DEF QuietInv, IsFresh, Depends, Unlisted
<1>6. CASE sort = "failed"
    <2>1. phase' = "failed" /\ plan' = plan /\ at' = at
        BY <1>6 DEF Sorted
    <2>2. TypeInv' /\ PlanInv' /\ TimeInv' /\ DoneInv'
        BY <1>1, <2>1 DEF TypeInv, PlanInv, TimeInv, DoneInv, Running
    <2> QED BY <1>2, <1>4, <1>5, <2>2 DEF IInv
<1>7. CASE sort = "sorted"
    <2>1. phase' = "checking" /\ plan' = Components \o Others /\ at' = 1
        BY <1>7 DEF Sorted
    <2>2. /\ plan' \in Seq(StepType) /\ 1 \in DOMAIN plan'
          /\ ToSet(plan') = RunSteps
          /\ \A j, k \in DOMAIN plan' : plan'[j].target = plan'[k].target => j = k
          /\ \A j, k \in DOMAIN plan' : k <= j => plan'[j].target \notin ToSet(plan'[k].depends)
        BY <1>1, <1>7, <2>1, PlanIsSorted
    <2>3. TypeInv'
        BY <1>1, <2>1, <2>2 DEF TypeInv
    <2>4. PlanInv'
        <3>1. Unique(externals)'
            BY <1>1, <1>7 DEF SortInv, Searching
        <3> QED BY <1>1, <1>3, <2>1, <2>2, <3>1 DEF PlanInv
    <2>5. TimeInv'
        <3>1. \A k \in DOMAIN plan' : plan'[k] \in RunSteps
            BY <2>2 DEF ToSet
        <3>2. \A s \in RunSteps : time[s.target] < now
            BY <1>1, <1>4 DEF TimeInv
        <3> QED BY <1>1, <2>1, <3>1, <3>2 DEF TimeInv
    <2>6. DoneInv'
        <3>1. plan' \in Seq(StepType)
            BY <2>2
        <3>2. DOMAIN plan' = 1 .. Len(plan') /\ Len(plan') \in Nat
            BY <3>1, LenProperties
        <3>3. \A k \in DOMAIN plan' : ~ (k < at')
            BY <2>1, <3>2
        <3> QED BY <3>3 DEF DoneInv
    <2> QED BY <1>2, <1>4, <1>5, <2>3, <2>4, <2>5, <2>6 DEF IInv
<1> QED BY <1>1, <1>6, <1>7 DEF Return

LEMMA CleanStep == IInv /\ Clean => IInv'
<1> SUFFICES ASSUME IInv, Clean PROVE IInv'
    OBVIOUS
<1>1. /\ SortInv /\ TypeInv /\ TimeInv /\ externals \in Recipes
      /\ UNCHANGED sorting /\ externals' = externals /\ sort' = sort
      /\ phase # "sorting" /\ phase' = "idle" /\ now' = now /\ quiet' = FALSE /\ edited' = edited
      /\ plan' = plan /\ at' = at /\ version' = version
      /\ madeOf' = madeOf /\ broken' = broken /\ excused' = excused
      /\ time' = [f \in Paths |-> IF f \in Targets THEN 0 ELSE time[f]]
    BY DEF IInv, Clean, sorting, local, SortInv
<1>2. SortInv'
    BY <1>1, SortStutter
<1>3. RunSteps' = RunSteps
    BY <1>1, SameSteps
<1>4. TypeInv'
    BY <1>1 DEF TypeInv
<1>5. PlanInv' /\ DoneInv' /\ QuietInv'
    BY <1>1 DEF PlanInv, DoneInv, QuietInv, Running
<1>6. TimeInv'
    BY <1>1 DEF TimeInv, TypeInv, Running
<1>7. MadeInv'
    <2>1. \A s \in RunSteps : time'[s.target] = 0
        BY <1>1, RunStepsType
    <2> QED BY <1>3, <2>1 DEF MadeInv
<1> QED BY <1>2, <1>4, <1>5, <1>6, <1>7 DEF IInv

-----------------------------------------------------------------------------
(* Every set of numbers that is not empty has a least one. *)
LEMMA Least ==
    ASSUME NEW S, S \subseteq Nat, S # {}
    PROVE \E n \in S : \A m \in S : n <= m
<1> DEFINE T == {0 .. n : n \in S}
<1>1. T # {} /\ T \subseteq FiniteSubsetsOf(Nat)
    <2>1. ASSUME NEW n \in S PROVE 0 .. n \subseteq Nat /\ IsFiniteSet(0 .. n)
        BY FS_Interval
    <2> QED BY <2>1 DEF FiniteSubsetsOf
<1>2. PICK x \in T : \A y \in T : ~ (<<y, x>> \in StrictSubsetOrdering(Nat))
    <2> HIDE DEF T
    <2> QED BY <1>1, FS_StrictSubsetOrderingWellFounded, WFMin
<1>3. PICK n \in S : x = 0 .. n
    OBVIOUS
<1>4. ASSUME NEW m \in S, m < n PROVE FALSE
    <2>1. 0 .. m \in T /\ 0 .. m \subseteq 0 .. n /\ n \in 0 .. n /\ n \notin 0 .. m
        BY <1>4
    <2>2. <<0 .. m, 0 .. n>> \in StrictSubsetOrdering(Nat)
        <3>1. 0 .. m \in SUBSET Nat /\ 0 .. n \in SUBSET Nat
            OBVIOUS
        <3>2. 0 .. m # 0 .. n
            BY <2>1
        <3> QED BY <2>1, <3>1, <3>2 DEF StrictSubsetOrdering
    <2> QED BY <1>2, <1>3, <2>1, <2>2
<1> QED BY <1>4

(* What is fresh is not built, whichever dependency decides. *)
LEMMA DecisionIs ==
    ASSUME TypeInv, NEW s \in StepType
    PROVE /\ Decision(s) \in {"fresh", "building", "failed"}
          /\ Decision(s) = "fresh" => IsFresh(s)
          /\ IsFresh(s) => Decision(s) # "building"
<1>1. PICK d : d = Depends(s)
    OBVIOUS
<1>2. d \in Seq(Paths)
    <2>1. s.depends \in Seq(Paths) /\ <<>> \in Seq(Paths)
        BY DEF StepType
    <2> QED BY <1>1, <2>1 DEF Depends
<1>3. \A j \in DOMAIN d : d[j] \in Paths /\ j \in Nat
    BY <1>2, LenProperties, ElementOfSeq
<1>4. time[s.target] \in Nat /\ \A j \in DOMAIN d : time[d[j]] \in Nat
    BY <1>3 DEF TypeInv, StepType
<1>5. PICK odd : odd = {j \in DOMAIN d : time[d[j]] = 0 \/ time[d[j]] > time[s.target]}
    OBVIOUS
<1>6. Decision(s) = IF time[s.target] = 0 THEN "building"
                    ELSE IF odd = {} THEN "fresh"
                    ELSE IF time[d[Min(odd)]] = 0 THEN "failed" ELSE "building"
    BY <1>1, <1>5 DEF Decision
<1>7. IsFresh(s) <=> time[s.target] > 0 /\ \A j \in DOMAIN d : time[d[j]] <= time[s.target]
    BY <1>1 DEF IsFresh
<1>8. odd = {} => \A j \in DOMAIN d : time[d[j]] <= time[s.target]
    BY <1>4, <1>5
<1>9. odd # {} => Min(odd) \in odd
    <2>1. odd \subseteq Nat
        BY <1>3, <1>5
    <2> QED BY <2>1, Least DEF Min
<1>10. ASSUME IsFresh(s), odd # {} PROVE time[d[Min(odd)]] = 0
    BY <1>4, <1>5, <1>7, <1>9, <1>10
<1>11. Decision(s) = "fresh" => IsFresh(s)
    BY <1>4, <1>6, <1>7, <1>8
<1>12. IsFresh(s) => Decision(s) # "building"
    BY <1>6, <1>7, <1>10
<1> QED BY <1>6, <1>11, <1>12

(* A fresh target was made of what its dependencies are. *)
LEMMA FreshIsMade ==
    ASSUME externals \in Recipes, TypeInv, MadeInv, NEW s \in RunSteps, IsFresh(s)
    PROVE MadeNow(s)
<1> SUFFICES ASSUME s.target \notin excused, ~Unlisted(s), NEW f \in ToSet(s.depends)
             PROVE madeOf[s.target][f] = version[f]
    BY DEF MadeNow
<1>1. time[s.target] > 0 /\ time[f] <= time[s.target]
    BY DEF IsFresh, Depends, ToSet
<1>2. f \in Paths /\ s.target \in Paths
    BY RunStepsType
<1>3. time[f] \in Nat /\ time[s.target] \in Nat
    BY <1>2 DEF TypeInv
<1> QED BY <1>1, <1>3 DEF MadeInv

(* A target that is done with: the next one, or the end of the run. *)
LEMMA AdvanceStep ==
    ASSUME TypeInv, PlanInv, phase \in {"checking", "building"}, Advance,
           UNCHANGED <<externals, plan>>
    PROVE /\ PlanInv' /\ at \in DOMAIN plan /\ at' = at + 1
          /\ at' \in Nat \ {0} /\ phase' \in {"checking", "done"}
<1>1. Running /\ at \in DOMAIN plan /\ externals' = externals /\ plan' = plan /\ at' = at + 1
    BY DEF PlanInv, Running, Advance
<1>2. Len(plan) \in Nat /\ DOMAIN plan = 1 .. Len(plan)
    BY <1>1, PlanSteps
<1>3. RunSteps' = RunSteps
    BY <1>1, SameSteps
<1>4. phase' = IF at = Len(plan) THEN "done" ELSE "checking"
    BY DEF Advance
<1>5. IF phase' = "done" THEN at' = Len(plan') + 1 ELSE at' \in DOMAIN plan'
    BY <1>1, <1>2, <1>4
<1>6. PlanInv'
    <2>1. /\ Unique(externals) /\ ToSet(plan) = RunSteps
          /\ \A j, k \in DOMAIN plan : plan[j].target = plan[k].target => j = k
          /\ \A j, k \in DOMAIN plan : k <= j => plan[j].target \notin ToSet(plan[k].depends)
        BY <1>1 DEF PlanInv
    <2>2. Unique(externals)'
        BY <1>1, <2>1
    <2> QED BY <1>1, <1>3, <1>5, <2>1, <2>2 DEF PlanInv
<1> QED BY <1>1, <1>2, <1>4, <1>6

(* A run that is done and saw no edit leaves all that it may build fresh. *)
LEMMA AdvanceQuiet ==
    ASSUME TypeInv, PlanInv, phase \in {"checking", "building"}, Advance,
           UNCHANGED <<externals, plan, edited>>, DoneInv',
           NEW s \in RunSteps, quiet', quiet => IsFresh(s)'
    PROVE IsFresh(s)'
<1>1. PlanInv /\ Running /\ at \in DOMAIN plan /\ plan' = plan /\ at' = at + 1 /\ edited' = edited
    BY AdvanceStep DEF Running
<1>2. /\ Len(plan) \in Nat /\ DOMAIN plan = 1 .. Len(plan)
      /\ \E k \in DOMAIN plan : plan[k] = s
    BY <1>1, PlanSteps
<1>3. CASE at # Len(plan)
    <2>1. quiet' = quiet
        BY <1>3 DEF Advance
    <2> QED BY <2>1
<1>4. CASE at = Len(plan)
    <2>1. quiet' = ~edited /\ phase' = "done"
        BY <1>4 DEF Advance
    <2>5. ~edited'
        <3> SUFFICES ASSUME edited PROVE FALSE
            BY <1>1
        <3>1. edited = TRUE
            BY DEF TypeInv
        <3>2. quiet' = ~TRUE
            BY <2>1, <3>1
        <3>3. ~ quiet'
            BY <3>2
        <3> QED BY <3>3
    <2>2. \A k \in DOMAIN plan : k < at' => IsFresh(plan[k])'
        BY <1>1, <2>1, <2>5 DEF DoneInv, Running, IsFresh, Depends, Unlisted
    <2>3. PICK k \in DOMAIN plan : plan[k] = s
        BY <1>2
    <2>4. k < at'
        BY <1>1, <1>2, <1>4
    <2> QED BY <1>1, <2>2, <2>3, <2>4 DEF IsFresh, Depends, Unlisted
<1> QED BY <1>3, <1>4

LEMMA CheckStep == IInv /\ Check => IInv'
<1> SUFFICES ASSUME IInv, Check PROVE IInv'
    OBVIOUS
<1>1. /\ SortInv /\ TypeInv /\ PlanInv /\ TimeInv /\ MadeInv /\ DoneInv /\ QuietInv
      /\ phase = "checking" /\ Running
      /\ UNCHANGED sorting /\ externals' = externals /\ externals \in Recipes /\ sort' = sort
      /\ now' = now /\ edited' = edited /\ plan' = plan /\ time' = time /\ version' = version
      /\ madeOf' = madeOf /\ broken' = broken /\ excused' = excused
    <2>1. phase = "checking" /\ UNCHANGED <<sorting, plan, now, files, edited>>
        BY DEF Check
    <2> QED BY <2>1 DEF IInv, sorting, local, files, Running, SortInv
<1>2. SortInv'
    BY <1>1, SortStutter
<1>3. RunSteps' = RunSteps
    BY <1>1, SameSteps
<1>4. MadeInv'
    BY <1>1, <1>3 DEF MadeInv
<1>5. /\ Len(plan) \in Nat /\ DOMAIN plan = 1 .. Len(plan)
      /\ \A k \in DOMAIN plan : plan[k] \in RunSteps
      /\ at \in DOMAIN plan
    BY <1>1, PlanSteps DEF PlanInv
<1>6. plan[at] \in RunSteps /\ plan[at] \in StepType
    BY <1>1, <1>5, RunStepsType
<1>7. ASSUME NEW s PROVE (IsFresh(s)' <=> IsFresh(s)) /\ (MadeNow(s)' <=> MadeNow(s))
    BY <1>1 DEF IsFresh, MadeNow, Depends, Unlisted
<1>8. CASE Decision(plan[at]) = "fresh"
    <2>1. Advance
        BY <1>8 DEF Check
    <2>2. PlanInv' /\ at' = at + 1 /\ at' \in Nat \ {0} /\ phase' \in {"checking", "done"}
        BY <1>1, <2>1, AdvanceStep
    <2>3. TypeInv'
        <3>1. quiet' \in BOOLEAN
            BY <1>1, <2>1 DEF Advance, TypeInv
        <3>2. sort = "none"
            BY <1>1 DEF TypeInv
        <3>3. phase' # "sorting" /\ phase' # "building"
              /\ phase' \in {"idle", "sorting", "checking", "building", "failed", "done"}
            BY <2>2
        <3> QED BY <1>1, <2>2, <3>1, <3>2, <3>3 DEF TypeInv
    <2>4. TimeInv'
        <3>1. \A k \in DOMAIN plan' : at' <= k => time'[plan'[k].target] < now'
            <4> SUFFICES ASSUME NEW k \in DOMAIN plan', at' <= k PROVE time'[plan'[k].target] < now'
                OBVIOUS
            <4>1. k \in DOMAIN plan /\ at <= k
                BY <1>1, <1>5, <2>2
            <4> QED BY <1>1, <4>1 DEF TimeInv
        <3>2. \A f \in Paths : time'[f] <= now'
            BY <1>1 DEF TimeInv
        <3> QED BY <2>2, <3>1, <3>2 DEF TimeInv
    <2>5. DoneInv'
        <3> SUFFICES ASSUME ~edited', NEW k \in DOMAIN plan', k < at'
                     PROVE (MadeNow(plan[k]) /\ IsFresh(plan[k]))'
            BY DEF DoneInv
        <3>1. k \in DOMAIN plan /\ (k < at \/ k = at)
            BY <1>1, <1>5, <2>2
        <3>2. MadeNow(plan[k]) /\ IsFresh(plan[k])
            <4>1. CASE k < at
                BY <1>1, <3>1, <4>1 DEF DoneInv
            <4>2. CASE k = at
                BY <1>1, <1>6, <1>8, <4>2, DecisionIs, FreshIsMade
            <4> QED BY <3>1, <4>1, <4>2
        <3> QED BY <1>1, <3>2 DEF IsFresh, MadeNow, Depends, Unlisted
    <2>6. QuietInv'
        <3>1. ASSUME quiet', NEW s \in RunSteps PROVE IsFresh(s)'
            BY <1>1, <1>7, <2>1, <2>5, <3>1, AdvanceQuiet DEF QuietInv
        <3>2. phase' # "building"
            BY <2>2
        <3> QED BY <1>3, <3>1, <3>2 DEF QuietInv
    <2> QED BY <1>2, <1>4, <2>2, <2>3, <2>4, <2>5, <2>6 DEF IInv
<1>9. CASE Decision(plan[at]) # "fresh"
    <2>1. /\ phase' = Decision(plan[at]) /\ at' = at /\ quiet' = quiet
          /\ reading' = [f \in ToSet(plan[at].depends) |-> version[f]]
        BY <1>9 DEF Check
    <2>2. phase' \in {"building", "failed"} /\ (quiet => phase' # "building")
        BY <1>1, <1>6, <1>9, <2>1, DecisionIs DEF QuietInv
    <2>3. TypeInv'
        <3>1. DOMAIN reading' = ToSet(plan[at].depends)
            BY <2>1
        <3>2. sort = "none"
            BY <1>1 DEF TypeInv
        <3> QED BY <1>1, <2>1, <2>2, <3>1, <3>2 DEF TypeInv
    <2>4. PlanInv'
        <3>1. Unique(externals)' = Unique(externals)
            BY <1>1
        <3> QED BY <1>1, <1>3, <2>1, <2>2, <3>1 DEF PlanInv, Running
    <2>5. TimeInv'
        BY <1>1, <2>1, <2>2 DEF TimeInv
    <2>6. DoneInv'
        BY <1>1, <2>1 DEF DoneInv, Running, IsFresh, MadeNow, Depends, Unlisted
    <2>7. QuietInv'
        BY <1>1, <1>3, <1>7, <2>1, <2>2 DEF QuietInv
    <2> QED BY <1>2, <1>4, <2>3, <2>4, <2>5, <2>6, <2>7 DEF IInv
<1> QED BY <1>8, <1>9

-----------------------------------------------------------------------------
(* The target that is built, among the targets of the run. *)
LEMMA BuildTarget ==
    ASSUME externals \in Recipes, TypeInv, PlanInv, TimeInv, phase = "building"
    PROVE LET t == plan[at].target IN
          /\ at \in DOMAIN plan /\ plan[at] \in RunSteps /\ t \in Paths /\ t \notin Sources
          /\ t \notin ToSet(plan[at].depends)
          /\ DOMAIN reading = ToSet(plan[at].depends)
          /\ time[t] < now
          /\ \A k \in DOMAIN plan : k # at => plan[k].target # t
          /\ \A k \in DOMAIN plan : k <= at => t \notin ToSet(plan[k].depends)
          /\ \A k \in DOMAIN plan : ~ (k <= at) => time[plan[k].target] < now
          /\ \A s \in RunSteps : s.target # t /\ t \in ToSet(s.depends) => time[s.target] < now
<1>1. /\ Running /\ at \in DOMAIN plan /\ Len(plan) \in Nat /\ DOMAIN plan = 1 .. Len(plan)
      /\ \A k \in DOMAIN plan : plan[k] \in RunSteps
      /\ \A s \in RunSteps : \E k \in DOMAIN plan : plan[k] = s
    BY PlanSteps DEF PlanInv, Running
<1>2. /\ \A j, k \in DOMAIN plan : plan[j].target = plan[k].target => j = k
      /\ \A j, k \in DOMAIN plan : k <= j => plan[j].target \notin ToSet(plan[k].depends)
      /\ \A k \in DOMAIN plan : at <= k => time[plan[k].target] < now
    BY <1>1 DEF PlanInv, TimeInv
<1>3. \A k \in DOMAIN plan : ~ (k <= at) => time[plan[k].target] < now
    BY <1>1, <1>2
<1>4. ASSUME NEW s \in RunSteps, plan[at].target \in ToSet(s.depends)
      PROVE time[s.target] < now
    <2>1. PICK k \in DOMAIN plan : plan[k] = s
        BY <1>1
    <2>2. ~ (k <= at)
        BY <1>1, <1>2, <1>4, <2>1
    <2> QED BY <1>3, <2>1, <2>2
<1>5. plan[at].target \in Paths /\ plan[at].target \notin Sources
    BY <1>1, RunStepsType
<1>6. DOMAIN reading = ToSet(plan[at].depends)
    BY DEF TypeInv
<1>7. time[plan[at].target] < now /\ plan[at].target \notin ToSet(plan[at].depends)
    BY <1>1, <1>2
<1> QED BY <1>1, <1>2, <1>3, <1>4, <1>5, <1>6, <1>7

(* A target is written: it is the newest, and what depends on it is older. *)
LEMMA WrittenStep ==
    ASSUME externals \in Recipes, TypeInv, PlanInv, TimeInv, MadeInv, phase = "building",
           NEW tick \in {0, 1}, Written(plan[at].target, tick), externals' = externals,
           \/ Unread(plan[at].target) /\ excused' = excused \ {plan[at].target}
           \/ excused' = excused \cup {plan[at].target}
    PROVE /\ now' \in Nat /\ now <= now'
          /\ time' \in [Paths -> Nat] /\ version' \in [Paths -> Nat] /\ DOMAIN madeOf' = Paths
          /\ \A f \in Paths : time'[f] <= now'
          /\ MadeInv'
<1>1. PICK t : t = plan[at].target
    OBVIOUS
<1>2. /\ plan[at] \in RunSteps /\ t \in Paths /\ t \notin ToSet(plan[at].depends)
      /\ at \in DOMAIN plan
      /\ DOMAIN reading = ToSet(plan[at].depends) /\ time[t] < now
      /\ \A k \in DOMAIN plan : k # at => plan[k].target # t
      /\ \A s \in RunSteps : s.target # t /\ t \in ToSet(s.depends) => time[s.target] < now
    BY <1>1, BuildTarget
<1>3. /\ time' = [time EXCEPT ![t] = now + tick] /\ now' = now + tick
      /\ version' = [version EXCEPT ![t] = @ + 1] /\ madeOf' = [madeOf EXCEPT ![t] = reading]
    BY <1>1 DEF Written
<1>4. now \in Nat /\ time \in [Paths -> Nat] /\ version \in [Paths -> Nat] /\ DOMAIN madeOf = Paths
      /\ tick \in Nat /\ \A f \in Paths : time[f] <= now /\ time[f] \in Nat
    BY DEF TypeInv, TimeInv
<1>5. /\ now' \in Nat /\ now <= now' /\ now' = now + tick
      /\ time' \in [Paths -> Nat] /\ version' \in [Paths -> Nat] /\ DOMAIN madeOf' = Paths
    <2>1. now' \in Nat /\ now <= now' /\ now' = now + tick
        BY <1>3, <1>4
    <2>2. now + tick \in Nat /\ version[t] + 1 \in Nat
        BY <1>2, <1>4
    <2>3. time' \in [Paths -> Nat] /\ version' \in [Paths -> Nat]
        BY <1>3, <1>4, <2>2
    <2>4. DOMAIN madeOf' = Paths
        BY <1>3, <1>4
    <2> QED BY <2>1, <2>3, <2>4
<1>6. /\ time'[t] = now' /\ madeOf'[t] = reading
      /\ \A f \in Paths : f # t =>
            time'[f] = time[f] /\ version'[f] = version[f] /\ madeOf'[f] = madeOf[f]
    BY <1>2, <1>3, <1>4
<1>7. \A f \in Paths : time'[f] <= now'
    BY <1>4, <1>5, <1>6
<1>8. RunSteps' = RunSteps
    BY SameSteps
<1>9. ASSUME NEW s \in RunSteps, time'[s.target] > 0, s.target \notin excused', NEW f \in ToSet(s.depends)
      PROVE madeOf'[s.target][f] = version'[f] \/ time'[f] > time'[s.target]
    <2>1. s.target \in Paths /\ f \in Paths
        BY RunStepsType
    <2>2. CASE s.target = t
        <3>1. s = plan[at]
            <4>1. Running
                BY DEF Running
            <4>2. PICK k \in DOMAIN plan : plan[k] = s
                BY <4>1, PlanSteps
            <4> QED BY <1>2, <2>2, <4>2
        <3>2. Unread(t)
            BY <1>1, <1>9, <2>2
        <3>3. reading[f] = version[f] /\ f # t
            BY <1>2, <1>9, <3>1, <3>2 DEF Unread
        <3> QED BY <1>6, <2>1, <2>2, <3>3
    <2>3. CASE s.target # t
        <3>1. time'[s.target] = time[s.target] /\ madeOf'[s.target] = madeOf[s.target]
              /\ s.target \notin excused
            BY <1>1, <1>6, <1>9, <2>1, <2>3
        <3>2. madeOf[s.target][f] = version[f] \/ time[f] > time[s.target]
            BY <1>9, <3>1 DEF MadeInv
        <3>3. CASE f # t
            BY <1>6, <2>1, <3>1, <3>2, <3>3
        <3>4. CASE f = t
            <4>1. time[s.target] < now
                BY <1>2, <1>9, <2>3, <3>4
            <4>2. time[s.target] \in Nat
                BY <1>4, <2>1
            <4> QED BY <1>4, <1>5, <1>6, <3>1, <3>4, <4>1, <4>2
        <3> QED BY <3>3, <3>4
    <2> QED BY <2>2, <2>3
<1>10. MadeInv'
    BY <1>8, <1>9 DEF MadeInv
<1> QED BY <1>5, <1>7, <1>10

LEMMA BuildStep == ASSUME IInv, NEW tick \in {0, 1}, Build(tick) PROVE IInv'
<1>1. /\ SortInv /\ TypeInv /\ PlanInv /\ TimeInv /\ MadeInv /\ DoneInv /\ QuietInv
      /\ phase = "building" /\ Running /\ ~quiet
      /\ UNCHANGED sorting /\ externals' = externals /\ externals \in Recipes /\ sort' = sort
      /\ edited' = edited /\ plan' = plan /\ broken' = broken /\ reading' = reading
      /\ Advance
    <2>1. phase = "building" /\ UNCHANGED <<sorting, plan, reading, edited>> /\ Advance
          /\ broken' = broken
        BY DEF Build, Written
    <2> QED BY <2>1 DEF IInv, sorting, local, Running, SortInv, QuietInv
<1>2. PICK t : t = plan[at].target
    OBVIOUS
<1>3. Written(t, tick) /\ excused' = IF Unread(t) THEN excused \ {t} ELSE excused \cup {t}
    BY <1>2 DEF Build
<1>4. /\ now' \in Nat /\ now <= now'
      /\ time' \in [Paths -> Nat] /\ version' \in [Paths -> Nat] /\ DOMAIN madeOf' = Paths
      /\ \A f \in Paths : time'[f] <= now'
      /\ MadeInv'
    BY <1>1, <1>2, <1>3, WrittenStep
<1>5. /\ at \in DOMAIN plan /\ plan[at] \in RunSteps /\ t \in Paths
      /\ t \notin ToSet(plan[at].depends)
      /\ DOMAIN reading = ToSet(plan[at].depends)
      /\ time[t] < now
      /\ \A k \in DOMAIN plan : k # at => plan[k].target # t
      /\ \A k \in DOMAIN plan : k <= at => t \notin ToSet(plan[k].depends)
      /\ \A k \in DOMAIN plan : ~ (k <= at) => time[plan[k].target] < now
    BY <1>1, <1>2, BuildTarget
<1>6. /\ Len(plan) \in Nat /\ DOMAIN plan = 1 .. Len(plan)
      /\ \A k \in DOMAIN plan : plan[k] \in RunSteps
    BY <1>1, PlanSteps
<1>7. /\ time'[t] = now' /\ time'[t] > 0 /\ madeOf'[t] = reading
      /\ \A f \in Paths : f # t =>
            time'[f] = time[f] /\ version'[f] = version[f] /\ madeOf'[f] = madeOf[f]
    <2>1. now \in Nat /\ time \in [Paths -> Nat] /\ version \in [Paths -> Nat] /\ DOMAIN madeOf = Paths
          /\ tick \in Nat
        BY <1>1 DEF TypeInv
    <2>2. now > 0
        BY <1>5, <2>1
    <2>3. /\ time' = [time EXCEPT ![t] = now + tick] /\ now' = now + tick
          /\ version' = [version EXCEPT ![t] = @ + 1] /\ madeOf' = [madeOf EXCEPT ![t] = reading]
        BY <1>3 DEF Written
    <2> QED BY <1>5, <2>1, <2>2, <2>3
<1>8. SortInv' /\ RunSteps' = RunSteps
    BY <1>1, SortStutter, SameSteps
<1>9. PlanInv' /\ at' = at + 1 /\ at' \in Nat \ {0} /\ phase' \in {"checking", "done"}
    BY <1>1, AdvanceStep
<1>10. TypeInv'
    <2>1. quiet' \in BOOLEAN
        BY <1>1 DEF Advance, TypeInv
    <2>2. sort = "none"
        BY <1>1 DEF TypeInv
    <2>3. phase' # "sorting" /\ phase' # "building"
          /\ phase' \in {"idle", "sorting", "checking", "building", "failed", "done"}
        BY <1>9
    <2> QED BY <1>1, <1>4, <1>9, <2>1, <2>2, <2>3 DEF TypeInv
<1>11. TimeInv'
    <2>1. ASSUME NEW k \in DOMAIN plan, at' <= k PROVE time'[plan[k].target] < now'
        <3>1. ~ (k <= at) /\ k # at
            BY <1>5, <1>6, <1>9, <2>1
        <3>2. plan[k].target \in Paths /\ plan[k].target # t /\ time[plan[k].target] < now
            BY <1>1, <1>5, <1>6, <3>1, RunStepsType
        <3>3. time[plan[k].target] \in Nat /\ now \in Nat
            BY <1>1, <3>2 DEF TypeInv
        <3> QED BY <1>4, <1>7, <3>2, <3>3
    <2> QED BY <1>1, <1>4, <1>9, <2>1 DEF TimeInv
<1>12. DoneInv'
    <2> SUFFICES ASSUME ~edited', NEW k \in DOMAIN plan', k < at'
                 PROVE (MadeNow(plan[k]) /\ IsFresh(plan[k]))'
        BY DEF DoneInv
    <2>1. k \in DOMAIN plan /\ (k < at \/ k = at)
        BY <1>1, <1>5, <1>6, <1>9
    <2>2. PICK s : s = plan[k]
        OBVIOUS
    <2>3. s \in RunSteps /\ ToSet(s.depends) \subseteq Paths /\ s.target \in Paths
          /\ t \notin ToSet(s.depends) /\ s.depends \in Seq(Paths)
        <3>1. s \in RunSteps
            BY <1>6, <2>1, <2>2
        <3>2. k <= at
            BY <1>5, <1>6, <2>1
        <3>3. t \notin ToSet(s.depends)
            BY <1>5, <2>1, <2>2, <3>2
        <3> QED BY <1>1, <3>1, <3>3, RunStepsType DEF StepType
    <2>4. \A f \in ToSet(s.depends) : time'[f] = time[f] /\ version'[f] = version[f]
        BY <1>7, <2>3
    <2>5. \A j \in DOMAIN Depends(s) : Depends(s)[j] \in ToSet(s.depends)
        BY DEF Depends, ToSet
    <2>6. CASE k = at
        <3>1. s.target = t
            BY <1>2, <2>2, <2>6
        <3>2. MadeNow(s)'
            <4>1. CASE Unread(t)
                BY <1>5, <1>7, <2>2, <2>4, <2>6, <3>1, <4>1 DEF MadeNow, Unread
            <4>2. CASE ~Unread(t)
                BY <1>3, <3>1, <4>2 DEF MadeNow
            <4> QED BY <4>1, <4>2
        <3>3. IsFresh(s)'
            <4>1. \A j \in DOMAIN Depends(s) : time'[Depends(s)[j]] <= time'[t]
                BY <1>4, <1>7, <2>3, <2>5
            <4>2. Depends(s)' = Depends(s)
                BY <1>1 DEF Depends, Unlisted
            <4> QED BY <1>7, <3>1, <4>1, <4>2 DEF IsFresh
        <3> QED BY <1>1, <2>2, <3>2, <3>3 DEF IsFresh, MadeNow, Depends, Unlisted
    <2>7. CASE k < at
        <3>1. MadeNow(s) /\ IsFresh(s)
            BY <1>1, <2>1, <2>2, <2>7 DEF DoneInv
        <3>2. k # at
            BY <1>5, <1>6, <2>1, <2>7
        <3>3. s.target # t
            BY <1>5, <2>1, <2>2, <3>2
        <3>4. time'[s.target] = time[s.target] /\ madeOf'[s.target] = madeOf[s.target]
              /\ (s.target \in excused => s.target \in excused')
            BY <1>3, <1>7, <2>3, <3>3
        <3>5. MadeNow(s)'
            BY <1>1, <2>4, <3>1, <3>4 DEF MadeNow, Unlisted
        <3>6. IsFresh(s)'
            <4>1. Depends(s)' = Depends(s)
                BY <1>1 DEF Depends, Unlisted
            <4> QED BY <2>4, <2>5, <3>1, <3>4, <4>1 DEF IsFresh
        <3> QED BY <1>1, <2>2, <3>5, <3>6 DEF IsFresh, MadeNow, Depends, Unlisted
    <2> QED BY <2>1, <2>6, <2>7
<1>13. QuietInv'
    <2>1. ASSUME quiet', NEW s \in RunSteps PROVE IsFresh(s)'
        BY <1>1, <1>12, <2>1, AdvanceQuiet
    <2>2. phase' # "building"
        BY <1>9
    <2> QED BY <1>8, <2>1, <2>2 DEF QuietInv
<1> QED BY <1>4, <1>8, <1>9, <1>10, <1>11, <1>12, <1>13 DEF IInv

(* What a failed build leaves is newer than what depends on it, too. *)
LEMMA BuildFailsStep == IInv /\ BuildFails => IInv'
<1> SUFFICES ASSUME IInv, BuildFails PROVE IInv'
    OBVIOUS
<1>1. /\ SortInv /\ TypeInv /\ PlanInv /\ TimeInv /\ MadeInv
      /\ phase = "building" /\ phase' = "failed" /\ quiet' = FALSE
      /\ UNCHANGED sorting /\ externals' = externals /\ externals \in Recipes /\ sort' = sort
      /\ edited' = edited /\ plan' = plan /\ at' = at /\ reading' = reading
    <2>1. phase = "building" /\ phase' = "failed" /\ quiet' = FALSE
          /\ UNCHANGED <<sorting, plan, at, reading, edited>>
        BY DEF BuildFails
    <2> QED BY <2>1 DEF IInv, sorting, local, SortInv
<1>2. SortInv' /\ RunSteps' = RunSteps
    BY <1>1, SortStutter, SameSteps
<1>3. /\ now' \in Nat /\ time' \in [Paths -> Nat] /\ version' \in [Paths -> Nat]
      /\ DOMAIN madeOf' = Paths /\ broken' = broken
      /\ \A f \in Paths : time'[f] <= now'
      /\ MadeInv'
    <2>1. CASE Written(plan[at].target, 0) /\ excused' = excused \cup {plan[at].target}
        <3>1. broken' = broken
            BY <2>1 DEF Written
        <3> QED BY <1>1, <2>1, <3>1, WrittenStep
    <2>2. CASE UNCHANGED <<now, files>>
        BY <1>1, <1>2, <2>2 DEF files, TypeInv, TimeInv, MadeInv
    <2> QED BY <2>1, <2>2 DEF BuildFails
<1>4. TypeInv'
    BY <1>1, <1>3 DEF TypeInv
<1>5. PlanInv' /\ TimeInv' /\ DoneInv' /\ QuietInv'
    BY <1>1, <1>3 DEF PlanInv, TimeInv, DoneInv, QuietInv, Running
<1> QED BY <1>2, <1>3, <1>4, <1>5 DEF IInv

(* A source that is edited is newer than all that depends on it. *)
LEMMA EditStep == ASSUME IInv, NEW f \in Sources, Edit(f) PROVE IInv'
<1>1. /\ SortInv /\ TypeInv /\ PlanInv /\ TimeInv /\ MadeInv
      /\ UNCHANGED sorting /\ externals' = externals /\ externals \in Recipes /\ sort' = sort
      /\ edited' = TRUE /\ quiet' = FALSE /\ plan' = plan /\ at' = at /\ reading' = reading
      /\ phase' = phase /\ madeOf' = madeOf /\ excused' = excused
      /\ now' = now + 1 /\ time' = [time EXCEPT ![f] = now + 1]
      /\ version' = [version EXCEPT ![f] = @ + 1]
      /\ broken' \in {broken \cup {f}, broken \ {f}}
    <2>1. UNCHANGED <<sorting, plan, at, phase, madeOf, excused, reading>>
        BY DEF Edit
    <2> QED BY <2>1 DEF Edit, IInv, sorting, local, SortInv
<1>2. SortInv' /\ RunSteps' = RunSteps
    BY <1>1, SortStutter, SameSteps
<1>3. /\ now \in Nat /\ time \in [Paths -> Nat] /\ version \in [Paths -> Nat]
      /\ \A g \in Paths : time[g] <= now /\ time[g] \in Nat
      /\ f \in Paths
    BY <1>1, OthersInOrder DEF TypeInv, TimeInv
<1>4. /\ time'[f] = now + 1
      /\ \A g \in Paths : g # f => time'[g] = time[g] /\ version'[g] = version[g]
    BY <1>1, <1>3
<1>5. TypeInv'
    <2>1. now + 1 \in Nat /\ version[f] + 1 \in Nat
        BY <1>3
    <2>2. now' \in Nat /\ time' \in [Paths -> Nat] /\ version' \in [Paths -> Nat]
        BY <1>1, <1>3, <2>1
    <2>3. broken' \subseteq Sources
        BY <1>1 DEF TypeInv
    <2>4. edited' \in BOOLEAN /\ quiet' \in BOOLEAN
        BY <1>1
    <2> QED BY <1>1, <2>2, <2>3, <2>4 DEF TypeInv
<1>6. PlanInv'
    <2>1. Unique(externals)' = Unique(externals)
        BY <1>1
    <2> QED BY <1>1, <1>2, <2>1 DEF PlanInv, Running
<1>7. ASSUME NEW s \in RunSteps
      PROVE s.target \in Paths /\ s.target # f /\ time'[s.target] = time[s.target]
            /\ ToSet(s.depends) \subseteq Paths
    BY <1>1, <1>4, RunStepsType
<1>8. TimeInv'
    <2>1. \A g \in Paths : time'[g] <= now'
        BY <1>1, <1>3, <1>4
    <2>2. ASSUME phase = "sorting", NEW s \in RunSteps PROVE time'[s.target] < now'
        <3>1. time[s.target] < now
            BY <1>1, <2>2 DEF TimeInv
        <3> QED BY <1>1, <1>3, <1>7, <3>1
    <2>3. ASSUME Running, NEW k \in DOMAIN plan, at <= k PROVE time'[plan[k].target] < now'
        <3>1. time[plan[k].target] < now /\ plan[k] \in RunSteps
            BY <1>1, <2>3, PlanSteps DEF TimeInv
        <3> QED BY <1>1, <1>3, <1>7, <3>1
    <2> QED BY <1>1, <1>2, <2>1, <2>2, <2>3 DEF TimeInv, Running
<1>9. MadeInv'
    <2> SUFFICES ASSUME NEW s \in RunSteps, time'[s.target] > 0, s.target \notin excused,
                        NEW g \in ToSet(s.depends)
                 PROVE madeOf[s.target][g] = version'[g] \/ time'[g] > time'[s.target]
        BY <1>1, <1>2 DEF MadeInv
    <2>1. madeOf[s.target][g] = version[g] \/ time[g] > time[s.target]
        BY <1>1, <1>7 DEF MadeInv
    <2>2. g \in Paths
        BY <1>7
    <2>3. CASE g = f
        BY <1>3, <1>4, <1>7, <2>3
    <2>4. CASE g # f
        BY <1>4, <1>7, <2>1, <2>2, <2>4
    <2> QED BY <2>3, <2>4
<1>10. DoneInv' /\ QuietInv'
    BY <1>1 DEF DoneInv, QuietInv
<1> QED BY <1>2, <1>5, <1>6, <1>8, <1>9, <1>10 DEF IInv

LEMMA IgniteStutter == IInv /\ UNCHANGED vars => IInv'
<1> SUFFICES ASSUME IInv, UNCHANGED vars PROVE IInv'
    OBVIOUS
<1>1. /\ SortInv /\ TypeInv /\ PlanInv /\ TimeInv /\ MadeInv /\ DoneInv /\ QuietInv
      /\ UNCHANGED sorting /\ externals' = externals /\ sort' = sort
      /\ edited' = edited /\ quiet' = quiet /\ plan' = plan /\ at' = at /\ reading' = reading
      /\ phase' = phase /\ madeOf' = madeOf /\ excused' = excused
      /\ now' = now /\ time' = time /\ version' = version /\ broken' = broken
    BY DEF IInv, vars, files, sorting, local
<1>2. SortInv' /\ RunSteps' = RunSteps
    BY <1>1, SortStutter, SameSteps
<1>3. TypeInv'
    BY <1>1 DEF TypeInv
<1>4. PlanInv'
    <2>1. Unique(externals)' = Unique(externals)
        BY <1>1
    <2> QED BY <1>1, <1>2, <2>1 DEF PlanInv, Running
<1>5. TimeInv' /\ MadeInv'
    BY <1>1, <1>2 DEF TimeInv, MadeInv, Running
<1>6. DoneInv'
    BY <1>1 DEF DoneInv, Running, IsFresh, MadeNow, Depends, Unlisted
<1>7. QuietInv'
    BY <1>1, <1>2 DEF QuietInv, IsFresh, Depends, Unlisted
<1> QED BY <1>2, <1>3, <1>4, <1>5, <1>6, <1>7 DEF IInv

LEMMA IgniteInit == Init => IInv
<1> SUFFICES ASSUME Init PROVE IInv
    OBVIOUS
<1>1. SortInv
    BY DEF Init, SortInit, SortInv
<1>2. TypeInv
    <2>1. /\ plan = <<>> /\ at = 1 /\ phase = "idle" /\ now = 1 /\ sort = "none" /\ broken = {}
          /\ time = [f \in Paths |-> IF f \in Sources THEN 1 ELSE 0]
          /\ version = [f \in Paths |-> 0] /\ madeOf = [f \in Paths |-> <<>>]
        BY DEF Init, SortInit
    <2>2. edited \in BOOLEAN /\ quiet \in BOOLEAN
        BY DEF Init
    <2>3. plan \in Seq(StepType)
        BY <2>1
    <2> QED BY <2>1, <2>2, <2>3 DEF TypeInv
<1>3. PlanInv /\ TimeInv /\ DoneInv /\ QuietInv
    BY DEF Init, PlanInv, TimeInv, DoneInv, QuietInv, Running
<1>4. MadeInv
    <2>1. externals \in Recipes
        BY <1>1 DEF SortInv
    <2>2. \A s \in RunSteps : time[s.target] = 0
        BY <2>1, RunStepsType DEF Init
    <2> QED BY <2>2 DEF MadeInv
<1> QED BY <1>1, <1>2, <1>3, <1>4 DEF IInv

LEMMA IgniteStep == IInv /\ [Next]_vars => IInv'
BY StartStep, SortingStep, SortedStep, CleanStep, CheckStep, BuildFailsStep, BuildStep, EditStep,
   IgniteStutter DEF Next

-----------------------------------------------------------------------------
(* The inductive invariant holds. *)
THEOREM IgniteInvariant == Spec => []IInv
BY IgniteInit, IgniteStep, PTL DEF Spec

(* Sort of external.go is right for every set of components, each with every    *)
(* list of dependencies: it succeeds just when what the kernel image needs is  *)
(* all there, once, and without a cycle, and then lists exactly that, in an    *)
(* order to build it in.                                                     *)
THEOREM SortIsRight == Spec => []SortsRight
<1>1. IInv => SortsRight
    BY SortInvIsRight DEF IInv
<1> QED BY <1>1, IgniteInvariant, PTL

(* After a run that ended well and saw no edit, no target was made of what its    *)
(* dependencies are no more, whatever happened in the runs before it.         *)
THEOREM NothingIsStale == Spec => []NothingStale
<1>1. IInv => NothingStale
    <2> SUFFICES ASSUME IInv, phase = "done", ~edited, NEW k \in DOMAIN plan PROVE MadeNow(plan[k])
        BY DEF NothingStale, MadeNow
    <2>1. Running /\ TypeInv /\ PlanInv /\ at = Len(plan) + 1 /\ DoneInv
        BY DEF IInv, PlanInv, Running
    <2>2. Len(plan) \in Nat /\ DOMAIN plan = 1 .. Len(plan)
        BY <2>1, PlanSteps
    <2> QED BY <2>1, <2>2 DEF DoneInv
<1> QED BY <1>1, IgniteInvariant, PTL

(* A run that follows a complete one, and no edit, builds nothing. *)
THEOREM OnlyWhatChangedIsBuilt == Spec => OnlyWhatChanged
<1>1. IInv /\ [Next]_vars => [quiet => phase' # "building"]_vars
    <2> SUFFICES ASSUME IInv, Next, quiet PROVE phase' # "building"
        OBVIOUS
    <2>1. TypeInv /\ PlanInv /\ QuietInv /\ phase # "building" /\ externals \in Recipes
        BY DEF IInv, QuietInv, SortInv
    <2>2. CASE Check
        <3>1. phase = "checking" /\ Running
            BY <2>2 DEF Check, Running
        <3>2. plan[at] \in RunSteps
            BY <2>1, <3>1, PlanSteps DEF PlanInv
        <3>3. plan[at] \in StepType /\ IsFresh(plan[at])
            BY <2>1, <3>2, RunStepsType DEF QuietInv
        <3>4. Decision(plan[at]) # "building"
            BY <2>1, <3>3, DecisionIs
        <3>5. CASE Decision(plan[at]) = "fresh"
            BY <2>2, <3>5 DEF Check, Advance
        <3>6. CASE Decision(plan[at]) # "fresh"
            BY <2>2, <3>4, <3>6 DEF Check
        <3> QED BY <3>5, <3>6
    <2>3. CASE Start \/ Sorting \/ Sorted \/ Clean \/ BuildFails
        BY <2>1, <2>3 DEF Start, Sorting, Sorted, Clean, BuildFails
    <2>4. ASSUME NEW tick \in {0, 1}, Build(tick) PROVE FALSE
        BY <2>1, <2>4 DEF Build
    <2>5. ASSUME NEW f \in Sources, Edit(f) PROVE phase' # "building"
        BY <2>1, <2>5 DEF Edit
    <2> QED BY <2>2, <2>3, <2>4, <2>5 DEF Next
<1> QED BY <1>1, IgniteInvariant, PTL DEF Spec, OnlyWhatChanged
=============================================================================

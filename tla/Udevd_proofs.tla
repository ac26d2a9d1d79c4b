----------------------------- MODULE Udevd_proofs -----------------------------
(* Theorems about ModuleLoad, for every dependency relation, cyclic ones      *)
(* included, and any number of loaders; and about Udevd: its workers load as  *)
(* ModuleLoad says, so that what is proved of ModuleLoad holds in the daemon,  *)
(* and no load outlives its worker.                                          *)
EXTENDS Udevd, SequenceTheorems, TLAPS

(* What a frame has behind it is in the kernel, on its module's account. *)
FrameDone(f, ins, par) ==
    /\ f.next <= Len(Depends[f.mod]) + 1
    /\ \A k \in 1..(f.next - 1) :
          Depends[f.mod][k] \in ins /\ par[Depends[f.mod][k]] = f.mod

(* A frame below another one is at the dependency the other one loads. *)
Calls(g, f) == AtDependency(g) /\ Dependency(g) = f.mod

StackOK(s, ins, par) ==
    /\ \A i \in 1..Len(s) : FrameDone(s[i], ins, par)
    /\ \A i \in 1..(Len(s) - 1) : Calls(s[i + 1], s[i])

StacksOK == \A l \in Loaders : StackOK(stack[l], inserted, parent)

(* An inserted module owns its dependencies. *)
Owns == \A m \in inserted : \A k \in 1..Len(Depends[m]) :
    Depends[m][k] \in inserted /\ parent[Depends[m][k]] = m

IInv == TypeOK /\ StacksOK /\ Owns

-----------------------------------------------------------------------------
(* The length of a list of dependencies is a number. *)
LEMMA DependsLength == ASSUME NEW m \in Modules PROVE Len(Depends[m]) \in Nat
<1>1. Depends[m] \in Seq(Names)
  BY DependsType
<1> QED
  BY <1>1, LenProperties

(* More modules in the kernel do no harm to a stack. *)
LEMMA StackGrows ==
  ASSUME NEW s, NEW ins, NEW par, NEW ins2, NEW par2,
         ins \subseteq ins2, \A x \in ins : par2[x] = par[x],
         StackOK(s, ins, par)
  PROVE  StackOK(s, ins2, par2)
  BY DEF StackOK, FrameDone

(* A call puts a frame on the stack that has nothing behind it. *)
LEMMA PushProperties ==
  ASSUME NEW s \in Seq(Frames), NEW m \in Modules, NEW ins, NEW par,
         StackOK(s, ins, par), s # <<>> => Calls(s[1], Frame(m))
  PROVE  <<Frame(m)>> \o s \in Seq(Frames) /\ StackOK(<<Frame(m)>> \o s, ins, par)
<1> DEFINE f == Frame(m)
           t == <<f>> \o s
<1>1. f \in Frames /\ f.next = 1 /\ f.mod = m
  BY DEF Frame, Frames
<1> HIDE DEF f
<1>2. <<f>> \in Seq(Frames) /\ Len(<<f>>) = 1 /\ <<f>>[1] = f
  BY <1>1
<1>3. Len(s) \in Nat /\ (Len(s) # 0 => s # <<>>)
  BY LenProperties, EmptySeq
<1>4. /\ t \in Seq(Frames) /\ Len(t) = Len(s) + 1
      /\ t[1] = f /\ \A i \in 1..Len(s) : t[i + 1] = s[i]
  <2>1. /\ t \in Seq(Frames) /\ Len(t) = 1 + Len(s)
        /\ \A i \in 1..(1 + Len(s)) : t[i] = IF i <= 1 THEN <<f>>[i] ELSE s[i - 1]
    BY <1>2, <1>3, ConcatProperties
  <2>2. t[1] = f
    BY <1>2, <1>3, <2>1
  <2>3. ASSUME NEW i \in 1..Len(s) PROVE t[i + 1] = s[i]
    <3>1. i + 1 \in 1..(1 + Len(s)) /\ ~(i + 1 <= 1) /\ (i + 1) - 1 = i
      BY <1>3
    <3> QED
      BY <2>1, <3>1
  <2> QED
    BY <1>3, <2>1, <2>2, <2>3
<1> HIDE DEF t
<1>5. FrameDone(f, ins, par)
  <2>1. 1 <= Len(Depends[m]) + 1
    BY DependsLength
  <2> QED
    BY <1>1, <2>1 DEF FrameDone
<1>6. ASSUME NEW i \in 1..Len(t) PROVE FrameDone(t[i], ins, par)
  <2>1. CASE i = 1
    BY <1>4, <1>5, <2>1
  <2>2. CASE i # 1
    <3>1. i - 1 \in 1..Len(s) /\ (i - 1) + 1 = i
      BY <1>3, <1>4, <2>2
    <3> QED
      BY <1>4, <3>1 DEF StackOK
  <2> QED
    BY <2>1, <2>2
<1>7. ASSUME NEW i \in 1..(Len(t) - 1) PROVE Calls(t[i + 1], t[i])
  <2>0. i \in 1..Len(s) /\ t[i + 1] = s[i]
    BY <1>3, <1>4
  <2>1. CASE i = 1
    <3>1. Calls(s[1], f)
      BY <1>3, <2>0 DEF f
    <3> QED
      BY <1>4, <2>0, <2>1, <3>1
  <2>2. CASE i # 1
    <3>1. i - 1 \in 1..(Len(s) - 1) /\ i - 1 \in 1..Len(s) /\ (i - 1) + 1 = i
      BY <1>3, <2>0, <2>2
    <3>2. t[i] = s[i - 1]
      BY <1>4, <3>1
    <3>3. Calls(s[(i - 1) + 1], s[i - 1])
      BY <3>1 DEF StackOK
    <3> QED
      BY <2>0, <3>1, <3>2, <3>3
  <2> QED
    BY <2>1, <2>2
<1> QED
  BY <1>4, <1>6, <1>7 DEF StackOK, t, f

(* Returning from a call leaves the frames below it, the first one further. *)
LEMMA PoppedProperties ==
  ASSUME NEW s \in Seq(Frames), s # <<>>
  PROVE  /\ Popped(s) \in Seq(Frames)
         /\ Len(s) \in Nat \ {0} /\ Len(Popped(s)) = Len(s) - 1
         /\ \A i \in 1..(Len(s) - 1) :
               Popped(s)[i] = IF i = 1 THEN [mod |-> s[2].mod, next |-> s[2].next + 1]
                              ELSE s[i + 1]
<1> DEFINE t == Tail(s)
<1>1. /\ t \in Seq(Frames) /\ Len(t) = Len(s) - 1
      /\ \A i \in 1..Len(t) : t[i] = s[i + 1]
  BY HeadTailProperties
<1>2. Len(s) \in Nat \ {0}
  BY EmptySeq
<1>3. Popped(s) = IF t = <<>> THEN <<>>
                  ELSE [t EXCEPT ![1] = [mod |-> s[2].mod, next |-> s[2].next + 1]]
  BY DEF Popped
<1> HIDE DEF t
<1>4. CASE t = <<>>
  <2>1. Len(s) = 1 /\ Popped(s) = <<>>
    BY <1>1, <1>2, <1>3, <1>4, EmptySeq
  <2> QED
    BY <1>2, <2>1, EmptySeq
<1>5. CASE t # <<>>
  <2>1. 1 \in 1..Len(t) /\ 2 \in 1..Len(s)
    BY <1>1, <1>2, <1>5, EmptySeq
  <2> DEFINE e == [mod |-> s[2].mod, next |-> s[2].next + 1]
  <2>2. s[2] \in Frames
    BY <2>1, ElementOfSeq
  <2>3. e \in Frames
    BY <2>2 DEF Frames
  <2>4. Popped(s) = [t EXCEPT ![1] = e]
    BY <1>3, <1>5
  <2> HIDE DEF e
  <2>5. /\ Popped(s) \in Seq(Frames) /\ Len(Popped(s)) = Len(t)
        /\ \A j \in 1..Len(t) : Popped(s)[j] = IF j = 1 THEN e ELSE t[j]
    BY <1>1, <2>1, <2>3, <2>4, ExceptSeq
  <2>6. \A i \in 1..(Len(s) - 1) : Popped(s)[i] = IF i = 1 THEN e ELSE s[i + 1]
    BY <1>1, <2>5
  <2> QED
    BY <1>1, <1>2, <2>5, <2>6 DEF e
<1> QED
  BY <1>4, <1>5

(* When the module on top is in the kernel, on its caller's account, the       *)
(* caller has one dependency more behind it.                                 *)
LEMMA PopOK ==
  ASSUME NEW s \in Seq(Frames), s # <<>>, NEW ins, NEW par,
         StackOK(s, ins, par), s[1].mod \in ins,
         Len(s) > 1 => par[s[1].mod] = s[2].mod
  PROVE  StackOK(Popped(s), ins, par)
<1> DEFINE t == Popped(s)
<1>1. /\ Len(s) \in Nat \ {0} /\ Len(t) = Len(s) - 1
      /\ \A i \in 1..(Len(s) - 1) :
            t[i] = IF i = 1 THEN [mod |-> s[2].mod, next |-> s[2].next + 1]
                   ELSE s[i + 1]
  BY PoppedProperties
<1> HIDE DEF t
<1>2. ASSUME NEW i \in 1..Len(t) PROVE FrameDone(t[i], ins, par)
  <2>1. CASE i = 1
    <3>1. 1 \in 1..(Len(s) - 1) /\ 2 \in 1..Len(s) /\ 1 + 1 = 2 /\ Len(s) > 1
      BY <1>1, <2>1
    <3>2. /\ Calls(s[2], s[1]) /\ FrameDone(s[2], ins, par)
      BY <3>1 DEF StackOK
    <3>3. s[2] \in Frames
      BY <3>1, ElementOfSeq
    <3>4. s[2].mod \in Modules /\ s[2].next \in Nat \ {0}
      BY <3>3 DEF Frames
    <3>5. t[1] = [mod |-> s[2].mod, next |-> s[2].next + 1]
      BY <1>1, <3>1
    <3>6. t[1].mod = s[2].mod /\ t[1].next = s[2].next + 1
      BY <3>5
    <3>7. t[1].next <= Len(Depends[t[1].mod]) + 1
      <4>1. s[2].next <= Len(Depends[s[2].mod])
        BY <3>2 DEF Calls, AtDependency
      <4>2. s[2].next + 1 <= Len(Depends[s[2].mod]) + 1
        BY <3>4, <4>1, DependsLength
      <4> QED
        BY <3>6, <4>2
    <3>8. ASSUME NEW k \in 1..(t[1].next - 1)
          PROVE  Depends[t[1].mod][k] \in ins /\ par[Depends[t[1].mod][k]] = t[1].mod
      <4>1. CASE k = s[2].next
        <5>1. Depends[s[2].mod][k] = s[1].mod
          BY <3>2, <4>1 DEF Calls, Dependency
        <5> QED
          BY <3>1, <3>6, <5>1
      <4>2. CASE k # s[2].next
        <5>1. k \in 1..(s[2].next - 1)
          BY <3>4, <3>6, <4>2
        <5> QED
          BY <3>2, <3>6, <5>1 DEF FrameDone
      <4> QED
        BY <4>1, <4>2
    <3>9. FrameDone(t[1], ins, par)
      BY <3>7, <3>8 DEF FrameDone
    <3> QED
      BY <2>1, <3>9
  <2>2. CASE i # 1
    <3>1. i + 1 \in 1..Len(s) /\ t[i] = s[i + 1]
      BY <1>1, <2>2
    <3> QED
      BY <3>1 DEF StackOK
  <2> QED
    BY <2>1, <2>2
<1>3. ASSUME NEW i \in 1..(Len(t) - 1) PROVE Calls(t[i + 1], t[i])
  <2>1. /\ i + 1 \in 1..(Len(s) - 1) /\ i \in 1..(Len(s) - 1) /\ i + 1 # 1
        /\ t[i + 1] = s[(i + 1) + 1]
    BY <1>1
  <2>2. Calls(s[(i + 1) + 1], s[i + 1])
    BY <2>1 DEF StackOK
  <2>3. t[i].mod = s[i + 1].mod
    <3>1. CASE i = 1
      BY <1>1, <2>1, <3>1
    <3>2. CASE i # 1
      BY <1>1, <2>1, <3>2
    <3> QED
      BY <3>1, <3>2
  <2> QED
    BY <2>1, <2>2, <2>3 DEF Calls
<1> QED
  BY <1>2, <1>3 DEF StackOK, t

-----------------------------------------------------------------------------
LEMMA InitIInv == Init => IInv
<1> SUFFICES ASSUME Init PROVE IInv
  OBVIOUS
<1>1. /\ inserted = {} /\ wanted = Wanted
      /\ parent = [m \in Modules |-> NoModule] /\ stack = [l \in Loaders |-> <<>>]
  BY DEF Init
<1>2. stack \in [Loaders -> Seq(Frames)]
  BY <1>1, EmptySeq
<1>3. \A l \in Loaders : stack[l] = <<>> /\ Len(stack[l]) = 0
  BY <1>1
<1>4. TypeOK
  BY <1>1, <1>2, <1>3, WantedType DEF TypeOK
<1>5. StacksOK
  BY <1>3 DEF StacksOK, StackOK
<1>6. Owns
  BY <1>1 DEF Owns
<1> QED
  BY <1>4, <1>5, <1>6 DEF IInv

(* A step that leaves the kernel alone and a sound stack keeps the invariant. *)
LEMMA StackStep ==
  ASSUME IInv, NEW l \in Loaders, NEW s \in Seq(Frames),
         StackOK(s, inserted, parent), stack' = [stack EXCEPT ![l] = s],
         UNCHANGED <<inserted, parent>>, wanted' \in [Loaders -> SUBSET Modules]
  PROVE  IInv'
<1>1. stack \in [Loaders -> Seq(Frames)]
  BY DEF IInv, TypeOK
<1>2. /\ stack' \in [Loaders -> Seq(Frames)]
      /\ \A x \in Loaders : stack'[x] = IF x = l THEN s ELSE stack[x]
  BY <1>1
<1>3. \A x \in Loaders : StackOK(stack'[x], inserted, parent)
  BY <1>2 DEF IInv, StacksOK
<1>4. StacksOK'
  BY <1>3 DEF StacksOK
<1>5. \A x \in Loaders : \A i \in 1..Len(stack'[x]) :
         stack'[x][i].next <= Len(Depends[stack'[x][i].mod]) + 1
  BY <1>3 DEF StackOK, FrameDone
<1>6. TypeOK'
  BY <1>2, <1>5 DEF IInv, TypeOK
<1>7. Owns'
  BY DEF IInv, Owns
<1> QED
  BY <1>4, <1>6, <1>7 DEF IInv

LEMMA BeginStep ==
  ASSUME IInv, NEW l \in Loaders, NEW m \in Modules, Begin(l, m) PROVE IInv'
<1>1. <<>> \in Seq(Frames) /\ Len(<<>>) = 0
  BY EmptySeq
<1>2. StackOK(<<>>, inserted, parent)
  BY <1>1 DEF StackOK
<1>3. <<Frame(m)>> \o <<>> \in Seq(Frames)
      /\ StackOK(<<Frame(m)>> \o <<>>, inserted, parent)
  BY <1>1, <1>2, PushProperties
<1>4. <<Frame(m)>> \o <<>> = <<Frame(m)>>
  <2>1. <<Frame(m)>> \in Seq({Frame(m)})
    OBVIOUS
  <2> QED
    BY <2>1, ConcatEmptySeq
<1>5. wanted' \in [Loaders -> SUBSET Modules]
  BY DEF IInv, TypeOK, Begin
<1> QED
  BY <1>3, <1>4, <1>5, StackStep DEF Begin, SetStack

LEMMA DescendStep == ASSUME IInv, NEW l \in Loaders, Descend(l) PROVE IInv'
<1> DEFINE s == stack[l]
           m == Dependency(Head(s))
<1>1. s \in Seq(Frames) /\ s # <<>> /\ StackOK(s, inserted, parent)
  BY DEF Descend, IInv, TypeOK, StacksOK
<1>2. Head(s) = s[1]
  BY <1>1
<1>3. m \in Modules /\ Calls(s[1], Frame(m))
  BY <1>2 DEF Descend, Calls, Frame
<1>4. <<Frame(m)>> \o s \in Seq(Frames) /\ StackOK(<<Frame(m)>> \o s, inserted, parent)
  BY <1>1, <1>3, PushProperties
<1>5. /\ stack' = [stack EXCEPT ![l] = <<Frame(m)>> \o s]
      /\ UNCHANGED <<inserted, parent, wanted>>
  BY DEF Descend, SetStack
<1>6. wanted' \in [Loaders -> SUBSET Modules]
  BY <1>5 DEF IInv, TypeOK
<1> QED
  BY <1>4, <1>5, <1>6, StackStep

LEMMA FailStep == ASSUME IInv, NEW l \in Loaders, Fail(l) PROVE IInv'
<1>1. <<>> \in Seq(Frames) /\ Len(<<>>) = 0
  BY EmptySeq
<1>2. StackOK(<<>>, inserted, parent)
  BY <1>1 DEF StackOK
<1>3. wanted' \in [Loaders -> SUBSET Modules]
  BY DEF IInv, TypeOK, Fail
<1> QED
  BY <1>1, <1>2, <1>3, StackStep DEF Fail, SetStack

(* The module that goes in has all its dependencies in the kernel on its own   *)
(* account: the frame that inserts it has seen each of them inserted.          *)
LEMMA InsertStep == ASSUME IInv, NEW l \in Loaders, Insert(l) PROVE IInv'
<1> DEFINE s == stack[l]
           m == s[1].mod
           t == Popped(s)
<1>1. /\ s \in Seq(Frames) /\ s # <<>> /\ StackOK(s, inserted, parent)
      /\ stack \in [Loaders -> Seq(Frames)] /\ Head(s) = s[1]
  BY DEF Insert, IInv, TypeOK, StacksOK
<1>2. 1 \in 1..Len(s) /\ Len(s) \in Nat \ {0}
  BY <1>1, EmptySeq
<1>3. s[1] \in Frames
  BY <1>1, <1>2, ElementOfSeq
<1>4. m \in Modules /\ s[1].next \in Nat \ {0}
  BY <1>3 DEF Frames
<1>5. /\ ~AtDependency(s[1]) /\ m \notin inserted
      /\ inserted' = inserted \cup {m}
      /\ parent' = [parent EXCEPT ![m] = Caller(l)]
      /\ stack' = [stack EXCEPT ![l] = t]
      /\ wanted' = wanted
  BY <1>1 DEF Insert, SetStack
<1> HIDE DEF m, t
<1>6. /\ inserted \subseteq Modules /\ parent \in [Modules -> Modules \cup {NoModule}]
  BY DEF IInv, TypeOK
<1>7. /\ inserted \subseteq inserted'
      /\ \A x \in inserted : parent'[x] = parent[x]
      /\ m \in inserted' /\ parent'[m] = Caller(l)
  BY <1>4, <1>5, <1>6
<1>8. Len(s) > 1 => Caller(l) = s[2].mod /\ s[2] \in Frames
  <2>1. Len(s) > 1 => 2 \in 1..Len(s)
    BY <1>2
  <2> QED
    BY <1>1, <1>2, <2>1, ElementOfSeq DEF Caller
<1>9. Caller(l) \in Modules \cup {NoModule}
  <2>1. CASE Len(s) = 1
    BY <2>1 DEF Caller
  <2>2. CASE Len(s) > 1
    <3>1. Caller(l) = s[2].mod /\ s[2] \in Frames
      BY <1>8, <2>2
    <3>2. s[2].mod \in Modules
      BY <3>1 DEF Frames
    <3> QED
      BY <3>1, <3>2
  <2>3. Len(s) = 1 \/ Len(s) > 1
    <3>1. \A n \in Nat \ {0} : n = 1 \/ n > 1
      OBVIOUS
    <3> QED
      BY <1>2, <3>1, Zenon
  <2> QED
    BY <2>1, <2>2, <2>3
<1>10. \A x \in Loaders : StackOK(stack[x], inserted', parent')
  BY <1>7, StackGrows DEF IInv, StacksOK
<1>11. t \in Seq(Frames) /\ StackOK(t, inserted', parent')
  <2>1. StackOK(s, inserted', parent') /\ s[1].mod \in inserted'
    BY <1>7, <1>10 DEF m
  <2>2. Len(s) > 1 => parent'[s[1].mod] = s[2].mod
    BY <1>7, <1>8 DEF m
  <2> QED
    BY <1>1, <2>1, <2>2, PopOK, PoppedProperties DEF t
<1>12. /\ stack' \in [Loaders -> Seq(Frames)]
       /\ \A x \in Loaders : stack'[x] = IF x = l THEN t ELSE stack[x]
  BY <1>1, <1>5, <1>11
<1>13. \A x \in Loaders : StackOK(stack'[x], inserted', parent')
  BY <1>10, <1>11, <1>12
<1>14. StacksOK'
  BY <1>13 DEF StacksOK
<1>15. TypeOK'
  <2>1. inserted' \subseteq Modules /\ parent' \in [Modules -> Modules \cup {NoModule}]
    BY <1>4, <1>5, <1>6, <1>9
  <2>2. \A x \in Loaders : \A i \in 1..Len(stack'[x]) :
            stack'[x][i].next <= Len(Depends[stack'[x][i].mod]) + 1
    BY <1>13 DEF StackOK, FrameDone
  <2>3. wanted' \in [Loaders -> SUBSET Modules]
    BY <1>5 DEF IInv, TypeOK
  <2> QED
    BY <1>12, <2>1, <2>2, <2>3 DEF TypeOK
<1>16. Owns'
  <2> SUFFICES ASSUME NEW x \in inserted', NEW k \in 1..Len(Depends[x])
               PROVE  Depends[x][k] \in inserted' /\ parent'[Depends[x][k]] = x
    BY DEF Owns
  <2>1. CASE x \in inserted
    BY <1>7, <2>1 DEF IInv, Owns
  <2>2. CASE x = m
    <3>1. FrameDone(s[1], inserted', parent')
      BY <1>2, <1>10 DEF StackOK
    <3>2. k \in 1..(s[1].next - 1)
      BY <1>4, <1>5, <2>2, DependsLength DEF AtDependency, m
    <3> QED
      BY <2>2, <3>1, <3>2 DEF FrameDone, m
  <2> QED
    BY <1>5, <2>1, <2>2
<1> QED
  BY <1>14, <1>15, <1>16 DEF IInv

(* Loaders that end leave the kernel as it is. *)
LEMMA KillStep == ASSUME IInv, NEW gone \in SUBSET Loaders, Kill(gone) PROVE IInv'
<1>1. <<>> \in Seq(Frames) /\ Len(<<>>) = 0
  BY EmptySeq
<1>2. \A l \in Loaders : stack'[l] = <<>> \/ stack'[l] = stack[l]
  BY DEF Kill
<1>3. \A l \in Loaders : StackOK(stack'[l], inserted, parent)
  <2>1. StackOK(<<>>, inserted, parent)
    BY <1>1 DEF StackOK
  <2> QED
    BY <1>2, <2>1 DEF IInv, StacksOK
<1>4. StacksOK'
  BY <1>3 DEF StacksOK, Kill
<1>5. TypeOK'
  <2>1. stack' \in [Loaders -> Seq(Frames)]
    BY <1>1 DEF Kill, IInv, TypeOK
  <2>2. \A l \in Loaders : \A i \in 1..Len(stack'[l]) :
            stack'[l][i].next <= Len(Depends[stack'[l][i].mod]) + 1
    BY <1>3 DEF StackOK, FrameDone
  <2>3. wanted' \in [Loaders -> SUBSET Modules]
    BY DEF Kill, IInv, TypeOK
  <2> QED
    BY <2>1, <2>2, <2>3 DEF Kill, IInv, TypeOK
<1>6. Owns'
  BY DEF Kill, IInv, Owns
<1> QED
  BY <1>4, <1>5, <1>6 DEF IInv

(* The invariant holds in every state. *)
LEMMA Invariance == Spec => []IInv
<1>1. IInv /\ UNCHANGED vars => IInv'
  <2> SUFFICES ASSUME IInv, UNCHANGED vars PROVE IInv'
    OBVIOUS
  <2>1. /\ inserted' = inserted /\ parent' = parent
        /\ stack' = stack /\ wanted' = wanted
    BY DEF vars
  <2>2. TypeOK'
    BY <2>1 DEF IInv, TypeOK
  <2>3. StacksOK'
    BY <2>1 DEF IInv, StacksOK
  <2>4. Owns'
    BY <2>1 DEF IInv, Owns
  <2> QED
    BY <2>2, <2>3, <2>4 DEF IInv
<1>2. IInv /\ [Next]_vars => IInv'
  BY <1>1, BeginStep, DescendStep, FailStep, InsertStep, KillStep DEF Next, Loading
<1> QED
  BY InitIInv, <1>2, PTL DEF Spec

-----------------------------------------------------------------------------
(* Load's recursion keeps within the list of dependencies of each module. *)
THEOREM TypeCorrect == Spec => []TypeOK
<1>1. IInv => TypeOK
  BY DEF IInv
<1> QED
  BY <1>1, Invariance, PTL

(* Whatever loaders do at the same time and wherever loads fail, a module is  *)
(* inserted only after everything it depends on.                             *)
THEOREM LoadsDependenciesFirst == Spec => []DependenciesFirst
<1>1. IInv => DependenciesFirst
  BY DEF IInv, Owns, DependenciesFirst
<1> QED
  BY <1>1, Invariance, PTL

(* Since Load records nothing of what is loaded, no two modules that depend   *)
(* on a common one are ever both in the kernel.                              *)
THEOREM SharingExcludes == Spec => []NoSharedDependency
<1>1. IInv => NoSharedDependency
  BY DEF IInv, Owns, NoSharedDependency
<1> QED
  BY <1>1, Invariance, PTL

-----------------------------------------------------------------------------
(* Where an event is: what is in the pool was read, what was read was made, and *)
(* a stack belongs to an event that a worker has taken.                        *)
PoolTypes ==
    /\ job \in [Loaders -> {"new", "added", "queued", "taken", "did", "done"}]
    /\ working \in [Workers -> Loaders \cup {NoJob}]
    /\ jobQueue \in Seq(received)
ReadIsMade == received \subseteq sent /\ socket \in Seq(sent) /\ sent \subseteq Loaders
InPoolIsRead == \A e \in Loaders : job[e] # "new" => e \in received
LoadIsTaken ==
    /\ stack = [e \in Loaders |-> stack[e]]
    /\ \A e \in Loaders :
          stack[e] # <<>> => job[e] = "taken" /\ \E w \in Workers : working[w] = e

RunsBounded ==
    /\ runs \in 0..Len(Walks)
    /\ daemon # "down" => runs \in 1..Len(Walks)
    /\ todo # {} => daemon # "down"

WInv == RunsBounded /\ PoolTypes /\ ReadIsMade /\ InPoolIsRead /\ LoadIsTaken

-----------------------------------------------------------------------------
LEMMA WalksLength == Len(Walks) \in Nat /\ \A i \in 1..Len(Walks) : Walks[i] \in Range(Walks)
  BY WalksAreNamed DEF Range

LEMMA UInitWInv == UInit => WInv
<1> SUFFICES ASSUME UInit PROVE WInv
  OBVIOUS
<1>1. /\ stack = [l \in Loaders |-> <<>>] /\ received = {} /\ sent = {} /\ socket = <<>>
      /\ job = [e \in Loaders |-> "new"] /\ jobQueue = <<>>
      /\ working = [w \in Workers |-> NoJob]
  BY DEF UInit, Init, P!Init
<1>2. PoolTypes
  BY <1>1 DEF PoolTypes
<1>3. ReadIsMade
  BY <1>1 DEF ReadIsMade
<1>4. InPoolIsRead /\ LoadIsTaken
  BY <1>1 DEF InPoolIsRead, LoadIsTaken
<1>5. RunsBounded
  BY WalksLength DEF UInit, RunsBounded
<1> QED
  BY <1>2, <1>3, <1>4, <1>5 DEF WInv

(* Every step of the daemon is one of the loaders, the end of some, or none. *)
LEMMA StepRefines == ASSUME WInv, [UNext]_uvars PROVE [Next]_vars
<1>1. CASE UNCHANGED uvars
  BY <1>1 DEF uvars
<1>2. CASE Crash \/ \E d \in Devices : WalkMisses(d) /\ End
  <2>1. Kill(sent) /\ sent \in SUBSET Loaders
    BY <1>2 DEF Crash, End, WInv, ReadIsMade
  <2> QED
    BY <2>1 DEF Next
<1>3. CASE \E w \in Workers : Load(w)
  <2>1. PICK w \in Workers : Load(w)
    BY <1>3
  <2>2. working[w] \in Loaders
    BY <2>1 DEF Load, WInv, PoolTypes
  <2> QED
    BY <2>1, <2>2 DEF Load, Next
<1>4. CASE Start \/ BeginWalk \/ Receive
  BY <1>4 DEF Start, BeginWalk, Receive
<1>5. CASE \E d \in Hot : Plug(d) \/ Unplug(d)
  BY <1>5 DEF Plug, Unplug
<1>6. CASE \E d \in Devices : Walk(d) \/ (WalkMisses(d) /\ ~End)
  BY <1>6 DEF Walk, WalkMisses
<1>7. CASE \E e \in Loaders : Submit(e)
  BY <1>7 DEF Submit
<1>8. CASE \E w \in Workers : Work(w)
  BY <1>8 DEF Work
<1> QED
  BY <1>1, <1>2, <1>3, <1>4, <1>5, <1>6, <1>7, <1>8 DEF UNext

-----------------------------------------------------------------------------
(* The events that are in the pool, seen from one side, do not change when the *)
(* kernel or the walk makes a step.                                          *)
LEMMA OutsideStep ==
  ASSUME WInv, UNCHANGED <<vars, poolVars, received>>, RunsBounded',
         sent \subseteq sent', sent' \subseteq Loaders, socket' \in Seq(sent')
  PROVE  WInv'
<1>1. UNCHANGED <<stack, job, working, jobQueue, received>>
  BY DEF vars, poolVars
<1>2. PoolTypes'
  BY <1>1 DEF WInv, PoolTypes
<1>3. ReadIsMade'
  BY <1>1 DEF WInv, ReadIsMade
<1>4. InPoolIsRead' /\ LoadIsTaken'
  BY <1>1 DEF WInv, InPoolIsRead, LoadIsTaken
<1> QED
  BY <1>2, <1>3, <1>4 DEF WInv

LEMMA EmitProperties ==
  ASSUME WInv, NEW e \in Loaders, Emit(e)
  PROVE  sent \subseteq sent' /\ sent' \subseteq Loaders /\ socket' \in Seq(sent')
<1>1. sent' = sent \cup {e} /\ socket \in Seq(sent) /\ sent \subseteq Loaders
  BY DEF Emit, WInv, ReadIsMade
<1>2. socket \in Seq(sent') /\ e \in sent'
  BY <1>1
<1>3. Append(socket, e) \in Seq(sent')
  BY <1>2
<1>4. socket' = socket \/ socket' = Append(socket, e)
  BY DEF Emit
<1> QED
  BY <1>1, <1>2, <1>3, <1>4

LEMMA EventsTyped ==
  /\ \A d \in Hot : <<d, "plug">> \in Loaders /\ <<d, "unplug">> \in Loaders
  /\ \A d \in Devices : \A w \in Range(Walks) : <<d, w>> \in Loaders
  BY EventsAre DEF Devices

LEMMA KernelStep ==
  ASSUME WInv, NEW d \in Hot, Plug(d) \/ Unplug(d) PROVE WInv'
<1>1. PICK e \in Loaders : Emit(e)
  BY EventsTyped DEF Plug, Unplug
<1>2. RunsBounded'
  BY DEF WInv, RunsBounded, Plug, Unplug
<1> QED
  BY <1>1, <1>2, EmitProperties, OutsideStep DEF Plug, Unplug

LEMMA WalkStep == ASSUME WInv, NEW d \in Devices, Walk(d) PROVE WInv'
<1>1. <<d, Walks[runs]>> \in Loaders
  BY EventsTyped, WalksLength DEF WInv, RunsBounded, Walk
<1>2. RunsBounded'
  BY DEF WInv, RunsBounded, Walk
<1> QED
  BY <1>1, <1>2, EmitProperties, OutsideStep DEF Walk

LEMMA EndStep == ASSUME WInv, End PROVE WInv'
<1>1. /\ \A e \in Loaders : stack'[e] = IF e \in sent THEN <<>> ELSE stack[e]
      /\ received' = {} /\ sent' = sent /\ socket' = <<>> /\ jobQueue' = <<>>
      /\ job' = [e \in Loaders |-> "new"] /\ working' = [w \in Workers |-> NoJob]
  BY DEF End, Kill
<1>2. /\ \A e \in Loaders : stack'[e] = <<>>
      /\ stack' = [e \in Loaders |-> stack'[e]]
  BY <1>1 DEF WInv, ReadIsMade, InPoolIsRead, LoadIsTaken, End, Kill
<1>3. PoolTypes'
  BY <1>1 DEF PoolTypes
<1>4. ReadIsMade'
  BY <1>1 DEF WInv, ReadIsMade
<1>5. InPoolIsRead' /\ LoadIsTaken'
  BY <1>1, <1>2 DEF InPoolIsRead, LoadIsTaken
<1>6. RunsBounded'
  BY DEF WInv, RunsBounded, End
<1> QED
  BY <1>3, <1>4, <1>5, <1>6 DEF WInv

LEMMA ReceiveStep == ASSUME WInv, Receive PROVE WInv'
<1>1. /\ socket \in Seq(sent) /\ socket # <<>> /\ received' = received \cup {Head(socket)}
      /\ socket' = Tail(socket) /\ received \subseteq sent /\ sent \subseteq Loaders
      /\ jobQueue \in Seq(received)
      /\ UNCHANGED <<stack, job, working, jobQueue, sent, runs, daemon, todo>>
  BY DEF WInv, ReadIsMade, PoolTypes, Receive, vars, poolVars
<1>2. Head(socket) \in sent /\ Tail(socket) \in Seq(sent)
  BY <1>1
<1>3. jobQueue' \in Seq(received')
  BY <1>1
<1>4. PoolTypes'
  BY <1>1, <1>3 DEF WInv, PoolTypes
<1>5. ReadIsMade'
  BY <1>1, <1>2 DEF ReadIsMade
<1>6. InPoolIsRead' /\ LoadIsTaken' /\ RunsBounded'
  BY <1>1 DEF WInv, InPoolIsRead, LoadIsTaken, RunsBounded
<1> QED
  BY <1>4, <1>5, <1>6 DEF WInv

LEMMA SubmitStep == ASSUME WInv, NEW e \in Loaders, Submit(e) PROVE WInv'
<1>1. /\ e \in received /\ job[e] \in {"new", "added"}
      /\ \E what \in {"added", "queued"} : job' = [job EXCEPT ![e] = what]
      /\ jobQueue' = jobQueue \/ jobQueue' = Append(jobQueue, e)
      /\ UNCHANGED <<stack, working, received, sent, socket, runs, daemon, todo>>
  BY DEF Submit, P!Submitter, P!Add, P!Enqueue, P!Becomes, vars, kernelVars
<1>2. jobQueue \in Seq(received) /\ job \in [Loaders -> {"new", "added", "queued", "taken", "did", "done"}]
  BY DEF WInv, PoolTypes
<1>3. jobQueue' \in Seq(received')
  BY <1>1, <1>2
<1>4. PoolTypes'
  BY <1>1, <1>2, <1>3 DEF WInv, PoolTypes
<1>5. ReadIsMade' /\ RunsBounded'
  BY <1>1 DEF WInv, ReadIsMade, RunsBounded
<1>6. InPoolIsRead' /\ LoadIsTaken'
  BY <1>1, <1>2 DEF WInv, InPoolIsRead, LoadIsTaken
<1> QED
  BY <1>4, <1>5, <1>6 DEF WInv

(* A load goes on for the event of its worker, which is taken. *)
LEMMA LoadStep == ASSUME WInv, NEW w \in Workers, Load(w) PROVE WInv'
<1>1. /\ working[w] \in Loaders /\ job[working[w]] = "taken"
      /\ \A e \in Loaders : e # working[w] => stack'[e] = stack[e]
      /\ UNCHANGED <<job, working, jobQueue, received, sent, socket, runs, daemon, todo>>
  BY DEF Load, WInv, PoolTypes, LoadIsTaken, Loading, Begin, Descend, Fail, Insert,
         SetStack, kernelVars, poolVars
<1>2. stack' = [e \in Loaders |-> stack'[e]]
  BY DEF Load, WInv, LoadIsTaken, Loading, Begin, Descend, Fail, Insert, SetStack
<1>3. LoadIsTaken'
  BY <1>1, <1>2 DEF WInv, LoadIsTaken
<1> QED
  BY <1>1, <1>3 DEF WInv, PoolTypes, ReadIsMade, InPoolIsRead, RunsBounded
(* A worker takes an event, finds its load ended, or has done with it. *)
LEMMA WorkStep == ASSUME WInv, NEW w \in Workers, Work(w) PROVE WInv'
<1>1. /\ UNCHANGED <<stack, received, sent, socket, runs, daemon, todo>>
      /\ job \in [Loaders -> {"new", "added", "queued", "taken", "did", "done"}]
      /\ working \in [Workers -> Loaders \cup {NoJob}] /\ jobQueue \in Seq(received)
      /\ received \subseteq Loaders
  BY DEF Work, vars, kernelVars, WInv, PoolTypes, ReadIsMade
<1>2. CASE P!Take(w)
  <2> DEFINE h == Head(jobQueue)
  <2>1. /\ working[w] = NoJob /\ h \in received /\ jobQueue' = Tail(jobQueue)
        /\ jobQueue' \in Seq(received')
        /\ working' = [working EXCEPT ![w] = h] /\ job' = [job EXCEPT ![h] = "taken"]
    BY <1>1, <1>2 DEF P!Take, P!Becomes
  <2>2. PoolTypes'
    BY <1>1, <2>1 DEF PoolTypes
  <2>3. InPoolIsRead'
    BY <1>1, <2>1 DEF WInv, InPoolIsRead
  <2>4. LoadIsTaken'
    BY <1>1, <2>1, NoJobIsNoEvent DEF WInv, LoadIsTaken
  <2> QED
    BY <1>1, <2>2, <2>3, <2>4 DEF WInv, ReadIsMade, RunsBounded
<1>3. CASE P!Do(w) /\ Loaded(working[w])
  <2>1. /\ stack[working[w]] = <<>> /\ job' = [job EXCEPT ![working[w]] = "did"]
        /\ job[working[w]] = "taken" /\ working[w] \in Loaders
        /\ UNCHANGED <<working, jobQueue>>
    BY <1>1, <1>3 DEF P!Do, P!Becomes, Loaded
  <2>2. PoolTypes' /\ InPoolIsRead' /\ LoadIsTaken'
    BY <1>1, <2>1 DEF WInv, PoolTypes, InPoolIsRead, LoadIsTaken
  <2> QED
    BY <1>1, <2>2 DEF WInv, ReadIsMade, RunsBounded
<1>4. CASE P!Done(w)
  <2>1. /\ job[working[w]] = "did" /\ job' = [job EXCEPT ![working[w]] = "done"]
        /\ working[w] \in Loaders /\ working' = [working EXCEPT ![w] = NoJob]
        /\ UNCHANGED jobQueue
    BY <1>1, <1>4 DEF P!Done, P!Becomes
  <2>2. PoolTypes' /\ InPoolIsRead' /\ LoadIsTaken'
    BY <1>1, <2>1 DEF WInv, PoolTypes, InPoolIsRead, LoadIsTaken
  <2> QED
    BY <1>1, <2>2 DEF WInv, ReadIsMade, RunsBounded
<1> QED
  BY <1>2, <1>3, <1>4 DEF Work

LEMMA WInvStep == ASSUME WInv, [UNext]_uvars PROVE WInv'
<1>1. CASE UNCHANGED uvars
  BY <1>1 DEF uvars, vars, poolVars, kernelVars, WInv, RunsBounded, PoolTypes,
              ReadIsMade, InPoolIsRead, LoadIsTaken
<1>2. CASE Start \/ BeginWalk
  <2>1. RunsBounded'
    BY <1>2, WalksLength DEF Start, BeginWalk, WInv, RunsBounded
  <2> QED
    BY <1>2, <2>1, OutsideStep DEF Start, BeginWalk, kernelVars, WInv, ReadIsMade
<1>3. CASE \E d \in Devices : WalkMisses(d)
  <2>1. CASE End
    BY <2>1, EndStep
  <2>2. CASE ~End
    <3>1. RunsBounded'
      BY <1>3, <2>2 DEF WalkMisses, WInv, RunsBounded
    <3> QED
      BY <1>3, <2>2, <3>1, OutsideStep DEF WalkMisses, kernelVars, WInv, ReadIsMade
  <2> QED
    BY <2>1, <2>2
<1>4. CASE Crash
  BY <1>4, EndStep DEF Crash
<1> QED
  BY <1>1, <1>2, <1>3, <1>4, KernelStep, WalkStep, ReceiveStep, SubmitStep, LoadStep,
     WorkStep DEF UNext

LEMMA WInvariance == USpec => []WInv
  BY UInitWInv, WInvStep, PTL DEF USpec

-----------------------------------------------------------------------------
(* The daemon loads modules as ModuleLoad says, from any number of events in    *)
(* any order, over any number of its runs.                                    *)
THEOREM LoadsAsModuleLoad == USpec => Spec
<1>1. UInit => Init
  BY DEF UInit
<1> QED
  BY <1>1, WInvariance, StepRefines, PTL DEF USpec, Spec

(* So a module is in the kernel only with all it depends on, wherever udevd     *)
(* ended.                                                                    *)
THEOREM DaemonLoadsDependenciesFirst == USpec => []DependenciesFirst
  BY LoadsAsModuleLoad, LoadsDependenciesFirst, PTL

(* And of the devices whose drivers share a module at most one has its driver. *)
THEOREM DaemonSharingExcludes == USpec => []NoSharedDependency
  BY LoadsAsModuleLoad, SharingExcludes, PTL

(* No load runs without its worker, nor two for one event. *)
THEOREM LoadsOnWorkers == USpec => []LoadsHaveWorkers
<1>1. WInv => LoadsHaveWorkers
  BY DEF WInv, LoadIsTaken, LoadsHaveWorkers
<1> QED
  BY <1>1, WInvariance, PTL
=============================================================================

----------------------------- MODULE Terminal_proofs -----------------------------
(***************************************************************************)
(* Proofs about what is written to a terminal and what is read from one.      *)
(* The console: for every size of the window and every stream of bytes, the    *)
(* cuts between events do not show, text stays on the grid and the window      *)
(* shows what the grid holds.  The prompt of lipi: for every set of lines it   *)
(* asks for another line only if that can help.                               *)
(***************************************************************************)
EXTENDS Console, Prompt, SequenceTheorems, FiniteSetTheorems, TLAPS

-----------------------------------------------------------------------------
(* Every set of numbers that is not empty has a least one, and induction. *)
LEMMA Least ==
    ASSUME NEW S, S \subseteq Nat, S # {}
    PROVE \E n \in S : \A m \in S : n <= m
<1> DEFINE T == {0 .. n : n \in S}
<1>1. T # {} /\ T \subseteq FiniteSubsetsOf(Nat)
    <2>1. ASSUME NEW n \in S PROVE 0 .. n \subseteq Nat /\ IsFiniteSet(0 .. n)
        BY FS_Interval
    <2> QED BY <2>1 DEF FiniteSubsetsOf
<1>2. PICK x \in T : \A y \in T : ~ (<<y, x>> \in StrictSubsetOrdering(Nat))
    <2> HIDE DEF T
    <2> QED BY <1>1, FS_StrictSubsetOrderingWellFounded, WFMin
<1>3. PICK n \in S : x = 0 .. n
    OBVIOUS
<1>4. ASSUME NEW m \in S, m < n PROVE FALSE
    <2>1. 0 .. m \in T /\ 0 .. m \subseteq 0 .. n /\ n \in 0 .. n /\ n \notin 0 .. m
        BY <1>4
    <2>2. <<0 .. m, 0 .. n>> \in StrictSubsetOrdering(Nat)
        <3>1. 0 .. m \in SUBSET Nat /\ 0 .. n \in SUBSET Nat
            OBVIOUS
        <3>2. 0 .. m # 0 .. n
            BY <2>1
        <3> QED BY <2>1, <3>1, <3>2 DEF StrictSubsetOrdering
    <2> QED BY <1>2, <1>3, <2>1, <2>2
<1> QED BY <1>4

LEMMA Induct ==
    ASSUME NEW S, 0 \in S, \A n \in S \cap Nat : n + 1 \in S
    PROVE Nat \subseteq S
<1> DEFINE T == Nat \ S
<1>1. SUFFICES ASSUME T # {} PROVE FALSE
    OBVIOUS
<1>2. PICK n \in T : \A m \in T : n <= m
    BY <1>1, Least
<1>3. n # 0 /\ n - 1 \in Nat /\ ~ (n <= n - 1)
    OBVIOUS
<1> QED BY <1>2, <1>3

-----------------------------------------------------------------------------
(* The recursive functions of the console exist: they are built up from 0. *)
LEMMA StepsUnfold ==
    ASSUME NEW w, NEW ev \in Seq(Bytes)
    PROVE /\ Steps(w, ev)[0] = w
          /\ \A n \in 1 .. Len(ev) : Steps(w, ev)[n] = Step(Steps(w, ev)[n - 1], ev[n])
<1> DEFINE F(n, f) == f = [k \in 0 .. n |-> IF k = 0 THEN w ELSE Step(f[k - 1], ev[k])]
           S == {n \in Nat : \E f : F(n, f)}
<1>1. 0 \in S
    <2> DEFINE g == [k \in 0 .. 0 |-> w]
    <2>1. F(0, g)
        OBVIOUS
    <2> QED BY <2>1
<1>2. ASSUME NEW n \in S \cap Nat PROVE n + 1 \in S
    <2>1. PICK f : F(n, f)
        BY <1>2
    <2> DEFINE g == [k \in 0 .. (n + 1) |-> IF k <= n THEN f[k] ELSE Step(f[n], ev[n + 1])]
    <2>2. ASSUME NEW k \in 0 .. (n + 1)
          PROVE g[k] = IF k = 0 THEN w ELSE Step(g[k - 1], ev[k])
        <3>1. CASE k = 0
            BY <2>1, <3>1
        <3>2. CASE k # 0 /\ k <= n
            <4>1. k \in 0 .. n /\ k - 1 \in 0 .. n /\ k - 1 \in 0 .. (n + 1) /\ k - 1 <= n
                BY <3>2
            <4> QED BY <2>1, <3>2, <4>1
        <3>3. CASE ~ (k <= n)
            <4>1. k = n + 1 /\ k - 1 = n /\ n \in 0 .. (n + 1) /\ n <= n
                BY <3>3
            <4> QED BY <3>3, <4>1
        <3> QED BY <3>1, <3>2, <3>3
    <2>3. F(n + 1, g)
        BY <2>2
    <2> HIDE DEF g
    <2> QED BY <2>3
<1>3. Len(ev) \in S
    BY <1>1, <1>2, Induct, LenProperties
<1>4. Steps(w, ev) = CHOOSE f : F(Len(ev), f)
    BY DEF Steps
<1>5. F(Len(ev), Steps(w, ev))
    BY <1>3, <1>4
<1>6. Len(ev) \in Nat
    BY LenProperties
<1> QED BY <1>5, <1>6

Entered(s) == [screen |-> s, i |-> 1, back |-> <<>>]

LEMMA LoopUnfold ==
    ASSUME NEW s, NEW ev \in Seq(Bytes)
    PROVE /\ Loop(s, ev)[0] = Entered(s)
          /\ \A n \in 1 .. Len(ev) : Loop(s, ev)[n] = Turn(ev, Loop(s, ev)[n - 1])
<1> DEFINE F(n, f) == f = [k \in 0 .. n |-> IF k = 0 THEN Entered(s) ELSE Turn(ev, f[k - 1])]
           S == {n \in Nat : \E f : F(n, f)}
<1>1. 0 \in S
    <2> DEFINE g == [k \in 0 .. 0 |-> Entered(s)]
    <2>1. F(0, g)
        OBVIOUS
    <2> QED BY <2>1
<1>2. ASSUME NEW n \in S \cap Nat PROVE n + 1 \in S
    <2>1. PICK f : F(n, f)
        BY <1>2
    <2> DEFINE g == [k \in 0 .. (n + 1) |-> IF k <= n THEN f[k] ELSE Turn(ev, f[n])]
    <2>2. ASSUME NEW k \in 0 .. (n + 1)
          PROVE g[k] = IF k = 0 THEN Entered(s) ELSE Turn(ev, g[k - 1])
        <3>1. CASE k = 0
            BY <2>1, <3>1
        <3>2. CASE k # 0 /\ k <= n
            <4>1. k \in 0 .. n /\ k - 1 \in 0 .. n /\ k - 1 \in 0 .. (n + 1) /\ k - 1 <= n
                BY <3>2
            <4> QED BY <2>1, <3>2, <4>1
        <3>3. CASE ~ (k <= n)
            <4>1. k = n + 1 /\ k - 1 = n /\ n \in 0 .. (n + 1) /\ n <= n
                BY <3>3
            <4> QED BY <3>3, <4>1
        <3> QED BY <3>1, <3>2, <3>3
    <2>3. F(n + 1, g)
        BY <2>2
    <2> HIDE DEF g
    <2> QED BY <2>3
<1>3. Len(ev) \in S
    BY <1>1, <1>2, Induct, LenProperties
<1>4. Loop(s, ev) = CHOOSE f : F(Len(ev), f)
    BY DEF Loop, Entered
<1>5. F(Len(ev), Loop(s, ev))
    BY <1>3, <1>4
<1>6. Len(ev) \in Nat
    BY LenProperties
<1> QED BY <1>5, <1>6

-----------------------------------------------------------------------------
(* A screen that has rows and columns; its cursor may be off the grid. *)
Screen(s) ==
    /\ DOMAIN s = {"rows", "cols", "y", "x", "grid", "up"}
    /\ s.rows \in Nat \ {0} /\ s.cols \in Nat \ {0}
    /\ s.y \in Nat /\ s.x \in Nat
    /\ s.up \in BOOLEAN

(* The size stays, and so does a cursor that is on the grid; nothing panics then. *)
Goes(s, t) ==
    /\ Screen(t) /\ t.rows = s.rows /\ t.cols = s.cols
    /\ OnGrid(s, s.y, s.x) => OnGrid(t, t.y, t.x) /\ t.up = s.up

LEMMA FreshScreen ==
    ASSUME NEW size \in Sizes, NEW y \in Nat, NEW x \in Nat
    PROVE /\ Screen(Fresh(size, y, x)) /\ Fresh(size, y, x).up
          /\ Fresh(size, y, x).y = y /\ Fresh(size, y, x).x = x
          /\ Fresh(size, y, x).rows = size[1] /\ Fresh(size, y, x).cols = size[2]
BY SizesPositive DEF Screen, Fresh

LEMMA GoesOn ==
    ASSUME NEW s, NEW t, NEW u, Goes(s, t), Goes(t, u)
    PROVE Goes(s, u)
BY DEF Goes

LEMMA NewLineGoes == ASSUME NEW s, Screen(s) PROVE Goes(s, NewLine(s))
<1>1. CASE s.y + 1 < s.rows
    BY <1>1 DEF Goes, Screen, NewLine, OnGrid
<1>2. CASE ~ (s.y + 1 < s.rows)
    <2>1. PICK u : u = ScrolledUp(s)
        OBVIOUS
    <2>2. /\ DOMAIN u = {"rows", "cols", "y", "x", "grid", "up"}
          /\ u.rows = s.rows /\ u.cols = s.cols /\ u.up = s.up
        BY <2>1 DEF ScrolledUp, Screen
    <2>3. NewLine(s) = [u EXCEPT !.x = 0, !.y = s.rows - 1]
        BY <1>2, <2>1 DEF NewLine
    <2> QED BY <2>2, <2>3 DEF Goes, Screen, OnGrid
<1> QED BY <1>1, <1>2

LEMMA FilledScreen ==
    ASSUME NEW s, Screen(s), NEW y, NEW x, NEW ch
    PROVE /\ Screen(Filled(s, y, x, ch))
          /\ Filled(s, y, x, ch).rows = s.rows /\ Filled(s, y, x, ch).cols = s.cols
          /\ Filled(s, y, x, ch).y = s.y /\ Filled(s, y, x, ch).x = s.x
          /\ Filled(s, y, x, ch).up = s.up
BY DEF Filled, Screen

LEMMA TypeGoes == ASSUME NEW s, Screen(s) PROVE Goes(s, Type(s))
<1>1. PICK t : t = IF OnGrid(s, s.y, s.x) THEN Filled(s, s.y, s.x, "ink") ELSE s
    OBVIOUS
<1>2. Screen(t) /\ t.rows = s.rows /\ t.cols = s.cols /\ t.y = s.y /\ t.x = s.x /\ t.up = s.up
    BY <1>1, FilledScreen
<1>3. Type(s) = IF t.x + 1 < t.cols THEN [t EXCEPT !.x = @ + 1] ELSE NewLine(t)
    BY <1>1 DEF Type
<1>4. CASE t.x + 1 < t.cols
    BY <1>2, <1>3, <1>4 DEF Goes, Screen, OnGrid
<1>5. CASE ~ (t.x + 1 < t.cols)
    <2>1. Goes(t, NewLine(t))
        BY <1>2, NewLineGoes
    <2> QED BY <1>2, <1>3, <1>5, <2>1 DEF Goes, OnGrid
<1> QED BY <1>4, <1>5

LEMMA BackspaceGoes == ASSUME NEW s, Screen(s) PROVE Goes(s, Backspace(s))
<1>1. PICK y, x : /\ y = IF s.x > 0 THEN s.y ELSE s.y - 1
                  /\ x = IF s.x > 0 THEN s.x - 1 ELSE s.cols - 1
    OBVIOUS
<1>2. CASE s.x = 0 /\ s.y = 0
    <2>1. Backspace(s) = s
        BY <1>2 DEF Backspace
    <2> QED BY <2>1 DEF Goes
<1>3. CASE ~ (s.x = 0 /\ s.y = 0) /\ OnGrid(s, y, x)
    <2>1. PICK ch : ch = " "
        OBVIOUS
    <2> DEFINE t == Filled(s, y, x, ch)
    <2>2. Backspace(s) = [t EXCEPT !.y = y, !.x = x]
        BY <1>1, <1>3, <2>1 DEF Backspace
    <2>3. Screen(t) /\ t.rows = s.rows /\ t.cols = s.cols /\ t.up = s.up
        BY FilledScreen
    <2> HIDE DEF t
    <2>4. y \in Nat /\ x \in Nat
        BY <1>1, <1>3 DEF Screen
    <2> QED BY <1>3, <2>2, <2>3, <2>4 DEF Goes, Screen, OnGrid
<1>4. CASE ~ (s.x = 0 /\ s.y = 0) /\ ~OnGrid(s, y, x)
    <2>1. Backspace(s) = [s EXCEPT !.up = FALSE]
        BY <1>1, <1>4 DEF Backspace
    <2>2. ~OnGrid(s, s.y, s.x)
        BY <1>1, <1>4 DEF OnGrid, Screen
    <2> QED BY <2>1, <2>2 DEF Goes, Screen, OnGrid
<1> QED BY <1>2, <1>3, <1>4

LEMMA PutGoes == ASSUME NEW s, Screen(s), NEW b \in Bytes PROVE Goes(s, Put(s, b))
<1>1. CASE b = "nl"
    BY <1>1, NewLineGoes DEF Put, Printable
<1>2. CASE b = "cr"
    BY <1>2 DEF Put, Printable, Goes, Screen, OnGrid
<1>3. CASE b = "bs"
    BY <1>3, BackspaceGoes DEF Put, Printable
<1>4. CASE b \in Printable
    BY <1>4, TypeGoes DEF Put, Printable
<1>5. CASE b = "esc"
    BY <1>5 DEF Put, Goes, Printable
<1> QED BY <1>1, <1>2, <1>3, <1>4, <1>5 DEF Bytes, Printable

-----------------------------------------------------------------------------
(* The reference, by its mode and its screen. *)
At(mode, s) == [mode |-> mode, screen |-> s]

LEMMA StepAt ==
    ASSUME NEW s, NEW b \in Bytes
    PROVE /\ b \notin Final => Step(At("csi", s), b) = At("csi", s)
          /\ b \in Final => Step(At("csi", s), b) = At("text", s)
          /\ b = "[" => Step(At("esc", s), b) = At("csi", s)
          /\ \A mode \in {"text", "esc"} :
                /\ b = "esc" => Step(At(mode, s), b) = At("esc", s)
                /\ b # "esc" /\ ~ (mode = "esc" /\ b = "[") =>
                      Step(At(mode, s), b) = At("text", IF s.up THEN Put(s, b) ELSE s)
BY DEF Step, At

(* What a console does that got the bytes ev from w on: w and then the steps. *)
Follows(W, w, ev) ==
    W[0] = w /\ \A n \in 1 .. Len(ev) : W[n] = Step(W[n - 1], ev[n])

(* In a sequence: from its ESC at i to before its final byte, nothing but the   *)
(* mode changes.                                                             *)
LEMMA InSequence ==
    ASSUME NEW ev \in Seq(Bytes), NEW W, NEW w, Follows(W, w, ev), NEW s,
           NEW mode \in {"text", "esc"}, NEW i \in 1 .. Len(ev), W[i - 1] = At(mode, s),
           ev[i] = "esc", i + 1 <= Len(ev), ev[i + 1] = "[",
           NEW last \in (i + 1) .. Len(ev), \A k \in (i + 2) .. last : ev[k] \notin Final
    PROVE W[last] = At("csi", s)
<1>1. Len(ev) \in Nat /\ \A k \in 1 .. Len(ev) : ev[k] \in Bytes
    BY LenProperties, ElementOfSeq
<1>2. \A k \in 1 .. Len(ev) : W[k] = Step(W[k - 1], ev[k])
    BY DEF Follows
<1>3. W[i] = At("esc", s)
    BY <1>1, <1>2, StepAt
<1>4. W[i + 1] = At("csi", s)
    <2>1. i + 1 \in 1 .. Len(ev) /\ (i + 1) - 1 = i
        BY <1>1
    <2>2. W[i + 1] = Step(W[i], ev[i + 1])
        BY <1>2, <2>1
    <2> QED BY <1>1, <1>3, <2>1, <2>2, StepAt
<1> DEFINE S == {n \in Nat : i + 1 + n <= last => W[i + 1 + n] = At("csi", s)}
<1>5. 0 \in S
    BY <1>4
<1>6. ASSUME NEW n \in S \cap Nat PROVE n + 1 \in S
    <2> SUFFICES ASSUME i + 1 + (n + 1) <= last PROVE W[i + 1 + (n + 1)] = At("csi", s)
        OBVIOUS
    <2> DEFINE k == i + 1 + (n + 1)
    <2>1. k \in 1 .. Len(ev) /\ k \in (i + 2) .. last /\ k - 1 = i + 1 + n
        BY <1>1
    <2>2. W[k - 1] = At("csi", s)
        BY <2>1
    <2>3. W[k] = Step(W[k - 1], ev[k]) /\ ev[k] \in Bytes /\ ev[k] \notin Final
        BY <1>1, <1>2, <2>1
    <2> QED BY <2>2, <2>3, StepAt
<1>7. Nat \subseteq S
    BY <1>5, <1>6, Induct
<1>8. PICK n \in Nat : i + 1 + n = last
    <2>1. last - (i + 1) \in Nat /\ i + 1 + (last - (i + 1)) = last
        BY <1>1
    <2> QED BY <2>1
<1>9. n \in S
    BY <1>7
<1> QED BY <1>8, <1>9

(* After a panic the reference changes its screen no more, either. *)
LEMMA AfterPanic ==
    ASSUME NEW ev \in Seq(Bytes), NEW W, NEW w, Follows(W, w, ev), NEW s, ~s.up,
           NEW i \in 0 .. Len(ev), \E mode \in {"text", "esc", "csi"} : W[i] = At(mode, s)
    PROVE \E mode \in {"text", "esc", "csi"} : W[Len(ev)] = At(mode, s)
<1>1. Len(ev) \in Nat /\ \A k \in 1 .. Len(ev) : ev[k] \in Bytes
    BY LenProperties, ElementOfSeq
<1>2. \A k \in 1 .. Len(ev) : W[k] = Step(W[k - 1], ev[k])
    BY DEF Follows
<1> DEFINE Holds(k) == \E mode \in {"text", "esc", "csi"} : W[k] = At(mode, s)
           S == {n \in Nat : i + n <= Len(ev) => Holds(i + n)}
<1>3. 0 \in S
    OBVIOUS
<1>4. ASSUME NEW n \in S \cap Nat PROVE n + 1 \in S
    <2> SUFFICES ASSUME i + (n + 1) <= Len(ev) PROVE Holds(i + (n + 1))
        OBVIOUS
    <2>1. PICK k : k = i + (n + 1)
        OBVIOUS
    <2>2. k \in 1 .. Len(ev) /\ k - 1 = i + n /\ i + n <= Len(ev)
        BY <1>1, <2>1
    <2>3. PICK mode \in {"text", "esc", "csi"} : W[k - 1] = At(mode, s)
        BY <2>2
    <2>4. W[k] = Step(At(mode, s), ev[k]) /\ ev[k] \in Bytes
        BY <1>1, <1>2, <2>2, <2>3
    <2>5. CASE mode = "csi"
        BY <2>1, <2>4, <2>5, StepAt
    <2>6. CASE mode \in {"text", "esc"} /\ ~ (mode = "esc" /\ ev[k] = "[")
        BY <2>1, <2>4, <2>6, StepAt
    <2>7. CASE mode = "esc" /\ ev[k] = "["
        BY <2>1, <2>4, <2>7, StepAt
    <2> QED BY <2>5, <2>6, <2>7
<1> HIDE DEF Holds
<1>5. Nat \subseteq S
    BY <1>3, <1>4, Induct
<1>6. Len(ev) - i \in Nat /\ i + (Len(ev) - i) = Len(ev)
    BY <1>1
<1>7. Holds(Len(ev))
    BY <1>5, <1>6
<1> QED BY <1>7 DEF Holds

(* The steps over what was kept and then what is read are those over what is    *)
(* read, from where what was kept leads.                                      *)
LEMMA StepsOn ==
    ASSUME NEW b \in Seq(Bytes), NEW ev \in Seq(Bytes), NEW W, NEW w, Follows(W, w, b \o ev),
           NEW V, Follows(V, W[Len(b)], ev)
    PROVE W[Len(b \o ev)] = V[Len(ev)]
<1>1. Len(b) \in Nat /\ Len(ev) \in Nat /\ Len(b \o ev) = Len(b) + Len(ev)
      /\ \A k \in 1 .. Len(ev) : (b \o ev)[Len(b) + k] = ev[k]
    <2>1. Len(b) \in Nat /\ Len(ev) \in Nat
        BY LenProperties
    <2>2. /\ Len(b \o ev) = Len(b) + Len(ev)
          /\ \A k \in 1 .. Len(b) + Len(ev) :
                (b \o ev)[k] = IF k <= Len(b) THEN b[k] ELSE ev[k - Len(b)]
        BY ConcatProperties
    <2>3. ASSUME NEW k \in 1 .. Len(ev) PROVE (b \o ev)[Len(b) + k] = ev[k]
        <3>1. Len(b) + k \in 1 .. Len(b) + Len(ev) /\ ~ (Len(b) + k <= Len(b))
              /\ (Len(b) + k) - Len(b) = k
            BY <2>1
        <3> QED BY <2>2, <3>1
    <2> QED BY <2>1, <2>2, <2>3
<1>2. PICK n, l : n = Len(b) /\ l = Len(ev)
    OBVIOUS
<1>3. \A k \in 1 .. (n + l) : W[k] = Step(W[k - 1], (b \o ev)[k])
    BY <1>1, <1>2 DEF Follows
<1>4. V[0] = W[n] /\ \A k \in 1 .. l : V[k] = Step(V[k - 1], ev[k])
    BY <1>2 DEF Follows
<1> DEFINE S == {k \in Nat : k <= l => W[n + k] = V[k]}
<1>5. 0 \in S
    BY <1>1, <1>2, <1>4
<1>6. ASSUME NEW k \in S \cap Nat PROVE k + 1 \in S
    <2> SUFFICES ASSUME k + 1 <= l PROVE W[n + (k + 1)] = V[k + 1]
        OBVIOUS
    <2>1. k + 1 \in 1 .. l /\ n + (k + 1) \in 1 .. (n + l) /\ (n + (k + 1)) - 1 = n + k /\ k <= l
          /\ (k + 1) - 1 = k
        BY <1>1, <1>2
    <2>2. W[n + (k + 1)] = Step(W[n + k], ev[k + 1])
        BY <1>1, <1>2, <1>3, <2>1
    <2>3. V[k + 1] = Step(V[k], ev[k + 1])
        BY <1>4, <2>1
    <2> QED BY <2>1, <2>2, <2>3
<1>7. Nat \subseteq S
    BY <1>5, <1>6, Induct
<1>8. W[n + l] = V[l]
    BY <1>1, <1>2, <1>7
<1> QED BY <1>1, <1>2, <1>8

-----------------------------------------------------------------------------
(* A sequence that has begun and not ended. *)
Begun(b) ==
    /\ Len(b) >= 2 /\ b[1] = "esc" /\ b[2] = "["
    /\ \A k \in 3 .. Len(b) : b[k] \notin Final

(* Between two turns of the loop the screen is that of the reference after the  *)
(* bytes before c.i, or after all of them when a sequence is kept.             *)
Keeps(ev, W, s, c) ==
    /\ DOMAIN c = {"screen", "i", "back"}
    /\ c.i \in 1 .. (Len(ev) + 1)
    /\ Goes(s, c.screen)
    /\ c.back \in Seq(Bytes)
    /\ IF c.back # <<>>
       THEN c.screen.up /\ Begun(c.back) /\ W[Len(ev)] = At("csi", c.screen)
       ELSE IF c.screen.up
       THEN \E mode \in {"text", "esc"} :
                /\ W[c.i - 1] = At(mode, c.screen)
                /\ mode = "esc" => c.i = Len(ev) + 1 \/ ev[c.i] # "["
       ELSE \E mode \in {"text", "esc", "csi"} : W[c.i - 1] = At(mode, c.screen)

(* A sequence that has no end yet is kept. *)
LEMMA KeptBegun ==
    ASSUME NEW ev \in Seq(Bytes), NEW i \in 1 .. Len(ev), ev[i] = "esc",
           i + 1 <= Len(ev), ev[i + 1] = "[", \A k \in (i + 2) .. Len(ev) : ev[k] \notin Final
    PROVE LET b == SubSeq(ev, i, Len(ev)) IN b \in Seq(Bytes) /\ b # <<>> /\ Begun(b)
<1> DEFINE b == SubSeq(ev, i, Len(ev))
<1>1. Len(ev) \in Nat
    BY LenProperties
<1>2. /\ b \in Seq(Bytes) /\ Len(b) = Len(ev) - i + 1
      /\ \A k \in 1 .. (Len(ev) - i + 1) : b[k] = ev[i + k - 1]
    BY <1>1, SubSeqProperties
<1> HIDE DEF b
<1>3. Len(b) >= 2 /\ b # <<>>
    <2>1. Len(b) >= 2
        BY <1>1, <1>2
    <2>2. Len(<<>>) = 0
        OBVIOUS
    <2> QED BY <2>1, <2>2
<1>4. b[1] = "esc" /\ b[2] = "["
    <2>1. /\ 1 \in 1 .. (Len(ev) - i + 1) /\ i + 1 - 1 = i
          /\ 2 \in 1 .. (Len(ev) - i + 1) /\ i + 2 - 1 = i + 1
        BY <1>1
    <2> QED BY <1>2, <2>1
<1>5. ASSUME NEW k \in 3 .. Len(b) PROVE b[k] \notin Final
    <2>1. k \in 1 .. (Len(ev) - i + 1) /\ i + k - 1 \in (i + 2) .. Len(ev)
        BY <1>1, <1>2
    <2> QED BY <1>2, <2>1
<1>6. Begun(b)
    BY <1>3, <1>4, <1>5 DEF Begun
<1> QED BY <1>2, <1>3, <1>6 DEF b

LEMMA TurnKeeps ==
    ASSUME NEW s, NEW ev \in Seq(Bytes), NEW W, Follows(W, At("text", s), ev),
           NEW c, Keeps(ev, W, s, c)
    PROVE /\ Keeps(ev, W, s, Turn(ev, c))
          /\ Over(ev, Turn(ev, c)) \/ Turn(ev, c).i > c.i
<1>1. Len(ev) \in Nat /\ \A k \in 1 .. Len(ev) : ev[k] \in Bytes
    BY LenProperties, ElementOfSeq
<1>2. DOMAIN c = {"screen", "i", "back"} /\ c.i \in 1 .. (Len(ev) + 1) /\ Goes(s, c.screen)
    BY DEF Keeps
<1>3. CASE Over(ev, c)
    BY <1>3 DEF Turn
<1>4. CASE ~Over(ev, c)
    <2>1. c.i \in 1 .. Len(ev) /\ c.screen.up /\ c.back = <<>> /\ ev[c.i] \in Bytes
        BY <1>1, <1>2, <1>4 DEF Over
    <2>2. PICK mode \in {"text", "esc"} :
             W[c.i - 1] = At(mode, c.screen) /\ (mode = "esc" => ev[c.i] # "[")
        <3>1. c.i # Len(ev) + 1
            BY <1>1, <2>1
        <3> QED BY <2>1, <3>1 DEF Keeps
    <2>3. W[c.i] = Step(At(mode, c.screen), ev[c.i])
        BY <2>1, <2>2 DEF Follows
    <2>4. CASE ev[c.i] # "esc"
        <3> DEFINE t == [c EXCEPT !.screen = Put(@, ev[c.i]), !.i = @ + 1]
        <3>1. Turn(ev, c) = t
            BY <1>4, <2>4 DEF Turn
        <3>2. DOMAIN t = {"screen", "i", "back"} /\ t.screen = Put(c.screen, ev[c.i])
              /\ t.i = c.i + 1 /\ t.back = <<>>
            BY <1>2, <2>1
        <3> HIDE DEF t
        <3>3. Goes(s, t.screen)
            <4>1. Goes(c.screen, t.screen)
                <5>1. Screen(c.screen)
                    BY <1>2 DEF Goes
                <5> QED BY <2>1, <3>2, <5>1, PutGoes
            <4> QED BY <1>2, <4>1, GoesOn
        <3>4. W[t.i - 1] = At("text", t.screen)
            <4>1. t.i - 1 = c.i
                BY <1>1, <2>1, <3>2
            <4> QED BY <2>1, <2>2, <2>3, <2>4, <3>2, <4>1, StepAt
        <3>5. t.i \in 1 .. (Len(ev) + 1) /\ t.i > c.i /\ t.back \in Seq(Bytes)
            BY <1>1, <2>1, <3>2
        <3>6. Keeps(ev, W, s, t)
            BY <3>2, <3>3, <3>4, <3>5 DEF Keeps
        <3> QED BY <3>1, <3>5, <3>6
    <2>5. CASE ev[c.i] = "esc" /\ Lone(ev, c.i)
        <3> DEFINE t == [c EXCEPT !.i = @ + 1]
        <3>1. Turn(ev, c) = t
            BY <1>4, <2>5 DEF Turn
        <3>2. DOMAIN t = {"screen", "i", "back"} /\ t.screen = c.screen
              /\ t.i = c.i + 1 /\ t.back = <<>>
            BY <1>2, <2>1
        <3> HIDE DEF t
        <3>3. W[t.i - 1] = At("esc", t.screen)
            <4>1. t.i - 1 = c.i
                BY <1>1, <2>1, <3>2
            <4> QED BY <2>1, <2>2, <2>3, <2>5, <3>2, <4>1, StepAt
        <3>4. t.i = Len(ev) + 1 \/ ev[t.i] # "["
            BY <2>5, <3>2 DEF Lone
        <3>5. t.i \in 1 .. (Len(ev) + 1) /\ t.i > c.i /\ t.back \in Seq(Bytes)
            BY <1>1, <2>1, <3>2
        <3>6. Keeps(ev, W, s, t)
            BY <1>2, <2>1, <3>2, <3>3, <3>4, <3>5 DEF Keeps
        <3> QED BY <3>1, <3>5, <3>6
    <2>6. CASE ev[c.i] = "esc" /\ ~Lone(ev, c.i) /\ Ends(ev, c.i) = {}
        <3>1. c.i + 1 <= Len(ev) /\ ev[c.i + 1] = "["
              /\ \A k \in (c.i + 2) .. Len(ev) : ev[k] \notin Final
            BY <1>1, <2>1, <2>6 DEF Lone, Ends
        <3> DEFINE b == SubSeq(ev, c.i, Len(ev))
                   t == [c EXCEPT !.back = b]
        <3>2. b \in Seq(Bytes) /\ b # <<>> /\ Begun(b)
            BY <2>1, <2>6, <3>1, KeptBegun
        <3>3. Turn(ev, c) = t
            BY <1>4, <2>6 DEF Turn
        <3> HIDE DEF b
        <3>4. DOMAIN t = {"screen", "i", "back"} /\ t.screen = c.screen
              /\ t.i = c.i /\ t.back = b
            BY <1>2, <2>1
        <3> HIDE DEF t
        <3>5. W[Len(ev)] = At("csi", t.screen)
            <4>1. Len(ev) \in (c.i + 1) .. Len(ev)
                BY <1>1, <2>1, <3>1
            <4>2. PICK i \in 1 .. Len(ev) : i = c.i
                BY <2>1
            <4>3. W[Len(ev)] = At("csi", c.screen)
                BY <2>2, <2>6, <3>1, <4>1, <4>2, InSequence
            <4> QED BY <3>4, <4>3
        <3>6. Keeps(ev, W, s, t)
            BY <1>2, <2>1, <3>2, <3>4, <3>5 DEF Keeps
        <3>7. Over(ev, t)
            BY <3>2, <3>4 DEF Over
        <3> QED BY <3>3, <3>6, <3>7
    <2>7. CASE ev[c.i] = "esc" /\ ~Lone(ev, c.i) /\ Ends(ev, c.i) # {}
        <3>1. c.i + 1 <= Len(ev) /\ ev[c.i + 1] = "["
            BY <1>1, <2>1, <2>7 DEF Lone
        <3>2. PICK e : e = Min(Ends(ev, c.i))
            OBVIOUS
        <3>3. e \in Ends(ev, c.i) /\ \A k \in Ends(ev, c.i) : e <= k
            <4>1. Ends(ev, c.i) \subseteq Nat
                BY <1>1, <2>1 DEF Ends
            <4> QED BY <2>7, <3>2, <4>1, Least DEF Min
        <3>4. e \in (c.i + 2) .. Len(ev) /\ e \in 1 .. Len(ev) /\ ev[e] \in Final /\ ev[e] \in Bytes
            BY <1>1, <2>1, <3>3 DEF Ends
        <3>5. W[e - 1] = At("csi", c.screen)
            <4>1. e - 1 \in (c.i + 1) .. Len(ev)
                BY <1>1, <2>1, <3>4
            <4>2. \A k \in (c.i + 2) .. (e - 1) : ev[k] \notin Final
                <5> SUFFICES ASSUME NEW k \in (c.i + 2) .. (e - 1), ev[k] \in Final PROVE FALSE
                    OBVIOUS
                <5>1. k \in (c.i + 2) .. Len(ev) /\ ~ (e <= k)
                    BY <1>1, <2>1, <3>4
                <5> QED BY <3>3, <5>1 DEF Ends
            <4>3. PICK i \in 1 .. Len(ev), last \in (c.i + 1) .. Len(ev) : i = c.i /\ last = e - 1
                BY <2>1, <4>1
            <4> QED BY <2>2, <2>7, <3>1, <4>2, <4>3, InSequence
        <3>6. W[e] = At("text", c.screen)
            <4>1. W[e] = Step(W[e - 1], ev[e])
                BY <3>4 DEF Follows
            <4> QED BY <3>4, <3>5, <4>1, StepAt
        <3> DEFINE t == [c EXCEPT !.i = e + 1]
        <3>7. Turn(ev, c) = t
            BY <1>4, <2>7, <3>2 DEF Turn
        <3>8. DOMAIN t = {"screen", "i", "back"} /\ t.screen = c.screen
              /\ t.i = e + 1 /\ t.back = <<>>
            BY <1>2, <2>1
        <3> HIDE DEF t
        <3>9. W[t.i - 1] = At("text", t.screen)
            <4>1. t.i - 1 = e
                BY <3>4, <3>8
            <4> QED BY <3>6, <3>8, <4>1
        <3>10. t.i \in 1 .. (Len(ev) + 1) /\ t.i > c.i /\ t.back \in Seq(Bytes)
            BY <1>1, <2>1, <3>4, <3>8
        <3>11. Keeps(ev, W, s, t)
            BY <1>2, <2>1, <3>8, <3>9, <3>10 DEF Keeps
        <3> QED BY <3>7, <3>10, <3>11
    <2> QED BY <2>4, <2>5, <2>6, <2>7
<1> QED BY <1>3, <1>4

(* The loop ends, and what it did keeps. *)
LEMMA RunKeeps ==
    ASSUME NEW s, Screen(s), NEW ev \in Seq(Bytes), NEW W, Follows(W, At("text", s), ev)
    PROVE Keeps(ev, W, s, Run(s, ev)) /\ Over(ev, Run(s, ev))
<1>1. Len(ev) \in Nat
    BY LenProperties
<1>2. PICK L : L = Loop(s, ev)
    OBVIOUS
<1>3. L[0] = Entered(s) /\ \A n \in 1 .. Len(ev) : L[n] = Turn(ev, L[n - 1])
    BY <1>2, LoopUnfold
<1> DEFINE Done(n) == Keeps(ev, W, s, L[n]) /\ (Over(ev, L[n]) \/ L[n].i > n)
           S == {n \in Nat : n <= Len(ev) => Done(n)}
<1>4. Done(0)
    <2> DEFINE t == Entered(s)
    <2>1. DOMAIN t = {"screen", "i", "back"} /\ t.screen = s /\ t.i = 1 /\ t.back = <<>>
        BY DEF Entered
    <2> HIDE DEF t
    <2>2. Goes(s, s) /\ W[t.i - 1] = At("text", s)
        BY <2>1 DEF Goes, Follows
    <2>3. t.i \in 1 .. (Len(ev) + 1) /\ t.i > 0 /\ t.back \in Seq(Bytes)
        BY <1>1, <2>1
    <2>4. Keeps(ev, W, s, t)
        BY <2>1, <2>2, <2>3 DEF Keeps
    <2> QED BY <1>3, <2>3, <2>4 DEF t
<1>5. ASSUME NEW n \in Nat, n <= Len(ev) => Done(n), n + 1 <= Len(ev) PROVE Done(n + 1)
    <2>1. n + 1 \in 1 .. Len(ev) /\ (n + 1) - 1 = n /\ n <= Len(ev)
        BY <1>1, <1>5
    <2>2. L[n + 1] = Turn(ev, L[n])
        BY <1>3, <2>1
    <2>3. Keeps(ev, W, s, L[n]) /\ (Over(ev, L[n]) \/ L[n].i > n)
        BY <1>5, <2>1
    <2>4. Keeps(ev, W, s, L[n + 1])
        BY <2>2, <2>3, TurnKeeps
    <2>5. CASE Over(ev, L[n])
        BY <2>2, <2>4, <2>5 DEF Turn
    <2>6. CASE ~Over(ev, L[n])
        <3>1. Over(ev, L[n + 1]) \/ L[n + 1].i > L[n].i
            BY <2>2, <2>3, TurnKeeps
        <3>2. L[n].i > n /\ L[n].i \in Nat /\ L[n + 1].i \in Nat
            BY <1>1, <2>3, <2>4, <2>6 DEF Keeps
        <3>3. Over(ev, L[n + 1]) \/ L[n + 1].i > n + 1
            BY <3>1, <3>2
        <3> QED BY <2>4, <3>3
    <2> QED BY <2>5, <2>6
<1> HIDE DEF Done
<1>6. Nat \subseteq S
    <2>1. 0 \in S
        BY <1>4
    <2>2. \A n \in S \cap Nat : n + 1 \in S
        BY <1>5
    <2> HIDE DEF S
    <2> QED BY <2>1, <2>2, Induct
<1>7. Done(Len(ev))
    BY <1>1, <1>6
<1>8. Keeps(ev, W, s, L[Len(ev)]) /\ (Over(ev, L[Len(ev)]) \/ L[Len(ev)].i > Len(ev))
    BY <1>7 DEF Done
<1> QED BY <1>2, <1>8 DEF Run, Over

-----------------------------------------------------------------------------
(* Between events the reference has the console's screen, and is in a sequence   *)
(* just when the beginning of one is kept.                                     *)
IInv ==
    /\ Screen(screen) /\ back \in Seq(Bytes) /\ dirty \in BOOLEAN
    /\ IF back # <<>> THEN screen.up /\ Begun(back) /\ whole = At("csi", screen)
       ELSE IF screen.up THEN whole = At("text", screen)
       ELSE \E mode \in {"text", "esc", "csi"} : whole = At(mode, screen)
    /\ ShowsWhatItHolds

LEMMA ConsoleInit == Init => IInv
<1> SUFFICES ASSUME Init PROVE IInv
    OBVIOUS
<1>1. PICK size \in Sizes : screen = Fresh(size, 0, 0)
    BY DEF Init
<1>2. Screen(screen) /\ screen.up
    BY <1>1, FreshScreen
<1>3. back = <<>> /\ dirty = FALSE /\ shown = View(screen) /\ whole = At("text", screen)
    BY DEF Init, At
<1>4. back = <<>> /\ dirty \in BOOLEAN
    BY <1>3
<1>5. back \in Seq(Bytes)
    BY <1>4
<1>6. ShowsWhatItHolds
    BY <1>3 DEF ShowsWhatItHolds
<1> QED BY <1>2, <1>3, <1>4, <1>5, <1>6 DEF IInv

(* What was kept leads the reference to where it is. *)
LEMMA KeptLeads ==
    ASSUME IInv, screen.up, NEW ev \in Seq(Bytes),
           NEW W, Follows(W, At("text", screen), back \o ev)
    PROVE W[Len(back)] = whole
<1>1. CASE back = <<>>
    BY <1>1 DEF IInv, Follows
<1>2. CASE back # <<>>
    <2>1. /\ back \in Seq(Bytes) /\ whole = At("csi", screen)
          /\ Len(back) >= 2 /\ back[1] = "esc" /\ back[2] = "["
          /\ \A k \in 3 .. Len(back) : back[k] \notin Final
        BY <1>2 DEF IInv, Begun
    <2>2. PICK t : t = back \o ev
        OBVIOUS
    <2>3. PICK n, l : n = Len(back) /\ l = Len(ev)
        OBVIOUS
    <2>4. n \in Nat /\ l \in Nat
        BY <2>1, <2>3, LenProperties
    <2>5. /\ t \in Seq(Bytes) /\ Len(t) = n + l
          /\ \A k \in 1 .. (n + l) : t[k] = IF k <= n THEN back[k] ELSE ev[k - n]
        BY <2>1, <2>2, <2>3, ConcatProperties
    <2>6. \A k \in 1 .. n : t[k] = back[k]
        BY <2>4, <2>5
    <2>7. t[1] = "esc" /\ t[2] = "[" /\ \A k \in 3 .. n : t[k] \notin Final
        BY <2>1, <2>3, <2>4, <2>6
    <2>8. PICK i \in 1 .. Len(t), last \in 2 .. Len(t), mode \in {"text", "esc"} :
             i = 1 /\ last = n /\ mode = "text"
        <3>1. 1 \in 1 .. Len(t) /\ n \in 2 .. Len(t)
            BY <2>1, <2>3, <2>4, <2>5
        <3> QED BY <3>1
    <2>9. Follows(W, At("text", screen), t)
        BY <2>2
    <2>10. W[i - 1] = At(mode, screen) /\ i + 1 <= Len(t) /\ t[i] = "esc" /\ t[i + 1] = "["
           /\ last \in (i + 1) .. Len(t) /\ \A k \in (i + 2) .. last : t[k] \notin Final
        BY <2>4, <2>5, <2>7, <2>8, <2>9 DEF Follows
    <2>11. W[last] = At("csi", screen)
        BY <2>5, <2>9, <2>10, InSequence
    <2> QED BY <2>1, <2>3, <2>8, <2>11
<1> QED BY <1>1, <1>2

LEMMA SettledAt ==
    ASSUME NEW s
    PROVE /\ Settled(At("text", s)) = At("text", s) /\ Settled(At("esc", s)) = At("text", s)
          /\ Settled(At("csi", s)) = At("csi", s)
BY DEF Settled, At

(* An event: whatever of it comes in the next one, the console and the reference *)
(* are together again at its end.                                            *)
LEMMA UpdateStep ==
    ASSUME IInv, NEW ev \in Seq(Bytes), Update(ev)
    PROVE IInv' /\ Goes(screen, screen')
<1>1. PICK t : t = back \o ev
    OBVIOUS
<1>2. PICK c : c = Run(screen, t)
    OBVIOUS
<1>3. /\ screen.up /\ screen' = c.screen /\ back' = c.back
      /\ dirty' = (dirty \/ c.back = <<>>)
      /\ whole' = Settled(Steps(whole, ev)[Len(ev)])
    BY <1>1, <1>2 DEF Update
<1>4. Screen(screen) /\ back \in Seq(Bytes) /\ dirty \in BOOLEAN /\ t \in Seq(Bytes)
    <2>1. Screen(screen) /\ back \in Seq(Bytes) /\ dirty \in BOOLEAN
        BY DEF IInv
    <2> QED BY <1>1, <2>1, ConcatProperties
<1>5. PICK W : W = Steps(At("text", screen), t)
    OBVIOUS
<1>6. Follows(W, At("text", screen), t)
    BY <1>4, <1>5, StepsUnfold DEF Follows
<1>7. W[Len(back)] = whole
    BY <1>1, <1>3, <1>6, KeptLeads
<1>8. Follows(Steps(whole, ev), whole, ev)
    BY StepsUnfold DEF Follows
<1>9. W[Len(t)] = Steps(whole, ev)[Len(ev)]
    BY <1>1, <1>4, <1>6, <1>7, <1>8, StepsOn
<1>10. whole' = Settled(W[Len(t)])
    BY <1>3, <1>9
<1>11. Keeps(t, W, screen, c) /\ Over(t, c)
    BY <1>2, <1>4, <1>6, RunKeeps
<1>12. Goes(screen, screen') /\ Screen(screen') /\ back' \in Seq(Bytes)
    BY <1>3, <1>11 DEF Keeps, Goes
<1>13. dirty' \in BOOLEAN /\ (back' = <<>> => dirty')
    BY <1>3, <1>4
<1>14. IF back' # <<>> THEN screen'.up /\ Begun(back') /\ whole' = At("csi", screen')
       ELSE IF screen'.up THEN whole' = At("text", screen')
       ELSE \E mode \in {"text", "esc", "csi"} : whole' = At(mode, screen')
    <2>1. Len(t) \in Nat /\ c.i \in 1 .. (Len(t) + 1)
        BY <1>4, <1>11, LenProperties DEF Keeps
    <2>2. CASE c.back # <<>>
        <3>1. c.screen.up /\ Begun(c.back) /\ W[Len(t)] = At("csi", c.screen)
            BY <1>11, <2>2 DEF Keeps
        <3> QED BY <1>3, <1>10, <2>2, <3>1, SettledAt
    <2>3. CASE c.back = <<>> /\ c.screen.up
        <3>1. c.i = Len(t) + 1
            BY <1>11, <2>1, <2>3 DEF Over
        <3>2. c.i - 1 = Len(t)
            BY <2>1, <3>1
        <3>3. PICK mode \in {"text", "esc"} : W[Len(t)] = At(mode, c.screen)
            BY <1>11, <2>3, <3>2 DEF Keeps
        <3>4. Settled(W[Len(t)]) = At("text", c.screen)
            BY <3>3, SettledAt
        <3> QED BY <1>3, <1>10, <2>3, <3>4
    <2>4. CASE c.back = <<>> /\ ~c.screen.up
        <3>1. \E mode \in {"text", "esc", "csi"} : W[c.i - 1] = At(mode, c.screen)
            BY <1>11, <2>4 DEF Keeps
        <3>2. PICK i \in 0 .. Len(t) : i = c.i - 1
            BY <2>1
        <3>3. PICK mode \in {"text", "esc", "csi"} : W[Len(t)] = At(mode, c.screen)
            BY <1>4, <1>6, <2>4, <3>1, <3>2, AfterPanic
        <3>4. \E settled \in {"text", "esc", "csi"} : Settled(W[Len(t)]) = At(settled, c.screen)
            BY <3>3, SettledAt
        <3> QED BY <1>3, <1>10, <2>4, <3>4
    <2> QED BY <2>2, <2>3, <2>4
<1>15. ShowsWhatItHolds'
    BY <1>13 DEF ShowsWhatItHolds
<1> QED BY <1>12, <1>13, <1>14, <1>15 DEF IInv

LEMMA FrameStep ==
    ASSUME IInv, NEW size \in Sizes, NEW resized \in BOOLEAN, Frame(size, resized)
    PROVE /\ IInv' /\ screen'.up
          /\ \/ screen' = screen
             \/ screen'.x = screen.x /\ screen'.y = screen.y
<1>1. /\ screen.up /\ screen' = Bounded(screen, size, resized) /\ dirty' = FALSE
      /\ whole' = [whole EXCEPT !.screen = Bounded(@, size, resized)]
      /\ shown' = View(screen') /\ back' = back
    BY DEF Frame
<1>2. /\ Screen(screen) /\ back \in Seq(Bytes)
      /\ back # <<>> => Begun(back) /\ whole = At("csi", screen)
      /\ back = <<>> => whole = At("text", screen)
    BY <1>1 DEF IInv
<1>3. Screen(screen') /\ screen'.up
      /\ (screen' = screen \/ (screen'.x = screen.x /\ screen'.y = screen.y))
    <2>1. CASE resized
        <3>1. screen' = Fresh(size, screen.y, screen.x)
            BY <1>1, <2>1 DEF Bounded
        <3>2. screen.y \in Nat /\ screen.x \in Nat
            BY <1>2 DEF Screen
        <3> QED BY <3>1, <3>2, FreshScreen
    <2>2. CASE ~resized
        BY <1>1, <1>2, <2>2 DEF Bounded
    <2> QED BY <2>1, <2>2
<1>4. ASSUME NEW mode, whole = At(mode, screen) PROVE whole' = At(mode, screen')
    <2>1. At(mode, screen).screen = screen
        BY DEF At
    <2>2. whole' = [At(mode, screen) EXCEPT !.screen = screen']
        BY <1>1, <1>4, <2>1
    <2> QED BY <2>2 DEF At
<1>5. IF back' # <<>> THEN screen'.up /\ Begun(back') /\ whole' = At("csi", screen')
      ELSE IF screen'.up THEN whole' = At("text", screen')
      ELSE \E mode \in {"text", "esc", "csi"} : whole' = At(mode, screen')
    BY <1>1, <1>2, <1>3, <1>4
<1> QED BY <1>1, <1>2, <1>3, <1>5 DEF IInv, ShowsWhatItHolds

LEMMA EventIsSeq == ASSUME NEW n \in 1 .. MaxRead, NEW ev \in [1 .. n -> Bytes] PROVE ev \in Seq(Bytes)
BY BoundsNat

LEMMA ConsoleStep == IInv /\ [Next]_vars => IInv'
<1>1. IInv /\ UNCHANGED vars => IInv'
    BY DEF IInv, ShowsWhatItHolds, vars
<1>2. IInv /\ Next => IInv'
    BY EventIsSeq, UpdateStep, FrameStep DEF Next
<1> QED BY <1>1, <1>2

(* The invariant the theorems below rest on: the screen is that of a console that *)
(* got the bytes one by one, what is kept is the beginning of a sequence, and what *)
(* was drawn is what the grid holds.                                         *)
THEOREM ConsoleInvariant == Spec => []IInv
BY ConsoleInit, ConsoleStep, PTL DEF Spec

-----------------------------------------------------------------------------
(* For every stream of bytes and every way it is cut into events, the loop of     *)
(* Update leaves the screen of a console that got the bytes one by one, or they *)
(* both panicked at the same byte; but for an ESC at the end of an event.      *)
THEOREM CutsNeverShow == Spec => []CutsDoNotShow
<1>1. IInv => CutsDoNotShow
    <2> SUFFICES ASSUME IInv PROVE CutsDoNotShow
        OBVIOUS
    <2>1. PICK mode : whole = At(mode, screen) /\ (back # <<>> => screen.up /\ mode = "csi")
                      /\ (back = <<>> /\ screen.up => mode = "text")
        BY DEF IInv
    <2>2. whole.mode = mode /\ whole.screen = screen
        BY <2>1 DEF At
    <2> QED BY <2>1, <2>2 DEF CutsDoNotShow, View
<1> QED BY <1>1, ConsoleInvariant, PTL

(* The window shows what the grid holds, whatever its sizes. *)
THEOREM WindowShowsGrid == Spec => []ShowsWhatItHolds
BY ConsoleInvariant, PTL DEF IInv

(* Whatever is written, a cursor on the grid stays on it and nothing panics, until *)
(* the window gets another size.                                              *)
THEOREM TextStaysOnGrid == Spec => StaysOnGrid
<1> DEFINE Stays ==
        OnGrid(screen, screen.y, screen.x) /\ <<screen'.rows, screen'.cols>> = <<screen.rows, screen.cols>>
          => screen'.up /\ OnGrid(screen', screen'.y, screen'.x)
<1>1. IInv /\ [Next]_vars => [Stays]_vars
    <2> SUFFICES ASSUME IInv, Next, OnGrid(screen, screen.y, screen.x),
                        screen'.rows = screen.rows /\ screen'.cols = screen.cols
                 PROVE screen'.up /\ OnGrid(screen', screen'.y, screen'.x)
        OBVIOUS
    <2>1. ASSUME NEW ev \in Seq(Bytes), Update(ev)
          PROVE screen'.up /\ OnGrid(screen', screen'.y, screen'.x)
        <3>1. Goes(screen, screen') /\ screen.up
            BY <2>1, UpdateStep DEF Update
        <3> QED BY <3>1 DEF Goes
    <2>2. ASSUME NEW size \in Sizes, NEW resized \in BOOLEAN, Frame(size, resized)
          PROVE screen'.up /\ OnGrid(screen', screen'.y, screen'.x)
        <3>1. screen'.up /\ (screen' = screen \/ (screen'.x = screen.x /\ screen'.y = screen.y))
            BY <2>2, FrameStep
        <3> QED BY <3>1 DEF OnGrid
    <2> QED BY <2>1, <2>2, EventIsSeq DEF Next
<1> QED BY <1>1, ConsoleInvariant, PTL DEF Spec, StaysOnGrid
-----------------------------------------------------------------------------
(* How much is left to read from a place: a list begins with a form.            *)
Left(ts, p) == 2 * (Len(ts) + 1 - p[1]) + (IF p[2] = "form" THEN 0 ELSE 1)

LEMMA LeftNat ==
    ASSUME NEW Tokens, NEW ts \in Seq(Tokens), NEW p \in Places(ts)
    PROVE /\ Len(ts) \in Nat
          /\ p[1] \in 1 .. (Len(ts) + 1) /\ p[2] \in {"form"} \cup Closers
          /\ p = <<p[1], p[2]>>
          /\ Left(ts, p) \in Nat /\ Left(ts, p) < 2 * Len(ts) + 4
<1>1. Len(ts) \in Nat
    OBVIOUS
<1>2. p[1] \in 1 .. (Len(ts) + 1) /\ p[2] \in {"form"} \cup Closers /\ p = <<p[1], p[2]>>
    BY DEF Places
<1> QED BY <1>1, <1>2 DEF Left

(* What holds of a place if it does of those from which less is left holds of all. *)
LEMMA PlaceInduct ==
    ASSUME NEW Tokens, NEW ts \in Seq(Tokens), NEW S,
           \A p \in Places(ts) : (\A q \in Places(ts) : Left(ts, q) < Left(ts, p) => q \in S) => p \in S
    PROVE Places(ts) \subseteq S
<1> DEFINE T == {n \in Nat : \A p \in Places(ts) : Left(ts, p) < n => p \in S}
<1>1. 0 \in T
    BY LeftNat
<1>2. ASSUME NEW n \in T \cap Nat PROVE n + 1 \in T
    <2>1. ASSUME NEW p \in Places(ts), Left(ts, p) < n + 1 PROVE p \in S
        <3>1. ASSUME NEW q \in Places(ts), Left(ts, q) < Left(ts, p) PROVE q \in S
            <4>1. Left(ts, q) \in Nat /\ Left(ts, p) \in Nat
                BY LeftNat
            <4>2. Left(ts, q) < n
                BY <2>1, <3>1, <4>1
            <4> QED BY <4>2
        <3> QED BY <3>1
    <2> QED BY <2>1
<1>3. Nat \subseteq T
    <2> HIDE DEF T
    <2> QED BY <1>1, <1>2, Induct
<1>4. 2 * Len(ts) + 4 \in T
    BY <1>3
<1> QED BY <1>4, LeftNat

-----------------------------------------------------------------------------
(* What is read at a place, if read says what is read after it. *)
ReadAt(ts, read, p) ==
    IF p[2] = "form" THEN FormFrom(ts, read, p[1]) ELSE ListFrom(ts, read, p[1], p[2])

(* Reading goes on by a token at least and never leaves the tokens. *)
ReadsOn(ts, r, p) == r.out = "ok" => r.pos \in (p[1] + 1) .. (Len(ts) + 1)

(* Only places from which less is left are asked for. *)
LEMMA AsksAhead ==
    ASSUME NEW Tokens, NEW ts \in Seq(Tokens), NEW g, NEW h, NEW p \in Places(ts),
           \A q \in Places(ts) : Left(ts, q) < Left(ts, p) => g[q] = h[q] /\ ReadsOn(ts, g[q], q)
    PROVE ReadAt(ts, g, p) = ReadAt(ts, h, p) /\ ReadsOn(ts, ReadAt(ts, g, p), p)
<1> DEFINE i == p[1]
           end == p[2]
<1>1. /\ Len(ts) \in Nat /\ i \in 1 .. (Len(ts) + 1) /\ end \in {"form"} \cup Closers
      /\ p = <<i, end>>
    BY LeftNat
<1>2. ASSUME NEW j \in (i + 1) .. (Len(ts) + 1), NEW e \in {"form"} \cup Closers
      PROVE g[<<j, e>>] = h[<<j, e>>] /\ (g[<<j, e>>].out = "ok" => g[<<j, e>>].pos \in (j + 1) .. (Len(ts) + 1))
    <2>1. <<j, e>> \in Places(ts)
        BY <1>1 DEF Places
    <2>2. Left(ts, <<j, e>>) < Left(ts, p)
        BY <1>1 DEF Left
    <2> QED BY <2>1, <2>2 DEF ReadsOn
<1>3. CASE end = "form"
    <2>1. ReadAt(ts, g, p) = FormFrom(ts, g, i) /\ ReadAt(ts, h, p) = FormFrom(ts, h, i)
        BY <1>3 DEF ReadAt
    <2>2. CASE i > Len(ts)
        BY <2>1, <2>2 DEF FormFrom, ReadsOn, Unread
    <2>3. CASE ~(i > Len(ts)) /\ ts[i] \in Openers
        <3>1. Closer[ts[i]] \in {"form"} \cup Closers /\ i + 1 \in (i + 1) .. (Len(ts) + 1)
            BY <1>1, <2>3 DEF Closer, Closers
        <3>2. /\ g[<<i + 1, Closer[ts[i]]>>] = h[<<i + 1, Closer[ts[i]]>>]
              /\ g[<<i + 1, Closer[ts[i]]>>].out = "ok" =>
                    g[<<i + 1, Closer[ts[i]]>>].pos \in (i + 1 + 1) .. (Len(ts) + 1)
            BY <1>2, <1>3, <3>1
        <3>3. FormFrom(ts, g, i) = g[<<i + 1, Closer[ts[i]]>>] /\ FormFrom(ts, h, i) = h[<<i + 1, Closer[ts[i]]>>]
            BY <2>3 DEF FormFrom
        <3> QED BY <1>1, <2>1, <3>2, <3>3 DEF ReadsOn
    <2>4. CASE ~(i > Len(ts)) /\ ts[i] \notin Openers /\ ts[i] \in Closers
        BY <2>1, <2>4 DEF FormFrom, ReadsOn, Unread
    <2>5. CASE ~(i > Len(ts)) /\ ts[i] \notin Openers \cup Closers /\ ts[i] \in DOMAIN Quotes
        <3>1. i + 1 \in (i + 1) .. (Len(ts) + 1) /\ "form" \in {"form"} \cup Closers
            BY <1>1, <2>5
        <3>2. /\ g[<<i + 1, "form">>] = h[<<i + 1, "form">>]
              /\ g[<<i + 1, "form">>].out = "ok" =>
                    g[<<i + 1, "form">>].pos \in (i + 1 + 1) .. (Len(ts) + 1)
            BY <1>2, <1>3, <3>1
        <3> DEFINE Quoted(r) == IF r.out = "ok"
                                THEN Read1(List(<<Sym(Quotes[ts[i]]), r.v>>), r.pos) ELSE r
        <3>3. FormFrom(ts, g, i) = Quoted(g[<<i + 1, "form">>]) /\ FormFrom(ts, h, i) = Quoted(h[<<i + 1, "form">>])
            BY <2>5 DEF FormFrom
        <3>4. ASSUME NEW r, r.out = "ok" => r.pos \in (i + 1 + 1) .. (Len(ts) + 1)
              PROVE ReadsOn(ts, Quoted(r), p)
            BY <1>1, <3>4 DEF ReadsOn, Read1
        <3> HIDE DEF Quoted
        <3> QED BY <2>1, <3>2, <3>3, <3>4
    <2>6. CASE ~(i > Len(ts)) /\ ts[i] \notin Openers \cup Closers \cup DOMAIN Quotes
        BY <1>1, <2>1, <2>6 DEF FormFrom, ReadsOn, Read1
    <2> QED BY <2>2, <2>3, <2>4, <2>5, <2>6
<1>4. CASE end # "form"
    <2>1. ReadAt(ts, g, p) = ListFrom(ts, g, i, end) /\ ReadAt(ts, h, p) = ListFrom(ts, h, i, end)
        BY <1>4 DEF ReadAt
    <2>2. CASE i > Len(ts)
        <3>1. ListFrom(ts, g, i, end) = Unread("eof") /\ ListFrom(ts, h, i, end) = Unread("eof")
            BY <2>2 DEF ListFrom
        <3> QED BY <2>1, <3>1 DEF ReadsOn, Unread
    <2>3. CASE ~(i > Len(ts)) /\ ts[i] = end
        BY <1>1, <2>1, <2>3 DEF ListFrom, ReadsOn, Read1
    <2>4. CASE ~(i > Len(ts)) /\ ts[i] # end
        <3> DEFINE f == g[<<i, "form">>]
        <3>1. f = h[<<i, "form">>] /\ (f.out = "ok" => f.pos \in (i + 1) .. (Len(ts) + 1))
            <4>1. <<i, "form">> \in Places(ts) /\ Left(ts, <<i, "form">>) < Left(ts, p)
                BY <1>1, <1>4 DEF Places, Left
            <4> QED BY <4>1 DEF ReadsOn
        <3>2. CASE f.out # "ok"
            <4>1. ListFrom(ts, g, i, end) = f /\ ListFrom(ts, h, i, end) = f
                BY <2>4, <3>1, <3>2 DEF ListFrom
            <4> QED BY <2>1, <3>2, <4>1 DEF ReadsOn
        <3>3. CASE f.out = "ok"
            <4>1. /\ g[<<f.pos, end>>] = h[<<f.pos, end>>]
                  /\ g[<<f.pos, end>>].out = "ok" => g[<<f.pos, end>>].pos \in (f.pos + 1) .. (Len(ts) + 1)
                BY <1>1, <1>2, <3>1, <3>3
            <4> DEFINE Longer(r) == IF r.out # "ok" THEN r ELSE Read1(List(<<f.v>> \o r.v.of), r.pos)
            <4>2. ListFrom(ts, g, i, end) = Longer(g[<<f.pos, end>>])
                BY <2>4, <3>3 DEF ListFrom
            <4>3. ListFrom(ts, h, i, end) = Longer(h[<<f.pos, end>>])
                BY <2>4, <3>1, <3>3 DEF ListFrom
            <4>4. ASSUME NEW r, r.out = "ok" => r.pos \in (f.pos + 1) .. (Len(ts) + 1)
                  PROVE ReadsOn(ts, Longer(r), p)
                BY <1>1, <3>1, <3>3, <4>4 DEF ReadsOn, Read1
            <4> HIDE DEF Longer
            <4> QED BY <2>1, <4>1, <4>2, <4>3, <4>4
        <3> QED BY <3>2, <3>3
    <2> QED BY <2>2, <2>3, <2>4
<1> QED BY <1>3, <1>4

(* The recursive function exists: it is built up from where nothing is left. *)
LEMMA ReadingUnfold ==
    ASSUME NEW Tokens, NEW ts \in Seq(Tokens)
    PROVE \A p \in Places(ts) : Reading(ts)[p] = ReadAt(ts, Reading(ts), p)
<1> DEFINE Is(g, p) == g[p] = ReadAt(ts, g, p) /\ ReadsOn(ts, g[p], p)
           Below(g, n) == \A p \in Places(ts) : Left(ts, p) < n => Is(g, p)
           T == {n \in Nat : \E g : Below(g, n)}
<1>1. 0 \in T
    <2>1. Below(<<>>, 0)
        BY LeftNat
    <2> QED BY <2>1
<1>2. ASSUME NEW n \in T \cap Nat PROVE n + 1 \in T
    <2>1. PICK g : Below(g, n)
        BY <1>2
    <2> DEFINE h == [p \in Places(ts) |-> ReadAt(ts, g, p)]
    <2>2. ASSUME NEW q \in Places(ts), Left(ts, q) < n PROVE g[q] = h[q] /\ ReadsOn(ts, g[q], q)
        BY <2>1, <2>2
    <2>3. ASSUME NEW p \in Places(ts), Left(ts, p) < n + 1 PROVE Is(h, p)
        <3>1. ASSUME NEW q \in Places(ts), Left(ts, q) < Left(ts, p)
              PROVE g[q] = h[q] /\ ReadsOn(ts, g[q], q)
            <4>1. Left(ts, q) \in Nat /\ Left(ts, p) \in Nat
                BY LeftNat
            <4>2. Left(ts, q) < n
                BY <2>3, <3>1, <4>1
            <4> QED BY <2>2, <4>2
        <3>2. h[p] = ReadAt(ts, g, p)
            OBVIOUS
        <3> HIDE DEF h
        <3>3. ReadAt(ts, g, p) = ReadAt(ts, h, p) /\ ReadsOn(ts, ReadAt(ts, g, p), p)
            BY <3>1, AsksAhead
        <3> QED BY <3>2, <3>3
    <2>4. Below(h, n + 1)
        BY <2>3
    <2> HIDE DEF h, Below
    <2> QED BY <2>4
<1>3. 2 * Len(ts) + 4 \in T
    <2>1. Nat \subseteq T
        <3> HIDE DEF T
        <3> QED BY <1>1, <1>2, Induct
    <2> QED BY <2>1
<1>4. PICK g : \A p \in Places(ts) : Is(g, p)
    <2>1. PICK g : Below(g, 2 * Len(ts) + 4)
        BY <1>3
    <2>2. \A p \in Places(ts) : Is(g, p)
        BY <2>1, LeftNat
    <2> HIDE DEF Is
    <2> QED BY <2>2
<1> DEFINE read == [p \in Places(ts) |-> g[p]]
           Reads(f) == f = [p \in Places(ts) |-> ReadAt(ts, f, p)]
<1>5. Reads(read)
    <2>1. ASSUME NEW p \in Places(ts) PROVE read[p] = ReadAt(ts, read, p)
        <3>1. \A q \in Places(ts) : g[q] = read[q] /\ ReadsOn(ts, g[q], q)
            BY <1>4
        <3>2. read[p] = ReadAt(ts, g, p)
            BY <1>4
        <3> HIDE DEF read
        <3> QED BY <3>1, <3>2, AsksAhead
    <2>2. read = [p \in Places(ts) |-> read[p]]
        OBVIOUS
    <2> HIDE DEF read
    <2> QED BY <2>1, <2>2
<1>6. Reading(ts) = CHOOSE f : Reads(f)
    BY DEF Reading, ReadAt
<1>7. Reads(Reading(ts))
    <2> HIDE DEF Reads, read
    <2> QED BY <1>5, <1>6
<1> QED BY <1>7

(* Without a closing bracket no list ends, and nothing is unexpected. *)
Unended(r, p) == r.out \in {"ok", "end", "eof"} /\ (p[2] # "form" => r.out # "ok")

LEMMA OpenStays ==
    ASSUME NEW Tokens, NEW ts \in Seq(Tokens), \A i \in 1 .. Len(ts) : ts[i] \notin Closers
    PROVE \A p \in Places(ts) : Unended(Reading(ts)[p], p)
<1> DEFINE read == Reading(ts)
           S == {p \in Places(ts) : ReadsOn(ts, read[p], p) /\ Unended(read[p], p)}
<1>1. ASSUME NEW p \in Places(ts),
             \A q \in Places(ts) : Left(ts, q) < Left(ts, p) => q \in S
      PROVE p \in S
    <2> DEFINE i == p[1]
               end == p[2]
    <2>1. /\ Len(ts) \in Nat /\ i \in 1 .. (Len(ts) + 1) /\ end \in {"form"} \cup Closers
          /\ p = <<i, end>>
        BY LeftNat
    <2>2. ReadsOn(ts, ReadAt(ts, read, p), p)
        BY <1>1, AsksAhead
    <2>3. read[p] = ReadAt(ts, read, p)
        BY ReadingUnfold
    <2>4. ASSUME NEW j \in (i + 1) .. (Len(ts) + 1), NEW e \in {"form"} \cup Closers
          PROVE Unended(read[<<j, e>>], <<j, e>>)
        <3>1. <<j, e>> \in Places(ts)
            BY <2>1 DEF Places
        <3>2. Left(ts, <<j, e>>) < Left(ts, p)
            BY <2>1 DEF Left
        <3> QED BY <1>1, <3>1, <3>2
    <2> SUFFICES Unended(read[p], p)
        BY <2>2, <2>3
    <2> HIDE DEF read, S
    <2>5. CASE end = "form"
        <3>1. read[p] = FormFrom(ts, read, i)
            BY <2>3, <2>5 DEF ReadAt
        <3>2. CASE i > Len(ts)
            BY <2>5, <3>1, <3>2 DEF FormFrom, Unended, Unread
        <3>3. CASE ~(i > Len(ts)) /\ ts[i] \in Openers
            <4>1. Closer[ts[i]] \in Closers /\ Closer[ts[i]] # "form" /\ i + 1 \in (i + 1) .. (Len(ts) + 1)
                BY <2>1, <3>3 DEF Closer, Closers
            <4>2. Unended(read[<<i + 1, Closer[ts[i]]>>], <<i + 1, Closer[ts[i]]>>)
                BY <2>4, <4>1
            <4>3. read[p] = read[<<i + 1, Closer[ts[i]]>>]
                BY <3>1, <3>3 DEF FormFrom
            <4> QED BY <2>5, <4>1, <4>2, <4>3 DEF Unended
        <3>4. CASE ~(i > Len(ts)) /\ ts[i] \notin Openers /\ ts[i] \in DOMAIN Quotes
            <4>1. ts[i] \notin Closers /\ i + 1 \in (i + 1) .. (Len(ts) + 1)
                BY <2>1, <3>4
            <4>2. Unended(read[<<i + 1, "form">>], <<i + 1, "form">>)
                BY <2>4, <4>1
            <4> DEFINE r == read[<<i + 1, "form">>]
            <4>3. read[p] = IF r.out = "ok" THEN Read1(List(<<Sym(Quotes[ts[i]]), r.v>>), r.pos) ELSE r
                BY <3>1, <3>4, <4>1 DEF FormFrom
            <4> QED BY <2>5, <4>2, <4>3 DEF Unended, Read1
        <3>5. CASE ~(i > Len(ts)) /\ ts[i] \notin Openers \cup DOMAIN Quotes
            <4>1. ts[i] \notin Closers
                BY <2>1, <3>5
            <4>2. read[p] = Read1(Atom(ts[i]), i + 1)
                BY <3>1, <3>5, <4>1 DEF FormFrom
            <4> QED BY <2>5, <4>2 DEF Unended, Read1
        <3> QED BY <3>2, <3>3, <3>4, <3>5
    <2>6. CASE end # "form"
        <3>1. read[p] = ListFrom(ts, read, i, end)
            BY <2>3, <2>6 DEF ReadAt
        <3>2. CASE i > Len(ts)
            <4>1. read[p] = Unread("eof")
                BY <3>1, <3>2 DEF ListFrom
            <4> QED BY <4>1 DEF Unended, Unread
        <3>3. CASE ~(i > Len(ts))
            <4> DEFINE f == read[<<i, "form">>]
            <4>1. ts[i] # end
                BY <2>1, <2>6, <3>3
            <4>2. ReadsOn(ts, f, <<i, "form">>) /\ Unended(f, <<i, "form">>)
                <5>1. <<i, "form">> \in Places(ts) /\ Left(ts, <<i, "form">>) < Left(ts, p)
                    BY <2>1, <2>6 DEF Places, Left
                <5> QED BY <1>1, <5>1 DEF S
            <4>3. CASE f.out # "ok"
                <5>1. read[p] = f
                    BY <3>1, <3>3, <4>1, <4>3 DEF ListFrom
                <5> QED BY <2>6, <4>2, <4>3, <5>1 DEF Unended
            <4>4. CASE f.out = "ok"
                <5>1. Unended(read[<<f.pos, end>>], <<f.pos, end>>)
                    BY <2>1, <2>4, <4>2, <4>4 DEF ReadsOn
                <5>2. read[<<f.pos, end>>].out \in {"end", "eof"}
                    BY <2>6, <5>1 DEF Unended
                <5>3. read[p] = read[<<f.pos, end>>]
                    BY <3>1, <3>3, <4>1, <4>4, <5>2 DEF ListFrom
                <5> QED BY <2>6, <5>2, <5>3 DEF Unended
            <4> QED BY <4>3, <4>4
        <3> QED BY <3>2, <3>3
    <2> QED BY <2>5, <2>6
<1>2. Places(ts) \subseteq S
    <2> HIDE DEF S
    <2> QED BY <1>1, PlaceInduct
<1> QED BY <1>2

LEMMA OpenBegins ==
    ASSUME NEW Tokens, NEW ts \in Seq(Tokens), \A i \in 1 .. Len(ts) : ts[i] \notin Closers
    PROVE Begins(ts)
<1>0. PICK b \in Tokens \cup {"("} : b = "("
    OBVIOUS
<1> DEFINE us == <<b>> \o ts
           read == Reading(us)
<1>1. /\ us \in Seq(Tokens \cup {"("}) /\ Len(us) = Len(ts) + 1 /\ Len(ts) \in Nat
      /\ us[1] = b /\ \A i \in 2 .. Len(us) : us[i] = ts[i - 1]
    <2> DEFINE T == Tokens \cup {"("}
    <2>1. b \in T /\ ts \in Seq(T)
        OBVIOUS
    <2> HIDE DEF T
    <2>2. us \in Seq(T) /\ Len(us) = Len(ts) + 1 /\ Len(ts) \in Nat
          /\ us[1] = b /\ \A i \in 2 .. Len(us) : us[i] = ts[i - 1]
        BY <2>1
    <2> QED BY <2>2 DEF T
<1>2. \A i \in 1 .. Len(us) : us[i] \notin Closers
    <2>1. ASSUME NEW i \in 2 .. Len(us) PROVE us[i] \notin Closers
        <3>1. i - 1 \in 1 .. Len(ts)
            BY <1>1
        <3> QED BY <1>1, <3>1
    <2>2. us[1] \notin Closers
        BY <1>0, <1>1 DEF Closers
    <2> QED BY <1>1, <2>1, <2>2
<1> HIDE DEF us
<1>3. <<1, "form">> \in Places(us) /\ <<2, ")">> \in Places(us)
    BY <1>1 DEF Places, Closers
<1>4. Unended(read[<<2, ")">>], <<2, ")">>)
    BY <1>1, <1>2, <1>3, OpenStays
<1>5. read[<<1, "form">>] = FormFrom(us, read, 1)
    BY <1>1, <1>3, ReadingUnfold DEF ReadAt
<1>6. FormFrom(us, read, 1) = read[<<2, ")">>]
    BY <1>0, <1>1 DEF FormFrom, Openers, Closer
<1>7. read[<<1, "form">>].out \in {"eof", "end"}
    BY <1>4, <1>5, <1>6 DEF Unended
<1> QED BY <1>0, <1>7 DEF Begins, Form, us

-----------------------------------------------------------------------------
(* What is typed and waits was found unbalanced. *)
PInv == typed \in Seq(STRING) /\ (typed # <<>> => ~Balanced(typed))

(* What waits for another line is only what isBalanced said goes on. *)
THEOREM PromptInvariant == PromptSpec => []PInv
<1>1. PromptInit => PInv
    BY DEF PromptInit, PInv
<1>2. PInv /\ [PromptNext]_prompt => PInv'
    <2> SUFFICES ASSUME PInv, [PromptNext]_prompt PROVE PInv'
        OBVIOUS
    <2>1. CASE UNCHANGED prompt
        BY <2>1 DEF PInv, prompt
    <2>2. CASE EndOfInput
        BY <2>2 DEF PInv, EndOfInput
    <2>3. ASSUME NEW l \in Lines, GoOn(l) PROVE PInv'
        <3>1. typed' = typed \o l /\ ~Balanced(typed \o l)
            BY <2>3 DEF GoOn
        <3>2. typed \o l \in Seq(STRING)
            BY LinesOfTokens DEF PInv
        <3> QED BY <3>1, <3>2 DEF PInv
    <2>4. ASSUME NEW l \in Lines, Misread(l) \/ \E ends \in BOOLEAN : Take(l, ends) PROVE PInv'
        <3>1. typed' = <<>>
            BY <2>4 DEF Misread, Take
        <3> QED BY <3>1 DEF PInv
    <2> QED BY <2>1, <2>2, <2>3, <2>4 DEF PromptNext
<1> QED BY <1>1, <1>2, PTL DEF PromptSpec

(* The prompt never waits for more of a line that the reader would refuse whatever *)
(* came: for all texts and lines, and whatever the evaluator does.             *)
THEOREM PromptAsksOnlyForMore == PromptSpec => []AsksOnlyForMore
<1>1. PInv => AsksOnlyForMore
    <2> SUFFICES ASSUME PInv, typed # <<>> PROVE Begins(typed)
        BY DEF AsksOnlyForMore
    <2>1. typed \in Seq(STRING) /\ Characters(typed) \cap Closers = {}
        BY DEF PInv, Balanced
    <2>2. ASSUME NEW i \in 1 .. Len(typed) PROVE typed[i] \notin Closers
        <3>1. SUFFICES ASSUME typed[i] \in Closers PROVE FALSE
            OBVIOUS
        <3>2. typed[i] \notin DOMAIN Texts
            BY <3>1, TextsApart DEF Closers
        <3>3. typed[i] \in ToSet(typed)
            BY <2>1 DEF ToSet
        <3> QED BY <2>1, <3>1, <3>2, <3>3 DEF Characters
    <2> QED BY <2>1, <2>2, OpenBegins
<1> QED BY <1>1, PromptInvariant, PTL
=============================================================================

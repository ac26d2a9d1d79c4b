--------------------------------- MODULE Lisp ---------------------------------
(***************************************************************************)
(* What lipi promises (pkg/lipi/eval.go): a Lisp without memory.  Lists are    *)
(* values, a function has the names it was made with, a template is filled in,  *)
(* and each form that is entered changes the global names it defines.         *)
(***************************************************************************)
EXTENDS Processes

VARIABLES
    bound,          \* the global names with their values
    entered,        \* the form that was entered last
    shown           \* what came of it

lisp == <<bound, entered, shown>>

(* What came of a form: names, and the values of the scopes, the innermost first. *)
Gives(v, e, g) == [out |-> "ok", v |-> v, e |-> e, g |-> g]
Stops(why, e, g) == [out |-> why, v |-> Nil, e |-> e, g |-> g]

Fun(ps, body, e, macro) ==
    [kind |-> "fun", params |-> ps, body |-> body, env |-> e, macro |-> macro]
Is(v, name) == v.kind = "sym" /\ v.name = name
IsForm(v, name) == v.kind = "list" /\ v.of # <<>> /\ Is(v.of[1], name)

Holding(e, n) == SelectInSeq(e, LAMBDA f : n \in DOMAIN f)
Knows(n, e, g) == Holding(e, n) # 0 \/ n \in DOMAIN g
Value(n, e, g) == IF Holding(e, n) # 0 THEN e[Holding(e, n)][n] ELSE g[n]
Defined(n, v, e, g) ==
    IF e = <<>> THEN Gives(v, e, (n :> v) @@ g)
    ELSE Gives(v, <<(n :> v) @@ Head(e)>> \o Tail(e), g)

(* The name after & is a list of what is left there. *)
Frame(ps, vs) ==
    LET amp == SelectInSeq(ps, LAMBDA p : p = "&")
        plain == IF amp = 0 THEN ps ELSE SubSeq(ps, 1, amp - 1)
    IN  (IF amp = 0 THEN <<>> ELSE ps[amp + 1] :> List(SubSeq(vs, amp, Len(vs))))
            @@ [n \in ToSet(plain) |-> vs[SelectLastInSeq(plain, LAMBDA p : p = n)]]

SymNames(vs) == [i \in DOMAIN vs |-> vs[i].name]

RECURSIVE Meaning(_, _, _), Meanings(_, _, _), Filled(_, _, _), Spliced(_, _, _)

(* The values of forms from left to right, as one list. *)
Meanings(fs, e, g) ==
    IF fs = <<>> THEN Gives(List(<<>>), e, g)
    ELSE LET r == Meaning(Head(fs), e, g) IN
         IF r.out # "ok" THEN r
         ELSE LET s == Meanings(Tail(fs), r.e, r.g) IN
              IF s.out # "ok" THEN s ELSE [s EXCEPT !.v = List(<<r.v>> \o @.of)]

(* A template, filled in from its end. *)
Filled(t, e, g) ==
    IF IsForm(t, "unquote") THEN Meaning(t.of[2], e, g)
    ELSE IF t.kind = "list" THEN Spliced(t.of, e, g)
    ELSE IF t.kind = "sym" THEN Gives(t, e, g)
    ELSE Meaning(t, e, g)
Spliced(ts, e, g) ==
    IF ts = <<>> THEN Gives(List(<<>>), e, g)
    ELSE LET splice == IsForm(Head(ts), "splice-unquote")
             r == IF splice THEN Meaning(Head(ts).of[2], e, g) ELSE Filled(Head(ts), e, g)
         IN  IF r.out # "ok" THEN r
             ELSE LET s == Spliced(Tail(ts), r.e, r.g) IN
                  IF s.out # "ok" THEN s
                  ELSE IF ~splice THEN [s EXCEPT !.v = List(<<r.v>> \o @.of)]
                  ELSE IF r.v.kind = "list" THEN [s EXCEPT !.v = List(r.v.of \o @.of)]
                  ELSE Stops(Refusal(r.v.kind), s.e, s.g)

(* A process, whose arguments are values. *)
Applied(op, vs, e, g) ==
    LET check == CheckArgs(op, Kinds(vs))
        ns == [i \in DOMAIN vs |-> vs[i].n]
        read == Read(vs[1].text)
    IN  IF check # "ok" THEN Stops(check, e, g)
        ELSE CASE op \in Arithmetic \/ (op = "+" /\ AllOf(Kinds(vs), "int") = "ok") ->
                    IF DividesByZero(op, ns) THEN Stops("end", e, g)
                    ELSE Gives(Num(Computed(op, ns)), e, g)
               [] op \in {"+", "concat"} /\ vs # <<>> /\ vs[1].kind = "list" ->
                    Gives(List(FlattenSeq([i \in DOMAIN vs |-> vs[i].of])), e, g)
               [] op = "+" /\ vs # <<>> /\ vs[1].kind = "str" ->
                    Gives(Str(FlattenSeq([i \in DOMAIN vs |-> vs[i].text])), e, g)
               [] op = "cons" -> Gives(List(<<vs[1]>> \o vs[2].of), e, g)
               [] op = "eval" -> IF read.out # "ok" THEN Stops(IF read.out = "end" THEN "end" ELSE "error", e, g)
                                 ELSE [Meaning(read.v, <<>>, g) EXCEPT !.e = e]
               [] op \in DOMAIN KindTests -> Gives(Bool(vs[1].kind = KindTests[op]), e, g)

(* A function: its body, over its arguments and the names it was made with. *)
Called(f, vs, e, g) ==
    IF Len(f.params) # Len(vs) THEN Stops("error", e, g)
    ELSE IF vs # <<>> /\ Last(f.params) = "&" THEN Stops("end", e, g)
    ELSE [Meaning(f.body, <<Frame(f.params, vs)>> \o f.env, g) EXCEPT !.e = e]

Template(c, e, g) == Filled(c.of[2], e, g)

(* What fun says of its names: a list of symbols. *)
Params(v) == IF v.kind # "list" THEN Refusal(v.kind) ELSE AllOf(Kinds(v.of), "sym")

Made(c, e, g) ==
    IF Len(c.of) # 3 THEN Stops("error", e, g)
    ELSE IF Params(c.of[2]) # "ok" THEN Stops(Params(c.of[2]), e, g)
    ELSE Gives(Fun(SymNames(c.of[2].of), c.of[3], e, FALSE), e, g)

(* The name that let binds is its first; a second one is passed over. *)
Let(c, e, g) ==
    LET b == c.of[2].of[1].of
        r == Meaning(b[2], <<<<>>>> \o e, g)
        s == Meaning(c.of[3], Defined(b[1].name, r.v, r.e, r.g).e, r.g)
    IN  IF r.out # "ok" THEN [r EXCEPT !.e = e] ELSE [s EXCEPT !.e = e]

DefineName(c, e, g) ==
    LET r == Meaning(c.of[3], e, g) IN
    IF r.out # "ok" THEN r ELSE Defined(c.of[2].name, r.v, r.e, r.g)

Define(c, e, g) ==
    IF Len(c.of) # 3 THEN Stops("error", e, g)
    ELSE IF IsForm(c, "define") /\ c.of[2].kind = "sym" THEN DefineName(c, e, g)
    ELSE IF Params(c.of[2]) # "ok" THEN Stops(Params(c.of[2]), e, g)
    ELSE IF c.of[2].of = <<>> THEN Stops("error", e, g)
    ELSE LET ps == SymNames(c.of[2].of) IN
         Defined(ps[1], Fun(Tail(ps), c.of[3], e, IsForm(c, "define-macro")), e, g)

If(c, e, g) ==
    LET r == Meaning(c.of[2], e, g) IN
    IF Len(c.of) < 3 THEN Stops("error", e, g)
    ELSE IF r.out # "ok" THEN r
    ELSE IF ~Falsy(r.v) THEN Meaning(c.of[3], r.e, r.g)
    ELSE IF Len(c.of) = 4 THEN Meaning(c.of[4], r.e, r.g)
    ELSE Gives(Nil, r.e, r.g)

(* One form alone is not evaluated. *)
Do(c, e, g) ==
    LET r == Meanings(Tail(c.of), e, g) IN
    IF Len(c.of) < 3 THEN Gives(Nil, e, g)
    ELSE IF r.out # "ok" THEN r ELSE [r EXCEPT !.v = Last(@.of)]

Call(c, e, g) ==
    LET f == Meaning(Head(c.of), e, g) IN
    IF f.out # "ok" THEN f
    ELSE IF f.v.kind = "fun" /\ f.v.macro
    THEN LET x == Called(f.v, Tail(c.of), f.e, f.g) IN
         IF x.out # "ok" THEN x ELSE Meaning(x.v, x.e, x.g)
    ELSE LET r == Meanings(Tail(c.of), f.e, f.g) IN
         IF r.out # "ok" THEN r
         ELSE IF f.v.kind = "fun" THEN Called(f.v, r.v.of, r.e, r.g)
         ELSE IF f.v.kind = "proc" THEN Applied(f.v.op, r.v.of, r.e, r.g)
         ELSE Stops("error", r.e, r.g)

Meaning(c, e, g) ==
    CASE c.kind = "sym" -> IF Knows(c.name, e, g) THEN Gives(Value(c.name, e, g), e, g)
                           ELSE Stops("error", e, g)
      [] c.kind = "str" ->
            IF \E i \in DOMAIN c.text : c.text[i] \in DOMAIN Holes /\ ~Knows(Holes[c.text[i]], e, g)
            THEN Stops("error", e, g)
            ELSE Gives(Str(FlattenSeq([i \in DOMAIN c.text |->
                     IF c.text[i] \in DOMAIN Holes THEN Printed(Value(Holes[c.text[i]], e, g))
                     ELSE <<c.text[i]>>])), e, g)
      [] c.kind \notin {"sym", "str"} /\ (c.kind # "list" \/ c = List(<<>>)) -> Gives(c, e, g)
      [] IsForm(c, "define") \/ IsForm(c, "define-macro") -> Define(c, e, g)
      [] IsForm(c, "let") -> Let(c, e, g)
      [] IsForm(c, "quote") -> Gives(c.of[2], e, g)
      [] IsForm(c, "quasiquote") -> Template(c, e, g)
      [] IsForm(c, "if") -> If(c, e, g)
      [] IsForm(c, "do") -> Do(c, e, g)
      [] IsForm(c, "fun") -> Made(c, e, g)
      [] OTHER -> Call(c, e, g)

-----------------------------------------------------------------------------
(* What a prompt shows of a form that was read. *)
Outcome(r) == IF r.out = "ok" THEN r.v ELSE Sym(r.out)

(* A form is entered, whichever it is. *)
Enter(f) ==
    LET r == Meaning(f, <<>>, bound) IN
    /\ entered' = f
    /\ bound' = r.g
    /\ shown' = Outcome(r)

LispInit ==
    /\ bound = Meaning(Read(Prelude).v, <<>>, Registered).g
    /\ entered = Nil /\ shown = Nil
LispNext == Enter(entered')
=============================================================================

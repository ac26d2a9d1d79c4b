------------------------------- MODULE Processes -------------------------------
(***************************************************************************)
(* What lipi prints, and the processes that are registered (pkg/lipi): what   *)
(* they say of the kinds of their arguments, and what they compute.          *)
(***************************************************************************)
EXTENDS Reader

(* ToString, as the tokens of what it writes. *)
RECURSIVE Printed(_)
Printed(v) ==
    CASE v.kind = "nil" -> <<"#N">>
      [] v.kind = "bool" -> <<IF v.is THEN "#T" ELSE "#F">>
      [] v.kind = "int" -> <<ToString(v.n)>>
      [] v.kind = "sym" -> <<v.name>>
      [] v.kind = "str" -> v.text
      [] v.kind = "list" -> <<"(">> \o FlattenSeq([i \in DOMAIN v.of |-> Printed(v.of[i])]) \o <<")">>
      [] v.kind = "proc" -> <<"#PROCESS">>
      [] v.kind = "fun" -> <<"#LAMBDA">>

-----------------------------------------------------------------------------
(* The processes that are registered, and what CheckArgs says of the kinds of   *)
(* their arguments.  The error that would name the kind of a nil is a panic.   *)
KindTests == ("int?" :> "int") @@ ("str?" :> "str") @@ ("nil?" :> "nil") @@ ("list?" :> "list")
                 @@ ("proc?" :> "proc") @@ ("lambda?" :> "fun")
Arithmetic == {"-", "*", "/"}
Builtins == DOMAIN KindTests \cup Arithmetic \cup {"+", "cons", "concat", "eval", "exit"}

(* What is registered: the processes and three names; and what init defines. *)
Registered == [n \in Builtins |-> Proc(n)]
                  @@ ("#T" :> Bool(TRUE)) @@ ("#F" :> Bool(FALSE)) @@ ("#N" :> Nil)
Prelude == <<"(", "define", "(", "not", "v", ")", "(", "if", "v", "#f", "#t", ")", ")">>

Kinds(vs) == [i \in DOMAIN vs |-> vs[i].kind]
Refusal(kind) == IF kind = "nil" THEN "end" ELSE "error"
AllOf(ks, kind) ==
    LET bad == SelectInSeq(ks, LAMBDA k : k # kind) IN
    IF bad = 0 THEN "ok" ELSE Refusal(ks[bad])
Exactly(ks, n, at, kind) ==
    IF Len(ks) # n THEN "error" ELSE IF ks[at] = kind THEN "ok" ELSE Refusal(ks[at])

CheckArgs(op, ks) ==
    CASE op \in Arithmetic -> AllOf(ks, "int")
      [] op = "+" -> LET r == {AllOf(ks, k) : k \in {"int", "str", "list"}} IN
                     IF "ok" \in r THEN "ok" ELSE IF "end" \in r THEN "end" ELSE "error"
      [] op = "cons" -> Exactly(ks, 2, 2, "list")
      [] op = "concat" -> IF ks = <<>> THEN "error" ELSE AllOf(ks, "list")
      [] op = "eval" -> Exactly(ks, 1, 1, "str")
      [] op = "exit" -> IF Exactly(ks, 1, 1, "int") = "ok" THEN "end" ELSE Exactly(ks, 1, 1, "int")
      [] op \in DOMAIN KindTests -> IF Len(ks) = 1 THEN "ok" ELSE "error"

Falsy(v) == v = Nil \/ v = Bool(FALSE)

(* The product and the quotient begin at zero, as the sum does. *)
Computed(op, ns) ==
    CASE op = "+" -> FoldLeft(LAMBDA a, n : a + n, 0, ns)
      [] op = "-" -> FoldLeft(LAMBDA a, n : a - n, 0, ns)
      [] op \in {"*", "/"} -> 0
DividesByZero(op, ns) == op = "/" /\ \E i \in DOMAIN ns : ns[i] = 0
=============================================================================

--------------------------------- MODULE Lipi ---------------------------------
(***************************************************************************)
(* The interpreter as it is (pkg/lipi, cmd/lipi): scopes that are looked up    *)
(* from the inside, lists that are slices of arrays, which append extends in   *)
(* place while there is room, templates that become calls of cons and concat,  *)
(* and a prompt that takes lines until the process ends.                     *)
(*                                                                          *)
(* Code and data are the same lists, so that what append writes into the room  *)
(* behind a list may be a program.                                          *)
(***************************************************************************)
EXTENDS Prompt, Processes

VARIABLES
    memory,         \* the scopes and the arrays
    entered, shown  \* history: the last form, and what came of it

lipi == <<prompt, memory, entered, shown>>

(* A slice; the array 0 is none. *)
Slice(arr, off, len) == [kind |-> "list", arr |-> arr, off |-> off, len |-> len]
NoList == Slice(0, 0, 0)
Free == [kind |-> "free"]
Function(args, body, scope, macro) ==
    [kind |-> "fun", args |-> args, body |-> body, scope |-> scope, macro |-> macro]

At(m, l, i) == m.arrays[l.arr][l.off + i]
Elements(m, l) == [i \in 1 .. l.len |-> At(m, l, i)]
From(l, n) == Slice(l.arr, l.off + n, l.len - n)

-----------------------------------------------------------------------------
(* append: in place if there is room, which may overwrite what another append  *)
(* put there; or into an array of twice the size, or as large as it must be.   *)
Room(m, l) == IF l.arr = 0 THEN 0 ELSE Len(m.arrays[l.arr]) - l.off
Larger(room, need) == IF need > 2 * room THEN need ELSE 2 * room
Padded(vs, size) == [i \in 1 .. size |-> IF i <= Len(vs) THEN vs[i] ELSE Free]

Appended(m, l, vs) ==
    LET need == l.len + Len(vs)
        at == (l.off + l.len + 1) .. (l.off + need)
    IN  CASE vs = <<>> -> [m |-> m, l |-> l]
          [] vs # <<>> /\ need <= Room(m, l) ->
                [m |-> [m EXCEPT
                     !.arrays[l.arr] = [i \in DOMAIN @ |-> IF i \in at THEN vs[i - l.off - l.len] ELSE @[i]],
                     !.shared = @ \/ \E i \in at : m.arrays[l.arr][i] # Free],
                 l |-> Slice(l.arr, l.off, need)]
          [] OTHER ->
                [m |-> [m EXCEPT !.arrays =
                     Append(@, Padded(Elements(m, l) \o vs, Larger(Room(m, l), need)))],
                 l |-> Slice(Len(m.arrays) + 1, 0, need)]

(* append, one value after the other. *)
Collected(m, vs) ==
    FoldLeft(LAMBDA r, v : Appended(r.m, r.l, <<v>>), [m |-> m, l |-> NoList], vs)

(* What was read, as lists that were appended to. *)
RECURSIVE Stored(_, _)
Stored(m, t) ==
    IF t.kind # "list" THEN [m |-> m, l |-> t]
    ELSE FoldLeft(LAMBDA r, u : LET s == Stored(r.m, u) IN Appended(s.m, r.l, <<s.l>>),
                  [m |-> m, l |-> NoList], t.of)

-----------------------------------------------------------------------------
(* Scope. *)
RECURSIVE Lookup(_, _, _)
Lookup(m, s, id) ==
    IF s = 0 \/ id \in DOMAIN m.scopes[s].store THEN s
    ELSE Lookup(m, m.scopes[s].parent, id)

Gives(v, m) == [out |-> "ok", v |-> v, m |-> m]
Stops(why, m) == [out |-> why, v |-> Nil, m |-> m]
Then(r, F(_)) == IF r.out = "ok" THEN F(r) ELSE r

Get(m, s, id) ==
    IF Lookup(m, s, id) = 0 THEN Stops("error", m)
    ELSE Gives(m.scopes[Lookup(m, s, id)].store[id], m)
Set(m, s, id, v) == Gives(v, [m EXCEPT !.scopes[s].store = (id :> v) @@ @])

Nested(m, parent, store) == [m EXCEPT !.scopes = Append(@, [store |-> store, parent |-> parent])]

(* createNestedScope: names and values, of which the name after & gets the rest *)
(* from there on.                                                           *)
RECURSIVE Bindings(_, _, _)
Bindings(m, ids, vs) ==
    CASE ids.len = 0 -> <<>>
      [] ids.len # 0 /\ At(m, ids, 1).name = "&" -> At(m, ids, 2).name :> vs
      [] OTHER -> Bindings(m, From(ids, 1), From(vs, 1)) @@ (At(m, ids, 1).name :> At(m, vs, 1))

CreateNestedScope(m, parent, ids, vs) ==
    IF ids.len # vs.len THEN Stops("error", m)
    ELSE IF ids.len # 0 /\ At(m, ids, ids.len).name = "&" THEN Stops("end", m)
    ELSE Gives(Nil, Nested(m, parent, Bindings(m, ids, vs)))

-----------------------------------------------------------------------------
(* quasiQuote: a template becomes calls of cons and concat. *)
Literal(m, vs) == [m |-> [m EXCEPT !.arrays = Append(@, vs)], l |-> Slice(Len(m.arrays) + 1, 0, Len(vs))]
StartsWith(m, v, id) == v.kind = "list" /\ v.len > 0 /\ At(m, v, 1) = Sym(id)

RECURSIVE QuasiQuote(_, _)
QuasiQuoteLoop(m, vs) ==
    FoldRight(LAMBDA v, p :
        IF StartsWith(p.m, v, "splice-unquote")
        THEN Literal(p.m, <<Sym("concat"), At(p.m, v, 2), p.l>>)
        ELSE LET q == QuasiQuote(p.m, v) IN Literal(q.m, <<Sym("cons"), q.l, p.l>>),
        vs, [m |-> m, l |-> NoList])
QuasiQuote(m, c) ==
    CASE c.kind = "sym" -> Literal(m, <<Sym("quote"), c>>)
      [] StartsWith(m, c, "unquote") -> [m |-> m, l |-> At(m, c, 2)]
      [] c.kind = "list" /\ ~StartsWith(m, c, "unquote") -> QuasiQuoteLoop(m, Elements(m, c))
      [] OTHER -> [m |-> m, l |-> c]

-----------------------------------------------------------------------------
(* What a value is, whatever keeps it. *)
RECURSIVE Tree(_, _), Around(_, _)
Tree(m, v) ==
    CASE v.kind = "list" -> List([i \in 1 .. v.len |-> Tree(m, At(m, v, i))])
      [] v.kind = "fun" -> [kind |-> "fun", params |-> [i \in 1 .. v.args.len |-> At(m, v.args, i).name],
                            body |-> Tree(m, v.body), env |-> Around(m, v.scope), macro |-> v.macro]
      [] OTHER -> v
Around(m, s) ==
    IF m.scopes[s].parent = 0 THEN <<>>
    ELSE <<[n \in DOMAIN m.scopes[s].store |-> Tree(m, m.scopes[s].store[n])]>>
             \o Around(m, m.scopes[s].parent)

-----------------------------------------------------------------------------
(* EvalCapsuleInScope: a form in a scope, and the memory that it leaves. *)
RECURSIVE Eval(_, _, _), EvalMap(_, _, _, _), LetFrom(_, _, _, _)

Interpolated(m, s, v) ==
    LET holes == {i \in DOMAIN v.text : v.text[i] \in DOMAIN Holes}
        At1(i) == Get(m, s, Holes[v.text[i]])
    IN  IF \E i \in holes : At1(i).out # "ok" THEN Stops("error", m)
        ELSE Gives(Str(FlattenSeq([i \in DOMAIN v.text |->
                 IF i \in holes THEN Printed(Tree(m, At1(i).v)) ELSE <<v.text[i]>>])), m)

(* evalMap, and the arguments of a call: from left to right. *)
EvalMap(m, s, args, done) ==
    IF args.len = 0 THEN LET c == Collected(m, done) IN Gives(c.l, c.m)
    ELSE Then(Eval(m, s, At(m, args, 1)),
              LAMBDA r : EvalMap(r.m, s, From(args, 1), Append(done, r.v)))

Symbols(m, v) == IF v.kind # "list" THEN Refusal(v.kind) ELSE AllOf(Kinds(Elements(m, v)), "sym")

DefineFunction(m, s, args, macro) ==
    LET f == At(m, args, 1) IN
    IF Symbols(m, f) # "ok" THEN Stops(Symbols(m, f), m)
    ELSE IF f.len = 0 THEN Stops("error", m)
    ELSE Set(m, s, At(m, f, 1).name, Function(From(f, 1), At(m, args, 2), s, macro))

Define(m, s, args) ==
    IF args.len # 2 THEN Stops("error", m)
    ELSE IF At(m, args, 1).kind # "sym" THEN DefineFunction(m, s, args, FALSE)
    ELSE Then(Eval(m, s, At(m, args, 2)), LAMBDA r : Set(r.m, s, At(m, args, 1).name, r.v))

DefineMacro(m, s, args) ==
    IF args.len # 2 THEN Stops("error", m) ELSE DefineFunction(m, s, args, TRUE)

(* The i-th binding is where the pairs would be if they were not each a list. *)
LetFrom(m, s, defs, i) ==
    LET def == At(m, defs, i + 1) IN
    IF i >= defs.len THEN Gives(Nil, m)
    ELSE IF def.kind # "list" \/ def.len <= i THEN Stops("end", m)
    ELSE IF At(m, def, 1).kind # "sym" THEN Stops("error", m)
    ELSE IF def.len = i + 1 THEN Stops("end", m)
    ELSE Then(Eval(m, s, At(m, def, i + 2)),
              LAMBDA r : LetFrom(Set(r.m, s, At(m, def, 1).name, r.v).m, s, defs, i + 2))

Let(m, s, args) ==
    LET n == Nested(m, s, <<>>) IN
    IF args.len # 2 THEN Stops("error", m)
    ELSE IF At(m, args, 1).kind # "list" THEN Stops(Refusal(At(m, args, 1).kind), m)
    ELSE Then(LetFrom(n, Len(n.scopes), At(m, args, 1), 0),
              LAMBDA r : Eval(r.m, Len(n.scopes), At(r.m, args, 2)))

If(m, s, args) ==
    IF args.len < 2 THEN Stops("error", m)
    ELSE Then(Eval(m, s, At(m, args, 1)), LAMBDA r :
             IF ~Falsy(r.v) THEN Eval(r.m, s, At(r.m, args, 2))
             ELSE IF args.len = 3 THEN Eval(r.m, s, At(r.m, args, 3))
             ELSE Gives(Nil, r.m))

Do(m, s, args) ==
    IF args.len <= 1 THEN Gives(Nil, m)
    ELSE Then(EvalMap(m, s, Slice(args.arr, args.off, args.len - 1), <<>>),
              LAMBDA r : Eval(r.m, s, At(r.m, args, args.len)))

Fun(m, s, args) ==
    IF args.len # 2 THEN Stops("error", m)
    ELSE IF Symbols(m, At(m, args, 1)) # "ok" THEN Stops(Symbols(m, At(m, args, 1)), m)
    ELSE Gives(Function(At(m, args, 1), At(m, args, 2), s, FALSE), m)

EvalSource(m, ts) ==
    LET r == Read(ts)
        c == Stored(m, r.v)
    IN  IF r.out = "ok" THEN Eval(c.m, 1, c.l)
        ELSE Stops(IF r.out = "end" THEN "end" ELSE "error", m)

Joined(m, l, vs) == LET r == FoldLeft(LAMBDA a, v : Appended(a.m, a.l, Elements(a.m, v)),
                                      [m |-> m, l |-> l], vs)
                    IN  Gives(r.l, r.m)

Process(m, op, args) ==
    LET vs == Elements(m, args)
        check == CheckArgs(op, Kinds(vs))
        ns == [i \in DOMAIN vs |-> vs[i].n]
        one == Literal(m, <<vs[1]>>)
    IN  CASE check # "ok" -> Stops(check, m)
          [] check = "ok" /\ (op \in Arithmetic \/ (op = "+" /\ AllOf(Kinds(vs), "int") = "ok")) ->
                IF DividesByZero(op, ns) THEN Stops("end", m) ELSE Gives(Num(Computed(op, ns)), m)
          [] check = "ok" /\ op = "+" /\ vs # <<>> /\ vs[1].kind = "str" ->
                Gives(Str(FlattenSeq([i \in DOMAIN vs |-> vs[i].text])), m)
          [] check = "ok" /\ op = "+" /\ vs # <<>> /\ vs[1].kind = "list" -> Joined(m, NoList, vs)
          [] check = "ok" /\ op = "concat" -> Joined(m, vs[1], Tail(vs))
          [] check = "ok" /\ op = "cons" -> Joined(one.m, one.l, <<vs[2]>>)
          [] check = "ok" /\ op = "eval" -> EvalSource(m, vs[1].text)
          [] check = "ok" /\ op \in DOMAIN KindTests -> Gives(Bool(vs[1].kind = KindTests[op]), m)

(* A macro has the forms, and what it returns is evaluated in its place. *)
Expand(m, s, f, args) ==
    Then(CreateNestedScope(m, f.scope, f.args, args), LAMBDA n :
        Then(Eval(n.m, Len(n.m.scopes), f.body), LAMBDA x : Eval(x.m, s, x.v)))

(* Mutant of Call: the names of a function are looked up where it is called. *)
CallDynamic(m, s, callee, args) ==
    Then(Eval(m, s, callee), LAMBDA f :
        IF f.v.kind = "fun" /\ f.v.macro THEN Expand(f.m, s, f.v, args)
        ELSE Then(EvalMap(f.m, s, args, <<>>), LAMBDA r :
            CASE f.v.kind = "fun" ->
                    Then(CreateNestedScope(r.m, s, f.v.args, r.v),
                         LAMBDA n : Eval(n.m, Len(n.m.scopes), f.v.body))
              [] f.v.kind = "proc" -> Process(r.m, f.v.op, r.v)
              [] OTHER -> Stops("error", r.m)))

Call(m, s, callee, args) ==
    Then(Eval(m, s, callee), LAMBDA f :
        IF f.v.kind = "fun" /\ f.v.macro THEN Expand(f.m, s, f.v, args)
        ELSE Then(EvalMap(f.m, s, args, <<>>), LAMBDA r :
            CASE f.v.kind = "fun" ->
                    Then(CreateNestedScope(r.m, f.v.scope, f.v.args, r.v),
                         LAMBDA n : Eval(n.m, Len(n.m.scopes), f.v.body))
              [] f.v.kind = "proc" -> Process(r.m, f.v.op, r.v)
              [] OTHER -> Stops("error", r.m)))

EvalList(m, s, callee, args) ==
    LET id == IF callee.kind = "sym" THEN callee.name ELSE ""
        quasi == QuasiQuote(m, At(m, args, 1))
    IN  CASE id = "define" -> Define(m, s, args)
          [] id = "let" -> Let(m, s, args)
          [] id = "quote" -> Gives(At(m, args, 1), m)
          [] id = "quasiquote" -> Eval(quasi.m, s, quasi.l)
          [] id = "define-macro" -> DefineMacro(m, s, args)
          [] id = "if" -> If(m, s, args)
          [] id = "do" -> Do(m, s, args)
          [] id = "fun" -> Fun(m, s, args)
          [] OTHER -> Call(m, s, callee, args)

Eval(m, s, c) ==
    CASE c.kind = "sym" -> Get(m, s, c.name)
      [] c.kind = "str" -> Interpolated(m, s, c)
      [] c.kind = "list" /\ c.len > 0 -> EvalList(m, s, At(m, c, 1), From(c, 1))
      [] OTHER -> Gives(c, m)

-----------------------------------------------------------------------------
(* The prompt, with what it evaluates. *)
Registry == [scopes |-> <<[store |-> Registered, parent |-> 0]>>, arrays |-> <<>>, shared |-> FALSE]

Init ==
    /\ PromptInit /\ memory = EvalSource(Registry, Prelude).m
    /\ entered = Nil /\ shown = Nil

Unasked == UNCHANGED <<memory, entered, shown>>

Enter(l) ==
    LET f == Read(Whole(typed \o l)).v
        c == Stored(memory, f)
        e == Eval(c.m, 1, c.l)
    IN  /\ Take(l, e.out = "end")
        /\ memory' = e.m
        /\ entered' = f
        /\ shown' = IF e.out = "ok" THEN Tree(e.m, e.v) ELSE Sym(e.out)

Next ==
    \/ EndOfInput /\ Unasked
    \/ \E l \in Lines : GoOn(l) /\ Unasked
    \/ \E l \in Lines : Misread(l) /\ Unasked
    \/ \E l \in Lines : Enter(l)
Spec == Init /\ [][Next]_lipi

-----------------------------------------------------------------------------
(* Names mean what a Lisp without memory says, and what is shown is what it     *)
(* shows: functions see the names around them, templates are what they look   *)
(* like, and a list is what it was.  The only exception is two lists that were *)
(* extended from the same one, of which the second is written over the first. *)
Bound == [n \in DOMAIN memory.scopes[1].store |-> Tree(memory, memory.scopes[1].store[n])]
L == INSTANCE Lisp WITH bound <- Bound
ImplementsLisp == L!LispInit /\ [][memory'.shared \/ L!LispNext]_(L!lisp)
=============================================================================

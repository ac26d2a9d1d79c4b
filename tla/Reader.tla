-------------------------------- MODULE Reader --------------------------------
(***************************************************************************)
(* The values of lipi (pkg/lipi) and its reader, which goes over tokens by     *)
(* their position, and how the prompt of cmd/lipi decides that a line goes on. *)
(* A token is a name; what is between the quotes of a text is its tokens; qq   *)
(* is a backquote.  Maps and keywords are left out.                           *)
(*                                                                          *)
(* A list is here what it holds; where it is kept is in Lipi.                 *)
(***************************************************************************)
EXTENDS Integers, Sequences, SequencesExt, TLC

CONSTANTS
    Texts,          \* the texts' tokens, each with the tokens in it
    Holes,          \* tokens like {x} in a text, each with its name
    MaxInt          \* bound: the numbers that are read

ASSUME TextsApart == DOMAIN Texts \cap {"(", "[", ")", "]"} = {}

Numbers == [t \in {ToString(n) : n \in -MaxInt .. MaxInt} |->
               CHOOSE n \in -MaxInt .. MaxInt : ToString(n) = t]

Nil == [kind |-> "nil"]
Bool(b) == [kind |-> "bool", is |-> b]
Num(n) == [kind |-> "int", n |-> n]
Sym(s) == [kind |-> "sym", name |-> s]
Str(ts) == [kind |-> "str", text |-> ts]
List(vs) == [kind |-> "list", of |-> vs]
Proc(op) == [kind |-> "proc", op |-> op]

Openers == {"(", "["}
Closers == {")", "]"}
Closer == [o \in Openers |-> IF o = "(" THEN ")" ELSE "]"]
Quotes == ("'" :> "quote") @@ ("qq" :> "quasiquote") @@ ("~" :> "unquote")
              @@ ("~@" :> "splice-unquote")

(* What was read, and the position behind it. *)
Read1(v, pos) == [out |-> "ok", v |-> v, pos |-> pos]
Unread(why) == [out |-> why, v |-> Nil, pos |-> 0]

Atom(t) ==
    IF t \in DOMAIN Numbers THEN Num(Numbers[t])
    ELSE IF t \in DOMAIN Texts THEN Str(Texts[t])
    ELSE Sym(t)

(* read, from a position on.  Without a token the process ends. *)
FormFrom(ts, read, i) ==
    IF i > Len(ts) THEN Unread("end")
    ELSE IF ts[i] \in Openers THEN read[<<i + 1, Closer[ts[i]]>>]
    ELSE IF ts[i] \in Closers THEN Unread("unexpected")
    ELSE IF ts[i] \in DOMAIN Quotes
    THEN LET r == read[<<i + 1, "form">>] IN
         IF r.out = "ok" THEN Read1(List(<<Sym(Quotes[ts[i]]), r.v>>), r.pos) ELSE r
    ELSE Read1(Atom(ts[i]), i + 1)

(* readList, from a position in the list on. *)
ListFrom(ts, read, i, end) ==
    IF i > Len(ts) THEN Unread("eof")
    ELSE IF ts[i] = end THEN Read1(List(<<>>), i + 1)
    ELSE LET f == read[<<i, "form">>]
             r == read[<<f.pos, end>>]
         IN  IF f.out # "ok" THEN f
             ELSE IF r.out # "ok" THEN r
             ELSE Read1(List(<<f.v>> \o r.v.of), r.pos)

(* A place is a position with what is read there: a form, or a list up to its    *)
(* closing bracket.                                                         *)
Places(ts) == (1 .. (Len(ts) + 1)) \X ({"form"} \cup Closers)
Reading(ts) ==
    LET read[p \in Places(ts)] ==
            IF p[2] = "form" THEN FormFrom(ts, read, p[1]) ELSE ListFrom(ts, read, p[1], p[2])
    IN  read
Form(ts) == Reading(ts)[<<1, "form">>]

(* Read: what follows the first form is not looked at. *)
Read(ts) == IF ts = <<>> THEN Read1(Nil, 1) ELSE Form(ts)

-----------------------------------------------------------------------------
(* isBalanced goes over every character, those in a text too. *)
Characters(ts) ==
    {t \in ToSet(ts) : t \notin DOMAIN Texts}
      \cup UNION {ToSet(Texts[t]) : t \in ToSet(ts) \cap DOMAIN Texts}

(* Mutant of Balanced: a bracket that closes no other is passed over. *)
BalancedPast(ts) ==
    LET InOrder == FlattenSeq([i \in DOMAIN ts |->
                       IF ts[i] \in DOMAIN Texts THEN Texts[ts[i]] ELSE <<ts[i]>>])
        Depth(d, t) == IF t \in Openers THEN Append(d, Closer[t])
                       ELSE IF d # <<>> /\ t = Last(d) THEN Front(d) ELSE d
    IN  FoldLeft(Depth, <<>>, InOrder) = <<>>

(* The first closing bracket ends the walk: it is looked up among the opening   *)
(* ones, so that it never matches, and the line counts as one to be reported.  *)
(* So the order of the characters does not matter.                           *)
Balanced(ts) ==
    \/ Characters(ts) \cap (Closers \cup DOMAIN Holes) # {}
    \/ Characters(ts) \cap Openers = {}

(* More could make it right: it is the beginning of what the reader reads. *)
Begins(ts) == Form(<<"(">> \o ts).out \in {"eof", "end"}
=============================================================================

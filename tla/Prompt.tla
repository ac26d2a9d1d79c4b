-------------------------------- MODULE Prompt --------------------------------
(***************************************************************************)
(* The prompt of cmd/lipi: it takes lines, joined as long as isBalanced says   *)
(* so, gives them to the reader, and what is read to the evaluator, which may   *)
(* end the process.                                                         *)
(***************************************************************************)
EXTENDS Reader

CONSTANTS
    Lines,          \* what may be typed
    MaxLines        \* bound: the lines of a session

(* An empty line is left out: repl goes on as if it had not been typed. *)
ASSUME LinesOfTokens == Lines \subseteq Seq(STRING) \ {<<>>} /\ MaxLines \in Nat

VARIABLES
    typed,          \* the line, as far as it was typed
    lines,          \* lines that are left
    running         \* the process has not ended

prompt == <<typed, lines, running>>

PromptInit == typed = <<>> /\ lines = MaxLines /\ running = TRUE

Prompted(l) == running /\ lines > 0 /\ lines' = lines - 1 /\ l \in Lines

Whole(ts) == IF Head(ts) = "(" THEN ts ELSE <<"(">> \o ts \o <<")">>

GoOn(l) ==
    /\ Prompted(l)
    /\ ~Balanced(typed \o l) /\ typed' = typed \o l
    /\ UNCHANGED running

(* The reader has an error, or ends the process. *)
Misread(l) ==
    LET r == Read(Whole(typed \o l)) IN
    /\ Prompted(l)
    /\ Balanced(typed \o l) /\ typed' = <<>>
    /\ r.out # "ok" /\ running' = (r.out # "end")

(* A form is read, whose evaluation may end the process. *)
Take(l, ends) ==
    /\ Prompted(l)
    /\ Balanced(typed \o l) /\ typed' = <<>>
    /\ Read(Whole(typed \o l)).out = "ok"
    /\ running' = ~ends

EndOfInput == running /\ running' = FALSE /\ UNCHANGED <<typed, lines>>

PromptNext ==
    \/ EndOfInput
    \/ \E l \in Lines : GoOn(l) \/ Misread(l) \/ \E ends \in BOOLEAN : Take(l, ends)
PromptSpec == PromptInit /\ [][PromptNext]_prompt

-----------------------------------------------------------------------------
(* The prompt asks for another line only as long as more can make it right. *)
AsksOnlyForMore == typed # <<>> => Begins(typed)
=============================================================================

-------------------------------- MODULE MCLipi --------------------------------
EXTENDS Lipi

T == ("text" :> <<"(", "+", "{y}", "y", ")">>)
H == ("{y}" :> "y")

Typed == {
    \* pieces of lines
    <<"(">>, <<")">>, <<"]">>, <<"[">>, <<"'">>, <<"x">>,
    \* lists
    <<"define", "x", "'", "(", "1", "2", "3", ")">>,
    <<"define", "y", "(", "concat", "x", "'", "(", "4", ")", ")">>,
    <<"define", "z", "(", "+", "(", "concat", "x", "'", "(", "5", ")", ")", "(", "cons", "1", "x", ")", ")">>,
    <<"cons", "1", "#N">>,
    \* scopes
    <<"define", "(", "f", "x", ")", "(", "fun", "(", "z", ")", "(", "do", "(", "define", "y", "z", ")", "(", "+", "x", "y", ")", ")", ")">>,
    <<"define", "y", "(", "let", "(", "(", "x", "2", ")", "(", "y", "3", ")", ")", "(", "(", "f", "7", ")", "x", ")", ")">>,
    \* macros
    <<"(", "define-macro", "(", "m", "a", "b", ")", "qq", "(", "if", "~", "a", "'", "(", "a", "~@", "b", "3", ")", "~", "b", ")", ")">>,
    <<"m", "x", "(", "not", "5", ")">>,
    <<"(", "fun", "(", "a", "&", "r", ")", "(", "concat", "r", "'", "(", "4", ")", ")", ")", "1", "2", "3">>,
    \* texts
    <<"eval", "text">>
}
=============================================================================

----------------------------- MODULE MCAlgorithms -----------------------------
(* The three sequential components that share nothing: the loop of           *)
(* ngx_empty_into, the loading of the configuration and the linked list.     *)
(* A behaviour runs one of them and leaves the other two as they began.      *)
EXTENDS EmptyInto, Config, AdList

VARIABLE component

mcVars == <<component, vars, configVars, listVars>>

MCLimits == {-1, 0, 1, 2, 4}

Symmetry == Permutations(Cell) \cup Permutations(Value)

----------------------------------------------------------------------------
(* Files of every kind of line, each with what it means; an unreadable one   *)
(* means an invalid directive.                                               *)
Bad == <<Unreadable>>

MCFiles == {
    [text |-> <<>>, means |-> <<>>],
    \* p 0 <newline> # p <end of file inside a comment>
    [text |-> <<"p", "sp", "0", "nl", "#", "sp", "p">>, means |-> <<<<<<"p">>, <<"0">>>>>>],
    \* a directive in capitals, trailing blanks, an open last line
    [text |-> <<"nl", "tab", "P", "sp", "0", "sp", "cr">>, means |-> <<<<<<"P">>, <<"0">>>>>>],
    \* both kinds of quotes
    [text |-> <<"p", "sp", "dq", "0", "sp", "dq", "nl", "l", "sp", "'", "#", "'">>,
     means |-> <<<<<<"p">>, <<"0", "sp">>>>, <<<<"l">>, <<"#">>>>>>],
    \* a line that is empty only for sdssplitargs; the same name twice
    [text |-> <<"vt", "nl", "r", "sp", "n", "nl", "r", "sp", "y">>,
     means |-> <<<<<<"r">>, <<"n">>>>, <<<<"r">>, <<"y">>>>>>],
    \* a list and a number at its limit
    [text |-> <<"b", "sp", "0", "sp", "1", "nl", "x", "sp", "1", "0">>,
     means |-> <<<<<<"b">>, <<"0">>, <<"1">>>>, <<<<"x">>, <<"1", "0">>>>>>],
    \* quotes not closed, something behind closed ones
    [text |-> <<"p", "sp", "dq", "0">>, means |-> Bad],
    [text |-> <<"p", "sp", "'", "0", "'", "0", "nl">>, means |-> Bad]}

Chars  == {"sp", "nl", "\\", "dq", "'", "#", "x", "0", "vt", "ctl"}
Values == UNION {[1..n -> Chars] : n \in 0..2} \cup [1..3 -> {"sp", "nl", "\\", "dq", "'", "n", "x"}]
          \cup {<<"\\", "x", "0", "1">>, <<"cr", "bel">>, <<"bs">>, <<"tab">>}

Name(n) == <<"-", "-", n>>
Given == {<<"y">>, <<"n">>, <<"0">>, <<"1", "0">>, <<"1", "1">>, <<"-", "1">>, <<>>}

MCArgLists ==
    {<<>>, <<<<"0">>>>, <<Name("p")>>, <<<<"0">>, Name("p"), <<"0">>>>,
     <<Name("p"), <<"0">>, <<"0">>>>}
    \cup {<<Name("p"), v>> : v \in Values}
    \cup {<<Name("l"), v, Name("r"), c>> : v \in {<<"sp">>, <<"0">>}, c \in Given}
    \cup {<<Name("x"), c, Name("b"), v, <<"1">>>> : c \in Given, v \in {<<"nl">>, <<"0">>}}
    \cup {<<Name("b"), <<"0">>, <<"1">>, v>> : v \in {<<"0">>}}
    \cup {<<Name("r"), c, Name("P"), <<"0">>, Name("r"), d>> : c \in Given, d \in {<<"y">>, <<"0">>}}

MCUnopenable == {<<"0">>}

----------------------------------------------------------------------------
QueueIdle  == from0 = <<>> /\ to0 = <<>> /\ limit0 = 0
ConfigIdle == file = [text |-> <<>>, means |-> <<>>] /\ args = <<>>

MCInit ==
    /\ ListInit
    /\ \/ component = "queue" /\ Init /\ ConfigIdle /\ ConfigInit
       \/ component = "config" /\ QueueIdle /\ Init /\ ConfigInit
       \/ component = "list" /\ QueueIdle /\ Init /\ ConfigIdle /\ ConfigInit

MCNext ==
    \/ component = "queue" /\ Next /\ UNCHANGED <<component, configVars, listVars>>
    \/ component = "config" /\ ConfigNext /\ UNCHANGED <<component, vars, listVars>>
    \/ component = "list" /\ ListStep /\ UNCHANGED <<component, vars, configVars>>

MCSpec == MCInit /\ [][MCNext]_mcVars
=============================================================================

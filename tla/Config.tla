------------------------------- MODULE Config -------------------------------
(***************************************************************************)
(* How the configuration is loaded: main of src/src/redd.c turns its       *)
(* arguments into option lines, load_server_config of src/src/config.c     *)
(* appends them to the file, and load_server_config_from_string executes   *)
(* line after line.                                                        *)
(*                                                                         *)
(* One directive stands for each kind: "p" (pidfile) for those that take   *)
(* any text, "l" (logfile) for the one that must be openable, "r"          *)
(* (routing-enabled) for those with a list of choices, "x" (port) for a    *)
(* number with a range, "b" (bind) for a list.  Names and the choices are  *)
(* one letter long.                                                        *)
(***************************************************************************)
EXTENDS Text

CONSTANTS
    Files,       \* configuration files: [text |-> bytes, means |-> its directives]
    ArgLists,    \* the program's arguments after the name of the file
    Unopenable,  \* log files fopen refuses
    MaxNumber,   \* the largest number "x" takes (65535)
    MaxBind      \* REDD_BINDADDR_MAX

\* The bytes of a text.  Those that quoting adds are strings, too, but the
\* provers do not know that of a literal.
Marks == {"\\", "dq", "x", "0", "1", "b", "n", "r", "t", "a", "nl", "sp"}
Bytes == Marks \cup (STRING \ {Nul})

\* What can be the name of an option: it begins no comment, and no byte of it
\* ends a token or begins a quote.
Special == Space \cup Separator \cup {"dq", "'"}
IsPlain(w) ==
    /\ w \in Seq(Bytes) /\ w # <<>> /\ w[1] # "#"
    /\ \A i \in 1..Len(w) : w[i] \notin Special

IsName(a) == Len(a) >= 2 /\ a[1] = "-" /\ a[2] = "-"

\* An argument is any text; behind the two dashes of a name a name follows.
Argument == {a \in Seq(Bytes) : IsName(a) => IsPlain(SubSeq(a, 3, Len(a)))}

ASSUME ArgumentsOfConfig == ArgLists \subseteq Seq(Argument)

ASSUME LimitsOfConfig == MaxNumber \in Nat /\ MaxBind \in Nat

VARIABLES
    file, args,  \* what the program is started with
    lines,       \* what load_server_config_from_string has split
    linenum,     \* lines it has done
    fields,      \* the fields of server the directives set
    phase        \* "main", "lines", then "loaded" or "exited"

configVars == <<file, args, lines, linenum, fields, phase>>

\* init_server_config.
Defaults == [p |-> <<"d">>, l |-> <<>>, r |-> 1, x |-> 0, b |-> <<>>]

ConfigInit ==
    /\ file \in Files /\ args \in ArgLists
    /\ lines = <<>> /\ linenum = 0
    /\ fields = Defaults
    /\ phase = "main"

----------------------------------------------------------------------------
\* The option lines main makes of the arguments: a new line for each name,
\* the arguments quoted.
AddOption(o, a) ==
    IF IsName(a)
    THEN (IF o = <<>> THEN o ELSE Append(o, "nl")) \o SubSeq(a, 3, Len(a)) \o <<"sp">>
    ELSE o \o CatRepr(a) \o <<"sp">>

Options(arguments) ==
    LET opts[i \in 0..Len(arguments)] ==
            IF i = 0 THEN <<>> ELSE AddOption(opts[i - 1], arguments[i])
    IN  opts[Len(arguments)]

\* Variant with a bug, for the mutants of PROJECT.json: the options are put
\* right behind the file, which need not end a line.
LoadNoNewline ==
    /\ phase = "main"
    /\ lines' = SplitLen(file.text \o Options(args), "nl")
    /\ phase' = "lines"
    /\ UNCHANGED <<file, args, linenum, fields>>

\* main, then load_server_config: the text of the file and the options.
Load ==
    /\ phase = "main"
    /\ lines' = SplitLen(file.text \o <<"nl">> \o Options(args), "nl")
    /\ phase' = "lines"
    /\ UNCHANGED <<file, args, linenum, fields>>

----------------------------------------------------------------------------
\* yesnotoi.
YesNoToI(s) == CASE s = <<"y">> -> 1 [] s = <<"n">> -> 0 [] OTHER -> -1

\* atoi: blanks, a sign, digits; 0 when there are none.
Atoi(s) ==
    LET Filled == {i \in 1..Len(s) : s[i] \notin Space}
        t      == IF Filled = {} THEN <<>> ELSE SubSeq(s, Min(Filled), Len(s))
        minus  == At(t, 1) = "-"
        u      == IF minus THEN Tail(t) ELSE t
        digits == SelectInSeq(Append(u, Nul), LAMBDA c : c \notin Digit) - 1
        n      == FoldLeft(LAMBDA acc, c : 10 * acc + (IF c = "1" THEN 1 ELSE 0), 0,
                           SubSeq(u, 1, digits))
    IN  IF minus THEN -n ELSE n

\* The directive argv on fields f: Rejected, or the fields it leaves.
Rejected == [ok |-> FALSE, fields |-> Defaults]
Accept(f) == [ok |-> TRUE, fields |-> f]

Execute(f, argv) ==
    LET name == ToLower(argv[1])  value == argv[2] IN
    CASE Len(argv) = 2 /\ name = <<"p">> -> Accept([f EXCEPT !.p = value])
      [] Len(argv) = 2 /\ name = <<"l">> ->
            IF value \in Unopenable THEN Rejected ELSE Accept([f EXCEPT !.l = value])
      [] Len(argv) = 2 /\ name = <<"r">> ->
            IF YesNoToI(value) = -1 THEN Rejected ELSE Accept([f EXCEPT !.r = YesNoToI(value)])
      [] Len(argv) = 2 /\ name = <<"x">> ->
            IF Atoi(value) \in 0..MaxNumber THEN Accept([f EXCEPT !.x = Atoi(value)]) ELSE Rejected
      [] Len(argv) \in 2..(MaxBind + 1) /\ name = <<"b">> -> Accept([f EXCEPT !.b = Tail(argv)])
      [] OTHER -> Rejected

\* A line is trimmed of these.
Blank == {"sp", "tab", "cr", "nl"}

Line == Trim(lines[linenum + 1], Blank)
More == phase = "lines" /\ linenum < Len(lines)

\* Blank lines, comments, and lines sdssplitargs finds nothing in.
IsSkipped(line) ==
    \/ line = <<>> \/ At(line, 1) = "#"
    \/ SplitArgs(line) = [ok |-> TRUE, argv |-> <<>>]

\* What a line means by itself: nothing, its directive, or one that is never
\* valid, for a line that cannot be taken apart.
Unreadable == <<<<"?">>>>

LineMeans(line) ==
    IF IsSkipped(line) THEN <<>>
    ELSE IF SplitArgs(line).ok THEN <<SplitArgs(line).argv>> ELSE <<Unreadable>>

LinesMean(ls) ==
    LET means[i \in 0..Len(ls)] ==
            IF i = 0 THEN <<>> ELSE means[i - 1] \o LineMeans(Trim(ls[i], Blank))
    IN  means[Len(ls)]

ASSUME FilesOfConfig ==
    \A f \in Files : f.text \in Seq(Bytes) /\ f.means = LinesMean(SplitLen(f.text, "nl"))

SkipLine ==
    /\ More /\ IsSkipped(Line)
    /\ linenum' = linenum + 1
    /\ UNCHANGED <<file, args, lines, fields, phase>>

Accepted(line) ==
    LET split == SplitArgs(line) IN split.ok /\ Execute(fields, split.argv).ok

Directive ==
    /\ More /\ ~IsSkipped(Line) /\ Accepted(Line)
    /\ fields' = Execute(fields, SplitArgs(Line).argv).fields
    /\ linenum' = linenum + 1
    /\ UNCHANGED <<file, args, lines, phase>>

\* loaderr: the program ends.  Nothing has been set up yet.
LoadError ==
    /\ More /\ ~IsSkipped(Line) /\ ~Accepted(Line)
    /\ phase' = "exited"
    /\ UNCHANGED <<file, args, lines, linenum, fields>>

Loaded ==
    /\ phase = "lines" /\ linenum = Len(lines)
    /\ phase' = "loaded"
    /\ UNCHANGED <<file, args, lines, linenum, fields>>

ConfigNext == Load \/ SkipLine \/ Directive \/ LoadError \/ Loaded

ConfigSpec == ConfigInit /\ [][ConfigNext]_configVars

----------------------------------------------------------------------------
(* Properties.                                                             *)

\* What the arguments mean, without a detour over text: each name with the
\* arguments up to the next one.
AddMeant(g, a) ==
    IF IsName(a) THEN Append(g, <<SubSeq(a, 3, Len(a))>>)
    ELSE IF g = <<>> THEN <<<<a>>>>
    ELSE [g EXCEPT ![Len(g)] = Append(@, a)]

Meant(arguments) ==
    LET meant[i \in 0..Len(arguments)] ==
            IF i = 0 THEN <<>> ELSE AddMeant(meant[i - 1], arguments[i])
    IN  meant[Len(arguments)]

\* Whatever bytes an argument of the program holds, blanks, quotes, line
\* ends and backslashes among them, the configuration code gets it back
\* unchanged: splitting the option text into lines and each line into
\* arguments undoes sdscatrepr, as sds.c:621 says.
OptionsReach ==
    phase = "lines" =>
        LET text == SplitLen(Options(args), "nl")
        IN  [i \in DOMAIN text |-> SplitArgs(Trim(text[i], Blank)).argv] = Meant(args)

Valid(argv) == Execute(Defaults, argv).ok

\* The value the last of the directives in ds gives to a field.
LastValue(ds, name) ==
    LET Of == {i \in DOMAIN ds : ToLower(ds[i][1]) = <<name>>}
    IN  IF Of = {} THEN Defaults[name] ELSE Execute(Defaults, ds[Max(Of)]).fields[name]

\* The program starts exactly when every directive of its file and its
\* arguments is valid, and each field then has the value its last directive
\* gives it, arguments counting after the file (config.c:252): no line is
\* lost, joined with another one or taken for a comment on the way.
LastLineWins ==
    LET ds == file.means \o Meant(args)
    IN  /\ phase = "loaded" =>
              /\ \A i \in DOMAIN ds : Valid(ds[i])
              /\ \A name \in DOMAIN Defaults : fields[name] = LastValue(ds, name)
        /\ phase = "exited" => \E i \in DOMAIN ds : ~Valid(ds[i])
=============================================================================

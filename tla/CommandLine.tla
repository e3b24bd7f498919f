---------------------------- MODULE CommandLine ----------------------------
(***************************************************************************)
(* The arguments of a program of coLinux: each "@file" stands for the      *)
(* parameters in that file, which is read once to count them and once to   *)
(* take them.                                                              *)
(***************************************************************************)
EXTENDS Integers, Sequences, SequencesExt, FiniteSets

CONSTANTS MaxText      \* bound: characters in the files of a command line

VARIABLES args, pc, slots, argv, scanned, short

cmdVars == <<args, pc, slots, argv, scanned, short>>

\* "letter" can begin a parameter; "ctrl" is a tab or a carriage return; "nul" is the end.
Chars == {"letter", "other", "eq", "quote", "hash", "space", "ctrl", "line"}
Breaks == {"ctrl", "line", "nul"}

Plain == [at |-> FALSE, text |-> <<>>]
File(text) == [at |-> TRUE, text |-> text]
-----------------------------------------------------------------------------
\* Between parameters.
Gap(c) ==
    CASE c \in {"space", "ctrl", "line"} -> "WHITESPACE"
      [] c = "letter" -> "PARAM"
      [] c = "hash"   -> "COMMENT"
      [] OTHER        -> "INIT"

Comment(c) == IF c = "line" THEN "INIT" ELSE "COMMENT"

\* In a parameter, before ("PARAM") and after ("PARAM_EQUAL") its first "=".
Unquoted(state, c) ==
    CASE c \in Breaks \cup {"space"} -> "INIT"
      [] c = "quote" -> "PARAM_EQUAL_STR"
      [] c = "hash"  -> "COMMENT"
      [] c = "eq"    -> "PARAM_EQUAL"
      [] OTHER       -> state

\* Mutant of Quoted: the second quotation mark does not end the quotation.
Quoted_Open(c) ==
    CASE c \in Breaks -> "INIT" [] c = "hash" -> "COMMENT" [] OTHER -> "PARAM_EQUAL_STR"

Quoted(c) ==
    CASE c \in Breaks -> "INIT"
      [] c = "hash"   -> "COMMENT"
      [] c = "quote"  -> "PARAM"
      [] OTHER        -> "PARAM_EQUAL_STR"

parser_states(state, c) ==
    CASE state \in {"INIT", "WHITESPACE"} -> Gap(c)
      [] state = "COMMENT"                -> Comment(c)
      [] state = "PARAM_EQUAL_STR"        -> Quoted(c)
      [] OTHER                            -> Unquoted(state, c)

Inside(state) == state \in {"PARAM", "PARAM_EQUAL", "PARAM_EQUAL_STR"}

\* One character: entering a parameter marks its start, leaving it its end.
Scan(scan, c) ==
    LET state == parser_states(scan.state, c)
        pos   == scan.pos + 1
    IN  [state |-> state, pos |-> pos,
         start |-> IF ~Inside(scan.state) /\ Inside(state) THEN pos ELSE scan.start,
         words |-> IF Inside(scan.state) /\ ~Inside(state)
                   THEN Append(scan.words, <<scan.start, pos>>) ELSE scan.words]

\* get_params_list: where the parameters of a file begin and end.
Words(text) ==
    FoldLeft(Scan, [state |-> "INIT", pos |-> 0, start |-> 0, words |-> <<>>],
             Append(text, "nul")).words
-----------------------------------------------------------------------------
Texts(n) == UNION {[1..k -> Chars] : k \in 0..n}

Init ==
    /\ args \in {<<File(t)>> : t \in Texts(MaxText)}
         \cup {<<Plain, File(t)>> : t \in Texts(MaxText - 2)}
         \cup {<<File(s), File(t)>> : s, t \in Texts(1)}
    /\ pc = "count" /\ slots = 0 /\ argv = <<>> /\ scanned = 0 /\ short = FALSE

Fail == pc' = "failed" /\ UNCHANGED <<args, slots, argv, scanned, short>>

\* The parameters an argument stands for.
Params(i) == IF args[i].at THEN [w \in DOMAIN Words(args[i].text) |-> <<i>> \o Words(args[i].text)[w]]
                           ELSE <<<<i, 0, 0>>>>

\* eval_params_file, first loop: it fails when a file cannot be read or memory is short.
Count ==
    /\ pc = "count"
    /\ \/ /\ slots' = Len(FlattenSeq([i \in DOMAIN args |-> Params(i)]))
          /\ pc' = "fill"
          /\ UNCHANGED <<args, argv, scanned, short>>
       \/ Fail

\* Second loop. A parameter of a file there is no memory for is left out, and no error
\* is returned: the file's others follow it.
Fill ==
    /\ pc = "fill" /\ scanned < Len(args)
    /\ LET all == Params(scanned + 1) IN
       \/ \E out \in {{}} \cup {{w} : w \in DOMAIN all} :
            /\ out # {} => args[scanned + 1].at
            /\ argv' = argv \o [w \in 1..(Len(all) - Cardinality(out)) |->
                                  IF \E o \in out : o <= w THEN all[w + 1] ELSE all[w]]
            /\ short' = (short \/ out # {})
            /\ scanned' = scanned + 1
            /\ UNCHANGED <<args, pc, slots>>
       \/ Fail

Done == /\ pc = "fill" /\ scanned = Len(args) /\ pc' = "done"
        /\ UNCHANGED <<args, slots, argv, scanned, short>>

Next == Count \/ Fill \/ Done

Spec == Init /\ [][Next]_cmdVars
-----------------------------------------------------------------------------
Quotes(text, s, e) == Cardinality({q \in s..e : text[q] = "quote"})

\* A comment runs from a "#" to the end of its line, quoted or not.
InComment(text, p) ==
    \E h \in 1..p : text[h] = "hash" /\ \A q \in h..p : text[q] # "line"

Ends(text, s, p) == \/ text[p] \in Breaks \cup {"hash"}
                    \/ text[p] = "space" /\ Quotes(text, s, p - 1) % 2 = 0

IsWord(text, s, e) ==
    /\ text[s] = "letter" /\ ~InComment(text, s)
    /\ \A p \in s..(e - 1) : ~Ends(text, s, p)
    /\ e <= Len(text) => Ends(text, s, e)

\* The program is given what the command line and its files say, in order: every parameter of
\* a file is cut where its line, its comment or an unquoted space ends it, every letter outside
\* a comment is in one, and they take the room that was counted for them.
WordsExact ==
    pc = "done" =>
      /\ Len(argv) <= slots
      /\ \A v \in DOMAIN argv : args[argv[v][1]].at =>
           IsWord(args[argv[v][1]].text, argv[v][2], argv[v][3])
      /\ \A v, w \in DOMAIN argv : v < w =>
           argv[v][1] < argv[w][1] \/ (argv[v][1] = argv[w][1] /\ argv[v][3] <= argv[w][2])
      /\ ~short =>
           /\ Len(argv) = slots
           /\ \A i \in DOMAIN args : ~args[i].at => \E v \in DOMAIN argv : argv[v][1] = i
           /\ \A i \in DOMAIN args : \A p \in DOMAIN args[i].text :
                args[i].text[p] = "letter" /\ ~InComment(args[i].text, p)
                  => \E v \in DOMAIN argv : argv[v][1] = i /\ p \in argv[v][2]..(argv[v][3] - 1)
=============================================================================

------------------------------- MODULE MCText -------------------------------
(* Small instances of the pure algorithms for TLC: a behaviour follows either a *)
(* loader of Chunker or a call of AnswerChecks.                                *)
EXTENDS Chunker, AnswerChecks

textVars == <<chunkerVars, checkVars>>

-----------------------------------------------------------------------------
(* Problems *)

SeqUpTo(S, n) == UNION {[1 .. m -> S] : m \in 0 .. n}

Say(form, indented, cites, figure, colon) ==
    [form |-> form, indented |-> indented, cites |-> cites, figure |-> figure, colon |-> colon]

\* The lines in which the rules differ.
Lines ==
    {Say("blank", FALSE, "none", "none", FALSE)}
    \cup {Say("heading", FALSE, c, "none", FALSE) : c \in {"none", "valid"}}
    \cup {Say(f, FALSE, c, "unknown", FALSE) : f \in {"row", "item"}, c \in {"none", "valid"}}
    \cup {Say("item", FALSE, "none", "known", FALSE)}
    \cup {Say("tags", i, c, "none", FALSE) : i \in BOOLEAN, c \in {"valid", "invalid"}}
    \cup {Say("text", i, "none", "unknown", FALSE) : i \in BOOLEAN}
    \cup {Say("text", FALSE, c, "none", TRUE) : c \in {"none", "valid"}}
    \cup {Say("text", FALSE, "valid", "unknown", FALSE)}
    \cup {Say(f, FALSE, "valid", "none", TRUE) : f \in {"item", "tags"}}

Nothing == [about |-> "confidence", answer |-> <<>>, retrieved |-> FALSE]

SmallProblems ==
    {Nothing}
    \cup [about : {"confidence"}, answer : SeqUpTo(Lines, 4), retrieved : {TRUE}]
    \cup [about : {"risk"}, clauses : SeqUpTo(Clause, 2), reply : {"NONE", "ACTION", "error"},
          adviceAsked : BOOLEAN, confident : BOOLEAN]
    \cup [about : {"risk"}, clauses : [1 .. 3 -> {c \in Clause : c.names # "medium"}],
          reply : {"NONE"}, adviceAsked : {FALSE}, confident : BOOLEAN]

-----------------------------------------------------------------------------
(* Behaviours *)

NoFile ==
    /\ kind = "csv" /\ step = "done"
    /\ blocks = <<>> /\ start = 0 /\ windows = <<>> /\ chunks = <<>> /\ member = 0

TextInit == CheckInit /\ IF problem = Nothing THEN ChunkerInit ELSE NoFile

TextNext ==
    \/ ChunkerNext /\ UNCHANGED checkVars
    \/ CheckNext /\ UNCHANGED chunkerVars

TextSpec == TextInit /\ [][TextNext]_textVars /\ WF_textVars(TextNext)
=============================================================================

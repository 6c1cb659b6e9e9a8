---------------------------- MODULE AnswerChecks ----------------------------
(***************************************************************************)
(* What decides whether an answer goes to an engineer: the confidence       *)
(* estimated from its citations and the risk classified from its clauses.   *)
(* Which text has which form, and which words recommend an action, is up to *)
(* regular expressions and left out; a line is a record of what they find.  *)
(*                                                                         *)
(* A behaviour is one call of estimate_confidence or classify_risk, with a  *)
(* step for each turn of its loops.                                         *)
(***************************************************************************)
EXTENDS Naturals, Sequences, FiniteSets

CONSTANT Problems  \* what the two functions are called with

\* tags: nothing but citations; text: anything else.
Forms == {"blank", "heading", "row", "item", "tags", "text"}

Line ==
    {l \in [form : Forms,
            indented : BOOLEAN,                      \* begins with white space
            cites : {"none", "valid", "invalid"},    \* a retrieved source, or another
            figure : {"none", "known", "unknown"},   \* known: in the retrieved text
            colon : BOOLEAN] :                       \* ends in ":"
        /\ l.form \in {"blank", "tags"} => l.figure = "none"
        /\ l.form = "blank" => l.cites = "none"}

\* A heading, or one clause of a line that is none.
Clause ==
    [heading : BOOLEAN,
     advice : {"none", "cue", "imperative", "deferral"},  \* cue: of a heading too
     names : {"nothing", "medium", "high"}]               \* actions it names

ConfidenceProblem == [about : {"confidence"}, answer : Seq(Line), retrieved : BOOLEAN]

RiskProblem ==
    [about : {"risk"}, clauses : Seq(Clause), reply : {"NONE", "ACTION", "error"},
     adviceAsked : BOOLEAN, confident : BOOLEAN]

ASSUME ProblemsAssumption == Problems \subseteq ConfidenceProblem \cup RiskProblem

VARIABLES
    problem,  \* what the call is given
    loop,     \* the loop it is in
    turn,     \* the turns of that loop so far
    parts,    \* the blocks of the answer, each the first and last of its lines
    tally,    \* the claims, the backed ones, and whether a cited heading is above
    picked    \* whether the heading above recommends, and what clauses name

checkVars == <<problem, loop, turn, parts, tally, picked>>

-----------------------------------------------------------------------------
(* Confidence: the blocks of an answer *)

KindOf ==
    [blank |-> "blank", heading |-> "heading", row |-> "table", item |-> "list",
     tags |-> "cite", text |-> "prose"]

\* The kind of a line below another of kind above; a list goes on indented.
KindBelow(above, line) ==
    IF above = "list" /\ line.indented /\ line.form \in {"tags", "text"} THEN "list"
    ELSE KindOf[line.form]

Composite(part) == part.kind \in {"list", "table"}

\* No blank line was dropped since the last block.
AtPart == parts # <<>> /\ parts[Len(parts)].last = turn

\* Rows and items join the block before them if it is of their kind.
CutLine ==
    /\ loop = "cut" /\ turn < Len(problem.answer)
    /\ LET above == IF AtPart THEN parts[Len(parts)].kind ELSE "blank"
           below == KindBelow(above, problem.answer[turn + 1])
       IN
       parts' = IF below = "blank" THEN parts
                ELSE IF below = above /\ below \in {"list", "table"}
                THEN [parts EXCEPT ![Len(parts)].last = turn + 1]
                ELSE Append(parts, [kind |-> below, first |-> turn + 1, last |-> turn + 1])
    /\ turn' = turn + 1
    /\ UNCHANGED <<problem, loop, tally, picked>>

-----------------------------------------------------------------------------
(* Confidence: what its blocks say for a claim *)

CitesValid(part) == \E k \in part.first .. part.last : problem.answer[k].cites = "valid"

\* Faulty: a line that introduces a list need not be cited itself.
SupportedByNeighbours(i) ==
    \/ CitesValid(parts[i])
    \/ /\ i < Len(parts)
       /\ parts[i + 1].kind = "cite" \/ Composite(parts[i])
       /\ CitesValid(parts[i + 1])
    \/ /\ i > 1 /\ Composite(parts[i])
       /\ parts[i - 1].kind = "prose"
       /\ problem.answer[parts[i - 1].last].colon

\* By its own citations, those of the block after it or those of the line that
\* introduces it.
Supported(i) ==
    \/ CitesValid(parts[i])
    \/ /\ i < Len(parts)
       /\ parts[i + 1].kind = "cite" \/ Composite(parts[i])
       /\ CitesValid(parts[i + 1])
    \/ /\ i > 1 /\ Composite(parts[i])
       /\ parts[i - 1].kind = "prose"
       /\ CitesValid(parts[i - 1])
       /\ problem.answer[parts[i - 1].last].colon

ClaimsIn(part) == {k \in part.first .. part.last : problem.answer[k].figure # "none"}

\* A heading says whether its section is cited; the lines of any other block that
\* state a figure are claims.
WeighPart ==
    /\ loop = "weigh" /\ turn < Len(parts)
    /\ LET part == parts[turn + 1]
           supported == tally.sectionCited \/ Supported(turn + 1)
       IN
       tally' = IF part.kind = "heading" THEN [tally EXCEPT !.sectionCited = CitesValid(part)]
                ELSE [tally EXCEPT
                        !.claims = @ + Cardinality(ClaimsIn(part)),
                        !.backed = @ + Cardinality({k \in ClaimsIn(part) :
                                          supported \/ problem.answer[k].figure = "known"})]
    /\ turn' = turn + 1
    /\ UNCHANGED <<problem, loop, parts, picked>>

Cited(answer) == {k \in DOMAIN answer : answer[k].cites # "none"}

Valid(answer) == {k \in DOMAIN answer : answer[k].cites = "valid"}

Fraction(n, d) == [num |-> n, den |-> d]

\* What estimate_confidence returns, as a fraction; nothing retrieved is one half.
Score ==
    LET cited == Cardinality(Cited(problem.answer))
        valid == Cardinality(Valid(problem.answer))
    IN
    IF ~problem.retrieved THEN Fraction(1, 2)
    ELSE IF cited = 0 THEN Fraction(0, 1)
    ELSE IF tally.claims = 0 THEN Fraction(valid, cited)
    ELSE Fraction(tally.backed * valid, tally.claims * cited)

-----------------------------------------------------------------------------
(* Risk *)

\* What recommends by itself, or in a section of recommendations.
Recommended(c, inSection) ==
    IF c.heading THEN c.advice = "cue"
    ELSE c.advice \in {"imperative", "cue"} \/ (c.advice = "none" /\ inSection)

\* Faulty: a section of recommendations never ends.
InOneSection(c) == picked.inSection \/ (c.heading /\ c.advice = "cue")

\* Whether the clauses after c are in a section of recommendations.
InSectionAfter(c) == IF c.heading THEN c.advice = "cue" ELSE picked.inSection

PickClause ==
    /\ loop = "pick" /\ turn < Len(problem.clauses)
    /\ LET c == problem.clauses[turn + 1] IN
       picked' = [inSection |-> InSectionAfter(c),
                  named |-> picked.named
                              \cup IF Recommended(c, picked.inSection) THEN {c.names} ELSE {}]
    /\ turn' = turn + 1
    /\ UNCHANGED <<problem, loop, parts, tally>>

\* check_recommends_action: whatever is not a clear no is a yes.
RecommendsAction(reply) == reply # "NONE"

\* What classify_risk returns.
Risk ==
    IF RecommendsAction(problem.reply) \/ "high" \in picked.named \/ problem.adviceAsked
    THEN "HIGH"
    ELSE IF "medium" \in picked.named \/ ~problem.confident THEN "MEDIUM"
    ELSE "LOW"

-----------------------------------------------------------------------------
(* A call *)

\* Without chunks or citations estimate_confidence returns at once.
CheckInit ==
    /\ problem \in Problems
    /\ loop = IF problem.about = "risk" THEN "pick"
              ELSE IF problem.retrieved /\ Cited(problem.answer) # {} THEN "cut"
              ELSE "done"
    /\ turn = 0 /\ parts = <<>>
    /\ tally = [claims |-> 0, backed |-> 0, sectionCited |-> FALSE]
    /\ picked = [inSection |-> FALSE, named |-> {}]

Turns ==
    CASE loop = "cut" -> Len(problem.answer)
      [] loop = "weigh" -> Len(parts)
      [] loop = "pick" -> Len(problem.clauses)
      [] loop = "done" -> 0

EndLoop ==
    /\ loop # "done" /\ turn = Turns
    /\ loop' = IF loop = "cut" THEN "weigh" ELSE "done"
    /\ turn' = 0
    /\ UNCHANGED <<problem, parts, tally, picked>>

CheckNext == CutLine \/ WeighPart \/ PickClause \/ EndLoop

CheckSpec == CheckInit /\ [][CheckNext]_checkVars

-----------------------------------------------------------------------------
(* The docstring of estimate_confidence *)

\* Lines i to j are one list with its indented continuations, or one table.
OneList(answer, i, j) ==
    \E first \in 1 .. i :
        /\ answer[first].form = "item"
        /\ \A k \in first .. j :
             \/ answer[k].form = "item"
             \/ answer[k].form \in {"tags", "text"} /\ answer[k].indented

OneTable(answer, i, j) == \A k \in i .. j : answer[k].form = "row"

Together(answer, i, j) ==
    LET low == IF i <= j THEN i ELSE j
        high == IF i <= j THEN j ELSE i
    IN i = j \/ OneList(answer, low, high) \/ OneTable(answer, low, high)

InComposite(answer, i) == OneList(answer, i, i) \/ OneTable(answer, i, i)

BlockOf(answer, i) == {j \in DOMAIN answer : Together(answer, i, j)}

\* Nothing but blank lines is between line j and the block of i.
NextTo(answer, i, j) ==
    /\ answer[j].form # "blank" /\ j \notin BlockOf(answer, i)
    /\ \A k \in DOMAIN answer :
         (i < k /\ k < j) \/ (j < k /\ k < i) =>
             answer[k].form = "blank" \/ k \in BlockOf(answer, i)

CitedAmong(answer, S) == \E j \in S : answer[j].cites = "valid"

CitedSection(answer, i) ==
    \E h \in 1 .. i - 1 :
        /\ answer[h].form = "heading" /\ answer[h].cites = "valid"
        /\ \A k \in h + 1 .. i - 1 : answer[k].form # "heading"

\* "A citation covers the whole list or table it sits in, a citation on its own
\* line (or any cited block right after a list or table) covers the block above
\* it, ... and a cited heading covers its section.  A claim whose figures all
\* appear in the retrieved text also counts."  A section ends at the next heading,
\* whatever the levels of the two.
IsCovered(answer, i) ==
    \/ answer[i].figure = "known"
    \/ CitedSection(answer, i)
    \/ CitedAmong(answer, BlockOf(answer, i))
    \/ \E j \in i + 1 .. Len(answer) :
         /\ NextTo(answer, i, j)
         /\ InComposite(answer, i) \/ answer[j].form = "tags"
         /\ CitedAmong(answer, BlockOf(answer, j))

\* "A cited line ending in ':' covers the list or table after it."
Introduces(answer, j, i) ==
    /\ InComposite(answer, i)
    /\ NextTo(answer, i, j)
    /\ answer[j].cites = "valid" /\ answer[j].colon

IsBacked(answer, i) ==
    IsCovered(answer, i) \/ \E j \in 1 .. i - 1 : Introduces(answer, j, i)

\* Backed by nothing but a line ending in ":" that is an item, a row or a
\* citation alone.
IsOverlooked(answer, i) ==
    /\ IsBacked(answer, i) /\ ~IsCovered(answer, i)
    /\ \A j \in 1 .. i - 1 :
         Introduces(answer, j, i) => answer[j].form # "text" \/ InComposite(answer, j)

Claims(answer) == {i \in DOMAIN answer : answer[i].form # "heading" /\ answer[i].figure # "none"}

\* estimate_confidence departs from its docstring in one respect only: of the lines
\* ending in ":" it lets just those of plain prose cover the list or table after
\* them.  The score is the share of claims that the docstring calls backed, without
\* those that such another line alone would back, scaled by the share of citations
\* that point at a retrieved source: it never says more than the docstring.
ConfidenceOverlooksOnlyColons ==
    loop = "done" /\ problem.about = "confidence" /\ problem.retrieved =>
        LET cited == Cardinality(Cited(problem.answer))
            claims == Cardinality(Claims(problem.answer))
            backed == {i \in Claims(problem.answer) : IsBacked(problem.answer, i)}
            counted == {i \in backed : ~IsOverlooked(problem.answer, i)}
            valid == Cardinality(Valid(problem.answer))
        IN
        IF cited = 0 THEN Score.num = 0
        ELSE IF claims = 0 THEN Score = Fraction(valid, cited)
        ELSE Score = Fraction(Cardinality(counted) * valid, claims * cited)

-----------------------------------------------------------------------------
(* The docstring of classify_risk *)

\* A clause recommends by itself, a heading by announcing recommendations, and a
\* clause also because the nearest heading above announces
\* recommendations and it does not defer to an engineer.
Recommends(clauses, i) ==
    \/ clauses[i].advice = "cue"
    \/ clauses[i].advice = "imperative" /\ ~clauses[i].heading
    \/ /\ clauses[i].advice = "none" /\ ~clauses[i].heading
       /\ \E h \in 1 .. i - 1 :
            /\ clauses[h].heading /\ clauses[h].advice = "cue"
            /\ \A k \in h + 1 .. i - 1 : ~clauses[k].heading

\* An answer escapes review only for all reasons together: the model clearly found
\* no advice in it, no advice was asked for, the confidence suffices and no
\* recommending clause names an action; one that names a high-risk action makes
\* it HIGH.
RiskyIsHeld ==
    loop = "done" /\ problem.about = "risk" =>
        LET clauses == problem.clauses
            recommended == {clauses[i].names : i \in {j \in DOMAIN clauses : Recommends(clauses, j)}}
        IN
        /\ Risk = "LOW" <=> /\ problem.reply = "NONE" /\ ~problem.adviceAsked /\ problem.confident
                            /\ recommended \subseteq {"nothing"}
        /\ "high" \in recommended => Risk = "HIGH"
=============================================================================

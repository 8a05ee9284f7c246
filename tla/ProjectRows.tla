---------------------------- MODULE ProjectRows -----------------------------
(***************************************************************************)
(* What the projects screens see of the service: the rows of `projects`    *)
(* after each commit.                                                      *)
(***************************************************************************)
EXTENDS Naturals, Sequences, SequencesExt, FiniteSets, FiniteSetsExt

CONSTANTS
    Projects,     \* ids
    Seed,         \* the rows a reader finds
    Columns,      \* the stages used
    Texts,        \* the contents used of each field of the brief
    Blank,        \* the empty string of a form, NULL in a row
    MaxCommits    \* bound on the transactions

Fields == {"title", "description"}

Brief == {b \in [Fields -> UNION Range(Texts)] : \A f \in Fields : b[f] \in Texts[f]}

ProjectRow == [here: BOOLEAN, mine: BOOLEAN, stage: Columns, brief: Brief]

ASSUME RowsAssumption ==
    /\ IsFiniteSet(Projects) /\ Projects # {} /\ Columns # {}
    /\ DOMAIN Texts = Fields
    /\ Seed \in [Projects -> ProjectRow]
    /\ MaxCommits \in Nat

VARIABLE
    log       \* the committed rows after each commit; the last are current

rowVars == <<log>>

Current == log[Len(log)]

RowsTypeOK == log \in Seq([Projects -> ProjectRow]) /\ Len(log) =< MaxCommits + 1

RowsInit == log = <<Seed>>

Commit(p, row) ==
    /\ Len(log) =< MaxCommits          \* a bound
    /\ log' = Append(log, [Current EXCEPT ![p] = row])

\* A commit of somebody else.
SomebodyCommits(p) ==
    /\ Current[p].here
    /\ \/ \E stage \in Columns \ {Current[p].stage} :
             Commit(p, [Current[p] EXCEPT !.stage = stage])
       \/ \E f \in Fields : \E text \in Texts[f] \ {Current[p].brief[f], Blank} :
             Commit(p, [Current[p] EXCEPT !.brief[f] = text])

Somebody == \E p \in Projects : SomebodyCommits(p)

=============================================================================

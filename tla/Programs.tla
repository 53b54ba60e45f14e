------------------------------ MODULE Programs ------------------------------
(***************************************************************************)
(* The user programs together: each behaviour is one of them, chosen at    *)
(* the start.  The parser and the matcher are functions; a behaviour of    *)
(* "parse" or "match" is one input to them.                                *)
(***************************************************************************)
EXTENDS Shell, Malloc, Grep

CONSTANTS ParseInputs,  \* lines given to the parser
          MatchInputs   \* pairs <<expression, text>> given to the matcher

VARIABLES prog, input

progVars == <<prog, input, shVars, heapVars, grepVars>>

NoInput == <<>>
OneJob == {CHOOSE j \in GrepJobs : TRUE}

Init ==
    /\ ShInit /\ HeapInit
    /\ \/ prog \in {"shell", "malloc"} /\ input = NoInput /\ GrepInit(OneJob)
       \/ prog = "grep" /\ input = NoInput /\ GrepInit(GrepJobs)
       \/ prog = "parse" /\ input \in ParseInputs /\ GrepInit(OneJob)
       \/ prog = "match" /\ input \in MatchInputs /\ GrepInit(OneJob)

Next ==
    /\ UNCHANGED <<prog, input>>
    /\ \/ prog = "shell" /\ ShellNext /\ UNCHANGED <<heapVars, grepVars>>
       \/ prog = "malloc" /\ HeapNext /\ UNCHANGED <<shVars, grepVars>>
       \/ prog = "grep" /\ GrepNext /\ UNCHANGED <<shVars, heapVars>>

Spec == Init /\ [][Next]_progVars /\ ShellFairness

(* The parser accepts exactly the lines of the grammar and builds the      *)
(* command the grammar gives them (parsecmd(), sh.c:333).                  *)
ParserMatchesGrammar ==
    prog = "parse" =>
        LET p == Parsecmd(input)
            g == Grammar(input)
        IN  IF g = NoCommand THEN ~p.ok ELSE p.ok /\ p.cmd = g

(* The matcher finds a match exactly where the expression has one          *)
(* (match(), grep.c:72).                                                   *)
MatcherMatchesMeaning ==
    prog = "match" => Match(input[1], input[2]) = Meaning(input[1], input[2])
=============================================================================

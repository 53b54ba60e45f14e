------------------------------- MODULE MCPipe -------------------------------
EXTENDS Console, TLC

Menus == {{"read", "write", "kill", "close"},
          {"fork", "wait", "exit", "kill"},
          {"pause", "fault", "kill"},
          {"pipe", "fork", "close", "exit"},
          {"cread"}, {"cread", "kill"}, {"cwrite"}}

Calls == [m \in Menus |-> CASE m \in {{"cread"}, {"cwrite"}} -> 4
                           [] "cread" \in m -> 3
                           [] OTHER -> 5]
Input == [m \in Menus |-> IF "cread" \in m THEN 3 ELSE IF "cwrite" \in m THEN 2 ELSE 0]

CpuSymmetry == Permutations(Cpu)
=============================================================================

---------------------------- MODULE MCToolCalls ----------------------------
(* Two attempts, of one run or of two, and a skill of each kind. The skill    *)
(* "erase" is one that the risk policy blocks.                               *)
EXTENDS ToolCalls, TLC

MCKindOf == [s \in Skills |-> IF s = "cli.exec" THEN "builtin" ELSE IF s = "search" THEN "http" ELSE "mcp"]

MCHostOf == [s \in Skills |-> IF s = "search" THEN "name" ELSE "public"]

MCRateLimit == [s \in Skills |-> CASE s = "search" -> 1 [] s = "crm" -> 2 [] OTHER -> 0]

Time == [ticks |-> 2, changes |-> 0, faults |-> 0]
Move == [ticks |-> 0, changes |-> 1, faults |-> 0]
Failure == [ticks |-> 0, changes |-> 0, faults |-> 1]
Calm == [ticks |-> 0, changes |-> 0, faults |-> 0]

MCBudgets == {Time, Move, Failure, Calm}

\* One runtime on its own, and one that shares its limits with others. Time and the
\* name matter to "search" alone.
MCScenarios ==
    {[store |-> d[1], limiter |-> d[2], offered |-> o[1], budget |-> o[2]] :
        d \in {<<"memory", "local">>, <<"postgres", "redis">>},
        o \in {<<{"search"}, Time>>, <<{"search"}, Move>>, <<{"search"}, Failure>>,
               <<{"cli.exec", "crm"}, Failure>>, <<{"docs", "erase"}, Calm>>}}

Attempts == Permutations(Callers) \cup Permutations(Runs)
=============================================================================

---------------------------- MODULE MCModelCalls ----------------------------
(* Two runs at a time and the probe. Time matters to the windows alone.         *)
EXTENDS ModelCalls

Time == [ticks |-> 2, faults |-> 0, ends |-> 0, calls |-> 3]
Faults == [ticks |-> 0, faults |-> 2, ends |-> 0, calls |-> 2]
Ends == [ticks |-> 0, faults |-> 1, ends |-> 1, calls |-> 3]

MCScenarios ==
    {[requestsPerMinute |-> s[1], budget |-> s[2]] :
        s \in {<<1, Time>>, <<2, Faults>>, <<2, Ends>>, <<0, Faults>>}}
=============================================================================

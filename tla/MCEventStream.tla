--------------------------- MODULE MCEventStream ---------------------------
(* A single control plane with its memory store; events written on one control   *)
(* plane and read on another; and events written on both, with channels that     *)
(* overflow and queries that fail.                                               *)
EXTENDS EventStream

CONSTANTS w1, w2, a, b

Single == [store |-> "memory", fanout |-> "local", writers |-> {w1},
           writersAt |-> {a}, readersAt |-> {a}, bufferSize |-> 3, events |-> 3, failing |-> {}]

Remote == [store |-> "postgres", fanout |-> "redis", writers |-> {w1, w2},
           writersAt |-> {b}, readersAt |-> {a}, bufferSize |-> 2, events |-> 3,
           failing |-> {"nudge", "commit", "subscribe"}]

Both == [store |-> "postgres", fanout |-> "redis", writers |-> {w1, w2},
         writersAt |-> {a, b}, readersAt |-> {a}, bufferSize |-> 1, events |-> 2,
         failing |-> {"list", "nudge", "commit", "subscribe"}]

MCDeployments == {Single, Remote, Both}
=============================================================================

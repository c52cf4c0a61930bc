------------------------------- MODULE MCPipeline -------------------------------
(* The instance of Pipeline that is model-checked.                         *)
EXTENDS Pipeline

\* Every channel has a hash of its own.
Distinct == [LongFast |-> 8, Club |-> 17, chess |-> 18, Late |-> 19, Other |-> 20]

\* Of the channels whose frames are captured, one has hash 0 and the one that
\* is added later has the hash of the default channel.
Clashing == [Distinct EXCEPT !["Club"] = 0, !["Late"] = 8]

MCHashings == {Distinct, Clashing}
=============================================================================

----------------------------- MODULE MCAgentRun -----------------------------
EXTENDS AgentRun

CONSTANT f1 \* the file of the instances

\* At most one action in a turn.
MCSingleActions == {<<>>} \cup {<<a>> : a \in Actions}

\* Batches of up to two actions; compact_turn_actions drops repeated ones.
MCBatches == MCSingleActions
             \cup {<<ab[1], ab[2]>> : ab \in {p \in Actions \X Actions : p[1] # p[2]}}
=============================================================================

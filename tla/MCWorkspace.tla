---------------------------- MODULE MCWorkspace ----------------------------
(* Workspace for TLC: three files, and patches of up to two changes. *)
EXTENDS Workspace

CONSTANTS a, b, c, old, new, blob

MCFiles == {a, b, c}

\* Two texts, so that a second edit of a file differs from the first.
MCInitial == {[f \in MCFiles |-> CASE f = a -> old [] f = b -> x [] f = c -> Absent] :
                 x \in {old, blob}}

MCTextInitial == {[f \in MCFiles |-> old]}

Writing(t) == {ch \in Changes : ch.text \in {t, Absent}}

MCPlans == {<<ch>> : ch \in Writing(new)} \cup {<<p[1], p[2]>> : p \in Writing(new) \X Writing(new)}
=============================================================================

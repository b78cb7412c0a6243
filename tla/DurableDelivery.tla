-------------------------- MODULE DurableDelivery --------------------------
(***************************************************************************)
(* What the durable runtime consumers promise about the run ledger: every  *)
(* consumer takes the effects of every event, in the order of the ledger,  *)
(* starting at the first and skipping none.  An effect may be taken again  *)
(* as long as no later one has been taken, which is a stutter here.        *)
(***************************************************************************)
EXTENDS Naturals

CONSTANT Consumers

VARIABLES log,    \* number of events in the ledger
          taken   \* taken[c]: the event whose effects c took last

dvars == <<log, taken>>

DInit ==
    /\ log = 0
    /\ taken = [c \in Consumers |-> 0]

Record ==
    /\ log' = log + 1
    /\ UNCHANGED taken

Take(c) ==
    /\ taken[c] < log
    /\ taken' = [taken EXCEPT ![c] = @ + 1]
    /\ UNCHANGED log

DNext == Record \/ \E c \in Consumers : Take(c)

DSpec == DInit /\ [][DNext]_dvars
=============================================================================

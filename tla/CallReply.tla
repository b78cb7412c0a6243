----------------------------- MODULE CallReply -----------------------------
(***************************************************************************)
(* What the request/response parts of the system promise their callers: a  *)
(* call is replied to at most once, the reply is never revised, and a      *)
(* caller either returns with the reply it was given or, when there is     *)
(* none, gives up; a caller that never got to place its call, or is         *)
(* abandoned itself, withdraws it.                                         *)
(* PermissionBroker and McpClient implement it.                            *)
(***************************************************************************)
CONSTANTS Callers, \* one call each
          Replies, \* Replies[c]: what the call of c may be replied with
          Silence  \* no reply

VARIABLES call,  \* call[c]: "idle", "waiting", "returned", "failed" or "withdrawn"
          reply  \* reply[c]: the reply given to c, or Silence

cvars == <<call, reply>>

CInit ==
    /\ call = [c \in Callers |-> "idle"]
    /\ reply = [c \in Callers |-> Silence]

Begin(c) ==
    /\ call[c] = "idle"
    /\ call' = [call EXCEPT ![c] = "waiting"]
    /\ UNCHANGED reply

Give(c, r) ==
    /\ call[c] = "waiting" /\ reply[c] = Silence
    /\ reply' = [reply EXCEPT ![c] = r]
    /\ UNCHANGED call

Return(c) ==
    /\ call[c] = "waiting" /\ reply[c] # Silence
    /\ call' = [call EXCEPT ![c] = "returned"]
    /\ UNCHANGED reply

GiveUp(c) ==
    /\ call[c] = "waiting" /\ reply[c] = Silence
    /\ call' = [call EXCEPT ![c] = "failed"]
    /\ UNCHANGED reply

Withdraw(c) ==
    /\ call[c] = "waiting"
    /\ call' = [call EXCEPT ![c] = "withdrawn"]
    /\ UNCHANGED reply

CNext == \E c \in Callers : \/ Begin(c) \/ Return(c) \/ GiveUp(c) \/ Withdraw(c)
                             \/ \E r \in Replies[c] : Give(c, r)

CSpec == CInit /\ [][CNext]_cvars
=============================================================================

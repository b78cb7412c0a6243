-------------------------- MODULE AgentRun_proofs --------------------------
(***************************************************************************)
(* Proofs about AgentRun, for any files, budgets and batches of actions.   *)
(***************************************************************************)
EXTENDS AgentRun, SequenceTheorems, TLAPS

-----------------------------------------------------------------------------
(* The operators of AgentTask *)

\* A field set to a value of its type leaves a state.
LEMMA Updates ==
    \A a \in States :
          /\ \A v \in Modes : [a EXCEPT !.mode = v] \in States
          /\ \A v \in 0..3 : [a EXCEPT !.stall = v] \in States
          /\ \A v \in BOOLEAN : [a EXCEPT !.redundant = v] \in States
          /\ \A v \in 0..3 : [a EXCEPT !.recoverable = v] \in States
          /\ \A v \in 0..1 : [a EXCEPT !.recoveryTurns = v] \in States
          /\ \A v \in Nat : [a EXCEPT !.parserFailures = v] \in States
          /\ \A v \in BOOLEAN : [a EXCEPT !.mutated = v] \in States
          /\ \A v \in BOOLEAN : [a EXCEPT !.green = v] \in States
          /\ \A v \in BOOLEAN : [a EXCEPT !.failing = v] \in States
          /\ \A v \in Seq(Plans) : [a EXCEPT !.queue = v] \in States
          /\ \A v \in [file : Files \cup {NoFile}, reread : BOOLEAN] : [a EXCEPT !.requirement = v] \in States
          /\ \A v \in Files \cup {NoFile} : [a EXCEPT !.lastWrite = v] \in States
          /\ \A v \in SUBSET Files : [a EXCEPT !.seen = v] \in States
          /\ \A v \in BOOLEAN : [a EXCEPT !.packet = v] \in States
          /\ \A v \in BOOLEAN : [a EXCEPT !.knownFailure = v] \in States
          /\ \A v \in Nat : [a EXCEPT !.billed = v] \in States
<1>1. \A a \in States : \A v \in Modes : [a EXCEPT !.mode = v] \in States
  BY DEF States
<1>2. \A a \in States : \A v \in 0..3 : [a EXCEPT !.stall = v] \in States
  BY DEF States
<1>3. \A a \in States : \A v \in BOOLEAN : [a EXCEPT !.redundant = v] \in States
  BY DEF States
<1>4. \A a \in States : \A v \in 0..3 : [a EXCEPT !.recoverable = v] \in States
  BY DEF States
<1>5. \A a \in States : \A v \in 0..1 : [a EXCEPT !.recoveryTurns = v] \in States
  BY DEF States
<1>6. \A a \in States : \A v \in Nat : [a EXCEPT !.parserFailures = v] \in States
  BY DEF States
<1>7. \A a \in States : \A v \in BOOLEAN : [a EXCEPT !.mutated = v] \in States
  BY DEF States
<1>8. \A a \in States : \A v \in BOOLEAN : [a EXCEPT !.green = v] \in States
  BY DEF States
<1>9. \A a \in States : \A v \in BOOLEAN : [a EXCEPT !.failing = v] \in States
  BY DEF States
<1>10. \A a \in States : \A v \in Seq(Plans) : [a EXCEPT !.queue = v] \in States
  BY DEF States
<1>11. \A a \in States : \A v \in [file : Files \cup {NoFile}, reread : BOOLEAN] : [a EXCEPT !.requirement = v] \in States
  BY DEF States
<1>12. \A a \in States : \A v \in Files \cup {NoFile} : [a EXCEPT !.lastWrite = v] \in States
  BY DEF States
<1>13. \A a \in States : \A v \in SUBSET Files : [a EXCEPT !.seen = v] \in States
  BY DEF States
<1>14. \A a \in States : \A v \in BOOLEAN : [a EXCEPT !.packet = v] \in States
  BY DEF States
<1>15. \A a \in States : \A v \in BOOLEAN : [a EXCEPT !.knownFailure = v] \in States
  BY DEF States
<1>16. \A a \in States : \A v \in Nat : [a EXCEPT !.billed = v] \in States
  BY DEF States
<1> QED
  BY <1>1, <1>2, <1>3, <1>4, <1>5, <1>6, <1>7, <1>8, <1>9, <1>10, <1>11, <1>12, <1>13, <1>14, <1>15, <1>16, Zenon

\* The literals the operators write.
LEMMA Literals ==
    /\ 0 \in 0..3 /\ 0 \in 0..1 /\ 1 \in 0..1 /\ FALSE \in BOOLEAN /\ TRUE \in BOOLEAN
    /\ <<>> \in Seq(Plans) /\ NoFile \in Files \cup {NoFile}
    /\ NoRequirement \in [file : Files \cup {NoFile}, reread : BOOLEAN]
    /\ \A f \in Files : /\ f \in Files \cup {NoFile}
                        /\ Requirement(f) \in [file : Files \cup {NoFile}, reread : BOOLEAN]
  BY EmptySeq DEF NoRequirement, Requirement

LEMMA NewStateType == \A mode \in Modes : NewState(mode) \in States
  BY Literals DEF States, NewState

LEMMA ProgressType == \A a \in States : Progress(a) \in States
  BY Updates, Literals, Zenon DEF Progress

LEMMA AfterReadType ==
    \A a \in States, f \in Files, satisfies \in BOOLEAN : AfterRead(a, f, satisfies) \in States
<1> SUFFICES ASSUME NEW a \in States, NEW f \in Files, NEW satisfies \in BOOLEAN
             PROVE  AfterRead(a, f, satisfies) \in States
  OBVIOUS
<1> DEFINE p == Progress(a)
           r == IF p.requirement.file = f THEN [file |-> f, reread |-> satisfies] ELSE p.requirement
<1>1. p \in States
  BY ProgressType
<1> HIDE DEF p
<1>2. r \in [file : Files \cup {NoFile}, reread : BOOLEAN]
  BY <1>1 DEF States
<1> HIDE DEF r
<1>3. [p EXCEPT !.requirement = r] \in States
  BY <1>1, <1>2, Updates, Zenon
<1> QED
  BY <1>3 DEF AfterRead, p, r

LEMMA AfterWriteType == \A a \in States, f \in Files : AfterWrite(a, f) \in States
  BY ProgressType, Updates, Literals, Zenon DEF AfterWrite

LEMMA AfterFailedReadType == \A a \in States : AfterFailedRead(a) \in States
  BY Updates, Literals, Zenon DEF AfterFailedRead

LEMMA AfterFailedWriteType == \A a \in States, f \in Files : AfterFailedWrite(a, f) \in States
  BY Updates, Literals, Zenon DEF AfterFailedWrite

LEMMA AfterValidationType == \A a \in States : AfterValidation(a) \in States
<1> SUFFICES ASSUME NEW a \in States PROVE AfterValidation(a) \in States
  OBVIOUS
<1> DEFINE p == Progress(a)
           g == p.green \/ a.queue = <<>>
<1>1. p \in States
  BY ProgressType
<1> HIDE DEF p
<1>2. g \in BOOLEAN
  BY DEF g
<1> HIDE DEF g
<1>3. [p EXCEPT !.green = g, !.failing = FALSE, !.packet = FALSE] \in States
  BY <1>1, <1>2, Updates, Literals, Zenon
<1> QED
  BY <1>3, Zenon DEF AfterValidation, p, g

LEMMA AfterFailedValidationType ==
    \A a \in States, rolledBack \in BOOLEAN : AfterFailedValidation(a, rolledBack) \in States
<1> SUFFICES ASSUME NEW a \in States, NEW rolledBack \in BOOLEAN
             PROVE  AfterFailedValidation(a, rolledBack) \in States
  OBVIOUS
<1> DEFINE b == [a EXCEPT !.green = FALSE, !.failing = TRUE, !.queue = <<>>,
                          !.packet = TRUE, !.knownFailure = TRUE]
           c == [b EXCEPT !.requirement = Requirement(a.lastWrite), !.stall = 0,
                          !.redundant = FALSE, !.recoveryTurns = 1]
<1>1. b \in States
  BY Updates, Literals, Zenon
<1> HIDE DEF b
<1>2. a.lastWrite # NoFile => a.lastWrite \in Files
  BY DEF States
<1>3. a.lastWrite # NoFile => c \in States
  BY <1>1, <1>2, Updates, Literals, Zenon
<1> HIDE DEF c
<1> QED
  BY <1>1, <1>3, Zenon DEF AfterFailedValidation, b, c

LEMMA NotedType == \A a \in States, act \in Actions : Noted(a, act) \in States
<1> SUFFICES ASSUME NEW a \in States, NEW act \in Actions PROVE Noted(a, act) \in States
  OBVIOUS
<1>1. act.file # NoFile => a.seen \cup {act.file} \in SUBSET Files
  BY DEF States, Actions, Read, Write, Validate
<1>2. act.file # NoFile => [a EXCEPT !.seen = @ \cup {act.file}] \in States
  BY <1>1, Updates, Zenon
<1> QED
  BY <1>2, Zenon DEF Noted

\* What the operators do to the fields the invariant speaks of.
LEMMA ProgressFacts ==
    \A a \in States :
        LET r == Progress(a)
        IN  /\ r \in States /\ r.stall = 0 /\ r.recoverable = 0
            /\ r.queue = a.queue /\ r.green = a.green
            /\ r.requirement = a.requirement /\ r.billed = a.billed
  BY ProgressType DEF Progress, States

LEMMA NotedFacts ==
    \A a \in States, act \in Actions :
        LET r == Noted(a, act)
        IN  /\ r \in States /\ r.stall = a.stall /\ r.recoverable = a.recoverable
            /\ r.queue = a.queue /\ r.green = a.green
            /\ r.requirement = a.requirement
  BY NotedType DEF Noted, States

LEMMA AfterReadFacts ==
    \A a \in States, f \in Files, satisfies \in BOOLEAN :
        LET r == AfterRead(a, f, satisfies)
        IN  /\ r \in States /\ r.stall = 0 /\ r.recoverable = 0
            /\ r.queue = a.queue /\ r.green = a.green
            /\ a.requirement.file # f => r.requirement = a.requirement
<1> SUFFICES ASSUME NEW a \in States, NEW f \in Files, NEW satisfies \in BOOLEAN
             PROVE  LET r == AfterRead(a, f, satisfies)
                    IN  /\ r \in States /\ r.stall = 0 /\ r.recoverable = 0
                        /\ r.queue = a.queue /\ r.green = a.green
                        /\ a.requirement.file # f => r.requirement = a.requirement
  OBVIOUS
<1> DEFINE p == Progress(a)
<1>1. /\ p \in States /\ p.stall = 0 /\ p.recoverable = 0
      /\ p.queue = a.queue /\ p.green = a.green /\ p.requirement = a.requirement
  BY ProgressFacts
<1>2. AfterRead(a, f, satisfies) =
          [p EXCEPT !.requirement = IF @.file = f THEN [file |-> f, reread |-> satisfies] ELSE @]
  BY DEF AfterRead
<1> HIDE DEF p
<1> QED
  BY <1>1, <1>2, AfterReadType, SMTT(30) DEF States

LEMMA AfterWriteFacts ==
    \A a \in States, f \in Files :
        LET r == AfterWrite(a, f)
        IN  /\ r \in States /\ r.stall = 0 /\ r.recoverable = 0
            /\ r.queue = a.queue /\ r.green = FALSE
<1> SUFFICES ASSUME NEW a \in States, NEW f \in Files
             PROVE  LET r == AfterWrite(a, f)
                    IN  /\ r \in States /\ r.stall = 0 /\ r.recoverable = 0
                        /\ r.queue = a.queue /\ r.green = FALSE
  OBVIOUS
<1> DEFINE p == Progress(a)
<1>1. p \in States /\ p.stall = 0 /\ p.recoverable = 0 /\ p.queue = a.queue
  BY ProgressFacts
<1>2. AfterWrite(a, f) =
          [p EXCEPT !.lastWrite = f, !.requirement = NoRequirement,
                    !.mutated = TRUE, !.green = FALSE, !.packet = FALSE]
  BY DEF AfterWrite
<1> HIDE DEF p
<1> QED
  BY <1>1, <1>2, AfterWriteType DEF States

LEMMA AfterFailedReadFacts ==
    \A a \in States :
        LET r == AfterFailedRead(a)
        IN  /\ r \in States /\ r.stall = a.stall /\ r.recoverable = a.recoverable
            /\ r.queue = a.queue /\ r.green = a.green /\ r.requirement = a.requirement
  BY AfterFailedReadType DEF AfterFailedRead, States

LEMMA AfterFailedWriteFacts ==
    \A a \in States, f \in Files :
        LET r == AfterFailedWrite(a, f)
        IN  /\ r \in States /\ r.stall = 0 /\ r.recoverable = a.recoverable
            /\ r.queue = a.queue /\ r.green = a.green /\ r.requirement = Requirement(f)
  BY AfterFailedWriteType, ZenonT(60) DEF AfterFailedWrite, States

LEMMA AfterValidationFacts ==
    \A a \in States :
        LET r == AfterValidation(a)
        IN  /\ r \in States /\ r.stall = 0 /\ r.recoverable = 0
            /\ r.queue = a.queue /\ r.requirement = a.requirement /\ r.billed = a.billed
<1> SUFFICES ASSUME NEW a \in States
             PROVE  LET r == AfterValidation(a)
                    IN  /\ r \in States /\ r.stall = 0 /\ r.recoverable = 0
                        /\ r.queue = a.queue /\ r.requirement = a.requirement
                        /\ r.billed = a.billed
  OBVIOUS
<1> DEFINE p == Progress(a)
<1>1. /\ p \in States /\ p.stall = 0 /\ p.recoverable = 0 /\ p.queue = a.queue
      /\ p.requirement = a.requirement /\ p.billed = a.billed
  BY ProgressFacts
<1>2. AfterValidation(a) =
          [p EXCEPT !.green = @ \/ a.queue = <<>>, !.failing = FALSE, !.packet = FALSE]
  BY DEF AfterValidation
<1> HIDE DEF p
<1> QED
  BY <1>1, <1>2, AfterValidationType DEF States

LEMMA AfterFailedValidationFacts ==
    \A a \in States, rolledBack \in BOOLEAN :
        LET r == AfterFailedValidation(a, rolledBack)
        IN  /\ r \in States /\ r.queue = <<>> /\ r.green = FALSE /\ r.billed = a.billed
            /\ r.stall \in {0, a.stall} /\ r.recoverable = a.recoverable
            /\ r.requirement = IF rolledBack /\ a.lastWrite # NoFile
                               THEN Requirement(a.lastWrite) ELSE a.requirement
<1> SUFFICES ASSUME NEW a \in States, NEW rolledBack \in BOOLEAN
             PROVE  LET r == AfterFailedValidation(a, rolledBack)
                    IN  /\ r \in States /\ r.queue = <<>> /\ r.green = FALSE
                        /\ r.billed = a.billed
                        /\ r.stall \in {0, a.stall} /\ r.recoverable = a.recoverable
                        /\ r.requirement = IF rolledBack /\ a.lastWrite # NoFile
                                           THEN Requirement(a.lastWrite) ELSE a.requirement
  OBVIOUS
<1> DEFINE b == [a EXCEPT !.green = FALSE, !.failing = TRUE, !.queue = <<>>,
                          !.packet = TRUE, !.knownFailure = TRUE]
           c == [b EXCEPT !.requirement = Requirement(a.lastWrite), !.stall = 0,
                          !.redundant = FALSE, !.recoveryTurns = 1]
<1>1. b \in States
  BY Updates, Literals, Zenon
<1>2. /\ b.queue = <<>> /\ b.green = FALSE /\ b.billed = a.billed /\ b.stall = a.stall
      /\ b.recoverable = a.recoverable /\ b.requirement = a.requirement
  BY DEF States
<1> HIDE DEF b
<1>3. /\ c.queue = b.queue /\ c.green = b.green /\ c.billed = b.billed /\ c.stall = 0
      /\ c.recoverable = b.recoverable /\ c.requirement = Requirement(a.lastWrite)
  BY <1>1 DEF States
<1> HIDE DEF c
<1>4. AfterFailedValidation(a, rolledBack) = IF rolledBack /\ a.lastWrite # NoFile THEN c ELSE b
  BY DEF AfterFailedValidation, b, c
<1> QED
  BY <1>2, <1>3, <1>4, AfterFailedValidationType

\* A completion's usage, a parser failure and a usable turn leave everything else alone.
Alike(a, b) == /\ a \in States /\ a.stall = b.stall /\ a.recoverable = b.recoverable
               /\ a.queue = b.queue /\ a.green = b.green /\ a.requirement = b.requirement

LEMMA BilledFacts == agent \in States => \A usage \in 0..1 : Alike(Billed(usage), agent)
<1> SUFFICES ASSUME agent \in States, NEW usage \in 0..1 PROVE Alike(Billed(usage), agent)
  OBVIOUS
<1>1. agent.billed + usage \in Nat
  BY DEF States
<1>2. [agent EXCEPT !.billed = @ + usage] \in States
  BY <1>1, Updates, Zenon
<1> QED
  BY <1>2, SMTT(30) DEF Alike, Billed, States

LEMMA ParserFailedFacts == \A a \in States : Alike(ParserFailed(a), a)
<1> SUFFICES ASSUME NEW a \in States PROVE Alike(ParserFailed(a), a)
  OBVIOUS
<1> DEFINE n == IF a.parserFailures < ParserRecoveryBudget THEN a.parserFailures + 1
                                                          ELSE a.parserFailures
<1>1. n \in Nat
  BY DEF States
<1>2. ParserFailed(a) = [a EXCEPT !.parserFailures = n]
  BY DEF ParserFailed
<1> HIDE DEF n
<1>3. [a EXCEPT !.parserFailures = n] \in States
  BY <1>1, Updates, Zenon
<1> QED
  BY <1>2, <1>3 DEF Alike, States

LEMMA ParsedFacts == agent \in States => \A usage \in 0..1 : Alike(Parsed(usage), agent)
<1> SUFFICES ASSUME agent \in States, NEW usage \in 0..1 PROVE Alike(Parsed(usage), agent)
  OBVIOUS
<1> DEFINE b == Billed(usage)
<1>1. Alike(b, agent)
  BY BilledFacts
<1>2. Parsed(usage) = [b EXCEPT !.parserFailures = 0]
  BY DEF Parsed
<1> HIDE DEF b
<1>3. [b EXCEPT !.parserFailures = 0] \in States
  BY <1>1, Updates, Zenon DEF Alike
<1> QED
  BY <1>1, <1>2, <1>3 DEF Alike, States

-----------------------------------------------------------------------------
(* The inductive invariant *)

\* A state whose streaks have not run out.
Live(a) == a \in States /\ a.stall <= 2 /\ a.recoverable <= 2

\* A run goes on only while its streaks last; so does what is checkpointed.
Streaks ==
    /\ Running => stop = "none" /\ Live(agent)
    /\ pc = "crashed" => stop = "none"
    /\ Live(checkpoint.agent)

\* A green verdict covers every edit the state accounts for, in memory and on disk.
Accounted ==
    /\ agent.green => known = {}
    /\ checkpoint.agent.green => checkpoint.known = {}

\* Iterations beyond the model's budget were paid for by the drain budgets.
Budgets ==
    /\ drainUsed <= VerifierDrainBudget
    /\ iteration <= MaxIterations + (VerifierDrainBudget * resumes + drainUsed)
    /\ checkpoint.step <= MaxIterations + (VerifierDrainBudget * resumes + drainUsed)
    /\ pc \in {"awaiting", "acting"} => iteration < MaxIterations

\* The agent knows which file it has to read again.
RereadKept == pc # "crashed" /\ unread # NoFile => agent.requirement = Requirement(unread)

\* The loop is entered again only while tokens are left.
TokensLeft ==
    MaxTotalTokens # 0 /\ pc = "loop" /\ resumes = 0 => ~TokensExhausted(agent)

IInv == /\ TypeOK /\ Streaks /\ DrainedBeforeModel /\ Accounted /\ SuccessIsVerified
        /\ Budgets /\ RereadKept /\ TokensLeft

LEMMA BudgetType ==
    /\ MaxIterations \in Nat /\ VerifierDrainBudget \in Nat /\ MaxTotalTokens \in Nat
    /\ resumes \in Nat => VerifierDrainBudget * resumes \in Nat
  BY BudgetAssumption

LEMMA Spends ==
    \A n, m, paid, used, more \in Nat :
        n <= m + (paid + used) /\ used <= more => n <= m + (paid + more)
  OBVIOUS

LEMMA InitHolds == Init => IInv
<1> SUFFICES ASSUME Init PROVE IInv
  OBVIOUS
<1>1. PICK mode \in Modes : agent = NewState(mode)
  BY DEF Init
<1>2. "Act" \in Modes
  BY DEF Modes
<1>3. Live(agent) /\ Live(NewState("Act"))
  BY <1>1, <1>2, NewStateType DEF Live, NewState
<1>4. TypeOK
  BY <1>3, EmptySeq DEF Init, TypeOK, NoTurn, Turns, NoCheckpoint, Checkpoints, Live
<1>5. Streaks /\ DrainedBeforeModel /\ Accounted /\ SuccessIsVerified
  BY <1>1, <1>3 DEF Init, Streaks, DrainedBeforeModel, Accounted, SuccessIsVerified,
                    NewState, NoCheckpoint, Running
<1>6. Budgets
  BY BudgetType DEF Init, Budgets, NoCheckpoint
<1>7. RereadKept /\ TokensLeft
  BY <1>1, BudgetType DEF Init, RereadKept, TokensLeft, TokensExhausted, NewState
<1> QED
  BY <1>4, <1>5, <1>6, <1>7 DEF IInv

-----------------------------------------------------------------------------
(* The ways a step ends *)

\* A run that stops at the top of the loop or at a completion that never comes.
LEMMA StopHolds ==
    ASSUME IInv, Running, NEW reason \in StopReasons \ {"Success"}, Finish(reason),
           agent' \in States, agent'.green = agent.green, agent'.requirement = agent.requirement,
           UNCHANGED <<iteration, drainUsed, turn, checkpoint, run, world>>
    PROVE  IInv'
<1>1. TypeOK'
  BY DEF IInv, TypeOK, Finish, run, world
<1>2. Streaks' /\ DrainedBeforeModel' /\ Accounted' /\ SuccessIsVerified'
  BY DEF IInv, Streaks, DrainedBeforeModel, Accounted, SuccessIsVerified, Finish, run, world,
         Running
<1>3. Budgets' /\ RereadKept' /\ TokensLeft'
  BY DEF IInv, Budgets, RereadKept, TokensLeft, Finish, run, world, Running
<1> QED
  BY <1>1, <1>2, <1>3 DEF IInv

\* A turn ends and is checkpointed.
LEMMA EndTurnHolds ==
    ASSUME IInv, pc \in {"awaiting", "acting"}, NEW a, Live(a), NEW cost \in 0..1,
           EndTurn(a, cost), a.green = agent.green, a.requirement = agent.requirement,
           UNCHANGED <<drainUsed, run, world>>
    PROVE  IInv'
<1>1. TypeOK'
  BY EmptySeq DEF IInv, TypeOK, EndTurn, SaveCheckpoint, Checkpoints, NoTurn, Turns, Finish,
         StopReasons, run, world, Live
<1>2. Streaks' /\ DrainedBeforeModel' /\ Accounted' /\ SuccessIsVerified'
  BY DEF IInv, Streaks, DrainedBeforeModel, Accounted, SuccessIsVerified, EndTurn, Finish,
         SaveCheckpoint, run, world, Running
<1>3. Budgets'
  BY BudgetType DEF IInv, TypeOK, Budgets, EndTurn, Finish, SaveCheckpoint, run, world
<1>4. RereadKept' /\ TokensLeft'
  BY DEF IInv, RereadKept, TokensLeft, TokensExhausted, EndTurn, Finish, run, world
<1> QED
  BY <1>1, <1>2, <1>3, <1>4 DEF IInv

\* A run ends without a checkpoint.
LEMMA EndRunHolds ==
    ASSUME IInv, Running, NEW a \in States, NEW reason \in StopReasons, EndRun(a, reason),
           a.green = agent.green, a.requirement = agent.requirement,
           reason = "Success" => a.green,
           drainUsed' \in Nat, drainUsed <= drainUsed', drainUsed' <= VerifierDrainBudget,
           unverified' \subseteq Files, UNCHANGED <<run, known, unread>>
    PROVE  IInv'
<1>1. TypeOK'
  BY EmptySeq DEF IInv, TypeOK, EndRun, NoTurn, Turns, Finish, run
<1>2. Streaks' /\ DrainedBeforeModel' /\ Accounted' /\ SuccessIsVerified'
  BY DEF IInv, Streaks, DrainedBeforeModel, Accounted, SuccessIsVerified, EndRun, Finish,
         run, Running
<1>3. Budgets'
  <2> DEFINE paid == VerifierDrainBudget * resumes
  <2>1. /\ paid \in Nat /\ MaxIterations \in Nat /\ VerifierDrainBudget \in Nat
        /\ iteration \in Nat /\ drainUsed \in Nat /\ checkpoint.step \in Nat
    BY BudgetType DEF IInv, TypeOK, Checkpoints
  <2>2. /\ iteration' = iteration /\ checkpoint' = checkpoint /\ paid' = paid /\ pc' = "stopped"
    BY DEF EndRun, Finish, run
  <2>3. /\ iteration <= MaxIterations + (paid + drainUsed)
        /\ checkpoint.step <= MaxIterations + (paid + drainUsed)
    BY DEF IInv, Budgets
  <2> HIDE DEF paid
  <2>4. /\ iteration <= MaxIterations + (paid + drainUsed')
        /\ checkpoint.step <= MaxIterations + (paid + drainUsed')
    BY <2>1, <2>3, Spends
  <2> QED
    BY <2>1, <2>2, <2>3, <2>4 DEF Budgets, paid
<1>4. RereadKept' /\ TokensLeft'
  BY DEF IInv, RereadKept, TokensLeft, EndRun, Finish, run, Running
<1> QED
  BY <1>1, <1>2, <1>3, <1>4 DEF IInv

\* A loop guard does one or the other.
LEMMA GuardedHolds ==
    ASSUME IInv, pc \in {"awaiting", "acting"}, NEW a \in States, NEW count, NEW limit,
           NEW cost \in 0..1, Guarded(a, count, limit, cost),
           ~(count >= limit) => Live(a),
           a.green = agent.green, a.requirement = agent.requirement,
           UNCHANGED <<drainUsed, run, world>>
    PROVE  IInv'
<1>1. CASE count >= limit
  <2>1. EndRun(a, "FatalError")
    BY <1>1 DEF Guarded
  <2> QED
    BY <2>1, EndRunHolds DEF IInv, TypeOK, Budgets, Running, StopReasons, world
<1>2. CASE ~(count >= limit)
  BY <1>2, EndTurnHolds DEF Guarded
<1> QED
  BY <1>1, <1>2

\* A step within a batch.
LEMMA InTurnHolds ==
    ASSUME IInv, pc = "acting", InTurn, Live(agent'), agent'.queue = <<>>, turn' \in Turns,
           agent'.green => known' = {}, unverified' \subseteq Files, known' \subseteq Files,
           unread' \in Files \cup {NoFile},
           unread' # NoFile => agent'.requirement = Requirement(unread')
    PROVE  IInv'
<1>1. TypeOK'
  BY DEF IInv, TypeOK, InTurn, run, Live
<1>2. Streaks' /\ DrainedBeforeModel' /\ Accounted' /\ SuccessIsVerified'
  BY DEF IInv, Streaks, DrainedBeforeModel, Accounted, SuccessIsVerified, InTurn, run, Running
<1>3. Budgets' /\ RereadKept' /\ TokensLeft'
  BY DEF IInv, Budgets, RereadKept, TokensLeft, InTurn, run
<1> QED
  BY <1>1, <1>2, <1>3 DEF IInv

\* A drained plan ends a step.
LEMMA EndDrainHolds ==
    ASSUME IInv, Proceeds, MayDrain, ChargeDrain, NEW a, Live(a), EndDrain(a),
           a.green => known' = {}, a.billed = agent.billed,
           unverified' \subseteq Files, known' \subseteq Files,
           unread' \in Files \cup {NoFile},
           unread' # NoFile => a.requirement = Requirement(unread'),
           UNCHANGED run
    PROVE  IInv'
<1>1. TypeOK'
  BY BudgetType DEF IInv, TypeOK, EndDrain, ChargeDrain, SaveCheckpoint, Checkpoints, Finish,
                    StopReasons, run, Live
<1>2. Streaks' /\ DrainedBeforeModel' /\ Accounted' /\ SuccessIsVerified'
  BY DEF IInv, Streaks, DrainedBeforeModel, Accounted, SuccessIsVerified, EndDrain, Finish,
         SaveCheckpoint, run, Running, Proceeds
<1>3. Budgets'
  <2> DEFINE paid == VerifierDrainBudget * resumes
  <2>1. /\ paid \in Nat /\ MaxIterations \in Nat /\ VerifierDrainBudget \in Nat
        /\ iteration \in Nat /\ drainUsed \in Nat
    BY BudgetType DEF IInv, TypeOK
  <2>2. /\ iteration' = iteration + 1 /\ checkpoint'.step = iteration' /\ paid' = paid
        /\ pc' \in {"loop", "stopped"}
    BY DEF EndDrain, Finish, SaveCheckpoint, run, Proceeds
  <2>3. iteration <= MaxIterations + (paid + drainUsed) /\ drainUsed <= VerifierDrainBudget
    BY DEF IInv, Budgets
  <2> HIDE DEF paid
  <2>4. CASE PastModelBudget
    <3>1. drainUsed' = drainUsed + 1 /\ drainUsed < VerifierDrainBudget
      BY <2>4 DEF ChargeDrain, MayDrain
    <3>2. drainUsed' <= VerifierDrainBudget /\ iteration' <= MaxIterations + (paid + drainUsed')
      BY <2>1, <2>2, <2>3, <3>1
    <3> QED
      BY <2>2, <3>2 DEF Budgets, paid
  <2>5. CASE ~PastModelBudget
    <3>1. drainUsed' = drainUsed /\ iteration < MaxIterations
      BY <2>1, <2>5 DEF ChargeDrain, PastModelBudget
    <3>2. iteration' <= MaxIterations + (paid + drainUsed')
      BY <2>1, <2>2, <3>1
    <3> QED
      BY <2>2, <2>3, <3>1, <3>2 DEF Budgets, paid
  <2> QED
    BY <2>4, <2>5
<1>4. RereadKept' /\ TokensLeft'
  BY DEF IInv, RereadKept, TokensLeft, TokensExhausted, EndDrain, run, Proceeds
<1> QED
  BY <1>1, <1>2, <1>3, <1>4 DEF IInv

-----------------------------------------------------------------------------
(* The top of the loop *)

LEMMA PoppedFacts ==
    ASSUME agent \in States, agent.queue # <<>>
    PROVE  /\ Popped \in States /\ Popped.stall = agent.stall
           /\ Popped.recoverable = agent.recoverable /\ Popped.green = agent.green
           /\ Popped.requirement = agent.requirement /\ Popped.billed = agent.billed
           /\ Popped.lastWrite = agent.lastWrite
<1>1. Tail(agent.queue) \in Seq(Plans)
  BY DEF States
<1>2. [agent EXCEPT !.queue = Tail(agent.queue)] \in States
  BY <1>1, Updates, Zenon
<1> QED
  BY <1>2 DEF Popped, States

LEMMA LoopHolds == IInv /\ LoopStep => IInv'
<1> SUFFICES ASSUME IInv, LoopStep PROVE IInv'
  OBVIOUS
<1>1. agent \in States
  BY DEF IInv, TypeOK
<1>2. pc = "loop" => Running /\ Live(agent)
  BY DEF IInv, Streaks, Running
<1>3. CASE StopCancelled
  BY <1>1, <1>2, <1>3, StopHolds DEF StopCancelled, StopReasons
<1>4. CASE StopTimeBudget
  BY <1>1, <1>2, <1>4, StopHolds DEF StopTimeBudget, StopReasons
<1>5. CASE StopPendingValidation
  <2>1. agent' = Popped
    BY <1>5 DEF StopPendingValidation, Popped
  <2>2. /\ agent' \in States /\ agent'.green = agent.green
        /\ agent'.requirement = agent.requirement
    BY <1>1, <1>5, <2>1, PoppedFacts DEF StopPendingValidation
  <2> QED
    BY <1>2, <1>5, <2>2, StopHolds DEF StopPendingValidation, Proceeds, StopReasons
<1>6. CASE DrainRefused
  <2>1. Popped \in States /\ Popped.green = agent.green /\ Popped.requirement = agent.requirement
    BY <1>1, <1>6, PoppedFacts DEF DrainRefused
  <2>2. drainUsed' \in Nat /\ drainUsed <= drainUsed' /\ drainUsed' <= VerifierDrainBudget
    BY <1>6, BudgetType DEF DrainRefused, ChargeDrain, MayDrain, IInv, TypeOK, Budgets
  <2>3. unverified' \subseteq Files
    BY <1>6 DEF DrainRefused, world, IInv, TypeOK
  <2> QED
    BY <1>2, <1>6, <2>1, <2>2, <2>3, EndRunHolds DEF DrainRefused, Proceeds, StopReasons, world
<1>7. CASE DrainPasses
  <2> DEFINE a == AfterValidation(Popped)
  <2>1. Live(a) /\ a.requirement = agent.requirement /\ a.billed = agent.billed
    BY <1>1, <1>7, PoppedFacts, AfterValidationFacts DEF DrainPasses, Live
  <2> HIDE DEF a
  <2>2. unread' = unread /\ known' = {} /\ unverified' = {}
    BY <1>7 DEF DrainPasses, Verify
  <2>3. unread # NoFile => agent.requirement = Requirement(unread)
    BY <1>7 DEF DrainPasses, Proceeds, IInv, RereadKept
  <2>4. EndDrain(a) /\ Proceeds /\ MayDrain /\ ChargeDrain /\ UNCHANGED run
    BY <1>7 DEF DrainPasses, a
  <2>5. unread' \in Files \cup {NoFile}
    BY <2>2 DEF IInv, TypeOK
  <2> QED
    BY <2>1, <2>2, <2>3, <2>4, <2>5, EndDrainHolds
<1>8. CASE DrainFails
  <2>1. PICK rolledBack \in {FALSE, RollbackOnFailure} :
            /\ unread' = RolledBackFile(agent, rolledBack)
            /\ EndDrain(AfterFailedValidation(Popped, rolledBack))
    BY <1>8 DEF DrainFails
  <2>2. rolledBack \in BOOLEAN
    BY BudgetAssumption
  <2> DEFINE a == AfterFailedValidation(Popped, rolledBack)
  <2>3. /\ a \in States /\ a.green = FALSE /\ a.billed = Popped.billed
        /\ a.stall \in {0, Popped.stall} /\ a.recoverable = Popped.recoverable
        /\ a.requirement = IF rolledBack /\ Popped.lastWrite # NoFile
                           THEN Requirement(Popped.lastWrite) ELSE Popped.requirement
    BY <1>1, <1>8, <2>2, PoppedFacts, AfterFailedValidationFacts DEF DrainFails
  <2>4. EndDrain(a)
    BY <2>1
  <2> HIDE DEF a
  <2>5. Live(a) /\ a.billed = agent.billed
    BY <1>1, <1>2, <1>8, <2>3, PoppedFacts DEF DrainFails, Proceeds, Live
  <2>6. unread # NoFile => agent.requirement = Requirement(unread)
    BY <1>8 DEF DrainFails, Proceeds, IInv, RereadKept
  <2>7. unread' # NoFile => a.requirement = Requirement(unread')
    BY <1>1, <1>8, <2>1, <2>3, <2>6, PoppedFacts DEF DrainFails, RolledBackFile
  <2>8. unread' \in Files \cup {NoFile}
    BY <1>1, <2>1 DEF RolledBackFile, IInv, TypeOK, States
  <2>9. unverified' \subseteq Files /\ known' \subseteq Files
    BY <1>8 DEF DrainFails, Unverify
  <2> QED
    BY <1>8, <2>3, <2>4, <2>5, <2>7, <2>8, <2>9, EndDrainHolds DEF DrainFails
<1>9. CASE StopMaxIterations
  BY <1>1, <1>2, <1>9, StopHolds DEF StopMaxIterations, Proceeds, StopReasons
<1>10. CASE RequestCompletion
  <2>1. TypeOK'
    BY <1>10 DEF RequestCompletion, run, world, IInv, TypeOK
  <2>2. Streaks' /\ DrainedBeforeModel' /\ Accounted' /\ SuccessIsVerified'
    BY <1>10 DEF RequestCompletion, Proceeds, QueueServed, run, world, IInv, Streaks, Running,
                 DrainedBeforeModel, Accounted, SuccessIsVerified
  <2>3. Budgets'
    BY <1>10, BudgetType DEF RequestCompletion, PastModelBudget, run, IInv, TypeOK, Budgets
  <2>4. RereadKept' /\ TokensLeft'
    BY <1>10 DEF RequestCompletion, Proceeds, run, world, IInv, RereadKept, TokensLeft
  <2> QED
    BY <2>1, <2>2, <2>3, <2>4 DEF IInv
<1> QED
  BY <1>3, <1>4, <1>5, <1>6, <1>7, <1>8, <1>9, <1>10 DEF LoopStep

-----------------------------------------------------------------------------
(* A completion arrives, or does not *)

\* What a counted guard counts, one further.
LEMMA StalledFacts ==
    \A a \in States : a.stall <= 2 =>
        LET r == [a EXCEPT !.stall = @ + 1]
            s == [a EXCEPT !.stall = @ + 1, !.redundant = TRUE]
        IN  /\ r \in States /\ r.stall = a.stall + 1 /\ r.recoverable = a.recoverable
            /\ r.green = a.green /\ r.requirement = a.requirement
            /\ s \in States /\ s.stall = a.stall + 1 /\ s.recoverable = a.recoverable
            /\ s.green = a.green /\ s.requirement = a.requirement
<1> SUFFICES ASSUME NEW a \in States, a.stall <= 2
             PROVE  LET r == [a EXCEPT !.stall = @ + 1]
                        s == [a EXCEPT !.stall = @ + 1, !.redundant = TRUE]
                    IN  /\ r \in States /\ r.stall = a.stall + 1
                        /\ r.recoverable = a.recoverable
                        /\ r.green = a.green /\ r.requirement = a.requirement
                        /\ s \in States /\ s.stall = a.stall + 1
                        /\ s.recoverable = a.recoverable
                        /\ s.green = a.green /\ s.requirement = a.requirement
  OBVIOUS
<1>1. a.stall + 1 \in 0..3
  BY DEF States
<1>2. /\ [a EXCEPT !.stall = @ + 1] \in States
      /\ [a EXCEPT !.stall = @ + 1, !.redundant = TRUE] \in States
  BY <1>1, Updates, Literals, Zenon
<1> QED
  BY <1>2 DEF States

\* The turn's mode change, with the reread granted or not.
LEMMA StartedFacts ==
    \A a \in States, mode \in Modes :
        LET r == [a EXCEPT !.mode = mode]
            s == GrantReread(r)
        IN  /\ r \in States /\ r.stall = a.stall /\ r.recoverable = a.recoverable
            /\ r.green = a.green /\ r.requirement = a.requirement /\ r.queue = a.queue
            /\ s \in States /\ s.stall = 0 /\ s.recoverable = a.recoverable
            /\ s.green = a.green /\ s.requirement = a.requirement /\ s.queue = a.queue
<1> SUFFICES ASSUME NEW a \in States, NEW mode \in Modes
             PROVE  LET r == [a EXCEPT !.mode = mode]
                        s == GrantReread(r)
                    IN  /\ r \in States /\ r.stall = a.stall
                        /\ r.recoverable = a.recoverable
                        /\ r.green = a.green /\ r.requirement = a.requirement
                        /\ r.queue = a.queue
                        /\ s \in States /\ s.stall = 0 /\ s.recoverable = a.recoverable
                        /\ s.green = a.green /\ s.requirement = a.requirement
                        /\ s.queue = a.queue
  BY ZenonT(60)
<1> DEFINE r == [a EXCEPT !.mode = mode]
<1>1. r \in States
  BY Updates, Zenon
<1>2. GrantReread(r) \in States
  BY <1>1, Updates, Literals, Zenon DEF GrantReread
<1>3. /\ r.stall = a.stall /\ r.recoverable = a.recoverable /\ r.green = a.green
      /\ r.requirement = a.requirement /\ r.queue = a.queue
  BY DEF States
<1> HIDE DEF r
<1>4. /\ GrantReread(r).stall = 0 /\ GrantReread(r).recoverable = r.recoverable
      /\ GrantReread(r).green = r.green /\ GrantReread(r).requirement = r.requirement
      /\ GrantReread(r).queue = r.queue
  BY <1>1 DEF GrantReread, States
<1> QED
  BY <1>1, <1>2, <1>3, <1>4 DEF r

LEMMA CompletionHolds == IInv /\ CompletionStep => IInv'
<1> SUFFICES ASSUME IInv, CompletionStep PROVE IInv'
  OBVIOUS
<1>1. pc = "awaiting"
  BY DEF CompletionStep, CompletionFails, ParserRecovery, UnrecoverableParseError, PlainText,
         Mismatch, RepeatInspection, StartBatch
<1>2. agent \in States /\ Running /\ Live(agent)
  BY <1>1 DEF IInv, TypeOK, Streaks, Running
<1>3. CASE CompletionFails
  BY <1>2, <1>3, StopHolds DEF CompletionFails, StopReasons
<1>4. CASE ParserRecovery
  <2>1. PICK usage \in 0..1 :
            LET a == ParserFailed(Billed(usage))
            IN  Guarded(a, a.parserFailures, ParserRecoveryBudget, 0)
    BY <1>4 DEF ParserRecovery
  <2> DEFINE a == ParserFailed(Billed(usage))
  <2>2. Alike(Billed(usage), agent)
    BY <1>2, BilledFacts
  <2>3. Alike(a, Billed(usage))
    BY <2>2, ParserFailedFacts DEF Alike
  <2>4. Guarded(a, a.parserFailures, ParserRecoveryBudget, 0)
    BY <2>1
  <2> HIDE DEF a
  <2>5. Live(a) /\ a.green = agent.green /\ a.requirement = agent.requirement
    BY <1>2, <2>2, <2>3 DEF Alike, Live
  <2> QED
    BY <1>1, <1>4, <2>4, <2>5, GuardedHolds DEF ParserRecovery, Live
<1>5. CASE UnrecoverableParseError
  <2>1. PICK usage \in 0..1 : EndRun(Billed(usage), "FatalError")
    BY <1>5 DEF UnrecoverableParseError
  <2>2. Alike(Billed(usage), agent)
    BY <1>2, BilledFacts
  <2> QED
    BY <1>2, <1>5, <2>1, <2>2, EndRunHolds
    DEF UnrecoverableParseError, Alike, StopReasons, world, IInv, TypeOK, Budgets
<1>6. CASE PlainText
  <2>1. PICK usage \in 0..1 :
            LET a == [Billed(usage) EXCEPT !.stall = @ + 1]
            IN  Guarded(a, a.stall, 2, 0)
    BY <1>6 DEF PlainText
  <2> DEFINE a == [Billed(usage) EXCEPT !.stall = @ + 1]
  <2>2. Alike(Billed(usage), agent)
    BY <1>2, BilledFacts
  <2>3. /\ a \in States /\ a.stall = agent.stall + 1 /\ a.recoverable = agent.recoverable
        /\ a.green = agent.green /\ a.requirement = agent.requirement
    BY <1>2, <2>2, StalledFacts DEF Alike, Live
  <2>4. Guarded(a, a.stall, 2, 0)
    BY <2>1
  <2> HIDE DEF a
  <2>5. ~(a.stall >= 2) => Live(a)
    BY <1>2, <2>3 DEF Live, States
  <2> QED
    BY <1>1, <1>6, <2>3, <2>4, <2>5, GuardedHolds DEF PlainText
<1>7. CASE Mismatch
  <2>1. PICK usage \in 0..1 : EndTurn(ParserFailed(Billed(usage)), 0)
    BY <1>7 DEF Mismatch
  <2>2. Alike(Billed(usage), agent)
    BY <1>2, BilledFacts
  <2>3. Alike(ParserFailed(Billed(usage)), Billed(usage))
    BY <2>2, ParserFailedFacts DEF Alike
  <2>4. /\ Live(ParserFailed(Billed(usage)))
        /\ ParserFailed(Billed(usage)).green = agent.green
        /\ ParserFailed(Billed(usage)).requirement = agent.requirement
    BY <1>2, <2>2, <2>3 DEF Alike, Live
  <2> QED
    BY <1>1, <1>7, <2>1, <2>4, EndTurnHolds DEF Mismatch
<1>8. CASE RepeatInspection
  <2>1. PICK usage \in 0..1 :
            LET a == [Parsed(usage) EXCEPT !.stall = @ + 1, !.redundant = TRUE]
            IN  Guarded(a, a.stall, 3, 1)
    BY <1>8 DEF RepeatInspection
  <2> DEFINE a == [Parsed(usage) EXCEPT !.stall = @ + 1, !.redundant = TRUE]
  <2>2. Alike(Parsed(usage), agent)
    BY <1>2, ParsedFacts
  <2>3. /\ a \in States /\ a.stall = agent.stall + 1 /\ a.recoverable = agent.recoverable
        /\ a.green = agent.green /\ a.requirement = agent.requirement
    BY <1>2, <2>2, StalledFacts DEF Alike, Live
  <2>4. Guarded(a, a.stall, 3, 1)
    BY <2>1
  <2> HIDE DEF a
  <2>5. ~(a.stall >= 3) => Live(a)
    BY <1>2, <2>3 DEF Live, States
  <2> QED
    BY <1>1, <1>8, <2>3, <2>4, <2>5, GuardedHolds DEF RepeatInspection
<1>9. CASE StartBatch
  <2>1. PICK batch \in Batches, usage \in 0..1, mode \in Modes :
            /\ agent' \in {GrantReread([Parsed(usage) EXCEPT !.mode = mode]),
                           [Parsed(usage) EXCEPT !.mode = mode]}
            /\ turn' = [NoTurn EXCEPT !.actions = batch]
    BY <1>9, Zenon DEF StartBatch
  <2> DEFINE b == Parsed(usage)
             r == [b EXCEPT !.mode = mode]
             g == GrantReread(r)
  <2>2. Alike(b, agent)
    BY <1>2, ParsedFacts
  <2>3. /\ Live(agent') /\ agent'.green = agent.green /\ agent'.queue = agent.queue
        /\ agent'.requirement = agent.requirement
    <3>1. agent' \in {g, r}
      BY <2>1
    <3> HIDE DEF b
    <3>2. b \in States
      BY <2>2 DEF Alike
    <3>3. /\ r \in States /\ r.stall = b.stall /\ r.recoverable = b.recoverable
          /\ r.green = b.green /\ r.requirement = b.requirement /\ r.queue = b.queue
          /\ g \in States /\ g.stall = 0 /\ g.recoverable = b.recoverable
          /\ g.green = b.green /\ g.requirement = b.requirement /\ g.queue = b.queue
      BY <3>2, StartedFacts
    <3> HIDE DEF r, g
    <3> QED
      BY <1>2, <2>2, <3>1, <3>3 DEF Alike, Live
  <2> HIDE DEF b, r, g
  <2>4. turn' \in Turns
    BY <2>1, BatchesAssumption DEF NoTurn, Turns
  <2>5. /\ pc' = "acting" /\ UNCHANGED <<stop, iteration, drainUsed, checkpoint>>
        /\ UNCHANGED <<run, world>>
    BY <1>9 DEF StartBatch
  <2>6. TypeOK'
    BY <2>3, <2>4, <2>5 DEF run, world, IInv, TypeOK, Live
  <2>7. Streaks' /\ DrainedBeforeModel' /\ Accounted' /\ SuccessIsVerified'
    BY <1>1, <2>3, <2>5 DEF run, world, IInv, Streaks, Running,
                            DrainedBeforeModel, Accounted, SuccessIsVerified
  <2>8. Budgets'
    BY <1>1, <2>5 DEF run, IInv, Budgets
  <2>9. RereadKept' /\ TokensLeft'
    BY <1>1, <2>3, <2>5 DEF run, world, IInv, RereadKept, TokensLeft
  <2> QED
    BY <2>6, <2>7, <2>8, <2>9 DEF IInv
<1> QED
  BY <1>3, <1>4, <1>5, <1>6, <1>7, <1>8, <1>9 DEF CompletionStep

-----------------------------------------------------------------------------
(* The batch of a turn *)

\* What a verdict says about the reread that is still due.
LEMMA VerdictFacts ==
    \A a \in States, p \in Profiles, act \in Actions :
        /\ "reread" \in Verdicts(a, p, act) => RereadPending(a)
        /\ p = "AutonomousSandboxed" /\ act.kind = "write" /\ "allowed" \in Verdicts(a, p, act)
              => ~RereadPending(a)
<1> SUFFICES ASSUME NEW a \in States, NEW p \in Profiles, NEW act \in Actions
             PROVE  /\ "reread" \in Verdicts(a, p, act) => RereadPending(a)
                    /\ p = "AutonomousSandboxed" /\ act.kind = "write"
                          /\ "allowed" \in Verdicts(a, p, act) => ~RereadPending(a)
  OBVIOUS
<1>1. "reread" \in SandboxedVerdicts(a, act) => RereadPending(a)
  BY DEF SandboxedVerdicts
<1>2. act.kind = "write" /\ "allowed" \in SandboxedVerdicts(a, act) => ~RereadPending(a)
  BY DEF SandboxedVerdicts
<1>3. CASE ~ModeAllows(a.mode, act)
  BY <1>3 DEF Verdicts
<1>4. CASE ModeAllows(a.mode, act)
  BY <1>1, <1>2, <1>4 DEF Verdicts, Profiles
<1> QED
  BY <1>3, <1>4

\* The dispatched action and what is left of the batch.
LEMMA ActFacts ==
    ASSUME IInv, turn.actions # <<>>
    PROVE  /\ Act \in Actions /\ Tail(turn.actions) \in Seq(Actions)
           /\ Act.kind \in {"read", "write"} => Act.file \in Files
<1>1. turn.actions \in Seq(Actions)
  BY DEF IInv, TypeOK, Turns
<1>2. Act \in Actions /\ Tail(turn.actions) \in Seq(Actions)
  BY <1>1 DEF Act
<1> QED
  BY <1>2 DEF Actions, Read, Write, Validate

LEMMA BatchTurns ==
    ASSUME IInv, turn.actions # <<>>
    PROVE  /\ [turn EXCEPT !.actions = Tail(@)] \in Turns
           /\ \A w \in BOOLEAN : [turn EXCEPT !.actions = Tail(@), !.wrote = w] \in Turns
           /\ [turn EXCEPT !.actions = Tail(@), !.recovery = TRUE] \in Turns
           /\ \A recovers \in BOOLEAN :
                 [turn EXCEPT !.actions = <<>>, !.aborted = TRUE,
                              !.recovery = @ \/ recovers] \in Turns
<1>1. turn \in Turns /\ Tail(turn.actions) \in Seq(Actions) /\ <<>> \in Seq(Actions)
  BY ActFacts, EmptySeq DEF IInv, TypeOK
<1> QED
  BY <1>1 DEF Turns

\* A dispatched action: the run is within a turn, and no plan is queued.
LEMMA Acting ==
    ASSUME IInv, pc = "acting"
    PROVE  /\ Running /\ Live(agent) /\ agent \in States /\ agent.queue = <<>>
           /\ agent.green => known = {}
           /\ unread # NoFile => agent.requirement = Requirement(unread)
           /\ unread \in Files \cup {NoFile}
           /\ unverified \subseteq Files /\ known \subseteq Files
           /\ profile \in Profiles
  BY RunProfilesAssumption DEF IInv, Streaks, Running, DrainedBeforeModel, Accounted, RereadKept, TypeOK

LEMMA ReadsHold == IInv /\ (ReadSucceeds \/ ReadFails) => IInv'
<1> SUFFICES ASSUME IInv, ReadSucceeds \/ ReadFails PROVE IInv'
  OBVIOUS
<1>1. pc = "acting" /\ turn.actions # <<>> /\ Act.kind = "read"
  BY DEF ReadSucceeds, ReadFails, Acts, Act
<1>2. Act \in Actions /\ Act.file \in Files
  BY <1>1, ActFacts
<1>3. CASE ReadSucceeds
  <2>1. PICK satisfies \in Satisfactions(Act) :
            agent' = Noted(AfterRead(agent, Act.file, satisfies), Act)
    BY <1>3 DEF ReadSucceeds
  <2>2. satisfies \in BOOLEAN
    BY DEF Satisfactions
  <2> DEFINE r == AfterRead(agent, Act.file, satisfies)
  <2>3. /\ r \in States /\ r.stall = 0 /\ r.recoverable = 0
        /\ r.queue = agent.queue /\ r.green = agent.green
        /\ agent.requirement.file # Act.file => r.requirement = agent.requirement
    BY <1>1, <1>2, <2>2, Acting, AfterReadFacts
  <2>4. agent' = Noted(r, Act)
    BY <2>1
  <2> HIDE DEF r
  <2>5. /\ Live(agent') /\ agent'.queue = <<>> /\ agent'.green = agent.green
        /\ agent.requirement.file # Act.file => agent'.requirement = agent.requirement
    BY <1>1, <1>2, <2>3, <2>4, Acting, NotedFacts DEF Live
  <2>6. unread' = IF Act.file = unread THEN NoFile ELSE unread
    BY <1>3 DEF ReadSucceeds
  <2>7. ASSUME unread' # NoFile PROVE agent'.requirement = Requirement(unread')
    <3>1. unread' = unread /\ Act.file # unread /\ unread # NoFile
      BY <2>6, <2>7
    <3>2. agent.requirement = Requirement(unread)
      BY <1>1, <3>1, Acting
    <3>3. agent.requirement.file = unread
      BY <3>2 DEF Requirement
    <3> QED
      BY <2>5, <3>1, <3>2, <3>3
  <2>8. turn' \in Turns /\ InTurn /\ unverified' = unverified /\ known' = known
    BY <1>1, <1>3, BatchTurns DEF ReadSucceeds, NextAct
  <2> QED
    BY <1>1, <1>2, <2>5, <2>6, <2>7, <2>8, Acting, InTurnHolds
<1>4. CASE ReadFails
  <2> DEFINE n == Noted(agent, Act)
             f == AfterFailedRead(n)
             a == [f EXCEPT !.recoverable = @ + 1]
  <2>1. IF RecoverySpent(a)
        THEN EndRun(a, "FatalError")
        ELSE /\ agent' = a
             /\ turn' = [turn EXCEPT !.actions = Tail(@), !.recovery = TRUE]
             /\ UNCHANGED <<pc, stop, iteration, checkpoint>>
    BY <1>4 DEF ReadFails
  <2>2. UNCHANGED <<drainUsed, run, world>>
    BY <1>4 DEF ReadFails
  <2>3. /\ n \in States /\ n.stall = agent.stall /\ n.recoverable = agent.recoverable
        /\ n.queue = agent.queue /\ n.green = agent.green /\ n.requirement = agent.requirement
    BY <1>1, <1>2, Acting, NotedFacts
  <2> HIDE DEF n
  <2>4. /\ f \in States /\ f.stall = n.stall /\ f.recoverable = n.recoverable
        /\ f.queue = n.queue /\ f.green = n.green /\ f.requirement = n.requirement
    BY <2>3, AfterFailedReadFacts
  <2> HIDE DEF f
  <2>5. f.recoverable + 1 \in 0..3
    BY <1>1, <1>2, <2>3, <2>4, Acting DEF Live, States
  <2>6. a \in States
    BY <2>4, <2>5, Updates, Zenon
  <2>7. /\ a.stall = agent.stall /\ a.recoverable = f.recoverable + 1
        /\ a.queue = agent.queue /\ a.green = agent.green /\ a.requirement = agent.requirement
    BY <2>3, <2>4 DEF States
  <2> HIDE DEF a
  <2>8. CASE RecoverySpent(a)
    <3>1. EndRun(a, "FatalError")
      BY <2>1, <2>8
    <3> QED
      BY <1>1, <1>2, <2>2, <2>6, <2>7, <3>1, Acting, EndRunHolds
      DEF StopReasons, world, IInv, TypeOK, Budgets
  <2>9. CASE ~RecoverySpent(a)
    <3>1. Live(a)
      BY <1>1, <1>2, <2>5, <2>6, <2>7, <2>9, Acting DEF Live, RecoverySpent
    <3>2. agent' = a /\ turn' \in Turns /\ InTurn
      BY <1>1, <1>2, <2>1, <2>2, <2>9, BatchTurns DEF InTurn
    <3> QED
      BY <1>1, <1>2, <2>2, <2>7, <3>1, <3>2, Acting, InTurnHolds DEF world
  <2> QED
    BY <2>8, <2>9
<1> QED
  BY <1>3, <1>4

LEMMA EditsHold == IInv /\ (EditSucceeds \/ EditFails) => IInv'
<1> SUFFICES ASSUME IInv, EditSucceeds \/ EditFails PROVE IInv'
  OBVIOUS
<1>1. pc = "acting" /\ turn.actions # <<>> /\ Act \in Actions /\ Act.file \in Files
  BY ActFacts DEF EditSucceeds, EditFails, Acts, Act
<1>2. CASE EditSucceeds
  <2> DEFINE r == AfterWrite(agent, Act.file)
  <2>1. /\ r \in States /\ r.stall = 0 /\ r.recoverable = 0
        /\ r.queue = agent.queue /\ r.green = FALSE
    BY <1>1, Acting, AfterWriteFacts
  <2>2. agent' = Noted(r, Act)
    BY <1>2 DEF EditSucceeds
  <2> HIDE DEF r
  <2>3. Live(agent') /\ agent'.queue = <<>> /\ agent'.green = FALSE
    BY <1>1, <2>1, <2>2, Acting, NotedFacts DEF Live
  <2>4. /\ unread' = NoFile /\ unverified' = unverified \cup {Act.file}
        /\ known' = known \cup {Act.file}
    BY <1>2 DEF EditSucceeds, Edited
  <2>5. turn' \in Turns /\ InTurn
    BY <1>1, <1>2, BatchTurns DEF EditSucceeds
  <2> QED
    BY <1>1, <2>3, <2>4, <2>5, Acting, InTurnHolds
<1>3. CASE EditFails
  <2> DEFINE r == AfterFailedWrite(agent, Act.file)
  <2>1. /\ r \in States /\ r.stall = 0 /\ r.recoverable = agent.recoverable
        /\ r.queue = agent.queue /\ r.green = agent.green
        /\ r.requirement = Requirement(Act.file)
    BY <1>1, Acting, AfterFailedWriteFacts
  <2>2. agent' = Noted(r, Act)
    BY <1>3 DEF EditFails
  <2> HIDE DEF r
  <2>3. /\ Live(agent') /\ agent'.queue = <<>> /\ agent'.green = agent.green
        /\ agent'.requirement = Requirement(Act.file)
    BY <1>1, <2>1, <2>2, Acting, NotedFacts DEF Live
  <2>4. unread' = Act.file /\ unverified' = unverified /\ known' = known
    BY <1>3 DEF EditFails
  <2>5. turn' \in Turns /\ InTurn
    BY <1>1, <1>3, BatchTurns DEF EditFails, AbortBatch
  <2> QED
    BY <1>1, <2>3, <2>4, <2>5, Acting, InTurnHolds
<1> QED
  BY <1>2, <1>3

LEMMA ValidationsHold == IInv /\ (ValidationPasses \/ ValidationFails) => IInv'
<1> SUFFICES ASSUME IInv, ValidationPasses \/ ValidationFails PROVE IInv'
  OBVIOUS
<1>1. pc = "acting" /\ turn.actions # <<>>
  BY DEF ValidationPasses, ValidationFails, Acts
<1>2. CASE ValidationPasses
  <2>1. agent' = AfterValidation(agent)
    BY <1>2 DEF ValidationPasses
  <2>2. /\ Live(agent') /\ agent'.queue = <<>> /\ agent'.requirement = agent.requirement
    BY <1>1, <2>1, Acting, AfterValidationFacts DEF Live
  <2>3. unread' = unread /\ known' = {} /\ unverified' = {}
    BY <1>2 DEF ValidationPasses, Verify
  <2>4. turn' \in Turns /\ InTurn
    BY <1>1, <1>2, BatchTurns DEF ValidationPasses
  <2> QED
    BY <1>1, <2>2, <2>3, <2>4, Acting, InTurnHolds
<1>3. CASE ValidationFails
  <2>1. PICK rolledBack \in {FALSE, RollbackOnFailure} :
            /\ agent' = AfterFailedValidation(agent, rolledBack)
            /\ unread' = RolledBackFile(agent, rolledBack)
    BY <1>3 DEF ValidationFails
  <2>2. rolledBack \in BOOLEAN
    BY BudgetAssumption
  <2>3. /\ agent' \in States /\ agent'.queue = <<>> /\ agent'.green = FALSE
        /\ agent'.stall \in {0, agent.stall} /\ agent'.recoverable = agent.recoverable
        /\ agent'.requirement = IF rolledBack /\ agent.lastWrite # NoFile
                                THEN Requirement(agent.lastWrite) ELSE agent.requirement
    BY <1>1, <2>1, <2>2, Acting, AfterFailedValidationFacts
  <2>4. Live(agent')
    BY <1>1, <2>3, Acting DEF Live
  <2>5. unread' # NoFile => agent'.requirement = Requirement(unread')
    BY <1>1, <2>1, <2>3, Acting DEF RolledBackFile
  <2>6. unread' \in Files \cup {NoFile}
    BY <1>1, <2>1, Acting DEF RolledBackFile, States
  <2>7. unverified' = Files /\ known' = Files /\ turn' \in Turns /\ InTurn
    BY <1>1, <1>3, BatchTurns DEF ValidationFails, AbortBatch, Unverify
  <2> QED
    BY <1>1, <2>3, <2>4, <2>5, <2>6, <2>7, InTurnHolds
<1> QED
  BY <1>2, <1>3

LEMMA RefusalsHold ==
    IInv /\ (ExecutorFails \/ PolicyDenied \/ RepeatedValidationRefused) => IInv'
<1> SUFFICES ASSUME IInv, ExecutorFails \/ PolicyDenied \/ RepeatedValidationRefused
             PROVE  IInv'
  OBVIOUS
<1>1. pc = "acting" /\ turn.actions # <<>>
  BY DEF ExecutorFails, PolicyDenied, RepeatedValidationRefused, Acts
<1>2. CASE ExecutorFails
  <2>1. /\ Noted(agent, Act) \in States /\ Noted(agent, Act).green = agent.green
        /\ Noted(agent, Act).requirement = agent.requirement
    BY <1>1, ActFacts, Acting, NotedFacts
  <2>2. unverified' \subseteq Files
    <3>1. Act.kind = "write" => Act.file \in Files
      BY <1>1, ActFacts
    <3>2. unverified' \in {unverified, IF Act.kind = "write" THEN unverified \cup {Act.file}
                                                             ELSE unverified}
      BY <1>2 DEF ExecutorFails
    <3> QED
      BY <1>1, <3>1, <3>2, Acting
  <2>3. EndRun(Noted(agent, Act), "FatalError") /\ UNCHANGED <<drainUsed, run, known, unread>>
    BY <1>2 DEF ExecutorFails
  <2> QED
    BY <1>1, <2>1, <2>2, <2>3, Acting, EndRunHolds DEF StopReasons, IInv, TypeOK, Budgets
<1>3. CASE PolicyDenied
  BY <1>1, <1>3, Acting, EndRunHolds DEF PolicyDenied, StopReasons, world, IInv, TypeOK, Budgets
<1>4. CASE RepeatedValidationRefused
  <2>1. turn' \in Turns /\ InTurn /\ UNCHANGED <<agent, world>>
    BY <1>1, <1>4, BatchTurns DEF RepeatedValidationRefused, AbortBatch
  <2> QED
    BY <1>1, <2>1, Acting, InTurnHolds DEF world
<1> QED
  BY <1>2, <1>3, <1>4

LEMMA FocusedReads == \A f \in Files : Read(f, TRUE) \in Actions
<1> SUFFICES ASSUME NEW f \in Files PROVE Read(f, TRUE) \in Actions
  OBVIOUS
<1> DEFINE reads == {Read(g, r) : g \in Files, r \in BOOLEAN}
           writes == {Write(g) : g \in Files}
<1>1. PICK ranged \in BOOLEAN : ranged = TRUE
  OBVIOUS
<1>2. Read(f, ranged) \in reads
  OBVIOUS
<1>3. Actions = (reads \cup writes) \cup {Validate}
  BY DEF Actions
<1> HIDE DEF reads, writes
<1> QED
  BY <1>1, <1>2, <1>3

LEMMA RereadsHold == IInv /\ (InjectReread \/ InjectedRereadFails) => IInv'
<1> SUFFICES ASSUME IInv, InjectReread \/ InjectedRereadFails PROVE IInv'
  OBVIOUS
<1> DEFINE f == agent.requirement.file
<1>1. pc = "acting" /\ turn.actions # <<>> /\ "reread" \in Verdicts(agent, profile, Act)
  BY DEF InjectReread, InjectedRereadFails, Acts, Act
<1>2. f \in Files
  <2>1. RereadPending(agent)
    BY <1>1, ActFacts, Acting, VerdictFacts
  <2> QED
    BY <1>1, <2>1, Acting DEF RereadPending, States
<1>3. CASE InjectReread
  <2>1. PICK satisfies \in BOOLEAN :
            agent' = [Noted(AfterRead(agent, f, satisfies), Read(f, TRUE))
                         EXCEPT !.parserFailures = 0]
    BY <1>3 DEF InjectReread
  <2> DEFINE r == AfterRead(agent, f, satisfies)
             n == Noted(r, Read(f, TRUE))
  <2>2. /\ r \in States /\ r.stall = 0 /\ r.recoverable = 0
        /\ r.queue = agent.queue /\ r.green = agent.green
    BY <1>1, <1>2, Acting, AfterReadFacts
  <2> HIDE DEF r
  <2>3. Read(f, TRUE) \in Actions
    BY <1>2, FocusedReads
  <2>4. /\ n \in States /\ n.stall = 0 /\ n.recoverable = 0
        /\ n.queue = agent.queue /\ n.green = agent.green
    BY <2>2, <2>3, NotedFacts
  <2> HIDE DEF n
  <2>5. agent' = [n EXCEPT !.parserFailures = 0]
    BY <2>1 DEF n, r
  <2>6. agent' \in States
    BY <2>4, <2>5, Updates, Zenon
  <2>7. Live(agent') /\ agent'.queue = <<>> /\ agent'.green = agent.green
    BY <1>1, <2>4, <2>5, <2>6, Acting DEF Live, States
  <2>8. unread' = NoFile
    <3>1. unread' = IF f = unread THEN NoFile ELSE unread
      BY <1>3 DEF InjectReread
    <3>2. unread # NoFile => f = unread
      BY <1>1, Acting DEF Requirement
    <3> QED
      BY <3>1, <3>2
  <2>9. turn' \in Turns /\ InTurn /\ unverified' = unverified /\ known' = known
    BY <1>1, <1>3, BatchTurns DEF InjectReread, AbortBatch
  <2> QED
    BY <1>1, <2>7, <2>8, <2>9, Acting, InTurnHolds
<1>4. CASE InjectedRereadFails
  <2>1. /\ AfterFailedRead(agent) \in States /\ AfterFailedRead(agent).green = agent.green
        /\ AfterFailedRead(agent).requirement = agent.requirement
    BY <1>1, Acting, AfterFailedReadFacts
  <2> QED
    BY <1>1, <1>4, <2>1, Acting, EndRunHolds
    DEF InjectedRereadFails, StopReasons, world, IInv, TypeOK, Budgets
<1> QED
  BY <1>3, <1>4

-----------------------------------------------------------------------------
(* The end of a turn *)

LEMMA QueueTypes ==
    FullQueue \in Seq(Plans) /\ \A followup \in BOOLEAN : PostEditQueue(followup) \in Seq(Plans)
<1>1. <<>> \in Seq(Plans) /\ <<"fmt">> \in Seq(Plans) /\ <<"followup">> \in Seq(Plans)
      /\ <<"full">> \in Seq(Plans)
  BY DEF Plans
<1> QED
  BY <1>1, ConcatProperties DEF FullQueue, PostEditQueue

LEMMA EndHolds == IInv /\ EndStep => IInv'
<1> SUFFICES ASSUME IInv, EndStep PROVE IInv'
  OBVIOUS
<1>1. pc = "acting"
  BY DEF EndStep, EndWithRecovery, EndAborted, EndWithEdit, EndOutstanding, EndGreen, EndIdle,
         TurnOver, Completed
<1>2. Live(agent) /\ agent \in States
  BY <1>1, Acting
<1>3. CASE EndWithRecovery
  <2> DEFINE a == [agent EXCEPT !.stall = 0]
  <2>1. a \in States
    BY <1>2, Updates, Literals, Zenon
  <2>2. /\ a.stall = 0 /\ a.recoverable = agent.recoverable
        /\ a.green = agent.green /\ a.requirement = agent.requirement
    BY <1>2 DEF States
  <2>3. EndTurn(a, 0) /\ UNCHANGED <<drainUsed, run, world>>
    BY <1>3 DEF EndWithRecovery
  <2> HIDE DEF a
  <2>4. Live(a)
    BY <1>2, <2>1, <2>2 DEF Live
  <2> QED
    BY <1>1, <2>2, <2>3, <2>4, EndTurnHolds
<1>4. CASE EndAborted
  BY <1>1, <1>2, <1>4, EndTurnHolds DEF EndAborted
<1>5. CASE EndWithEdit
  <2>1. PICK followup \in BOOLEAN :
            EndTurn([agent EXCEPT !.queue = PostEditQueue(followup)], 1)
    BY <1>5 DEF EndWithEdit
  <2> DEFINE a == [agent EXCEPT !.queue = PostEditQueue(followup)]
  <2>2. a \in States
    BY <1>2, QueueTypes, Updates, Zenon
  <2>3. Live(a) /\ a.green = agent.green /\ a.requirement = agent.requirement
    BY <1>2, <2>2 DEF Live, States
  <2>4. EndTurn(a, 1) /\ UNCHANGED <<drainUsed, run, world>>
    BY <1>5, <2>1 DEF EndWithEdit
  <2> HIDE DEF a
  <2> QED
    BY <1>1, <2>3, <2>4, EndTurnHolds
<1>6. CASE EndOutstanding
  <2> DEFINE a == [agent EXCEPT !.queue = FullQueue]
  <2>1. a \in States
    BY <1>2, QueueTypes, Updates, Zenon
  <2>2. Live(a) /\ a.green = agent.green /\ a.requirement = agent.requirement
    BY <1>2, <2>1 DEF Live, States
  <2>3. EndTurn(a, 1) /\ UNCHANGED <<drainUsed, run, world>>
    BY <1>6 DEF EndOutstanding
  <2> HIDE DEF a
  <2> QED
    BY <1>1, <2>2, <2>3, EndTurnHolds
<1>7. CASE EndGreen
  <2>1. EndRun(agent, "Success") /\ agent.green /\ UNCHANGED <<drainUsed, run, world>>
    BY <1>7 DEF EndGreen, MayFinish
  <2>2. drainUsed' \in Nat /\ drainUsed <= drainUsed' /\ drainUsed' <= VerifierDrainBudget
    BY <2>1 DEF IInv, TypeOK, Budgets
  <2>3. unverified' \subseteq Files /\ UNCHANGED <<run, known, unread>>
    BY <2>1 DEF IInv, TypeOK, world
  <2> QED
    BY <1>1, <1>2, <2>1, <2>2, <2>3, Acting, EndRunHolds DEF StopReasons
<1>8. CASE EndIdle
  <2> DEFINE a == [agent EXCEPT !.stall = @ + 1]
  <2>1. Guarded(a, a.stall, 2, 1) /\ UNCHANGED <<drainUsed, run, world>>
    BY <1>8 DEF EndIdle
  <2>2. /\ a \in States /\ a.stall = agent.stall + 1 /\ a.recoverable = agent.recoverable
        /\ a.green = agent.green /\ a.requirement = agent.requirement
    BY <1>2, StalledFacts DEF Live
  <2> HIDE DEF a
  <2>3. ~(a.stall >= 2) => Live(a)
    BY <1>2, <2>2 DEF Live, States
  <2> QED
    BY <1>1, <2>1, <2>2, <2>3, GuardedHolds
<1> QED
  BY <1>3, <1>4, <1>5, <1>6, <1>7, <1>8 DEF EndStep

-----------------------------------------------------------------------------
(* The environment *)

LEMMA FlagsHold == IInv /\ (Cancel \/ TimeExpires \/ UNCHANGED vars) => IInv'
<1> SUFFICES ASSUME IInv, Cancel \/ TimeExpires \/ UNCHANGED vars PROVE IInv'
  OBVIOUS
<1>1. /\ UNCHANGED <<profile, pc, stop, iteration, drainUsed, agent, turn, checkpoint, resumes>>
      /\ UNCHANGED <<unverified, known, unread>>
  BY DEF Cancel, TimeExpires, vars, world
<1>2. cancelled' \in BOOLEAN /\ timeUp' \in BOOLEAN
  BY DEF Cancel, TimeExpires, vars, IInv, TypeOK
<1>3. TypeOK'
  BY <1>1, <1>2 DEF IInv, TypeOK
<1>4. Streaks' /\ DrainedBeforeModel' /\ Accounted' /\ SuccessIsVerified'
  BY <1>1 DEF IInv, Streaks, Running, DrainedBeforeModel, Accounted, SuccessIsVerified
<1>5. Budgets' /\ RereadKept' /\ TokensLeft'
  BY <1>1 DEF IInv, Budgets, RereadKept, TokensLeft, TokensExhausted
<1> QED
  BY <1>3, <1>4, <1>5 DEF IInv

LEMMA CrashHolds == IInv /\ Crash => IInv'
<1> SUFFICES ASSUME IInv, Crash PROVE IInv'
  OBVIOUS
<1>1. agent' = NewState("Act") /\ agent' \in States /\ agent'.green = FALSE
  BY NewStateType DEF Crash, Modes, NewState
<1>2. /\ pc' = "crashed" /\ turn' = NoTurn
      /\ UNCHANGED <<stop, iteration, drainUsed, checkpoint>> /\ UNCHANGED <<run, world>>
  BY DEF Crash
<1>3. TypeOK'
  BY <1>1, <1>2, EmptySeq DEF IInv, TypeOK, NoTurn, Turns, run, world
<1>4. Streaks' /\ DrainedBeforeModel' /\ Accounted' /\ SuccessIsVerified'
  BY <1>1, <1>2 DEF Crash, IInv, Streaks, Running, DrainedBeforeModel, Accounted,
                    SuccessIsVerified, run, world
<1>5. Budgets' /\ RereadKept' /\ TokensLeft'
  BY <1>2 DEF IInv, Budgets, RereadKept, TokensLeft, run
<1> QED
  BY <1>3, <1>4, <1>5 DEF IInv

LEMMA OneMoreSession == \A v, r \in Nat : v * (r + 1) = v * r + v
  OBVIOUS

LEMMA ResumeHolds == IInv /\ Resume => IInv'
<1> SUFFICES ASSUME IInv, Resume PROVE IInv'
  OBVIOUS
<1>1. /\ agent' = checkpoint.agent /\ Live(agent') /\ checkpoint' = checkpoint
      /\ checkpoint.step \in Nat /\ checkpoint \in Checkpoints
  BY DEF Resume, Restored, IInv, Streaks, TypeOK, Checkpoints
<1>2. /\ pc' = "loop" /\ stop' = "none" /\ iteration' = checkpoint.step /\ drainUsed' = 0
      /\ resumes' = resumes + 1 /\ known' = unverified \cap checkpoint.known
      /\ unread' = NoFile
  BY DEF Resume
<1>3. TypeOK'
  <2>1. /\ UNCHANGED <<profile, turn, unverified>> /\ cancelled' = FALSE /\ timeUp' = FALSE
        /\ agent' \in States
    BY <1>1 DEF Resume, Live
  <2>2. known' \subseteq Files
    BY <1>2 DEF IInv, TypeOK
  <2>3. /\ iteration' \in Nat /\ drainUsed' \in Nat /\ resumes' \in Nat
        /\ turn' \in Turns /\ profile' \in RunProfiles
    BY <1>1, <1>2, <2>1 DEF IInv, TypeOK
  <2>4. checkpoint' \in Checkpoints /\ unverified' \subseteq Files
    BY <1>1, <2>1 DEF IInv, TypeOK
  <2> QED
    BY <1>2, <2>1, <2>2, <2>3, <2>4 DEF TypeOK
<1>4. Streaks' /\ DrainedBeforeModel' /\ Accounted' /\ SuccessIsVerified'
  BY <1>1, <1>2 DEF IInv, Streaks, Running, DrainedBeforeModel, Accounted, SuccessIsVerified
<1>5. Budgets'
  <2> DEFINE paid == VerifierDrainBudget * resumes
  <2>1. /\ paid \in Nat /\ MaxIterations \in Nat /\ VerifierDrainBudget \in Nat
        /\ drainUsed \in Nat /\ resumes \in Nat
    BY BudgetType DEF IInv, TypeOK
  <2>2. paid' = paid + VerifierDrainBudget
    BY <1>2, <2>1, OneMoreSession
  <2>3. /\ checkpoint.step <= MaxIterations + (paid + drainUsed)
        /\ drainUsed <= VerifierDrainBudget
    BY DEF IInv, Budgets
  <2>4. checkpoint.step <= MaxIterations + (paid + VerifierDrainBudget)
    BY <1>1, <2>1, <2>3, Spends
  <2> HIDE DEF paid
  <2>5. checkpoint.step <= MaxIterations + (paid' + 0)
    BY <1>1, <2>1, <2>2, <2>4
  <2> QED
    BY <1>1, <1>2, <2>1, <2>5 DEF Budgets, paid
<1>6. RereadKept' /\ TokensLeft'
  BY <1>2 DEF IInv, TypeOK, RereadKept, TokensLeft
<1> QED
  BY <1>3, <1>4, <1>5, <1>6 DEF IInv

-----------------------------------------------------------------------------
(* The theorems *)

LEMMA StepHolds == IInv /\ [Next]_vars => IInv'
<1> SUFFICES ASSUME IInv, [Next]_vars PROVE IInv'
  OBVIOUS
<1>1. CASE LoopStep
  BY <1>1, LoopHolds
<1>2. CASE CompletionStep
  BY <1>2, CompletionHolds
<1>3. CASE BatchStep
  BY <1>3, ReadsHold, EditsHold, ValidationsHold, RefusalsHold, RereadsHold DEF BatchStep
<1>4. CASE EndStep
  BY <1>4, EndHolds
<1>5. CASE Cancel \/ TimeExpires \/ UNCHANGED vars
  BY <1>5, FlagsHold
<1>6. CASE Crash
  BY <1>6, CrashHolds
<1>7. CASE Resume
  BY <1>7, ResumeHolds
<1> QED
  BY <1>1, <1>2, <1>3, <1>4, <1>5, <1>6, <1>7 DEF Next, RunStep

\* The inductive invariant: streaks, queue, green verdict, budgets and the reread that is
\* due stay consistent between memory and checkpoint through every turn, crash and resume.
THEOREM Invariant == Spec => []IInv
  BY InitHolds, StepHolds, PTL DEF Spec

\* AgentTaskState, turn and checkpoint keep their types: the streaks never exceed the
\* limits the loop guards compare them with.
THEOREM TypeCorrect == Spec => []TypeOK
<1>1. IInv => TypeOK
  BY DEF IInv
<1> QED
  BY <1>1, Invariant, PTL

\* A run that reports success has a passing validation after the last edit its state
\* accounts for, for any batches, budgets, profiles and number of resumes.
THEOREM Verified == Spec => []SuccessIsVerified
<1>1. IInv => SuccessIsVerified
  BY DEF IInv
<1> QED
  BY <1>1, Invariant, PTL

\* The model is asked, and its actions run, only when no validation is queued.
THEOREM Drained == Spec => []DrainedBeforeModel
<1>1. IInv => DrainedBeforeModel
  BY DEF IInv
<1> QED
  BY <1>1, Invariant, PTL

\* However often a run is resumed, each session adds at most its drain budget to the
\* iterations the model may use.
THEOREM Bounded == Spec => []IterationsBounded
<1>1. IInv => IterationsBounded
  <2> SUFFICES ASSUME IInv PROVE IterationsBounded
    OBVIOUS
  <2> DEFINE paid == VerifierDrainBudget * resumes
  <2>1. /\ paid \in Nat /\ MaxIterations \in Nat /\ VerifierDrainBudget \in Nat
        /\ iteration \in Nat /\ drainUsed \in Nat /\ resumes \in Nat
    BY BudgetType DEF IInv, TypeOK
  <2>2. iteration <= MaxIterations + (paid + drainUsed) /\ drainUsed <= VerifierDrainBudget
    BY DEF IInv, Budgets
  <2>3. VerifierDrainBudget * (resumes + 1) = paid + VerifierDrainBudget
    BY <2>1, OneMoreSession
  <2> HIDE DEF paid
  <2>4. iteration <= MaxIterations + (paid + VerifierDrainBudget)
    BY <2>1, <2>2
  <2> QED
    BY <2>3, <2>4 DEF IterationsBounded
<1> QED
  BY <1>1, Invariant, PTL

\* In the sandboxed profile no edit runs between a failed or rolled back edit and a read
\* of its file.
THEOREM Reread == Spec => RereadBeforeEdit
<1>1. IInv /\ [Next]_vars =>
          [(EditSucceeds \/ EditFails) /\ profile = "AutonomousSandboxed" => unread = NoFile]_vars
  <2> SUFFICES ASSUME IInv, EditSucceeds \/ EditFails, profile = "AutonomousSandboxed",
                      unread # NoFile
               PROVE  FALSE
    OBVIOUS
  <2>1. /\ pc = "acting" /\ turn.actions # <<>> /\ Act.kind = "write"
        /\ "allowed" \in Verdicts(agent, profile, Act)
    BY DEF EditSucceeds, EditFails, Acts, Act
  <2>2. ~RereadPending(agent)
    BY <2>1, ActFacts, Acting, VerdictFacts
  <2>3. agent.requirement = Requirement(unread)
    BY <2>1, Acting
  <2>4. agent.requirement.file = unread /\ agent.requirement.reread = FALSE
    BY <2>3 DEF Requirement
  <2> QED
    BY <2>2, <2>4 DEF RereadPending
<1> QED
  BY <1>1, Invariant, PTL DEF Spec, RereadBeforeEdit

\* Within a session the model is not asked again once a token budget other than zero is
\* spent, whatever kind of turn spent it.
THEOREM TokenBudget == ASSUME MaxTotalTokens # 0 PROVE Spec => TokenBudgetRespected
<1>1. IInv /\ [Next]_vars =>
          [pc = "loop" /\ pc' = "awaiting" /\ resumes = 0 => ~TokensExhausted(agent)]_vars
  BY DEF IInv, TokensLeft
<1> QED
  BY <1>1, Invariant, PTL DEF Spec, TokenBudgetRespected
=============================================================================

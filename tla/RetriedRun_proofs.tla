-------------------------- MODULE RetriedRun_proofs --------------------------
(***************************************************************************)
(* Proofs about RetriedRun, for any number of attempts, events, commands   *)
(* and kills: what the ledgers, cursors, trails, reports and receipts of a *)
(* run and of its attempts have to do with one another.                    *)
(*                                                                         *)
(* And about BenchmarkAttempts, for any number of attempts, turns, tokens  *)
(* and processes: what its reports say of the attempts and workspaces.     *)
(***************************************************************************)
EXTENDS RetriedRun, BenchmarkAttempts, SequenceTheorems, FiniteSetTheorems, WellFoundedInduction, TLAPS

(* Where the agent of an attempt works, or what it left is copied. *)
Attempting == {"running", "stopping", "summing", "copying", "filing", "artifacts"}
(* Where an attempt has been judged. *)
Judging == {"result", "retried", "judged", "resetting", "reset", "retrying", "bailing", "finishing",
            "closing", "receipt"}
(* Where the event that led here may not be in the trail yet. *)
Announced == {"evaluating", "retried", "judged", "reset", "retrying", "bailing", "beginning", "receipt"}
(* Where the attempt is in the run in part. *)
InFlight == {"copying", "filing", "artifacts"}

(* Where a command may be, and which directory it works in. *)
Placed ==
    /\ point \in {"idle", "beginning", "phase", "evaluating"} \cup Attempting \cup Judging
    /\ writing # Unset => \/ writing = work /\ point = "running"
                          \/ writing = Top /\ point \in Announced
    /\ point # "idle" => commands >= 1 /\ exit = Unset
    /\ point # "idle" /\ try = 0 => point \in {"running", "stopping", "summing"}
    /\ point \in Attempting /\ try # 0 => work = try
    /\ point \in {"resetting", "reset", "retrying"} => try # MaxTries
    /\ point \in Attempting /\ work = Top => dirs[Top].request = "agent"
    /\ point \in Attempting /\ work # Top => begun[work] >= 1
    /\ \A d \in RunDirs \ {Top} : dirs[d].request = "agent" \/ dirs[d].cursor # <<>> => begun[d] >= 1

(* What the agent has said in this command is in its directory, and, but for a resume, nothing else. *)
Said ==
    /\ point \in Attempting => (said > 0 \/ point # "running" => dirs[work].ledger # <<>>)
    /\ writing # Unset => /\ dirs[writing].ledger # <<>>
                          /\ Last(dirs[writing].ledger)[1] = commands
                          /\ writing = Top => topBy = commands
    /\ point \in Attempting /\ try # 0 =>
          LET d == dirs[work] IN
          /\ \A n \in DOMAIN d.ledger : d.ledger[n] = <<commands, work, n>>
          /\ Len(d.trail) = Len(d.ledger) - (IF writing = Unset THEN 0 ELSE 1)
          /\ \A n \in DOMAIN d.trail : d.trail[n] = d.ledger[n]
    /\ point \in {"summing"} \cup InFlight => dirs[work].cursor = dirs[work].ledger

(* The run ends with what is copied of the attempt. *)
InCopy ==
    point \in InFlight =>
        LET base == Len(dirs[Top].ledger) - copied IN
        /\ copied <= Len(dirs[work].ledger) /\ base >= 0
        /\ \A n \in 1..copied : dirs[Top].ledger[base + n] = dirs[work].ledger[n]
        /\ point # "copying" => copied = Len(dirs[work].ledger)

(* An event is not of the future: no one will be recorded that is the same. *)
Bygone(e) ==
    /\ e[1] <= commands
    /\ e[1] = commands =>
          /\ e[3] <= Len(dirs[e[2]].ledger)
          /\ try # 0 => e[2] <= try /\ (point = "beginning" => e[2] < try)

(* Nothing in a ledger, a cursor or a trail is of the future, and the consumers have taken what
   their cursor says. *)
Recorded ==
    /\ \A d \in RunDirs : \A n \in DOMAIN dirs[d].ledger : Bygone(dirs[d].ledger[n])
    /\ \A e \in taken : Bygone(e)
    /\ \A d \in RunDirs : \A n \in DOMAIN dirs[d].cursor : dirs[d].cursor[n] \in taken
    /\ \A h \in halves : h[2][1] <= commands /\ (point # "idle" => h[2][1] < commands)

(* A ledger has no event twice. *)
Once ==
    /\ \A d \in RunDirs \ {Top} : \A n \in DOMAIN dirs[d].ledger :
          dirs[d].ledger[n][2] = d /\ dirs[d].ledger[n][3] = n
    /\ \A m, n \in DOMAIN dirs[Top].ledger : dirs[Top].ledger[m] = dirs[Top].ledger[n] => m = n
    /\ try # 0 => \A n \in DOMAIN dirs[Top].ledger :
          LET e == dirs[Top].ledger[n] IN
          e[1] = commands /\ e[2] # Top =>
              /\ point \in {"running", "stopping", "summing"} => e[2] < try
              /\ point = "copying" /\ e[2] = try => e[3] <= copied

(* A ledger has its cursor, as far as it goes, or has begun otherwise. *)
Reaches(d) ==
    /\ Len(dirs[d].cursor) <= Len(dirs[d].ledger)
    /\ \A n \in 1..Len(dirs[d].cursor) : dirs[d].cursor[n] = dirs[d].ledger[n]

(* A ledger that begins otherwise than its cursor; that of the run is never emptied under it. *)
Diverged(d) ==
    dirs[d].cursor # <<>> /\ IF dirs[d].ledger = <<>> THEN d # Top ELSE dirs[d].ledger[1] # dirs[d].cursor[1]

(* One or the other; and what the run has of an attempt is within the cursor of the attempt. *)
Followed ==
    /\ \A d \in RunDirs : Reaches(d) \/ Diverged(d)
    /\ \A n \in DOMAIN dirs[Top].ledger :
          LET e == dirs[Top].ledger[n] IN
          e[2] # Top /\ Reaches(e[2]) /\ e[3] \in DOMAIN dirs[e[2]].ledger
              /\ dirs[e[2]].ledger[e[3]] = e => e[3] <= Len(dirs[e[2]].cursor)

(* What a cursor has before it is not taken, but for what is copied without its cursor. *)
Untaken ==
    \A d \in RunDirs : \A n \in DOMAIN dirs[d].ledger :
        Reaches(d) /\ n > Len(dirs[d].cursor) /\ dirs[d].ledger[n] \in taken =>
            \/ dirs[d].ledger[n] \in uncovered
            \/ d = Top /\ point \in InFlight /\ dirs[d].ledger[n] \in EventsOf(work)

(* The run's own ledger begins with the attempt whose cursor is filed first. *)
FiledFirst ==
    /\ \A d \in RunDirs \ {Top} : Reaches(d) \/ begun[d] > 1
    /\ Reaches(Top) \/ filed > 1
    /\ exit = "stuck" => ~Reaches(work)
    /\ filed = 0 =>
          /\ dirs[Top].ledger # <<>> \/ point \in InFlight => dirs[1].cursor # <<>>
          /\ dirs[Top].request = "agent" => dirs[Top].ledger # <<>>
          /\ point # "idle" => try <= 1 /\ point \in {"beginning"} \cup Attempting
          /\ try # 0 /\ point \in {"running", "stopping"} => dirs[Top].ledger = <<>> \/ Diverged(1)
          /\ try # 0 /\ point = "summing" => dirs[Top].ledger = <<>>
          /\ point \in InFlight => Len(dirs[Top].ledger) = copied

(* What was judged, and what not yet. *)
JudgedAsFound ==
    /\ PassIsDeserved
    /\ point \in {"beginning", "phase", "evaluating"} \cup Attempting => passed = Unset /\ spoke = Unset
    /\ point \in Judging => passed \in BOOLEAN
    /\ point \in {"closing", "receipt"} => dirs[Top].request = "run"
                                           /\ dirs[Top].summary.passed = passed

(* Whether this command has changed the run already. *)
Changed ==
    \/ try > 1 \/ point \in {"filing", "artifacts", "phase", "evaluating"} \cup Judging
    \/ point = "copying" /\ copied > 0

(* The receipt has the hashes of the run as it is, or the ledger of the run has grown since. *)
Proven ==
    /\ point # "idle" /\ Changed => topBy = commands
    /\ proof # Unset =>
          /\ proof.by <= commands /\ (point # "idle" => proof.by < commands)
          /\ proof.by <= topBy
          /\ topBy = proof.by => Hashed(dirs[Top]) = proof.files /\ dirs[Top].request = "run"
          /\ topBy # proof.by => Len(dirs[Top].ledger) > Len(proof.files[4])
    /\ exit = "passed" /\ try # 0 => proof # Unset /\ proof.by = commands /\ dirs[Top].summary.passed

(* The inductive invariant of a run, but for the verify store of its workspace. *)
RunProgressInv == /\ RunProgressTypeOK /\ Placed /\ Said /\ InCopy /\ Recorded /\ Once /\ Followed /\ Untaken
          /\ FiledFirst /\ JudgedAsFound /\ Proven /\ TrailFollowsLedger /\ EffectsOnce

-----------------------------------------------------------------------------
(* What the assumptions give. *)
LEMMA RunSorts ==
    /\ MaxTries \in Nat \ {0} /\ MaxCommands \in Nat /\ MaxKills \in Nat
    /\ Top \in RunDirs /\ 1 \in RunDirs /\ Top = 0 /\ Unset \notin RunDirs /\ Unset \notin BOOLEAN /\ Unset \notin Receipts
    /\ Unset \notin Outputs /\ MaxValidations \in Nat
    /\ Unset \notin {"agent", "run", "passed", "failed", "stuck", "killed"}
    /\ \A d \in RunDirs : d \in Nat /\ d <= MaxTries
    /\ \A d \in Nat : d <= MaxTries => d \in RunDirs
  BY TriesAssumption, CommandsAssumption, UnsetAssumption DEF RunDirs, Top

(* An event is its three parts. *)
LEMMA EventParts ==
    /\ \A e \in RunEvents : /\ e[1] \in 1..MaxCommands /\ e[2] \in RunDirs /\ e[3] \in Nat
                            /\ e = <<e[1], e[2], e[3]>>
    /\ \A c, d, n : <<c, d, n>>[1] = c /\ <<c, d, n>>[2] = d /\ <<c, d, n>>[3] = n
    /\ \A c \in 1..MaxCommands, d \in RunDirs, n \in Nat : <<c, d, n>> \in RunEvents
  BY DEF RunEvents

(* What the type of a directory gives. *)
LEMMA DirParts ==
    ASSUME RunProgressTypeOK, NEW d \in RunDirs
    PROVE  /\ dirs[d] \in RunDirectories
           /\ dirs[d].ledger \in Seq(RunEvents) /\ dirs[d].trail \in Seq(RunEvents)
           /\ dirs[d].cursor \in Seq(RunEvents)
           /\ Len(dirs[d].ledger) \in Nat /\ DOMAIN dirs[d].ledger = 1..Len(dirs[d].ledger)
           /\ Len(dirs[d].trail) \in Nat /\ DOMAIN dirs[d].trail = 1..Len(dirs[d].trail)
           /\ Len(dirs[d].cursor) \in Nat /\ DOMAIN dirs[d].cursor = 1..Len(dirs[d].cursor)
           /\ \A n \in DOMAIN dirs[d].ledger : dirs[d].ledger[n] \in RunEvents
           /\ \A n \in DOMAIN dirs[d].cursor : dirs[d].cursor[n] \in RunEvents
           /\ \A n \in DOMAIN dirs[d].trail : dirs[d].trail[n] \in RunEvents
           /\ dirs[d].ledger = <<>> <=> Len(dirs[d].ledger) = 0
           /\ dirs[d].cursor = <<>> <=> Len(dirs[d].cursor) = 0
           /\ dirs[d].trail = <<>> <=> Len(dirs[d].trail) = 0
           /\ dirs[d].request \in Requests /\ dirs[d].checkpoint \in BOOLEAN /\ dirs[d].summary \in Summaries
<1>1. dirs[d] \in RunDirectories
  BY DEF RunProgressTypeOK
<1>2. dirs[d].ledger \in Seq(RunEvents) /\ dirs[d].trail \in Seq(RunEvents) /\ dirs[d].cursor \in Seq(RunEvents)
      /\ dirs[d].request \in Requests /\ dirs[d].checkpoint \in BOOLEAN /\ dirs[d].summary \in Summaries
  BY <1>1 DEF RunDirectories
<1> QED
  BY <1>1, <1>2, EmptySeq

(* And what that of an event in a ledger. *)
LEMMA LedgerEvent ==
    ASSUME RunProgressTypeOK, NEW d \in RunDirs, NEW n \in DOMAIN dirs[d].ledger, NEW e, e = dirs[d].ledger[n]
    PROVE  e \in RunEvents /\ e[2] \in RunDirs /\ e[3] \in Nat
<1>1. e \in RunEvents
  BY ZenonT(30), DirParts
<1> QED
  BY <1>1, EventParts

(* What the run has of an attempt, said of one event. *)
LEMMA FollowedSays ==
    ASSUME Followed, NEW n \in DOMAIN dirs[Top].ledger, NEW e, e = dirs[Top].ledger[n], e[2] # Top, Reaches(e[2]),
           e[3] \in DOMAIN dirs[e[2]].ledger, dirs[e[2]].ledger[e[3]] = e
    PROVE  e[3] <= Len(dirs[e[2]].cursor)
  BY ZenonT(30) DEF Followed

(* IsPrefix, element by element. *)
LEMMA FollowsReaches ==
    ASSUME RunProgressTypeOK, NEW d \in RunDirs
    PROVE  Follows(d) <=> Reaches(d)
<1> DEFINE s == dirs[d].cursor  t == dirs[d].ledger
<1>1. s \in Seq(RunEvents) /\ t \in Seq(RunEvents) /\ Len(s) \in Nat /\ Len(t) \in Nat
  BY DirParts
<1>2. Follows(d) <=> Len(s) <= Len(t) /\ SubSeq(s, 1, Len(s)) = SubSeq(t, 1, Len(s))
  BY DEF Follows, IsPrefix
<1>3. Reaches(d) <=> Len(s) <= Len(t) /\ \A n \in 1..Len(s) : s[n] = t[n]
  BY DEF Reaches
<1> HIDE DEF s, t
<1>4. CASE Len(s) <= Len(t)
  <2>1. /\ SubSeq(s, 1, Len(s)) = [i \in 1..Len(s) |-> s[i]]
        /\ SubSeq(t, 1, Len(s)) = [i \in 1..Len(s) |-> t[i]]
    BY <1>1, <1>4
  <2>2. (SubSeq(s, 1, Len(s)) = SubSeq(t, 1, Len(s))) <=> \A n \in 1..Len(s) : s[n] = t[n]
    <3>1. ASSUME \A n \in 1..Len(s) : s[n] = t[n] PROVE SubSeq(s, 1, Len(s)) = SubSeq(t, 1, Len(s))
      BY <2>1, <3>1
    <3>2. ASSUME SubSeq(s, 1, Len(s)) = SubSeq(t, 1, Len(s)), NEW n \in 1..Len(s) PROVE s[n] = t[n]
      <4>1. SubSeq(s, 1, Len(s))[n] = s[n] /\ SubSeq(t, 1, Len(s))[n] = t[n]
        BY <2>1
      <4> QED
        BY <3>2, <4>1
    <3> QED
      BY <3>1, <3>2
  <2> QED
    BY <1>2, <1>3, <1>4, <2>2
<1>5. CASE ~(Len(s) <= Len(t))
  BY <1>2, <1>3, <1>5
<1> QED
  BY <1>4, <1>5

(* A set of numbers up to N, and the j numbers after N. *)
LEMMA CountMore ==
    ASSUME NEW N \in Nat, NEW j \in Nat, NEW K \in SUBSET (1..N)
    PROVE  /\ IsFiniteSet(K \cup ((N + 1)..(N + j))) /\ Cardinality(K) \in Nat
           /\ Cardinality(K \cup ((N + 1)..(N + j))) = Cardinality(K) + j
<1>1. IsFiniteSet(K) /\ Cardinality(K) \in Nat
  <2>1. IsFiniteSet(1..N)
    BY FS_Interval
  <2> QED
    BY <2>1, FS_Subset, FS_CardinalityType
<1>2. IsFiniteSet((N + 1)..(N + j)) /\ Cardinality((N + 1)..(N + j)) = j
  <2>1. N + 1 \in Int /\ N + j \in Int /\ (N + 1 > N + j <=> j = 0) /\ (N + j) - (N + 1) + 1 = j
    OBVIOUS
  <2>2. /\ IsFiniteSet((N + 1)..(N + j))
        /\ Cardinality((N + 1)..(N + j)) = IF N + 1 > N + j THEN 0 ELSE (N + j) - (N + 1) + 1
    BY <2>1, FS_Interval
  <2> QED
    BY <2>1, <2>2
<1>3. K \cap ((N + 1)..(N + j)) = {}
  OBVIOUS
<1>4. /\ IsFiniteSet(K \cup ((N + 1)..(N + j)))
      /\ Cardinality(K \cup ((N + 1)..(N + j))) =
            Cardinality(K) + Cardinality((N + 1)..(N + j)) - Cardinality(K \cap ((N + 1)..(N + j)))
  BY <1>1, <1>2, FS_Union
<1>5. Cardinality(K \cap ((N + 1)..(N + j))) = 0
  BY <1>3, FS_EmptySet
<1> QED
  BY <1>1, <1>2, <1>4, <1>5

(* A trail that grows by the M events after the Nth tells those as well. *)
LEMMA ToldMore ==
    ASSUME NEW N \in Nat, NEW M \in Nat, NEW K \in SUBSET (1..N), NEW t, NEW t2, NEW L,
           Tells(t, K, L),
           Len(t2) = Len(t) + M, \A i \in 1..Len(t) : t2[i] = t[i],
           \A j \in 1..M : t2[Len(t) + j] = L[N + j]
    PROVE  Tells(t2, K \cup ((N + 1)..(N + M)), L)
<1> USE DEF RankIn, Tells
<1>1. IsFiniteSet(K) /\ Cardinality(K) \in Nat /\ Cardinality(K \cup ((N + 1)..(N + M))) = Cardinality(K) + M
  <2>1. IsFiniteSet(1..N)
    BY SMTT(30), FS_Interval
  <2> QED
    BY ZenonT(30), <2>1, CountMore, FS_Subset
<1>2. ASSUME NEW n \in K PROVE t2[Cardinality({m \in K \cup ((N + 1)..(N + M)) : m <= n})] = L[n]
  <2> DEFINE early == {m \in K : m <= n}
  <2>1. {m \in K \cup ((N + 1)..(N + M)) : m <= n} = early
    OBVIOUS
  <2>2. early \in SUBSET K /\ n \in early
    OBVIOUS
  <2>2a. t[Cardinality(early)] = L[n]
    OBVIOUS
  <2> HIDE DEF early
  <2>3. IsFiniteSet(early) /\ Cardinality(early) <= Cardinality(K) /\ Cardinality(early) \in Nat
    BY <1>1, <2>2, FS_Subset, FS_CardinalityType
  <2>4. Cardinality(early) # 0
    BY <2>2, <2>3, FS_EmptySet
  <2>5. Cardinality(early) \in 1..Len(t)
    BY <1>1, <2>3, <2>4
  <2> QED
    BY <2>1, <2>2a, <2>5
<1>3. ASSUME NEW j \in 1..M PROVE t2[Cardinality({m \in K \cup ((N + 1)..(N + M)) : m <= N + j})] = L[N + j]
  <2>0. j \in Nat /\ j <= M
    OBVIOUS
  <2>1. {m \in K \cup ((N + 1)..(N + M)) : m <= N + j} = K \cup ((N + 1)..(N + j))
    <3>1. \A m \in K : m \in Nat /\ m <= N
      OBVIOUS
    <3>2. ASSUME NEW k \in {m \in K \cup ((N + 1)..(N + M)) : m <= N + j} PROVE k \in K \cup ((N + 1)..(N + j))
      BY <2>0
    <3>3. ASSUME NEW k \in K \cup ((N + 1)..(N + j)) PROVE k \in K \cup ((N + 1)..(N + M)) /\ k <= N + j
      BY <2>0, <3>1
    <3> QED
      BY <3>2, <3>3
  <2>2. Cardinality(K \cup ((N + 1)..(N + j))) = Cardinality(K) + j
    BY <2>0, CountMore
  <2> QED
    BY <2>1, <2>2
<1>4. \A n \in (N + 1)..(N + M) : n - N \in 1..M /\ n = N + (n - N)
  OBVIOUS
<1>5. ASSUME NEW n \in (N + 1)..(N + M)
      PROVE t2[Cardinality({m \in K \cup ((N + 1)..(N + M)) : m <= n})] = L[n]
  <2>1. PICK j \in 1..M : n = N + j
    BY <1>4
  <2> QED
    BY <1>3, <2>1
<1> QED
  BY <1>1, <1>2, <1>5

(* Two of the conjuncts of FiledFirst are what StuckAsKnown says. *)
LEMMA StuckKnown == RunProgressInv => StuckAsKnown
  BY DEF RunProgressInv, FiledFirst, StuckAsKnown, RunProgressTypeOK

(* A run that is hashed as its receipt says has a ledger as long as it was. *)
LEMMA HashedSince ==
    ASSUME RunProgressInv, proof # Unset
    PROVE  Hashed(dirs[Top]) = proof.files <=> topBy = proof.by
<1> USE DEF RunProgressInv
<1>1. ASSUME topBy # proof.by, Hashed(dirs[Top]) = proof.files PROVE FALSE
  <2>1. proof \in Receipts
    BY <1>1 DEF RunProgressTypeOK
  <2>2. Len(dirs[Top].ledger) > Len(proof.files[4])
    BY <1>1 DEF Proven
  <2>3. proof.files[4] = dirs[Top].ledger
    BY <1>1 DEF Hashed
  <2> QED
    BY <2>2, <2>3, DirParts, RunSorts
<1> QED
  BY <1>1 DEF Proven

(* Before the first command. *)
LEMMA RunInitProgress == RunInit => RunProgressInv
<1> SUFFICES ASSUME RunInit PROVE RunProgressInv
  OBVIOUS
<1> USE RunSorts
<1>1. EmptyDir \in RunDirectories /\ \A d \in RunDirs : dirs[d] = EmptyDir
  BY EmptySeq DEF RunInit, EmptyDir, RunDirectories, Requests, Summaries
<1>2. RunProgressTypeOK
  <2>1. dirs \in [RunDirs -> RunDirectories] /\ begun \in [RunDirs -> Nat]
    BY <1>1 DEF RunInit
  <2>2. evalFile \in BOOLEAN \cup {Unset} /\ passed \in BOOLEAN \cup {Unset}
    BY DEF RunInit
  <2>3. /\ commands \in 0..MaxCommands /\ topBy \in 0..commands /\ kills \in 0..MaxKills
        /\ said \in Nat /\ copied \in Nat /\ filed \in Nat /\ try \in RunDirs
    BY DEF RunInit
  <2>4. /\ objective \in {"challenge", "script", "plain"}
        /\ writing \in RunDirs \cup {Unset} /\ work \in RunDirs /\ stopped \in BOOLEAN /\ solved \in BOOLEAN
        /\ exit = Unset /\ spoke = Unset /\ proof = Unset
    BY DEF RunInit
  <2>5. /\ halves \subseteq RunDirs \X RunEvents /\ uncovered \subseteq RunEvents
        /\ taken \subseteq RunEvents /\ twice \subseteq taken
    BY DEF RunInit
  <2> QED
    BY <2>1, <2>2, <2>3, <2>4, <2>5 DEF RunProgressTypeOK
<1>3. \A d \in RunDirs : /\ dirs[d].ledger = <<>> /\ dirs[d].cursor = <<>> /\ dirs[d].trail = <<>>
                         /\ dirs[d].request = Unset
                         /\ Len(dirs[d].ledger) = 0 /\ Len(dirs[d].cursor) = 0 /\ Len(dirs[d].trail) = 0
                         /\ DOMAIN dirs[d].ledger = {} /\ DOMAIN dirs[d].cursor = {}
  BY <1>1 DEF EmptyDir
<1>4. Placed /\ Said /\ InCopy
  BY <1>3, UnsetAssumption DEF RunInit, Placed, Said, InCopy, Attempting, Judging, Announced, InFlight, Requests
<1>5. Recorded /\ Once
  BY <1>3 DEF RunInit, Recorded, Once
<1>6. Followed /\ Untaken
  BY <1>3 DEF RunInit, Followed, Untaken, Reaches
<1>7. FiledFirst
  BY <1>3 DEF RunInit, FiledFirst, Reaches, InFlight, Attempting
<1>8. JudgedAsFound
  BY DEF RunInit, JudgedAsFound, PassIsDeserved, Judging, Attempting
<1>9. Proven
  BY DEF RunInit, Proven
<1>10. TrailFollowsLedger
  <2> SUFFICES ASSUME NEW d \in RunDirs
               PROVE  Tells(dirs[d].trail, Told(d), dirs[d].ledger)
    BY DEF TrailFollowsLedger
  <2>1. Settled(d) = 0
    BY <1>3 DEF RunInit, Settled
  <2>2. Told(d) = {}
    BY <2>1 DEF Told
  <2> QED
    BY <1>3, <2>2, FS_EmptySet DEF Tells
<1>11. EffectsOnce
  BY DEF RunInit, EffectsOnce
<1> QED
  BY <1>2, <1>4, <1>5, <1>6, <1>7, <1>8, <1>9, <1>10, <1>11 DEF RunProgressInv

-----------------------------------------------------------------------------
(* Steps that leave the events of every directory alone *)

(* No event is recorded, told or taken. *)
EventsStay ==
    /\ \A d \in RunDirs : /\ dirs'[d].ledger = dirs[d].ledger /\ dirs'[d].cursor = dirs[d].cursor
                          /\ dirs'[d].trail = dirs[d].trail
    /\ taken' = taken /\ twice' = twice

(* Events do not become of the future while no ledger changes. *)
LEMMA DatesStay ==
    ASSUME RunProgressTypeOK, EventsStay, NEW e \in RunEvents, Bygone(e), commands' = commands, try' = try,
           point' = "beginning" => point = "beginning"
    PROVE  Bygone(e)'
  BY EventParts DEF Bygone, EventsStay

(* Nor does a cursor lose its ledger. *)
LEMMA ReachesStay ==
    ASSUME EventsStay, NEW d \in RunDirs
    PROVE  (Reaches(d)' <=> Reaches(d)) /\ (Diverged(d)' <=> Diverged(d))
  BY DEF EventsStay, Reaches, Diverged

(* Where such a step may lead. *)
QuietMove ==
    \/ point' = point /\ copied' = copied
    \/ point = "running" /\ point' = "stopping" /\ said > 0
    \/ point = "summing" /\ point' = "copying" /\ copied' = 0 /\ try # 0
    \/ point = "filing" /\ point' = "artifacts" /\ copied' = copied
    \/ point \in {"stopping", "summing"} /\ point' = "idle"
    \/ point \in {"phase", "evaluating"} \cup Judging /\ point' \in {"idle", "evaluating"} \cup Judging

(* A step that records, tells and takes nothing keeps what is said of events. *)
LEMMA QuietStep ==
    ASSUME RunProgressInv, EventsStay, QuietMove, uncovered' = uncovered, halves' = halves, commands' = commands,
           try' = try, work' = work, writing = Unset, writing' = Unset, said' = said
    PROVE  Said' /\ InCopy' /\ Recorded' /\ Once' /\ Followed' /\ Untaken' /\ TrailFollowsLedger' /\ EffectsOnce'
<1>0. RunProgressTypeOK /\ Said /\ InCopy /\ Recorded /\ Once /\ Followed /\ Untaken /\ TrailFollowsLedger /\ EffectsOnce
      /\ work \in RunDirs /\ Top \in RunDirs /\ Placed
  BY RunSorts DEF RunProgressInv, RunProgressTypeOK
<1>1. /\ \A d \in RunDirs : /\ dirs'[d].ledger = dirs[d].ledger /\ dirs'[d].cursor = dirs[d].cursor
                            /\ dirs'[d].trail = dirs[d].trail
      /\ taken' = taken /\ twice' = twice
  BY DEF EventsStay
<1>2. Said'
  BY <1>0, <1>1 DEF Said, Attempting, InFlight, Judging, QuietMove
<1>3. InCopy'
  <2>1. CASE point \in InFlight /\ copied' = copied /\ (point = "filing" \/ point' = point)
    BY <1>0, <1>1, <2>1 DEF InCopy, InFlight
  <2>2. CASE point' = "copying" /\ copied' = 0
    BY <1>0, <1>1, <2>2, DirParts DEF InCopy, InFlight
  <2>3. CASE point' \notin InFlight
    BY <2>3 DEF InCopy
  <2> QED
    BY <2>1, <2>2, <2>3 DEF InFlight, Attempting, Judging, QuietMove
<1>4. Recorded'
  <2>1. \A e \in RunEvents : Bygone(e) => Bygone(e)'
    BY <1>0, DatesStay DEF Attempting, Judging, QuietMove
  <2>2. ASSUME NEW d \in RunDirs, NEW n \in DOMAIN dirs'[d].ledger PROVE Bygone(dirs[d].ledger[n])'
    <3>1. n \in DOMAIN dirs[d].ledger /\ dirs[d].ledger[n] \in RunEvents
      BY <1>0, <1>1, DirParts
    <3>2. Bygone(dirs[d].ledger[n])
      BY <1>0, <3>1 DEF Recorded
    <3>3. PICK e \in RunEvents : e = dirs[d].ledger[n] /\ e = dirs'[d].ledger[n]
      BY <1>1, <3>1
    <3> QED
      BY <2>1, <3>2, <3>3
  <2>3. \A e \in taken : Bygone(e)'
    BY <1>0, <2>1 DEF Recorded, RunProgressTypeOK
  <2>4. \A h \in halves' : h[2][1] <= commands' /\ (point' # "idle" => h[2][1] < commands')
    BY <1>0 DEF Recorded, Placed, Judging, QuietMove
  <2>5. \A d \in RunDirs : \A n \in DOMAIN dirs'[d].cursor : dirs'[d].cursor[n] \in taken'
    BY <1>0, <1>1 DEF Recorded
  <2>6. (\A e \in taken : Bygone(e))'
    BY <1>1, <2>3
  <2>7. (\A d \in RunDirs : \A n \in DOMAIN dirs[d].ledger : Bygone(dirs[d].ledger[n]))'
    BY <2>2
  <2> QED
    BY <2>7, <2>6, <2>4, <2>5 DEF Recorded
<1>5. Once'
  <2>1. \A d \in RunDirs \ {Top} : \A n \in DOMAIN dirs'[d].ledger :
            dirs'[d].ledger[n][2] = d /\ dirs'[d].ledger[n][3] = n
    BY <1>0, <1>1 DEF Once
  <2>2. \A m, n \in DOMAIN dirs'[Top].ledger : dirs'[Top].ledger[m] = dirs'[Top].ledger[n] => m = n
    BY <1>0, <1>1 DEF Once
  <2>3. ASSUME try' # 0, NEW n \in DOMAIN dirs'[Top].ledger, dirs'[Top].ledger[n][1] = commands',
               dirs'[Top].ledger[n][2] # Top
        PROVE  /\ point' \in {"running", "stopping", "summing"} => dirs'[Top].ledger[n][2] < try'
               /\ point' = "copying" /\ dirs'[Top].ledger[n][2] = try' => dirs'[Top].ledger[n][3] <= copied'
    <3>1. /\ point \in {"running", "stopping", "summing"} => dirs[Top].ledger[n][2] < try
          /\ point = "copying" /\ dirs[Top].ledger[n][2] = try => dirs[Top].ledger[n][3] <= copied
      BY <1>0, <1>1, <2>3 DEF Once
    <3>2. /\ dirs'[Top].ledger[n] = dirs[Top].ledger[n] /\ dirs[Top].ledger[n][2] \in Int
          /\ try \in Int /\ try' = try
      <4>1. n \in DOMAIN dirs[Top].ledger /\ dirs'[Top].ledger[n] = dirs[Top].ledger[n]
        BY <1>0, <1>1, <2>3
      <4>2. dirs[Top].ledger[n] \in RunEvents
        BY <1>0, <4>1, DirParts
      <4>3. dirs[Top].ledger[n][2] \in RunDirs /\ try \in RunDirs
        BY <1>0, <4>2, EventParts DEF RunProgressTypeOK
      <4>4. \A d \in RunDirs : d \in Int
        BY RunSorts
      <4> QED
        BY <4>1, <4>3, <4>4
    <3>3. CASE point' \in {"running", "stopping", "summing"}
      BY <3>1, <3>2, <3>3 DEF Attempting, InFlight, Judging, QuietMove
    <3>4. CASE point' = "copying"
      BY SMTT(30), <3>1, <3>2, <3>4 DEF Attempting, InFlight, Judging, QuietMove
    <3> QED
      BY <3>3, <3>4
  <2> QED
    BY <2>1, <2>2, <2>3 DEF Once
<1>6. Followed'
  <2>1. ASSUME NEW n \in DOMAIN dirs[Top].ledger PROVE dirs[Top].ledger[n][2] \in RunDirs
    BY <1>0, DirParts, EventParts
  <2> QED
    BY SMTT(60), <1>0, <1>1, <2>1, ReachesStay DEF Followed
<1>7. Untaken'
  BY <1>0, <1>1, ReachesStay DEF Untaken, InFlight, Attempting, EventsOf, Judging, QuietMove
<1>8. TrailFollowsLedger'
  <2>1. \A d \in RunDirs : Settled(d)' = Settled(d)
    BY <1>0, <1>1, DirParts DEF Settled, InFlight, Attempting, Judging, QuietMove
  <2>2. \A d \in RunDirs : Told(d)' = Told(d)
    BY <1>1, <2>1 DEF Told
  <2> QED
    BY <1>0, <1>1, <2>2 DEF TrailFollowsLedger
<1>9. EffectsOnce'
  BY <1>0, <1>1 DEF EffectsOnce
<1> QED
  BY <1>2, <1>3, <1>4, <1>5, <1>6, <1>7, <1>8, <1>9

(* And it keeps the order in which attempts are filed. *)
LEMMA FiledStays ==
    ASSUME RunProgressInv, EventsStay, QuietMove, filed' = filed, begun' = begun, try' = try, work' = work,
           exit' = "stuck" => exit = "stuck" \/ ~Reaches(work),
           filed = 0 /\ dirs'[Top].request = "agent" => dirs[Top].request = "agent" \/ dirs[Top].ledger # <<>>
    PROVE  FiledFirst'
<1>0. /\ RunProgressTypeOK /\ Said /\ Placed /\ FiledFirst /\ work \in RunDirs /\ Top \in RunDirs /\ 1 \in RunDirs
      /\ try \in RunDirs
  BY RunSorts DEF RunProgressInv, RunProgressTypeOK
<1>1. \A d \in RunDirs : (Reaches(d)' <=> Reaches(d)) /\ (Diverged(d)' <=> Diverged(d))
                         /\ dirs'[d].ledger = dirs[d].ledger /\ dirs'[d].cursor = dirs[d].cursor
  BY ReachesStay DEF EventsStay
<1>2. (\A d \in RunDirs \ {Top} : Reaches(d) \/ begun[d] > 1)'
  BY <1>0, <1>1 DEF FiledFirst
<1>3. (Reaches(Top) \/ filed > 1)' /\ (exit = "stuck" => ~Reaches(work))'
  BY <1>0, <1>1 DEF FiledFirst
<1>4. ASSUME filed = 0
      PROVE  /\ dirs'[Top].ledger # <<>> \/ point' \in InFlight => dirs'[1].cursor # <<>>
             /\ dirs'[Top].request = "agent" => dirs'[Top].ledger # <<>>
             /\ point' # "idle" => try' <= 1 /\ point' \in {"beginning"} \cup Attempting
             /\ try' # 0 /\ point' \in {"running", "stopping"} => dirs'[Top].ledger = <<>> \/ Diverged(1)'
             /\ try' # 0 /\ point' = "summing" => dirs'[Top].ledger = <<>>
             /\ point' \in InFlight => Len(dirs'[Top].ledger) = copied'
  <2>1. /\ dirs[Top].ledger # <<>> \/ point \in InFlight => dirs[1].cursor # <<>>
        /\ dirs[Top].request = "agent" => dirs[Top].ledger # <<>>
        /\ point # "idle" => try <= 1 /\ point \in {"beginning"} \cup Attempting
        /\ try # 0 /\ point \in {"running", "stopping"} => dirs[Top].ledger = <<>> \/ Diverged(1)
        /\ try # 0 /\ point = "summing" => dirs[Top].ledger = <<>>
        /\ point \in InFlight => Len(dirs[Top].ledger) = copied
        /\ dirs'[Top].request = "agent" => dirs[Top].ledger # <<>>
    BY <1>0, <1>4 DEF FiledFirst
  <2>2. CASE point' = point /\ copied' = copied
    BY <1>0, <1>1, <2>1, <2>2
  <2>3. CASE point = "running" /\ point' = "stopping"
    BY <1>0, <1>1, <2>1, <2>3 DEF InFlight, Attempting
  <2>4. CASE point = "summing" /\ point' = "copying" /\ copied' = 0 /\ try # 0
    <3>1. work = try /\ try = 1
      <4>1. work = try
        BY <1>0, <2>4 DEF Placed, Attempting
      <4>2. try \in Nat /\ try <= 1 /\ try # 0
        BY <1>0, <2>1, <2>4, RunSorts
      <4> QED
        BY <4>1, <4>2
    <3>2. dirs[1].cursor # <<>>
      BY <1>0, <2>4, <3>1 DEF Said, Attempting
    <3> QED
      BY <1>0, <1>1, <2>1, <2>4, <3>1, <3>2, DirParts DEF InFlight, Attempting
  <2>5. CASE point = "filing" /\ point' = "artifacts" /\ copied' = copied
    BY <1>0, <1>1, <2>1, <2>5 DEF InFlight, Attempting
  <2>6. CASE point' = "idle"
    BY <1>0, <1>1, <2>1, <2>6 DEF InFlight, Attempting
  <2>7. CASE point \in {"phase", "evaluating"} \cup Judging
    BY <2>1, <2>7 DEF Judging, Attempting
  <2> QED
    BY <2>2, <2>3, <2>4, <2>5, <2>6, <2>7 DEF QuietMove
<1> QED
  BY <1>2, <1>3, <1>4 DEF FiledFirst

(* Who changed the run last. *)
TopNoted == topBy' = IF dirs'[Top] # dirs[Top] THEN commands' ELSE topBy

(* The agent saves its checkpoint. *)
LEMMA SaveCheckpointRun == ASSUME RunProgressInv, SaveCheckpoint, TopNoted PROVE RunProgressInv'
<1> USE DEF RunProgressInv, TopNoted, SaveCheckpoint, placeVars, judgeVars, pastVars, takenVars
<1>1. work \in RunDirs /\ Top \in RunDirs
  BY RunSorts DEF RunProgressTypeOK
<1>2. /\ dirs' \in [RunDirs -> RunDirectories]
      /\ \A d \in RunDirs : /\ dirs'[d].ledger = dirs[d].ledger /\ dirs'[d].cursor = dirs[d].cursor
                            /\ dirs'[d].trail = dirs[d].trail /\ dirs'[d].request = dirs[d].request
                            /\ dirs'[d].summary = dirs[d].summary /\ (d # work => dirs'[d] = dirs[d])
  BY <1>1 DEF RunProgressTypeOK, RunDirectories
<1>3. EventsStay /\ QuietMove
  BY <1>2 DEF EventsStay, QuietMove
<1>4. RunProgressTypeOK'
  BY <1>2 DEF RunProgressTypeOK
<1>5. Placed'
  BY <1>1, <1>2 DEF Placed
<1>6. FiledFirst'
  BY <1>1, <1>2, <1>3, FiledStays
<1>7. JudgedAsFound'
  BY <1>1, <1>2 DEF JudgedAsFound, PassIsDeserved
<1>8. Proven'
  BY SMTT(30), <1>1, <1>2 DEF Proven, Changed, Hashed, Placed, Attempting, RunProgressTypeOK
<1> QED
  BY <1>3, <1>4, <1>5, <1>6, <1>7, <1>8, QuietStep

(* The agent stops. *)
LEMMA AgentStopsRun == ASSUME RunProgressInv, AgentStops, TopNoted PROVE RunProgressInv'
<1> USE DEF RunProgressInv, TopNoted, AgentStops, CommandGoes, Goes, pastVars, takenVars
<1>1. EventsStay /\ QuietMove
  BY DEF EventsStay, QuietMove
<1>2. stopped' \in BOOLEAN /\ solved' \in BOOLEAN
  BY DEF RunProgressTypeOK
<1>3. RunProgressTypeOK'
  BY <1>2 DEF RunProgressTypeOK
<1>4. Placed'
  BY DEF Placed, Attempting
<1>5. FiledFirst'
  BY <1>1, FiledStays
<1>6. JudgedAsFound'
  BY DEF JudgedAsFound, PassIsDeserved, Attempting, Judging
<1>7. Proven'
  BY DEF Proven, Changed, Hashed, Judging
<1> QED
  BY <1>1, <1>3, <1>4, <1>5, <1>6, <1>7, QuietStep

(* The consumers do not find their cursor in the ledger. *)
LEMMA StuckRun == ASSUME RunProgressInv, StopConsumers, ~Follows(work), TopNoted PROVE RunProgressInv'
<1> USE DEF RunProgressInv, TopNoted, StopConsumers, CommandReturns, CommandEnds, Goes, judgeVars, pastVars, takenVars
<1>1. EventsStay /\ QuietMove /\ writing = Unset
  BY DEF EventsStay, QuietMove, Placed, Announced
<1>2. work \in RunDirs /\ ~Reaches(work)
  BY FollowsReaches DEF RunProgressTypeOK
<1>3. RunProgressTypeOK'
  BY DEF RunProgressTypeOK
<1>4. Placed'
  BY <1>1 DEF Placed, Attempting
<1>5. FiledFirst'
  BY <1>1, <1>2, FiledStays
<1>6. JudgedAsFound'
  BY DEF JudgedAsFound, PassIsDeserved, Attempting, Judging
<1>7. Proven'
  BY RunSorts DEF Proven, Changed, Hashed, Judging, RunProgressTypeOK
<1> QED
  BY <1>1, <1>3, <1>4, <1>5, <1>6, <1>7, QuietStep

(* The summary of the agent is written, which ends a resume. *)
LEMMA WriteAgentSummaryRun == ASSUME RunProgressInv, WriteAgentSummary, TopNoted PROVE RunProgressInv'
<1> USE DEF RunProgressInv, TopNoted, WriteAgentSummary, CommandReturns, CommandEnds, Goes, judgeVars, pastVars, takenVars
<1>1. work \in RunDirs /\ Top \in RunDirs /\ writing = Unset
  BY RunSorts DEF RunProgressTypeOK, Placed, Announced
<1>2. Summary(Unset) \in Summaries
  BY RunSorts DEF RunProgressTypeOK, Placed, Summary, Summaries
<1>3. /\ dirs' \in [RunDirs -> RunDirectories]
      /\ \A d \in RunDirs : /\ dirs'[d].ledger = dirs[d].ledger /\ dirs'[d].cursor = dirs[d].cursor
                            /\ dirs'[d].trail = dirs[d].trail /\ dirs'[d].request = dirs[d].request
                            /\ (d # work => dirs'[d] = dirs[d])
  BY ZenonT(30), <1>1, <1>2 DEF RunProgressTypeOK, RunDirectories
<1>4. EventsStay /\ QuietMove
  BY <1>1, <1>3 DEF EventsStay, QuietMove
<1>5. RunProgressTypeOK'
  BY <1>3 DEF RunProgressTypeOK
<1>6. Placed'
  BY <1>1, <1>3 DEF Placed, Attempting
<1>7. FiledFirst'
  BY <1>1, <1>3, <1>4, RunSorts, FiledStays
<1>8. JudgedAsFound'
  BY <1>1, <1>3 DEF JudgedAsFound, PassIsDeserved, Attempting, Judging
<1>9. Proven'
  <2>1. proof # Unset /\ topBy = proof.by => dirs'[Top] = dirs[Top]
    BY <1>1, <1>3 DEF Proven, Placed, Attempting
  <2>2. /\ point = "summing" /\ commands \in Nat /\ topBy \in Nat /\ topBy <= commands /\ (~Changed' \/ Changed)
    BY DEF RunProgressTypeOK, Changed, Judging, Attempting
  <2> QED
    <3>1. point # "idle" /\ Changed => topBy = commands
      BY DEF Proven
    <3>2. topBy' = topBy \/ topBy' = commands
      OBVIOUS
    <3>3. point' # "idle" /\ Changed' => topBy' = commands'
      BY <2>2, <3>1, <3>2
    <3>4. ASSUME proof # Unset
          PROVE  /\ proof.by < commands /\ proof.by <= topBy'
                 /\ topBy' = proof.by => Hashed(dirs'[Top]) = proof.files /\ dirs'[Top].request = "run"
                 /\ topBy' # proof.by => Len(dirs'[Top].ledger) > Len(proof.files[4])
      <4>1. proof.by < commands /\ proof.by <= topBy /\ proof.by \in Nat
        BY <2>2, <3>4 DEF Proven, RunProgressTypeOK, Receipts
      <4>2. CASE topBy = proof.by
        BY <2>1, <3>4, <4>1, <4>2 DEF Proven
      <4>3. CASE topBy # proof.by
        BY <1>1, <1>3, <2>2, <3>2, <3>4, <4>1, <4>3 DEF Proven
      <4> QED
        BY <4>2, <4>3
    <3>5. exit' = "passed" /\ try' # 0 => FALSE
      BY RunSorts DEF Placed
    <3> QED
      BY <2>2, <3>3, <3>4, <3>5 DEF Proven
<1> QED
  BY <1>1, <1>4, <1>5, <1>6, <1>7, <1>8, <1>9, QuietStep

(* The reports of the attempt replace those of the run. *)
LEMMA CopyFilesRun == ASSUME RunProgressInv, CopyFiles, TopNoted PROVE RunProgressInv'
<1> USE DEF RunProgressInv, TopNoted, CopyFiles, CommandGoes, Goes, judgeVars, pastVars, takenVars
<1>1. work \in RunDirs /\ Top \in RunDirs /\ work # Top /\ work = try /\ commands >= 1
  BY RunSorts DEF RunProgressTypeOK, Placed, Attempting
<1>2. /\ dirs' \in [RunDirs -> RunDirectories]
      /\ \A d \in RunDirs : /\ dirs'[d].ledger = dirs[d].ledger /\ dirs'[d].cursor = dirs[d].cursor
                            /\ dirs'[d].trail = dirs[d].trail
                            /\ (d # Top => dirs'[d] = dirs[d])
  <2> DEFINE new == [dirs[Top] EXCEPT !.request = dirs[work].request, !.summary = dirs[work].summary,
                                      !.checkpoint = dirs[Top].checkpoint \/ dirs[work].checkpoint]
  <2>1. dirs[Top] \in RunDirectories /\ dirs[work] \in RunDirectories /\ dirs \in [RunDirs -> RunDirectories]
    BY <1>1 DEF RunProgressTypeOK
  <2>2. new \in RunDirectories /\ new.ledger = dirs[Top].ledger /\ new.cursor = dirs[Top].cursor
        /\ new.trail = dirs[Top].trail
    BY <2>1 DEF RunDirectories
  <2>3. dirs' = [dirs EXCEPT ![Top] = new]
    BY <1>1, <2>1 DEF RunDirectories
  <2> HIDE DEF new, RunProgressInv, CopyFiles
  <2>4. dirs' \in [RunDirs -> RunDirectories] /\ dirs'[Top] = new /\ \A d \in RunDirs : d # Top => dirs'[d] = dirs[d]
    BY <1>1, <2>1, <2>2, <2>3
  <2> QED
    BY <2>2, <2>4
<1>3. EventsStay /\ QuietMove
  BY <1>2 DEF EventsStay, QuietMove
<1>4. RunProgressTypeOK'
  BY <1>2 DEF RunProgressTypeOK
<1>5. Placed'
  BY <1>1, <1>2 DEF Placed, Attempting
<1>6. FiledFirst'
  <2>1. filed = 0 => dirs[Top].ledger # <<>>
    BY <1>1, DirParts DEF FiledFirst, InCopy, Said, InFlight, Attempting
  <2> QED
    BY <1>1, <1>3, <2>1, FiledStays
<1>7. JudgedAsFound'
  BY <1>1, <1>2 DEF JudgedAsFound, PassIsDeserved, Attempting, Judging
<1>8. Proven'
  BY SMTT(30), <1>1, <1>2, RunSorts DEF Proven, Changed, Hashed, Judging, RunProgressTypeOK, Placed, Attempting
<1> QED
  BY <1>1, <1>3, <1>4, <1>5, <1>6, <1>7, <1>8, QuietStep

(* The receipt and the ledger of the run, while the ledger may only grow and what a command
   changes is noted. *)
LEMMA ProvenStays ==
    ASSUME RunProgressInv, TopNoted, point # "idle", proof' = proof, commands' = commands,
           Len(dirs'[Top].ledger) \in Nat, Len(dirs'[Top].ledger) >= Len(dirs[Top].ledger),
           \/ dirs'[Top] = dirs[Top] \/ topBy = commands \/ dirs[Top].request # "run"
           \/ Len(dirs'[Top].ledger) > Len(dirs[Top].ledger),
           point' # "idle" /\ Changed' => Changed \/ dirs'[Top] # dirs[Top],
           ~(exit' = "passed" /\ try' # 0)
    PROVE  Proven'
<1>1. RunProgressTypeOK /\ Proven /\ Top \in RunDirs /\ topBy \in Nat /\ commands \in Nat /\ topBy <= commands
  <2>1. RunProgressTypeOK /\ Proven /\ Top \in RunDirs /\ commands \in 0..MaxCommands /\ topBy \in 0..commands
    BY RunSorts DEF RunProgressInv, RunProgressTypeOK
  <2> QED
    BY <2>1, RunSorts
<1>2. topBy' = topBy \/ topBy' = commands
  BY DEF TopNoted
<1>3. Len(dirs[Top].ledger) \in Nat
  BY <1>1, DirParts
<1>4. point' # "idle" /\ Changed' => topBy' = commands'
  BY <1>1 DEF Proven, TopNoted
<1>5. ASSUME proof # Unset
      PROVE  /\ proof.by < commands /\ proof.by <= topBy'
             /\ topBy' = proof.by => Hashed(dirs'[Top]) = proof.files /\ dirs'[Top].request = "run"
             /\ topBy' # proof.by => Len(dirs'[Top].ledger) > Len(proof.files[4])
  <2>1. proof \in Receipts
    BY <1>1, <1>5 DEF RunProgressTypeOK
  <2>2. /\ proof.by \in Nat /\ proof.files[4] \in Seq(RunEvents) /\ Len(proof.files[4]) \in Nat
    BY <2>1 DEF Receipts
  <2>3. proof.by < commands /\ proof.by <= topBy
    BY <1>1, <1>5 DEF Proven
  <2>4. CASE topBy = proof.by
    <3>1. Hashed(dirs[Top]) = proof.files /\ dirs[Top].request = "run"
      BY <1>1, <1>5, <2>4 DEF Proven
    <3>2. proof.files[4] = dirs[Top].ledger
      BY <3>1 DEF Hashed
    <3>3. CASE dirs'[Top] = dirs[Top]
      BY <2>3, <2>4, <3>1, <3>3 DEF TopNoted
    <3>4. CASE dirs'[Top] # dirs[Top]
      <4>1. topBy # commands /\ dirs[Top].request = "run" /\ topBy' = commands
        BY <1>1, <2>2, <2>3, <2>4, <3>1, <3>4 DEF TopNoted
      <4>2. Len(dirs'[Top].ledger) > Len(dirs[Top].ledger)
        BY <3>4, <4>1
      <4> QED
        BY <1>1, <1>3, <2>2, <2>3, <2>4, <3>2, <4>1, <4>2
    <3> QED
      BY <3>3, <3>4
  <2>5. CASE topBy # proof.by
    <3>1. Len(dirs[Top].ledger) > Len(proof.files[4])
      BY <1>1, <1>5, <2>5 DEF Proven
    <3>2. topBy' # proof.by /\ proof.by <= topBy'
      BY <1>1, <1>2, <2>2, <2>3, <2>5
    <3> QED
      BY SMTT(30), <1>3, <2>2, <2>3, <3>1, <3>2
  <2> QED
    BY <2>3, <2>4, <2>5
<1> QED
  BY <1>1, <1>4, <1>5 DEF Proven

(* Judgements leave the directories alone. *)
LEMMA EvaluateRun == ASSUME RunProgressInv, Evaluate \/ TakeStopReason \/ Conclude \/ BailOut, TopNoted PROVE RunProgressInv'
<1>1. /\ writing = Unset /\ writing' = Unset /\ said' = said /\ copied' = copied /\ commands' = commands
      /\ work' = work /\ try' = try /\ dirs' = dirs /\ taken' = taken /\ twice' = twice /\ proof' = proof
      /\ UNCHANGED pastVars /\ objective' = objective /\ stopped' = stopped /\ solved' = solved
      /\ exit' \in {exit, "failed"}
  BY DEF Evaluate, TakeStopReason, Conclude, BailOut, CommandGoes, CommandReturns, CommandEnds, Goes, judgeVars, takenVars, pastVars
<1>2. /\ point \in {"evaluating"} \cup Judging /\ point' \in {"idle"} \cup Judging
      /\ point' \notin {"closing", "receipt", "reset"} /\ (point' = "idle" => exit' = "failed") /\ (point' # "idle" => exit' = exit)
      /\ point' \in {"resetting", "retrying"} => try # MaxTries
  BY DEF Evaluate, TakeStopReason, Conclude, BailOut, CommandGoes, CommandReturns, CommandEnds, Goes, Reported, Judging
<1>3. EventsStay /\ QuietMove /\ topBy' = topBy
  BY <1>1, <1>2 DEF EventsStay, QuietMove, TopNoted
<1>4. /\ RunProgressTypeOK /\ Placed /\ JudgedAsFound /\ Proven /\ Top \in RunDirs /\ UNCHANGED <<kills, halves, uncovered, begun, filed>>
  BY <1>1, RunSorts DEF RunProgressInv, pastVars
<1>5. /\ passed' \in BOOLEAN \cup {Unset} /\ evalFile' \in BOOLEAN \cup {Unset}
      /\ spoke' \in {Unset, "told", "stale", "broke"}
      /\ point' \in Judging => passed' \in BOOLEAN
      /\ PassIsDeserved'
  <2>1. CASE Evaluate
    <3>1. PICK how \in {"stdout", "exit", "broke", "file"} :
             /\ evalFile' = IF how = "file" THEN solved ELSE evalFile
             /\ spoke' = CASE how \in {"exit", "broke"} /\ evalFile # Unset -> "stale"
                           [] how = "broke" /\ evalFile = Unset -> "broke"
                           [] OTHER -> "told"
             /\ passed' = Verdict(how, evalFile')
      BY <2>1 DEF Evaluate
    <3>2. solved \in BOOLEAN /\ evalFile \in BOOLEAN \cup {Unset} /\ Unset \notin BOOLEAN
      BY <1>4, RunSorts DEF RunProgressTypeOK
    <3>3. CASE how = "stdout"
      BY <1>1, <3>1, <3>2, <3>3 DEF Verdict, PassIsDeserved
    <3>4. CASE how = "file"
      BY <1>1, <3>1, <3>2, <3>4 DEF Verdict, PassIsDeserved
    <3>5. CASE how = "exit"
      BY <1>1, <3>1, <3>2, <3>5 DEF Verdict, PassIsDeserved
    <3>6. CASE how = "broke"
      BY <1>1, <3>1, <3>2, <3>6 DEF Verdict, PassIsDeserved
    <3> QED
      BY <3>1, <3>3, <3>4, <3>5, <3>6
  <2>2. CASE TakeStopReason
    BY <1>1, <1>4, <2>2 DEF TakeStopReason, JudgedAsFound, PassIsDeserved, RunProgressTypeOK
  <2>3. CASE Conclude \/ BailOut
    <3>1. point \in Judging /\ UNCHANGED <<passed, evalFile, spoke>>
      BY <2>3 DEF Conclude, BailOut, judgeVars, Judging
    <3> QED
      BY <1>1, <1>4, <3>1 DEF JudgedAsFound, PassIsDeserved, RunProgressTypeOK
  <2> QED
    BY <2>1, <2>2, <2>3
<1>6. RunProgressTypeOK'
  BY <1>1, <1>3, <1>4, <1>5 DEF RunProgressTypeOK
<1>7. Placed'
  BY <1>1, <1>2, <1>4 DEF Placed, Attempting, Judging
<1>8. FiledFirst'
  BY <1>1, <1>2, <1>3, <1>4, FiledStays
<1>9. JudgedAsFound'
  BY <1>1, <1>2, <1>5 DEF JudgedAsFound, Attempting, Judging
<1>10. Proven'
  BY <1>1, <1>2, <1>4, DirParts, RunSorts, ProvenStays DEF Changed, Judging, Placed
<1> QED
  BY <1>1, <1>3, <1>4, <1>6, <1>7, <1>8, <1>9, <1>10, QuietStep DEF RunProgressInv

(* The run writes its own request and summary. *)
LEMMA WriteRunFilesRun == ASSUME RunProgressInv, WriteRunFiles, TopNoted PROVE RunProgressInv'
<1>1. /\ writing = Unset /\ writing' = Unset /\ said' = said /\ copied' = copied /\ commands' = commands
      /\ work' = work /\ try' = try /\ taken' = taken /\ twice' = twice /\ exit' = exit
      /\ UNCHANGED judgeVars /\ UNCHANGED pastVars /\ point = "finishing" /\ point' = "closing"
  BY DEF WriteRunFiles, CommandGoes, Goes, takenVars
<1>2. RunProgressTypeOK /\ Placed /\ JudgedAsFound /\ Proven /\ Top \in RunDirs
  BY RunSorts DEF RunProgressInv
<1>3. Summary(passed) \in Summaries /\ Summary(passed).passed = passed
  <2>1. commands \in 1..MaxCommands /\ stopped \in BOOLEAN /\ passed \in BOOLEAN \cup {Unset}
    BY <1>1, <1>2, RunSorts DEF RunProgressTypeOK, Placed
  <2> QED
    BY <2>1 DEF Summary, Summaries
<1>4. /\ dirs' \in [RunDirs -> RunDirectories] /\ \A d \in RunDirs : d # Top => dirs'[d] = dirs[d]
      /\ dirs'[Top].ledger = dirs[Top].ledger /\ dirs'[Top].cursor = dirs[Top].cursor
      /\ dirs'[Top].trail = dirs[Top].trail
      /\ dirs'[Top].request = "run" /\ dirs'[Top].summary = Summary(passed)
  <2> DEFINE new == [dirs[Top] EXCEPT !.request = "run", !.summary = Summary(passed)]
  <2>1. dirs[Top] \in RunDirectories /\ dirs \in [RunDirs -> RunDirectories]
    BY <1>2 DEF RunProgressTypeOK
  <2>2. new \in RunDirectories /\ new.ledger = dirs[Top].ledger /\ new.cursor = dirs[Top].cursor
        /\ new.trail = dirs[Top].trail /\ new.request = "run" /\ new.summary = Summary(passed)
    BY <1>3, <2>1 DEF RunDirectories, Requests
  <2>3. dirs' = [dirs EXCEPT ![Top] = new]
    BY <1>2, <2>1 DEF WriteRunFiles, RunDirectories
  <2> HIDE DEF new
  <2>4. dirs' \in [RunDirs -> RunDirectories] /\ dirs'[Top] = new /\ \A d \in RunDirs : d # Top => dirs'[d] = dirs[d]
    BY <1>2, <2>1, <2>2, <2>3
  <2> QED
    BY <2>2, <2>4
<1>5. EventsStay /\ QuietMove
  BY <1>1, <1>4 DEF EventsStay, QuietMove, Judging
<1>6. RunProgressTypeOK'
  <2>1. topBy' \in 0..commands'
    BY <1>1, <1>2, RunSorts DEF TopNoted, RunProgressTypeOK
  <2> QED
    BY <1>1, <1>2, <1>4, <2>1 DEF RunProgressTypeOK, judgeVars, pastVars
<1>7. Placed'
  BY <1>1, <1>2, <1>4, RunSorts DEF Placed, Attempting, Judging, pastVars
<1>8. FiledFirst'
  BY <1>1, <1>2, <1>4, <1>5, FiledStays, RunSorts DEF pastVars, Placed
<1>9. JudgedAsFound'
  BY <1>1, <1>2, <1>3, <1>4 DEF JudgedAsFound, Attempting, Judging, judgeVars, PassIsDeserved
<1>10. Proven'
  <2>1. topBy = commands
    BY <1>1, <1>2 DEF Proven, Changed, Judging
  <2>2. exit' # "passed"
    BY <1>1, <1>2, RunSorts DEF Placed
  <2> QED
    BY <1>1, <1>2, <1>4, <2>1, <2>2, DirParts, ProvenStays DEF Changed, Judging, judgeVars
<1> QED
  BY <1>1, <1>5, <1>6, <1>7, <1>8, <1>9, <1>10, QuietStep DEF RunProgressInv, pastVars

(* The receipt takes the hashes of the run as it is, if there is one. *)
LEMMA WriteReceiptRun ==
    ASSUME RunProgressInv, HashedLog \in Outputs \cup {Unset}, WriteReceipt, TopNoted PROVE RunProgressInv'
<1>1. /\ writing = Unset /\ writing' = Unset /\ said' = said /\ copied' = copied /\ commands' = commands
      /\ work' = work /\ try' = try /\ taken' = taken /\ twice' = twice /\ dirs' = dirs
      /\ UNCHANGED <<objective, stopped, solved, spoke, passed, evalFile>>
      /\ UNCHANGED pastVars /\ point = "receipt" /\ point' = "idle"
      /\ exit' = (IF passed /\ ~store.torn THEN "passed" ELSE "failed")
      /\ IF store.torn THEN proof' = proof
         ELSE proof' = [by |-> commands, files |-> Hashed(dirs[Top]), log |-> HashedLog, passed |-> passed]
  BY DEF WriteReceipt, CommandReturns, CommandEnds, Goes, takenVars, pastVars
<1>2. RunProgressTypeOK /\ Placed /\ JudgedAsFound /\ Proven /\ Top \in RunDirs
  BY RunSorts DEF RunProgressInv
<1>3. passed \in BOOLEAN /\ commands \in 1..MaxCommands /\ commands \in Nat
  BY <1>1, <1>2, RunSorts DEF RunProgressTypeOK, Placed, JudgedAsFound, Judging
<1>4. ~store.torn => proof' \in Receipts /\ proof' # Unset /\ proof'.by = commands /\ proof'.files = Hashed(dirs[Top])
  <2>1. Hashed(dirs[Top]) \in Requests \X Summaries \X Seq(RunEvents) \X Seq(RunEvents)
    BY <1>2, DirParts DEF Hashed
  <2> QED
    BY <1>1, <1>3, <2>1, RunSorts DEF Receipts
<1>4a. proof' \in Receipts \cup {Unset} /\ exit' \in {"passed", "failed"} /\ (exit' = "passed" => passed /\ ~store.torn)
  BY <1>1, <1>2, <1>4 DEF RunProgressTypeOK
<1>5. EventsStay /\ QuietMove /\ topBy' = topBy
  BY <1>1 DEF EventsStay, QuietMove, Judging, TopNoted
<1>6. RunProgressTypeOK'
  <2>1. exit' \in {Unset, "passed", "failed", "stuck", "killed"}
    BY <1>4a
  <2> QED
    BY <1>1, <1>2, <1>3, <1>4a, <1>5, <2>1 DEF RunProgressTypeOK, pastVars
<1>7. Placed'
  BY <1>1, <1>2 DEF Placed, Attempting, pastVars
<1>8. FiledFirst'
  BY <1>1, <1>2, <1>4a, <1>5, FiledStays DEF pastVars
<1>9. JudgedAsFound'
  BY <1>1, <1>2, <1>3 DEF JudgedAsFound, Attempting, Judging, PassIsDeserved
<1>10. Proven'
  <2>1. topBy = commands /\ dirs[Top].request = "run" /\ dirs[Top].summary.passed = passed
    BY <1>1, <1>2 DEF Proven, Changed, Judging, JudgedAsFound
  <2>2. CASE store.torn
    <3>1. exit' # "passed" /\ proof' = proof
      BY <1>1, <1>4a, <2>2
    <3> QED
      BY <1>1, <1>2, <1>3, <1>5, <2>1, <3>1 DEF Proven, Changed
  <2>3. CASE ~store.torn
    BY <1>1, <1>3, <1>4, <1>4a, <1>5, <2>1, <2>3 DEF Proven
  <2> QED
    BY <2>2, <2>3
<1> QED
  BY <1>1, <1>5, <1>6, <1>7, <1>8, <1>9, <1>10, QuietStep DEF RunProgressInv, pastVars

-----------------------------------------------------------------------------
(* Commands begin and die *)

(* A command is of a later date than every event. *)
LEMMA StartCommandRun == ASSUME RunProgressInv, StartRun \/ (\E d \in RunDirs : ResumeRun(d)), TopNoted PROVE RunProgressInv'
<1>1. /\ point = "idle" /\ commands < MaxCommands /\ commands' = commands + 1 /\ exit' = Unset
      /\ said' = 0 /\ copied' = 0 /\ passed' = Unset /\ spoke' = Unset /\ stopped' = FALSE /\ solved' = FALSE
      /\ dirs' = dirs /\ writing' = writing /\ objective' = objective /\ evalFile' = evalFile /\ proof' = proof
      /\ UNCHANGED pastVars /\ taken' = taken /\ twice' = twice
      /\ UNCHANGED <<kills, halves, uncovered, begun, filed>>
  BY DEF StartRun, ResumeRun, StartCommand, takenVars, pastVars
<1>2. \/ point' = "beginning" /\ try' = 1 /\ work' = work
      \/ /\ point' = "running" /\ try' = 0 /\ work' \in RunDirs /\ dirs[work'].request = "agent"
  BY DEF StartRun, ResumeRun, Goes
<1>3. /\ RunProgressTypeOK /\ Placed /\ Said /\ InCopy /\ Recorded /\ Once /\ Followed /\ Untaken
      /\ FiledFirst /\ JudgedAsFound /\ Proven /\ TrailFollowsLedger /\ EffectsOnce /\ Top \in RunDirs /\ 1 \in RunDirs /\ 0 \in RunDirs
      /\ writing = Unset /\ commands \in Nat /\ topBy \in 0..commands
  <2>1. RunProgressTypeOK /\ Placed
    BY DEF RunProgressInv
  <2>2. writing = Unset /\ commands \in 0..MaxCommands /\ topBy \in 0..commands
    BY <1>1, <2>1, RunSorts DEF Placed, RunProgressTypeOK, Announced
  <2> QED
    BY <2>2, RunSorts DEF RunProgressInv
<1>4. topBy' = topBy
  BY <1>1 DEF TopNoted
<1>5. RunProgressTypeOK'
  <2>1. commands' \in 0..MaxCommands /\ topBy' \in 0..commands'
    BY <1>1, <1>3, <1>4, RunSorts
  <2>2. try' \in RunDirs /\ work' \in RunDirs
    BY <1>2, <1>3 DEF RunProgressTypeOK
  <2>3. /\ passed' \in BOOLEAN \cup {Unset} /\ evalFile' \in BOOLEAN \cup {Unset} /\ stopped' \in BOOLEAN /\ solved' \in BOOLEAN
        /\ said' \in Nat /\ copied' \in Nat /\ filed' \in Nat /\ exit' = Unset /\ spoke' = Unset
    <3>1. evalFile \in BOOLEAN \cup {Unset} /\ filed \in Nat
      BY <1>3 DEF RunProgressTypeOK
    <3>2. filed' = filed /\ evalFile' = evalFile
      BY <1>1
    <3>3. passed' = Unset /\ stopped' = FALSE /\ solved' = FALSE /\ said' = 0 /\ copied' = 0 /\ exit' = Unset /\ spoke' = Unset
      BY <1>1
    <3> QED
      BY <3>1, <3>2, <3>3
  <2>4. /\ dirs' \in [RunDirs -> RunDirectories] /\ objective' \in {"challenge", "script", "plain"}
        /\ writing' \in RunDirs \cup {Unset} /\ proof' \in Receipts \cup {Unset} /\ kills' \in 0..MaxKills
        /\ begun' \in [RunDirs -> Nat] /\ halves' \subseteq RunDirs \X RunEvents /\ uncovered' \subseteq RunEvents
        /\ taken' \subseteq RunEvents /\ twice' \subseteq taken'
    BY <1>1, <1>3 DEF RunProgressTypeOK
  <2> QED
    BY <2>1, <2>2, <2>3, <2>4 DEF RunProgressTypeOK
<1>6. Placed'
  BY <1>1, <1>2, <1>3 DEF Placed, Attempting, Judging
<1>7. Said' /\ InCopy'
  BY <1>1, <1>2, <1>3, RunSorts DEF Said, InCopy, Attempting, InFlight
<1>8. \A e \in RunEvents : Bygone(e) => Bygone(e)' /\ e[1] < commands'
  BY <1>1, <1>3, EventParts DEF Bygone
<1>9. Recorded'
  <2>1. ASSUME NEW d \in RunDirs, NEW n \in DOMAIN dirs[d].ledger PROVE Bygone(dirs[d].ledger[n])'
    <3>1. PICK e \in RunEvents : e = dirs[d].ledger[n] /\ e = dirs'[d].ledger[n]
      BY <1>1, <1>3, DirParts
    <3>2. Bygone(e)
      BY <1>3, <3>1 DEF Recorded
    <3> QED
      BY <1>8, <3>1, <3>2
  <2>2. \A e \in taken : Bygone(e)'
    BY <1>3, <1>8 DEF Recorded, RunProgressTypeOK
  <2>3. \A h \in halves : h[2][1] \in Nat
    BY <1>3, EventParts DEF RunProgressTypeOK
  <2>4. \A h \in halves' : h[2][1] < commands'
    BY <1>1, <1>3, <2>3 DEF Recorded
  <2>5. \A h \in halves' : h[2][1] <= commands'
    BY <1>1, <1>3, <2>3, <2>4
  <2>6. (\A d \in RunDirs : \A n \in DOMAIN dirs[d].ledger : Bygone(dirs[d].ledger[n]))'
    BY <1>1, <2>1
  <2>7. (\A e \in taken : Bygone(e))'
    BY <1>1, <2>2
  <2> QED
    BY <1>1, <1>3, <2>4, <2>5, <2>6, <2>7 DEF Recorded
<1>10. Once'
  <2>1. ASSUME NEW n \in DOMAIN dirs[Top].ledger PROVE dirs[Top].ledger[n][1] < commands' /\ dirs[Top].ledger[n][1] \in Nat
    <3>1. dirs[Top].ledger[n] \in RunEvents /\ Bygone(dirs[Top].ledger[n])
      BY <1>3, DirParts DEF Recorded
    <3> QED
      BY <1>8, <3>1, EventParts
  <2> QED
    BY <1>1, <1>3, <2>1 DEF Once
<1>11. EventsStay
  BY <1>1 DEF EventsStay
<1>12. Followed' /\ Untaken'
  <2>1. ASSUME NEW n \in DOMAIN dirs[Top].ledger PROVE dirs[Top].ledger[n][2] \in RunDirs
    BY <1>3, DirParts, EventParts
  <2>2. Followed'
    BY <1>1, <1>3, <1>11, <2>1, ReachesStay DEF Followed
  <2>3. Untaken'
    BY <1>1, <1>3, <1>11, ReachesStay DEF Untaken, InFlight
  <2> QED
    BY <2>2, <2>3
<1>13. FiledFirst'
  BY <1>1, <1>2, <1>3, <1>11, RunSorts, ReachesStay DEF FiledFirst, InFlight, Attempting
<1>14. JudgedAsFound'
  BY <1>1, <1>2, <1>3 DEF JudgedAsFound, PassIsDeserved, Judging, Attempting
<1>15. Proven'
  <2>1. ASSUME proof # Unset
        PROVE  /\ proof.by <= commands' /\ proof.by < commands' /\ proof.by <= topBy
               /\ topBy = proof.by => Hashed(dirs[Top]) = proof.files /\ dirs[Top].request = "run"
               /\ topBy # proof.by => Len(dirs[Top].ledger) > Len(proof.files[4])
    <3>1. proof \in Receipts
      BY <1>3, <2>1 DEF RunProgressTypeOK
    <3>2. proof.by \in Nat
      BY <3>1 DEF Receipts
    <3> QED
      BY <1>1, <1>3, <2>1, <3>2 DEF Proven
  <2>2. ~Changed' /\ exit' # "passed"
    BY <1>1, <1>2, RunSorts DEF Changed, Judging
  <2> QED
    BY <1>1, <1>4, <2>1, <2>2 DEF Proven
<1>16. TrailFollowsLedger' /\ EffectsOnce'
  <2>1. \A d \in RunDirs : Told(d)' = Told(d)
    BY <1>1, <1>2, <1>3 DEF Told, Settled
  <2> QED
    BY <1>1, <1>3, <2>1 DEF TrailFollowsLedger, EffectsOnce
<1> QED
  BY <1>5, <1>6, <1>7, <1>9, <1>10, <1>12, <1>13, <1>14, <1>15, <1>16 DEF RunProgressInv

(* A place in a ledger is told by its event. *)
LEMMA LedgerOnce ==
    ASSUME RunProgressInv, NEW d \in RunDirs, NEW m \in DOMAIN dirs[d].ledger, NEW n \in DOMAIN dirs[d].ledger,
           dirs[d].ledger[m] = dirs[d].ledger[n]
    PROVE  m = n
<1>1. CASE d = Top
  BY <1>1 DEF RunProgressInv, Once
<1>2. CASE d # Top
  <2>1. dirs[d].ledger[m][3] = m /\ dirs[d].ledger[n][3] = n
    BY <1>2 DEF RunProgressInv, Once
  <2> QED
    BY <2>1
<1> QED
  BY <1>1, <1>2

(* What a kill keeps out of the trail is what was not in it. *)
LEMMA CommandDiesRun == ASSUME RunProgressInv, CommandDies, TopNoted PROVE RunProgressInv'
<1> DEFINE lost == IF writing # Unset THEN {<<writing, Last(dirs[writing].ledger)>>}
                   ELSE IF point = "copying" THEN {<<Top, dirs[work].ledger[n]>> : n \in 1..copied}
                   ELSE {}
<1>1. /\ point # "idle" /\ kills' \in 0..MaxKills /\ point' = "idle" /\ exit' = "killed" /\ writing' = Unset
      /\ work' = work /\ try' = try /\ commands' = commands /\ said' = said /\ copied' = copied
      /\ halves' = halves \cup lost
      /\ dirs' = dirs /\ UNCHANGED judgeVars /\ begun' = begun /\ filed' = filed /\ taken' = taken /\ twice' = twice
  <2>1. kills < MaxKills /\ kills' = kills + 1 /\ kills \in 0..MaxKills
    BY DEF CommandDies, RunProgressInv, RunProgressTypeOK
  <2> QED
    BY <2>1, RunSorts DEF CommandDies, CommandEnds, Goes, takenVars
<1>2. uncovered' = IF point \in InFlight THEN uncovered \cup EventsOf(work) ELSE uncovered
  BY DEF CommandDies, InFlight
<1>3. /\ RunProgressTypeOK /\ Placed /\ Said /\ InCopy /\ Recorded /\ Once /\ Followed /\ Untaken
      /\ FiledFirst /\ JudgedAsFound /\ Proven /\ TrailFollowsLedger /\ EffectsOnce /\ Top \in RunDirs /\ 1 \in RunDirs
      /\ work \in RunDirs /\ copied \in Nat
  BY RunSorts DEF RunProgressInv, RunProgressTypeOK
<1>4. topBy' = topBy /\ EventsStay
  BY <1>1 DEF TopNoted, EventsStay
<1>5. ASSUME NEW h \in lost
      PROVE  h \in RunDirs \X RunEvents /\ h[2][1] <= commands
  <2>1. CASE writing # Unset
    <3>1. writing \in RunDirs /\ dirs[writing].ledger # <<>> /\ h = <<writing, Last(dirs[writing].ledger)>>
      BY <1>3, <1>5, <2>1 DEF RunProgressTypeOK, Said
    <3>2. Len(dirs[writing].ledger) \in DOMAIN dirs[writing].ledger
      BY <1>3, <3>1, DirParts
    <3>3. Last(dirs[writing].ledger) \in RunEvents /\ Bygone(Last(dirs[writing].ledger))
      BY <1>3, <3>1, <3>2, DirParts DEF Last, Recorded
    <3> QED
      BY <3>1, <3>3 DEF Bygone
  <2>2. CASE writing = Unset
    <3>1. PICK n \in 1..copied : h = <<Top, dirs[work].ledger[n]>> /\ point = "copying"
      BY <1>5, <2>2
    <3>2. n \in DOMAIN dirs[work].ledger
      BY <1>3, <3>1, DirParts DEF InCopy, InFlight
    <3>3. dirs[work].ledger[n] \in RunEvents /\ Bygone(dirs[work].ledger[n])
      BY <1>3, <3>2, DirParts DEF Recorded
    <3> QED
      BY <1>3, <3>1, <3>3 DEF Bygone
  <2> QED
    BY <2>1, <2>2
<1>6. \A d \in RunDirs : Told(d)' = Told(d)
  <2> SUFFICES ASSUME NEW d \in RunDirs PROVE Told(d)' = Told(d)
    OBVIOUS
  <2>1. Len(dirs[d].ledger) \in Nat /\ DOMAIN dirs[d].ledger = 1..Len(dirs[d].ledger)
    BY <1>3, DirParts
  <2>2. Told(d)' = {n \in 1..Len(dirs[d].ledger) : <<d, dirs[d].ledger[n]>> \notin halves \cup lost}
    <3>1. Settled(d)' = Len(dirs[d].ledger)
      <4>1. writing' # d /\ point' # "copying" /\ dirs'[d] = dirs[d]
        BY <1>1, RunSorts
      <4> QED
        BY <2>1, <4>1 DEF Settled
    <3> HIDE DEF lost
    <3> QED
      BY <1>1, <3>1 DEF Told
  <2>3. CASE writing # Unset
    <3>1. writing \in RunDirs /\ dirs[writing].ledger # <<>> /\ lost = {<<writing, Last(dirs[writing].ledger)>>}
          /\ point # "copying"
      BY <1>3, <2>3 DEF RunProgressTypeOK, Said, Placed, Announced
    <3>2. CASE writing = d
      <4>1. Settled(d) = Len(dirs[d].ledger) - 1 /\ Len(dirs[d].ledger) \in DOMAIN dirs[d].ledger
        BY <1>3, <2>1, <3>1, <3>2, DirParts DEF Settled
      <4>2. \A n \in 1..Len(dirs[d].ledger) :
                <<d, dirs[d].ledger[n]>> \in lost <=> n = Len(dirs[d].ledger)
        BY <2>1, <3>1, <3>2, <4>1, LedgerOnce DEF Last
      <4> HIDE DEF lost
      <4> QED
        BY <2>1, <2>2, <4>1, <4>2 DEF Told
    <3>3. CASE writing # d
      <4>1. Settled(d) = Len(dirs[d].ledger)
        BY <2>1, <3>1, <3>3 DEF Settled
      <4>2. \A e : <<d, e>> \notin lost
        BY <3>1, <3>3
      <4> HIDE DEF lost
      <4> QED
        BY <2>2, <4>1, <4>2 DEF Told
    <3> QED
      BY <3>2, <3>3
  <2>4. CASE writing = Unset /\ point = "copying" /\ d = Top
    <3> DEFINE base == Len(dirs[Top].ledger) - copied
    <3>1. /\ base \in Nat /\ \A n \in 1..copied : dirs[Top].ledger[base + n] = dirs[work].ledger[n]
          /\ Settled(d) = base /\ base + copied = Len(dirs[d].ledger)
      <4>1. base \in Int /\ base >= 0 /\ base + copied = Len(dirs[d].ledger)
        BY <1>3, <2>1, <2>4 DEF InCopy, InFlight
      <4>2. \A n \in 1..copied : dirs[Top].ledger[base + n] = dirs[work].ledger[n]
        BY <1>3, <2>4 DEF InCopy, InFlight
      <4>3. Settled(d) = base
        BY <2>4, RunSorts DEF Settled
      <4> QED
        BY <4>1, <4>2, <4>3
    <3>2. \A e : <<d, e>> \in lost <=> \E n \in 1..copied : e = dirs[Top].ledger[base + n]
      BY <2>4, <3>1
    <3> HIDE DEF lost, base
    <3>3. ASSUME NEW n \in 1..Len(dirs[d].ledger) PROVE <<d, dirs[d].ledger[n]>> \in lost <=> ~(n \in 1..base)
      <4>1. ASSUME n \in 1..base, NEW m \in 1..copied, dirs[d].ledger[n] = dirs[Top].ledger[base + m] PROVE FALSE
        <5>1. n \in DOMAIN dirs[d].ledger /\ base + m \in DOMAIN dirs[d].ledger /\ n # base + m
          BY <1>3, <2>1, <3>1, <4>1
        <5> QED
          BY <2>4, <4>1, <5>1, LedgerOnce
      <4>2. ASSUME ~(n \in 1..base) PROVE n - base \in 1..copied /\ base + (n - base) = n
        BY <1>3, <2>1, <3>1, <4>2
      <4> QED
        BY <2>4, <3>2, <4>1, <4>2
    <3>4. \A n : n \in 1..base => n \in 1..Len(dirs[d].ledger)
      BY <1>3, <2>1, <3>1
    <3> QED
      BY <2>2, <3>1, <3>3, <3>4 DEF Told
  <2>5. CASE writing = Unset /\ ~(point = "copying" /\ d = Top)
    <3>1. Settled(d) = Len(dirs[d].ledger)
      BY <2>1, <2>5, RunSorts DEF Settled
    <3>2. \A e : <<d, e>> \notin lost
      BY <2>5
    <3> HIDE DEF lost
    <3> QED
      BY <2>2, <3>1, <3>2 DEF Told
  <2> QED
    BY <2>3, <2>4, <2>5
<1> HIDE DEF lost
<1>7. RunProgressTypeOK'
  <2>1. EventsOf(work) \subseteq RunEvents
    BY <1>3, DirParts DEF EventsOf
  <2>2. halves' \subseteq RunDirs \X RunEvents /\ uncovered' \subseteq RunEvents
    BY <1>1, <1>2, <1>3, <1>5, <2>1 DEF RunProgressTypeOK
  <2> QED
    BY <1>1, <1>3, <1>4, <2>2 DEF RunProgressTypeOK, judgeVars
<1>8. Placed' /\ Said' /\ InCopy'
  BY <1>1, <1>3 DEF Placed, Said, InCopy, Attempting, InFlight
<1>9. Recorded'
  <2>1. \A e \in RunEvents : Bygone(e) => Bygone(e)'
    BY <1>1, <1>3, <1>4, DatesStay
  <2>2. ASSUME NEW d \in RunDirs, NEW n \in DOMAIN dirs[d].ledger PROVE Bygone(dirs[d].ledger[n])'
    <3>1. PICK e \in RunEvents : e = dirs[d].ledger[n] /\ e = dirs'[d].ledger[n]
      BY <1>1, <1>3, DirParts
    <3>2. Bygone(e)
      BY <1>3, <3>1 DEF Recorded
    <3> QED
      BY <2>1, <3>1, <3>2
  <2>3. \A e \in taken : Bygone(e)'
    BY <1>3, <2>1 DEF Recorded, RunProgressTypeOK
  <2>4. \A h \in halves' : h[2][1] <= commands'
    BY <1>1, <1>3, <1>5 DEF Recorded
  <2>5. (\A d \in RunDirs : \A n \in DOMAIN dirs[d].ledger : Bygone(dirs[d].ledger[n]))'
    BY <1>1, <2>2
  <2>6. (\A e \in taken : Bygone(e))'
    BY <1>1, <2>3
  <2> QED
    BY <1>1, <1>3, <2>4, <2>5, <2>6 DEF Recorded
<1>10. Once'
  BY <1>1, <1>3 DEF Once
<1>11. Followed' /\ Untaken'
  <2>1. ASSUME NEW n \in DOMAIN dirs[Top].ledger PROVE dirs[Top].ledger[n][2] \in RunDirs
    BY SMTT(30), <1>3, DirParts, EventParts
  <2>2. Followed'
    BY <1>1, <1>3, <1>4, <2>1, ReachesStay DEF Followed
  <2>3. Untaken'
    BY <1>1, <1>2, <1>3, <1>4, ReachesStay DEF Untaken, InFlight
  <2> QED
    BY <2>2, <2>3
<1>12. FiledFirst'
  BY <1>1, <1>3, <1>4, ReachesStay DEF FiledFirst, InFlight, Attempting
<1>13. JudgedAsFound'
  BY <1>1, <1>3 DEF JudgedAsFound, PassIsDeserved, Judging, Attempting, judgeVars
<1>14. Proven'
  BY <1>1, <1>3, DirParts, ProvenStays DEF judgeVars
<1>15. TrailFollowsLedger' /\ EffectsOnce'
  BY <1>1, <1>2, <1>3, <1>6 DEF TrailFollowsLedger, EffectsOnce
<1> QED
  BY <1>7, <1>8, <1>9, <1>10, <1>11, <1>12, <1>13, <1>14, <1>15 DEF RunProgressInv

-----------------------------------------------------------------------------
(* Events are recorded *)

(* The event that was recorded last is told. *)
LEMMA RecordEndsRun == ASSUME RunProgressInv, RecordEnds, TopNoted PROVE RunProgressInv'
<1> DEFINE w == writing
           L == dirs[w].ledger
<1>1. /\ writing # Unset /\ writing' = Unset
      /\ dirs' = [dirs EXCEPT ![w].trail = Append(dirs[w].trail, Last(L))]
      /\ point' = point /\ work' = work /\ try' = try /\ commands' = commands /\ said' = said /\ copied' = copied
      /\ exit' = exit /\ UNCHANGED judgeVars /\ UNCHANGED pastVars /\ taken' = taken /\ twice' = twice
  BY DEF RecordEnds, takenVars
<1>2. /\ RunProgressTypeOK /\ Placed /\ Said /\ InCopy /\ Recorded /\ Once /\ Followed /\ Untaken
      /\ FiledFirst /\ JudgedAsFound /\ Proven /\ TrailFollowsLedger /\ EffectsOnce /\ Top \in RunDirs /\ 1 \in RunDirs
      /\ work \in RunDirs /\ w \in RunDirs /\ dirs \in [RunDirs -> RunDirectories]
  BY <1>1, RunSorts DEF RunProgressInv, RunProgressTypeOK
<1> HIDE DEF w
<1>3. /\ L # <<>> /\ Len(L) \in DOMAIN L /\ Last(L) = L[Len(L)] /\ L[Len(L)] \in RunEvents
      /\ L[Len(L)][1] = commands /\ (w = Top => topBy = commands)
  <2>1. L # <<>> /\ Last(L)[1] = commands /\ (w = Top => topBy = commands)
    BY <1>1, <1>2 DEF Said, w
  <2> QED
    BY <1>2, <2>1, DirParts DEF Last
<1>4. point \notin InFlight /\ point # "idle"
  BY <1>1, <1>2 DEF Placed, Announced, InFlight, w
<1>5. /\ dirs' \in [RunDirs -> RunDirectories]
      /\ dirs'[w].trail = Append(dirs[w].trail, L[Len(L)])
      /\ \A d \in RunDirs : /\ dirs'[d].ledger = dirs[d].ledger /\ dirs'[d].cursor = dirs[d].cursor
                            /\ dirs'[d].request = dirs[d].request /\ dirs'[d].summary = dirs[d].summary
                            /\ d # w => dirs'[d] = dirs[d]
  <2> DEFINE new == [dirs[w] EXCEPT !.trail = Append(dirs[w].trail, Last(L))]
  <2>1. dirs[w] \in RunDirectories /\ Append(dirs[w].trail, Last(L)) \in Seq(RunEvents)
    BY <1>2, <1>3, DirParts
  <2>2. /\ new \in RunDirectories /\ new.ledger = dirs[w].ledger /\ new.cursor = dirs[w].cursor
        /\ new.request = dirs[w].request /\ new.summary = dirs[w].summary
        /\ new.trail = Append(dirs[w].trail, L[Len(L)])
    BY <1>3, <2>1 DEF RunDirectories
  <2>3. dirs' = [dirs EXCEPT ![w] = new]
    BY <1>1
  <2> HIDE DEF new
  <2>4. dirs' \in [RunDirs -> RunDirectories] /\ dirs'[w] = new /\ \A d \in RunDirs : d # w => dirs'[d] = dirs[d]
    BY <1>2, <2>2, <2>3
  <2> QED
    BY <2>2, <2>4
<1>6. RunProgressTypeOK'
  <2>1. topBy' \in 0..commands'
    BY <1>1, <1>2, RunSorts DEF TopNoted, RunProgressTypeOK
  <2>2. UNCHANGED <<objective, stopped, solved, spoke, passed, evalFile, proof>>
    BY <1>1 DEF judgeVars
  <2>3. UNCHANGED <<kills, halves, uncovered, begun, filed>>
    BY <1>1 DEF pastVars
  <2>4. /\ writing' \in RunDirs \cup {Unset} /\ work' \in RunDirs /\ try' \in RunDirs
        /\ exit' \in {Unset, "passed", "failed", "stuck", "killed"} /\ commands' \in 0..MaxCommands
        /\ said' \in Nat /\ copied' \in Nat /\ taken' \subseteq RunEvents /\ twice' \subseteq taken'
    BY <1>1, <1>2 DEF RunProgressTypeOK
  <2>5. /\ objective' \in {"challenge", "script", "plain"} /\ stopped' \in BOOLEAN /\ solved' \in BOOLEAN
        /\ spoke' \in {Unset, "told", "stale", "broke"} /\ passed' \in BOOLEAN \cup {Unset}
        /\ evalFile' \in BOOLEAN \cup {Unset} /\ proof' \in Receipts \cup {Unset}
    BY <1>2, <2>2 DEF RunProgressTypeOK
  <2>6. /\ kills' \in 0..MaxKills /\ filed' \in Nat /\ begun' \in [RunDirs -> Nat]
        /\ halves' \subseteq RunDirs \X RunEvents /\ uncovered' \subseteq RunEvents
    BY <1>2, <2>3 DEF RunProgressTypeOK
  <2> QED
    BY <1>5, <2>1, <2>4, <2>5, <2>6 DEF RunProgressTypeOK
<1>7. Placed'
  BY <1>1, <1>2, <1>5 DEF Placed, pastVars
<1>8. InCopy'
  BY <1>1, <1>4 DEF InCopy
<1>9. \A d \in RunDirs : (Reaches(d)' <=> Reaches(d)) /\ (Diverged(d)' <=> Diverged(d))
  BY <1>5 DEF Reaches, Diverged
<1>10. Said'
  <2>1. point \in Attempting => (said > 0 \/ point # "running" => dirs'[work].ledger # <<>>)
    BY <1>2, <1>5 DEF Said
  <2>2. ASSUME point \in Attempting, try # 0
        PROVE /\ \A n \in DOMAIN dirs'[work].ledger : dirs'[work].ledger[n] = <<commands, work, n>>
              /\ Len(dirs'[work].trail) = Len(dirs'[work].ledger)
              /\ \A n \in DOMAIN dirs'[work].trail : dirs'[work].trail[n] = dirs'[work].ledger[n]
    <3>1. /\ \A n \in DOMAIN dirs[work].ledger : dirs[work].ledger[n] = <<commands, work, n>>
          /\ Len(dirs[work].trail) = Len(dirs[work].ledger) - 1
          /\ \A n \in DOMAIN dirs[work].trail : dirs[work].trail[n] = dirs[work].ledger[n]
      BY <1>1, <1>2, <2>2 DEF Said
    <3>2. w = work
      BY <1>1, <1>2, <2>2 DEF Placed, Announced, Attempting, w
    <3>3. /\ dirs[work].trail \in Seq(RunEvents) /\ Len(dirs[work].trail) \in Nat
          /\ DOMAIN dirs[work].trail = 1..Len(dirs[work].trail) /\ Len(dirs[work].ledger) \in Nat
      BY <1>2, DirParts
    <3>4. /\ Len(dirs'[work].trail) = Len(dirs[work].trail) + 1
          /\ DOMAIN dirs'[work].trail = 1..Len(dirs'[work].trail)
          /\ \A n \in 1..Len(dirs[work].trail) : dirs'[work].trail[n] = dirs[work].trail[n]
          /\ dirs'[work].trail[Len(dirs[work].trail) + 1] = L[Len(L)]
      BY SMTT(30), <1>5, <3>2, <3>3
    <3> DEFINE k == Len(dirs[work].trail)
    <3>5. dirs'[work].ledger = dirs[work].ledger /\ Len(dirs[work].ledger) = k + 1 /\ L = dirs[work].ledger
      BY <1>2, <1>5, <3>1, <3>2, <3>3
    <3>6. /\ k \in Nat /\ Len(dirs'[work].trail) = k + 1 /\ DOMAIN dirs'[work].trail = 1..(k + 1)
          /\ \A n \in 1..k : dirs'[work].trail[n] = dirs[work].ledger[n]
          /\ dirs'[work].trail[k + 1] = dirs[work].ledger[k + 1]
      BY <3>1, <3>3, <3>4, <3>5
    <3> HIDE DEF k, L
    <3>7. \A n \in 1..(k + 1) : n \in 1..k \/ n = k + 1
      BY <3>6
    <3> QED
      BY <3>1, <3>5, <3>6, <3>7
  <2>3. point \in {"summing"} \cup InFlight => dirs'[work].cursor = dirs'[work].ledger
    BY <1>2, <1>5 DEF Said
  <2> QED
    BY <1>1, <2>1, <2>2, <2>3 DEF Said
<1>11. Recorded'
  <2>1. \A e \in RunEvents : Bygone(e) => Bygone(e)'
    BY <1>1, <1>2, <1>5, EventParts DEF Bygone
  <2>2. ASSUME NEW d \in RunDirs, NEW n \in DOMAIN dirs'[d].ledger PROVE Bygone(dirs[d].ledger[n])'
    <3>1. PICK e \in RunEvents : e = dirs[d].ledger[n] /\ e = dirs'[d].ledger[n] /\ n \in DOMAIN dirs[d].ledger
      BY <1>2, <1>5, DirParts
    <3>2. Bygone(e)
      BY <1>2, <3>1 DEF Recorded
    <3> QED
      BY <2>1, <3>1, <3>2
  <2>3. \A e \in taken : Bygone(e)'
    BY <1>2, <2>1 DEF Recorded, RunProgressTypeOK
  <2>5. (\A d \in RunDirs : \A n \in DOMAIN dirs[d].ledger : Bygone(dirs[d].ledger[n]))'
    BY <2>2
  <2>6. (\A e \in taken : Bygone(e))'
    BY <1>1, <2>3
  <2> QED
    BY <1>1, <1>2, <1>5, <2>5, <2>6 DEF Recorded, pastVars
<1>12. Once'
  BY SMTT(30), <1>1, <1>2, <1>5 DEF Once
<1>13. Followed' /\ Untaken'
  <2>1. ASSUME NEW n \in DOMAIN dirs[Top].ledger PROVE dirs[Top].ledger[n][2] \in RunDirs
    BY <1>2, DirParts, EventParts
  <2>2. Followed'
    <3>1. (\A d \in RunDirs : Reaches(d) \/ Diverged(d))'
      <4>1. \A d \in RunDirs : Reaches(d) \/ Diverged(d)
        BY ZenonT(30), <1>2 DEF Followed
      <4> QED
        BY <1>9, <4>1
    <3>2. ASSUME NEW n \in DOMAIN dirs[Top].ledger, NEW e, e = dirs[Top].ledger[n], e[2] # Top, Reaches(e[2])',
                 e[3] \in DOMAIN dirs'[e[2]].ledger, dirs'[e[2]].ledger[e[3]] = e
          PROVE  e[3] <= Len(dirs'[e[2]].cursor)
      <4>1. e[2] \in RunDirs
        BY SMTT(60), <2>1, <3>2
      <4>2. Reaches(e[2]) /\ dirs'[e[2]].ledger = dirs[e[2]].ledger /\ dirs'[e[2]].cursor = dirs[e[2]].cursor
        BY <1>5, <1>9, <3>2, <4>1
      <4> QED
        BY ZenonT(30), <1>2, <3>2, <4>2, FollowedSays
    <3>3. dirs'[Top].ledger = dirs[Top].ledger
      BY <1>2, <1>5
    <3> QED
      BY <3>1, <3>2, <3>3 DEF Followed
  <2>3. Untaken'
    BY <1>1, <1>2, <1>4, <1>5, <1>9 DEF Untaken, pastVars
  <2> QED
    BY <2>2, <2>3
<1>14. FiledFirst'
  BY <1>1, <1>2, <1>4, <1>5, <1>9 DEF FiledFirst, pastVars
<1>15. JudgedAsFound'
  BY <1>1, <1>2, <1>5 DEF JudgedAsFound, PassIsDeserved, judgeVars
<1>16. Proven'
  <2>1. dirs'[Top] = dirs[Top] \/ topBy = commands
    BY <1>2, <1>3, <1>5
  <2>2. Changed' => Changed
    BY <1>1 DEF Changed
  <2>3. Len(dirs[Top].ledger) \in Nat /\ dirs'[Top].ledger = dirs[Top].ledger /\ exit' # "passed"
    BY <1>1, <1>2, <1>4, <1>5, DirParts, RunSorts DEF Placed
  <2> QED
    BY <1>1, <1>4, <2>1, <2>2, <2>3, ProvenStays DEF judgeVars
<1>17. TrailFollowsLedger'
  <2> SUFFICES ASSUME NEW d \in RunDirs
               PROVE  Tells(dirs'[d].trail, Told(d)', dirs'[d].ledger)
    BY DEF TrailFollowsLedger
  <2>0. Tells(dirs[d].trail, Told(d), dirs[d].ledger)
    BY <1>2 DEF TrailFollowsLedger
  <2>1. CASE d # w
    <3>1. Told(d)' = Told(d)
      BY <1>1, <1>4, <1>5, <2>1, RunSorts DEF Told, Settled, InFlight, w, pastVars
    <3> QED
      BY <1>5, <2>0, <2>1, <3>1
  <2>2. CASE d = w
    <3> DEFINE N == Len(L) - 1
    <3>1. N \in Nat /\ Len(L) = N + 1 /\ Len(dirs[w].trail) \in Nat /\ dirs[w].trail \in Seq(RunEvents)
      BY <1>2, <1>3, DirParts
    <3>2. Settled(d) = N /\ Settled(d)' = N + 1
      <4>1. writing = d /\ writing' # d /\ point' # "copying" /\ dirs'[d].ledger = L
        BY <1>1, <1>4, <1>5, <2>2, RunSorts DEF w, InFlight
      <4> QED
        BY <2>2, <3>1, <4>1 DEF Settled
    <3>3. Told(d) \in SUBSET (1..N)
      BY <3>2 DEF Told
    <3>4. <<d, L[N + 1]>> \notin halves
      <4>1. \A h \in halves : h[2][1] < commands
        BY <1>2, <1>4 DEF Recorded
      <4> QED
        BY <1>2, <1>3, <3>1, <4>1 DEF RunProgressTypeOK
    <3>5. Told(d)' = Told(d) \cup ((N + 1)..(N + 1))
      <4>1. Told(d)' = {n \in 1..(N + 1) : <<d, L[n]>> \notin halves}
        BY <1>1, <1>5, <2>2, <3>2 DEF Told, pastVars
      <4>2. Told(d) = {n \in 1..N : <<d, L[n]>> \notin halves}
        BY <2>2, <3>2 DEF Told
      <4> HIDE DEF N, L
      <4> QED
        BY <3>1, <3>4, <4>1, <4>2
    <3>6. /\ Len(dirs'[d].trail) = Len(dirs[d].trail) + 1
          /\ \A i \in 1..Len(dirs[d].trail) : dirs'[d].trail[i] = dirs[d].trail[i]
          /\ \A j \in 1..1 : dirs'[d].trail[Len(dirs[d].trail) + j] = L[N + j]
      BY <1>5, <2>2, <3>1
    <3> DEFINE K == Told(d)
               t == dirs[d].trail
               t2 == dirs'[d].trail
               M == 1
    <3>7. N \in Nat /\ M \in Nat /\ K \in SUBSET (1..N)
      BY <3>1, <3>3
    <3>8. Tells(t, K, L)
      BY <2>0, <2>2
    <3>9. /\ Len(t2) = Len(t) + M /\ \A i \in 1..Len(t) : t2[i] = t[i]
          /\ \A j \in 1..M : t2[Len(t) + j] = L[N + j]
      BY <3>6
    <3> HIDE DEF N, L, K, t, t2, M
    <3>10. Tells(t2, K \cup ((N + 1)..(N + M)), L)
      BY <3>7, <3>8, <3>9, ToldMore
    <3>11. Told(d)' = K \cup ((N + 1)..(N + M))
      BY <3>5 DEF K, M
    <3>12. dirs'[d].ledger = L
      BY <1>2, <1>5, <2>2 DEF L
    <3> QED
      BY <3>10, <3>11, <3>12 DEF t2
  <2> QED
    BY <2>1, <2>2
<1>18. EffectsOnce'
  BY <1>1, <1>2 DEF EffectsOnce, pastVars
<1> QED
  BY <1>6, <1>7, <1>8, <1>10, <1>11, <1>12, <1>13, <1>14, <1>15, <1>16, <1>17, <1>18 DEF RunProgressInv

(* A new event is in no ledger yet, and no consumer has taken it. *)
LEMMA RecordInEvents ==
    ASSUME RunProgressInv, NEW w \in RunDirs, RecordIn(w), point # "idle", point' # "idle",
           commands' = commands, halves' = halves, uncovered' = uncovered, taken' = taken, twice' = twice,
           \/ w = work /\ point = "running" /\ point' = "running" /\ try' = try
           \/ /\ w = Top /\ point \notin Attempting /\ point' \notin Attempting
              /\ (try' = try /\ point' # "beginning") \/ try' = try + 1
    PROVE  /\ dirs' \in [RunDirs -> RunDirectories] /\ writing' = w /\ writing = Unset
           /\ Len(dirs'[w].ledger) = Len(dirs[w].ledger) + 1 /\ dirs'[w].ledger # <<>>
           /\ \A n \in 1..Len(dirs[w].ledger) : dirs'[w].ledger[n] = dirs[w].ledger[n]
           /\ dirs'[w].ledger[Len(dirs[w].ledger) + 1] = <<commands, w, Len(dirs[w].ledger) + 1>>
           /\ DOMAIN dirs'[w].ledger = 1..(Len(dirs[w].ledger) + 1)
           /\ Last(dirs'[w].ledger)[1] = commands
           /\ \A d \in RunDirs : /\ d # w => dirs'[d] = dirs[d]
                                 /\ dirs'[d].cursor = dirs[d].cursor /\ dirs'[d].trail = dirs[d].trail
                                 /\ dirs'[d].request = dirs[d].request /\ dirs'[d].summary = dirs[d].summary
                                 /\ Reaches(d)' <=> Reaches(d)
                                 /\ Diverged(d)' <=> Diverged(d)
           /\ Recorded' /\ Once' /\ Followed' /\ Untaken' /\ TrailFollowsLedger' /\ EffectsOnce'
<1> DEFINE L == dirs[w].ledger
           k == Len(dirs[w].ledger)
           E == <<commands, w, k + 1>>
<1>1. /\ RunProgressTypeOK /\ Placed /\ Recorded /\ Once /\ Followed /\ Untaken /\ TrailFollowsLedger /\ EffectsOnce
      /\ Top \in RunDirs /\ work \in RunDirs /\ dirs \in [RunDirs -> RunDirectories] /\ try \in RunDirs
  BY RunSorts DEF RunProgressInv, RunProgressTypeOK
<1>2. L \in Seq(RunEvents) /\ k \in Nat /\ DOMAIN L = 1..k /\ dirs[w] \in RunDirectories
  BY <1>1, DirParts
<1>3. commands \in 1..MaxCommands /\ commands \in Nat /\ E \in RunEvents /\ E[1] = commands /\ E[2] = w /\ E[3] = k + 1
  <2>1. commands \in 1..MaxCommands /\ commands \in Nat
    BY <1>1, RunSorts DEF RunProgressTypeOK, Placed
  <2> QED
    BY <1>2, <2>1, EventParts
<1>4. writing = Unset /\ writing' = w /\ dirs' = [dirs EXCEPT ![w].ledger = Append(L, E)]
  BY DEF RecordIn
<1>5. /\ Append(L, E) \in Seq(RunEvents) /\ Len(Append(L, E)) = k + 1 /\ Append(L, E)[k + 1] = E
      /\ DOMAIN Append(L, E) = 1..(k + 1) /\ Append(L, E) # <<>>
      /\ \A n \in 1..k : Append(L, E)[n] = L[n]
  <2> HIDE DEF E, k
  <2> QED
    BY <1>2, <1>3 DEF k
<1>6. /\ dirs' \in [RunDirs -> RunDirectories] /\ dirs'[w].ledger = Append(L, E)
      /\ \A d \in RunDirs : /\ d # w => dirs'[d] = dirs[d]
                            /\ dirs'[d].cursor = dirs[d].cursor /\ dirs'[d].trail = dirs[d].trail
                            /\ dirs'[d].request = dirs[d].request /\ dirs'[d].summary = dirs[d].summary
  <2> DEFINE more == Append(L, E)
             new == [dirs[w] EXCEPT !.ledger = more]
  <2> HIDE DEF more
  <2>1. more \in Seq(RunEvents)
    BY <1>5 DEF more
  <2>2. /\ new \in RunDirectories /\ new.ledger = more /\ new.cursor = dirs[w].cursor /\ new.trail = dirs[w].trail
        /\ new.request = dirs[w].request /\ new.summary = dirs[w].summary
    BY <1>2, <2>1 DEF RunDirectories
  <2>3. dirs' = [dirs EXCEPT ![w] = new]
    BY <1>4 DEF more
  <2> HIDE DEF new
  <2>4. dirs' \in [RunDirs -> RunDirectories] /\ dirs'[w] = new /\ \A d \in RunDirs : d # w => dirs'[d] = dirs[d]
    BY <1>1, <2>2, <2>3
  <2> QED
    BY <2>2, <2>4 DEF more
<1> HIDE DEF E, L, k
<1>7. /\ Len(dirs'[w].ledger) = k + 1 /\ DOMAIN dirs'[w].ledger = 1..(k + 1) /\ dirs'[w].ledger # <<>>
      /\ \A n \in 1..k : dirs'[w].ledger[n] = L[n]
      /\ dirs'[w].ledger[k + 1] = E /\ Last(dirs'[w].ledger) = E
  BY <1>2, <1>5, <1>6 DEF Last
<1>8. ASSUME NEW e \in RunEvents, Bygone(e) PROVE e # E /\ Bygone(e)'
  <2>1. e # E
    BY <1>2, <1>3, <1>8 DEF Bygone, L, k
  <2>2. Len(dirs'[e[2]].ledger) >= Len(dirs[e[2]].ledger) /\ Len(dirs'[e[2]].ledger) \in Nat
        /\ Len(dirs[e[2]].ledger) \in Nat /\ e[2] \in Nat /\ e[3] \in Nat /\ e[1] \in Nat /\ try \in Nat
    <3>1. e[2] \in RunDirs /\ e[3] \in Nat /\ e[1] \in Nat /\ e[2] \in Nat /\ try \in Nat
      BY <1>1, EventParts, RunSorts
    <3>2. Len(dirs[e[2]].ledger) \in Nat
      BY <1>1, <3>1, DirParts
    <3>3. CASE e[2] = w
      BY <1>2, <1>7, <3>1, <3>2, <3>3 DEF k, L
    <3>4. CASE e[2] # w
      BY <1>6, <3>1, <3>2, <3>4
    <3> QED
      BY <3>1, <3>2, <3>3, <3>4
  <2>3. CASE e[1] # commands
    BY <1>8, <2>1, <2>3 DEF Bygone
  <2>4. CASE e[1] = commands
    <3>1. e[3] <= Len(dirs'[e[2]].ledger)
      BY SMTT(30), <1>8, <2>2, <2>4 DEF Bygone
    <3>2. try' # 0 => e[2] <= try' /\ (point' = "beginning" => e[2] < try')
      <4>1. try # 0 => e[2] <= try
        BY <1>8, <2>4 DEF Bygone
      <4>2. try' # try => try # 0
        BY <1>1 DEF Placed, Attempting
      <4> QED
        BY <2>2, <4>1, <4>2
    <3> QED
      BY <1>8, <2>1, <2>4, <3>1, <3>2 DEF Bygone
  <2> QED
    BY <2>3, <2>4
<1>9. ASSUME NEW e \in RunEvents, e = E PROVE Bygone(e)'
  <2>1. E[3] <= Len(dirs'[E[2]].ledger)
    BY <1>2, <1>3, <1>7
  <2>2. try' # 0 => E[2] <= try' /\ (point' = "beginning" => E[2] < try')
    <3>1. CASE w = work /\ point = "running" /\ point' = "running" /\ try' = try
      <4>1. try' # 0 => w = try
        BY <1>1, <3>1 DEF Placed, Attempting
      <4>2. w \in Nat /\ E[2] = w /\ try' = try /\ point' # "beginning"
        BY <1>3, <3>1, RunSorts
      <4> QED
        BY <4>1, <4>2
    <3>2. CASE w = Top
      <4>1. try \in Nat /\ E[2] = 0 /\ (try' = try \/ try' = try + 1)
        BY <1>1, <1>3, <3>2, RunSorts
      <4> QED
        BY <4>1
    <3> QED
      BY <3>1, <3>2
  <2> QED
    BY <1>3, <1>9, <2>1, <2>2 DEF Bygone
<1>10. \A d \in RunDirs : \A n \in DOMAIN dirs[d].ledger :
          dirs[d].ledger[n] \in RunEvents /\ Bygone(dirs[d].ledger[n]) /\ dirs[d].ledger[n] # E
  BY <1>1, <1>8, DirParts DEF Recorded
<1>11. \A e \in taken : e \in RunEvents /\ Bygone(e) /\ e # E
  BY <1>1, <1>8 DEF Recorded, RunProgressTypeOK
<1>12. Recorded'
  <2>1. ASSUME NEW d \in RunDirs, NEW n \in DOMAIN dirs'[d].ledger
        PROVE  \E e \in RunEvents : e = dirs'[d].ledger[n] /\ Bygone(e)'
    <3>1. CASE d = w
      <4>1. CASE n \in 1..k
        BY <1>2, <1>7, <1>8, <1>10, <3>1, <4>1 DEF L
      <4>2. CASE n = k + 1
        BY <1>3, <1>7, <1>9, <3>1, <4>2
      <4> QED
        BY <1>2, <1>7, <2>1, <3>1, <4>1, <4>2
    <3>2. CASE d # w
      BY <1>6, <1>8, <1>10, <3>2, <2>1
    <3> QED
      BY <3>1, <3>2
  <2>2. ASSUME NEW d \in RunDirs, NEW n \in DOMAIN dirs'[d].ledger PROVE Bygone(dirs[d].ledger[n])'
    <3>1. PICK e \in RunEvents : e = dirs'[d].ledger[n] /\ Bygone(e)'
      BY <2>1
    <3> QED
      BY <3>1
  <2>3. \A e \in taken : Bygone(e)'
    BY <1>8, <1>11
  <2>4. (\A d \in RunDirs : \A n \in DOMAIN dirs[d].ledger : Bygone(dirs[d].ledger[n]))'
    BY <2>2
  <2>5. (\A e \in taken : Bygone(e))'
    BY <2>3
  <2> QED
    BY <1>1, <1>6, <2>4, <2>5 DEF Recorded
<1>13. Once'
  <2>1. ASSUME NEW d \in RunDirs \ {Top}, NEW n \in DOMAIN dirs'[d].ledger
        PROVE  dirs'[d].ledger[n][2] = d /\ dirs'[d].ledger[n][3] = n
    <3>1. CASE d = w /\ n = k + 1
      BY <1>3, <1>7, <3>1
    <3>2. CASE d = w /\ n # k + 1
      BY SMTT(30), <1>1, <1>2, <1>7, <2>1, <3>2 DEF Once, L
    <3>3. CASE d # w
      BY <1>1, <1>6, <2>1, <3>3 DEF Once
    <3> QED
      BY <3>1, <3>2, <3>3
  <2>2. ASSUME NEW m \in DOMAIN dirs'[Top].ledger, NEW n \in DOMAIN dirs'[Top].ledger,
               dirs'[Top].ledger[m] = dirs'[Top].ledger[n]
        PROVE  m = n
    <3>1. CASE w = Top
      BY <1>1, <1>2, <1>7, <1>10, <2>2, <3>1 DEF Once, L
    <3>2. CASE w # Top
      BY <1>1, <1>6, <2>2, <3>2 DEF Once
    <3> QED
      BY <3>1, <3>2
  <2>0. ASSUME NEW n \in DOMAIN dirs'[Top].ledger, dirs'[Top].ledger[n][2] # Top
        PROVE  n \in DOMAIN dirs[Top].ledger /\ dirs'[Top].ledger[n] = dirs[Top].ledger[n]
    <3>1. CASE w = Top
      <4>1. n # k + 1
        BY <1>3, <1>7, <2>0, <3>1
      <4>2. n \in 1..k
        BY <1>2, <1>7, <2>0, <3>1, <4>1
      <4> QED
        BY <1>2, <1>7, <3>1, <4>2 DEF L
    <3>2. CASE w # Top
      BY <1>1, <1>6, <2>0, <3>2
    <3> QED
      BY <3>1, <3>2
  <2>3. ASSUME try' # 0, NEW n \in DOMAIN dirs'[Top].ledger, dirs'[Top].ledger[n][1] = commands',
               dirs'[Top].ledger[n][2] # Top
        PROVE  /\ point' \in {"running", "stopping", "summing"} => dirs'[Top].ledger[n][2] < try'
               /\ point' = "copying" /\ dirs'[Top].ledger[n][2] = try' => dirs'[Top].ledger[n][3] <= copied'
    <3>1. CASE point = "running" /\ point' = "running" /\ try' = try
      <4>1. n \in DOMAIN dirs[Top].ledger /\ dirs'[Top].ledger[n] = dirs[Top].ledger[n]
        BY <2>3, <2>0
      <4> QED
        BY <1>1, <2>3, <3>1, <4>1 DEF Once
    <3>2. CASE point' \notin Attempting
      BY <3>2 DEF Attempting
    <3> QED
      BY <3>1, <3>2
  <2> QED
    BY <2>1, <2>2, <2>3 DEF Once
<1>14. ASSUME NEW d \in RunDirs PROVE (Reaches(d)' <=> Reaches(d)) /\ (Diverged(d)' <=> Diverged(d))
  <2>1. CASE d # w
    BY <1>6, <2>1 DEF Reaches, Diverged
  <2>2. CASE d = w
    <3> DEFINE c == dirs[w].cursor
    <3>1. /\ Len(c) \in Nat /\ DOMAIN c = 1..Len(c) /\ (c = <<>> <=> Len(c) = 0) /\ (L = <<>> <=> k = 0)
          /\ dirs'[w].cursor = c /\ \A n \in 1..Len(c) : c[n] # E
      BY <1>1, <1>6, <1>11, DirParts DEF Recorded, L, k
    <3>2. Reaches(w) <=> Len(c) <= k /\ \A n \in 1..Len(c) : c[n] = L[n]
      BY DEF Reaches, L, k
    <3>3. Reaches(w)' <=> Len(c) <= k + 1 /\ \A n \in 1..Len(c) : c[n] = dirs'[w].ledger[n]
      BY <1>7, <3>1 DEF Reaches
    <3>4. Diverged(w) <=> c # <<>> /\ IF L = <<>> THEN w # Top ELSE L[1] # c[1]
      BY DEF Diverged, L
    <3>5. Diverged(w)' <=> c # <<>> /\ dirs'[w].ledger[1] # c[1]
      BY <1>7, <3>1 DEF Diverged
    <3> HIDE DEF c
    <3>6. k + 1 \in 1..Len(c) => c[k + 1] # dirs'[w].ledger[k + 1]
      BY <1>7, <3>1
    <3>7. Reaches(w)' <=> Reaches(w)
      BY <1>2, <1>7, <3>1, <3>2, <3>3, <3>6
    <3>8. Diverged(w)' <=> Diverged(w)
      <4>1. CASE k = 0
        <5>1. w = Top => c = <<>>
          BY SMTT(30), <1>1, <3>1, <3>2, <3>4, <4>1 DEF Followed
        <5> QED
          BY <1>7, <3>1, <3>4, <3>5, <4>1, <5>1
      <4>2. CASE k # 0
        BY <1>2, <1>7, <3>1, <3>4, <3>5, <4>2
      <4> QED
        BY <4>1, <4>2
    <3> QED
      BY <2>2, <3>7, <3>8
  <2> QED
    BY <2>1, <2>2
<1>15. Followed'
  <2>1. (\A d \in RunDirs : Reaches(d) \/ Diverged(d))'
    <3>1. \A d \in RunDirs : Reaches(d) \/ Diverged(d)
      BY ZenonT(30), <1>1 DEF Followed
    <3> QED
      BY <1>14, <3>1
  <2>2. ASSUME NEW n \in DOMAIN dirs'[Top].ledger, NEW e, e = dirs'[Top].ledger[n], e[2] # Top, Reaches(e[2])',
               e[3] \in DOMAIN dirs'[e[2]].ledger, dirs'[e[2]].ledger[e[3]] = e
        PROVE  e[3] <= Len(dirs'[e[2]].cursor)
    <3>1. n \in DOMAIN dirs[Top].ledger /\ e = dirs[Top].ledger[n]
      <4>1. CASE w = Top
        <5>1. n # k + 1
          BY <1>3, <1>7, <2>2, <4>1
        <5>2. n \in 1..k
          BY SMTT(30), <1>2, <1>7, <2>2, <4>1, <5>1
        <5> QED
          BY <1>2, <1>7, <2>2, <4>1, <5>2 DEF L
      <4>2. CASE w # Top
        BY <1>1, <1>6, <2>2, <4>2
      <4> QED
        BY <4>1, <4>2
    <3>2. e \in RunEvents /\ e # E /\ e[2] \in RunDirs
      BY SMTT(30), <1>1, <1>10, <3>1, EventParts
    <3>3. Reaches(e[2]) /\ dirs'[e[2]].cursor = dirs[e[2]].cursor
      BY <1>6, <1>14, <2>2, <3>2
    <3>4. e[3] \in DOMAIN dirs[e[2]].ledger /\ dirs[e[2]].ledger[e[3]] = e
      <4>1. CASE e[2] = w
        <5>1. e[3] # k + 1
          BY <1>7, <2>2, <3>2, <4>1
        <5>2. e[3] \in 1..k
          BY SMTT(30), <1>2, <1>7, <2>2, <4>1, <5>1
        <5> QED
          BY <1>2, <1>7, <2>2, <4>1, <5>2 DEF L
      <4>2. CASE e[2] # w
        BY <1>6, <2>2, <3>2, <4>2
      <4> QED
        BY <4>1, <4>2
    <3> QED
      BY <1>1, <2>2, <3>1, <3>3, <3>4 DEF Followed
  <2> QED
    BY <2>1, <2>2 DEF Followed
<1>16. Untaken'
  <2> SUFFICES ASSUME NEW d \in RunDirs, NEW n \in DOMAIN dirs'[d].ledger, Reaches(d)', n > Len(dirs'[d].cursor),
                      dirs'[d].ledger[n] \in taken
               PROVE  dirs'[d].ledger[n] \in uncovered
    BY DEF Untaken
  <2>1. Reaches(d) /\ n > Len(dirs[d].cursor) /\ dirs'[d].ledger[n] # E
    BY <1>6, <1>11, <1>14
  <2>2. n \in DOMAIN dirs[d].ledger /\ dirs'[d].ledger[n] = dirs[d].ledger[n]
    <3>1. CASE d = w
      BY <1>2, <1>7, <2>1, <3>1 DEF L
    <3>2. CASE d # w
      BY <1>6, <3>2
    <3> QED
      BY <3>1, <3>2
  <2>3. point \notin InFlight
    BY DEF InFlight, Attempting
  <2> QED
    BY <1>1, <2>1, <2>2, <2>3 DEF Untaken
<1>17. TrailFollowsLedger'
  <2> SUFFICES ASSUME NEW d \in RunDirs PROVE Tells(dirs'[d].trail, Told(d)', dirs'[d].ledger)
    BY DEF TrailFollowsLedger
  <2>1. /\ Tells(dirs[d].trail, Told(d), dirs[d].ledger) /\ dirs'[d].trail = dirs[d].trail
        /\ point # "copying" /\ point' # "copying"
    BY <1>1, <1>6 DEF TrailFollowsLedger, Attempting
  <2>2. CASE d # w
    <3>1. Settled(d)' = Settled(d)
      BY <1>4, <1>6, <2>1, <2>2, RunSorts DEF Settled
    <3> QED
      BY <1>6, <2>1, <2>2, <3>1 DEF Told
  <2>3. CASE d = w
    <3>1. Settled(d) = k /\ Settled(d)' = k
      <4>1. writing # d /\ writing' = d /\ Len(dirs'[d].ledger) = k + 1 /\ Len(dirs[d].ledger) = k
        BY <1>4, <1>7, <2>3, RunSorts DEF k
      <4> QED
        BY <1>2, <2>1, <4>1 DEF Settled
    <3>2. Told(d)' = Told(d) /\ \A n \in Told(d) : dirs'[d].ledger[n] = dirs[d].ledger[n]
      BY <1>7, <2>3, <3>1 DEF Told, L
    <3> QED
      BY <2>1, <3>2 DEF Tells
  <2> QED
    BY <2>2, <2>3
<1>18. EffectsOnce'
  BY <1>1 DEF EffectsOnce
<1> QED
  BY <1>3, <1>4, <1>6, <1>7, <1>12, <1>13, <1>14, <1>15, <1>16, <1>17, <1>18 DEF E, L, k

(* The run records an event of its own. *)
LEMMA AnnounceRun ==
    ASSUME RunProgressInv, TopNoted,
           \/ AnnouncePhase \/ AnnounceResult \/ AnnounceRetried \/ AnnounceReset \/ ResetWorkspace
           \/ RetryStarts \/ AnnounceStop
    PROVE  RunProgressInv'
<1>1. /\ RecordIn(Top) /\ work' = work /\ commands' = commands /\ said' = said /\ copied' = copied /\ exit' = exit
      /\ proof' = proof /\ UNCHANGED <<kills, halves, uncovered, begun, filed>> /\ taken' = taken /\ twice' = twice
      /\ UNCHANGED <<objective, stopped, solved>> /\ evalFile' \in {evalFile, Unset}
  BY DEF AnnouncePhase, AnnounceResult, AnnounceRetried, AnnounceReset, ResetWorkspace, RetryStarts, AnnounceStop,
         Announce, Later, judgeVars, pastVars, takenVars
<1>2. /\ point \in {"phase"} \cup Judging /\ point' \in Announced
      /\ \/ point = "retrying" /\ point' = "beginning" /\ try' = try + 1 /\ passed' = Unset /\ spoke' = Unset
         \/ /\ point' # "beginning" /\ try' = try /\ passed' = passed /\ spoke' = spoke
            /\ point = "phase" <=> point' = "evaluating"
            /\ point' \in {"resetting", "reset", "retrying"} => point \in {"resetting", "reset"}
            /\ point' = "receipt" => point = "closing"
  BY DEF AnnouncePhase, AnnounceResult, AnnounceRetried, AnnounceReset, ResetWorkspace, RetryStarts, AnnounceStop,
         Announce, Later, judgeVars, Goes, Reported, Announced, Judging
<1>3. point \notin Attempting /\ point' \notin Attempting /\ point # "idle" /\ point' # "idle"
      /\ point' \in {"evaluating", "beginning"} \cup Judging /\ point' \notin {"closing", "resetting"}
  BY <1>2 DEF Judging, Attempting, Announced
<1>4. /\ RunProgressTypeOK /\ Placed /\ JudgedAsFound /\ Proven /\ FiledFirst /\ Top \in RunDirs /\ 1 \in RunDirs /\ work \in RunDirs
      /\ commands \in 0..MaxCommands /\ topBy \in 0..commands
  BY RunSorts DEF RunProgressInv, RunProgressTypeOK
<1>5. /\ dirs' \in [RunDirs -> RunDirectories] /\ writing' = Top
      /\ Len(dirs'[Top].ledger) = Len(dirs[Top].ledger) + 1 /\ dirs'[Top].ledger # <<>>
      /\ Last(dirs'[Top].ledger)[1] = commands
      /\ \A d \in RunDirs : /\ d # Top => dirs'[d] = dirs[d]
                            /\ dirs'[d].cursor = dirs[d].cursor /\ dirs'[d].trail = dirs[d].trail
                            /\ dirs'[d].request = dirs[d].request /\ dirs'[d].summary = dirs[d].summary
                            /\ Reaches(d)' <=> Reaches(d)
                            /\ Diverged(d)' <=> Diverged(d)
      /\ Recorded' /\ Once' /\ Followed' /\ Untaken' /\ TrailFollowsLedger' /\ EffectsOnce'
  BY <1>1, <1>2, <1>3, <1>4, RecordInEvents
<1>6. Len(dirs[Top].ledger) \in Nat
  BY <1>4, DirParts
<1>7. dirs'[Top] # dirs[Top] /\ topBy' = commands'
  BY <1>5, <1>6 DEF TopNoted
<1>8. RunProgressTypeOK'
  <2>1. /\ commands' \in 0..MaxCommands /\ topBy' \in 0..commands'
    BY <1>1, <1>4, <1>7, RunSorts
  <2>2. try' \in RunDirs
    <3>1. CASE point = "retrying"
      <4>1. try # MaxTries /\ try \in RunDirs
        BY <1>4, <3>1 DEF Placed, RunProgressTypeOK
      <4>2. try \in Nat /\ try <= MaxTries /\ MaxTries \in Nat
        BY <4>1, RunSorts
      <4>3. try' = try \/ try' = try + 1
        BY <1>2
      <4>4. try + 1 \in Nat /\ try + 1 <= MaxTries
        BY <4>1, <4>2
      <4> QED
        BY <4>1, <4>3, <4>4, RunSorts
    <3>2. CASE point # "retrying"
      BY <1>2, <1>4, <3>2 DEF RunProgressTypeOK
    <3> QED
      BY <3>1, <3>2
  <2>3. writing' \in RunDirs \cup {Unset} /\ work' \in RunDirs /\ said' \in Nat /\ copied' \in Nat
        /\ exit' \in {Unset, "passed", "failed", "stuck", "killed"} /\ taken' \subseteq RunEvents /\ twice' \subseteq taken'
    BY <1>1, <1>4, <1>5 DEF RunProgressTypeOK
  <2>4. /\ passed' \in BOOLEAN \cup {Unset} /\ evalFile' \in BOOLEAN \cup {Unset}
        /\ spoke' \in {Unset, "told", "stale", "broke"}
    BY <1>1, <1>2, <1>4 DEF RunProgressTypeOK
  <2>5. /\ objective' \in {"challenge", "script", "plain"} /\ stopped' \in BOOLEAN /\ solved' \in BOOLEAN
        /\ proof' \in Receipts \cup {Unset} /\ kills' \in 0..MaxKills /\ filed' \in Nat
        /\ begun' \in [RunDirs -> Nat] /\ halves' \subseteq RunDirs \X RunEvents /\ uncovered' \subseteq RunEvents
    BY <1>1, <1>4 DEF RunProgressTypeOK
  <2> QED
    BY <1>5, <2>1, <2>2, <2>3, <2>4, <2>5 DEF RunProgressTypeOK
<1>9. Placed'
  <2>1. point' # "idle" => commands' >= 1 /\ exit' = Unset
    BY <1>1, <1>3, <1>4 DEF Placed
  <2>2. point' # "idle" /\ try' = 0 => FALSE
    <3>1. try # 0 /\ try \in Nat
      BY <1>2, <1>3, <1>4, RunSorts DEF Placed, Attempting, RunProgressTypeOK
    <3> QED
      BY <1>2, <3>1
  <2>3. point' \in {"resetting", "reset", "retrying"} => try' # MaxTries
    BY <1>2, <1>4 DEF Placed
  <2>4. \A d \in RunDirs \ {Top} : dirs'[d].request = "agent" \/ dirs'[d].cursor # <<>> => begun'[d] >= 1
    BY <1>1, <1>4, <1>5 DEF Placed
  <2> QED
    BY <1>2, <1>3, <1>5, <2>1, <2>2, <2>3, <2>4 DEF Placed
<1>10. Said' /\ InCopy'
  <2>1. point' \notin InFlight /\ point' # "summing"
    BY <1>3 DEF InFlight, Attempting
  <2> QED
    BY <1>1, <1>3, <1>5, <1>7, <2>1 DEF Said, InCopy
<1>11. FiledFirst'
  <2>1. filed # 0
    BY <1>2, <1>3, <1>4 DEF FiledFirst, Judging
  <2> QED
    BY <1>1, <1>4, <1>5, <2>1 DEF FiledFirst
<1>12. JudgedAsFound'
  BY <1>1, <1>2, <1>3, <1>4, <1>5 DEF JudgedAsFound, PassIsDeserved, Judging
<1>13. Proven'
  <2>1. exit' # "passed"
    BY <1>1, <1>3, <1>4, RunSorts DEF Placed
  <2> QED
    BY <1>1, <1>3, <1>5, <1>6, <1>7, <2>1, ProvenStays
<1> QED
  BY <1>5, <1>8, <1>9, <1>10, <1>11, <1>12, <1>13 DEF RunProgressInv

(* The agent records an event. *)
LEMMA AgentEmitsRun == ASSUME RunProgressInv, AgentEmits, TopNoted PROVE RunProgressInv'
<1>1. /\ RecordIn(work) /\ work' = work /\ try' = try /\ commands' = commands /\ said' = said + 1
      /\ copied' = copied /\ exit' = exit /\ point = "running" /\ point' = "running"
      /\ UNCHANGED <<objective, stopped, solved, spoke, passed, evalFile, proof>>
      /\ UNCHANGED <<kills, halves, uncovered, begun, filed>> /\ taken' = taken /\ twice' = twice
  BY DEF AgentEmits, judgeVars, pastVars, takenVars
<1>2. /\ RunProgressTypeOK /\ Placed /\ Said /\ JudgedAsFound /\ Proven /\ FiledFirst /\ Top \in RunDirs /\ 1 \in RunDirs
      /\ work \in RunDirs /\ commands \in 0..MaxCommands /\ topBy \in 0..commands /\ said \in Nat
  BY RunSorts DEF RunProgressInv, RunProgressTypeOK
<1>3. /\ dirs' \in [RunDirs -> RunDirectories] /\ writing' = work /\ writing = Unset
      /\ Len(dirs'[work].ledger) = Len(dirs[work].ledger) + 1 /\ dirs'[work].ledger # <<>>
      /\ \A n \in 1..Len(dirs[work].ledger) : dirs'[work].ledger[n] = dirs[work].ledger[n]
      /\ dirs'[work].ledger[Len(dirs[work].ledger) + 1] = <<commands, work, Len(dirs[work].ledger) + 1>>
      /\ DOMAIN dirs'[work].ledger = 1..(Len(dirs[work].ledger) + 1)
      /\ Last(dirs'[work].ledger)[1] = commands
      /\ \A d \in RunDirs : /\ d # work => dirs'[d] = dirs[d]
                            /\ dirs'[d].cursor = dirs[d].cursor /\ dirs'[d].trail = dirs[d].trail
                            /\ dirs'[d].request = dirs[d].request /\ dirs'[d].summary = dirs[d].summary
                            /\ Reaches(d)' <=> Reaches(d)
                            /\ Diverged(d)' <=> Diverged(d)
      /\ Recorded' /\ Once' /\ Followed' /\ Untaken' /\ TrailFollowsLedger' /\ EffectsOnce'
  BY <1>1, <1>2, RecordInEvents
<1> DEFINE k == Len(dirs[work].ledger)
<1>4. /\ k \in Nat /\ DOMAIN dirs[work].ledger = 1..k /\ Len(dirs[Top].ledger) \in Nat
      /\ Len(dirs[work].trail) \in Nat /\ DOMAIN dirs[work].trail = 1..Len(dirs[work].trail)
  BY <1>2, DirParts
<1>5. topBy' = topBy \/ topBy' = commands
  BY <1>1 DEF TopNoted
<1>6. work = Top => topBy' = commands /\ dirs'[Top] # dirs[Top]
  BY <1>1, <1>3, <1>4 DEF TopNoted
<1>7. RunProgressTypeOK'
  <2>1. commands' \in 0..MaxCommands /\ topBy' \in 0..commands' /\ said' \in Nat
    <3>1. commands \in Nat
      BY <1>2, RunSorts
    <3> QED
      BY <1>1, <1>2, <1>5, <3>1
  <2>3. writing' \in RunDirs \cup {Unset} /\ work' \in RunDirs /\ try' \in RunDirs /\ copied' \in Nat
        /\ exit' \in {Unset, "passed", "failed", "stuck", "killed"} /\ taken' \subseteq RunEvents /\ twice' \subseteq taken'
    BY <1>1, <1>2, <1>3 DEF RunProgressTypeOK
  <2>4. /\ passed' \in BOOLEAN \cup {Unset} /\ evalFile' \in BOOLEAN \cup {Unset}
        /\ spoke' \in {Unset, "told", "stale", "broke"}
    BY <1>1, <1>2 DEF RunProgressTypeOK
  <2>5. /\ objective' \in {"challenge", "script", "plain"} /\ stopped' \in BOOLEAN /\ solved' \in BOOLEAN
        /\ proof' \in Receipts \cup {Unset} /\ kills' \in 0..MaxKills /\ filed' \in Nat
        /\ begun' \in [RunDirs -> Nat] /\ halves' \subseteq RunDirs \X RunEvents /\ uncovered' \subseteq RunEvents
    BY <1>1, <1>2 DEF RunProgressTypeOK
  <2> QED
    BY <1>3, <2>1, <2>3, <2>4, <2>5 DEF RunProgressTypeOK
<1>8. Placed'
  <2>1. \A d \in RunDirs \ {Top} : dirs'[d].request = "agent" \/ dirs'[d].cursor # <<>> => begun'[d] >= 1
    BY <1>1, <1>2, <1>3 DEF Placed
  <2> QED
    BY <1>1, <1>2, <1>3, <2>1 DEF Placed
<1>9. Said'
  <2>1. ASSUME try # 0
        PROVE /\ \A n \in DOMAIN dirs'[work].ledger : dirs'[work].ledger[n] = <<commands, work, n>>
              /\ Len(dirs'[work].trail) = Len(dirs'[work].ledger) - 1
              /\ \A n \in DOMAIN dirs'[work].trail : dirs'[work].trail[n] = dirs'[work].ledger[n]
    <3>1. /\ \A n \in DOMAIN dirs[work].ledger : dirs[work].ledger[n] = <<commands, work, n>>
          /\ Len(dirs[work].trail) = Len(dirs[work].ledger)
          /\ \A n \in DOMAIN dirs[work].trail : dirs[work].trail[n] = dirs[work].ledger[n]
      <4>1. Len(dirs[work].ledger) - 0 = Len(dirs[work].ledger)
        BY <1>4
      <4> QED
        BY <1>1, <1>2, <1>3, <2>1, <4>1 DEF Said, Attempting
    <3>2. dirs'[work].trail = dirs[work].trail
      BY <1>2, <1>3
    <3>3. ASSUME NEW n \in DOMAIN dirs'[work].ledger PROVE dirs'[work].ledger[n] = <<commands, work, n>>
      <4>1. CASE n \in 1..k
        BY <1>3, <1>4, <3>1, <4>1
      <4>2. CASE n \notin 1..k
        <5>1. n = k + 1
          BY SMTT(30), <1>3, <1>4, <3>3, <4>2
        <5> QED
          BY <1>3, <5>1
      <4> QED
        BY <4>1, <4>2
    <3>4. ASSUME NEW n \in DOMAIN dirs'[work].trail PROVE dirs'[work].trail[n] = dirs'[work].ledger[n]
      <4>1. n \in 1..k /\ n \in DOMAIN dirs[work].trail
        BY <1>4, <3>1, <3>2, <3>4
      <4> QED
        BY <1>3, <3>1, <3>2, <4>1
    <3>5. Len(dirs'[work].trail) = Len(dirs'[work].ledger) - 1
      BY <1>3, <1>4, <3>1, <3>2
    <3> QED
      BY <3>3, <3>4, <3>5
  <2>2. point' \notin {"summing"} \cup InFlight
    BY <1>1 DEF InFlight
  <2>3. writing' # Unset /\ (writing' = Top => topBy' = commands')
    BY <1>1, <1>2, <1>3, <1>6, RunSorts
  <2> QED
    BY <1>1, <1>3, <2>1, <2>2, <2>3 DEF Said
<1>10. InCopy'
  BY <1>1 DEF InCopy, InFlight
<1>11. FiledFirst'
  <2>1. /\ point \in Attempting /\ point \notin InFlight
        /\ work = Top => dirs[Top].request = "agent"
        /\ try # 0 => work # Top
    BY <1>1, <1>2 DEF Placed, Attempting, InFlight, Top
  <2>2. (\A d \in RunDirs \ {Top} : Reaches(d) \/ begun[d] > 1)' /\ (Reaches(Top) \/ filed > 1)'
    BY <1>1, <1>2, <1>3 DEF FiledFirst
  <2>3. (exit = "stuck" => ~Reaches(work))'
    BY <1>1, <1>2, RunSorts DEF Placed
  <2>4. ASSUME filed = 0
        PROVE  /\ dirs'[Top].ledger # <<>> => dirs'[1].cursor # <<>>
               /\ dirs'[Top].request = "agent" => dirs'[Top].ledger # <<>>
               /\ try <= 1
               /\ try # 0 => dirs'[Top].ledger = <<>> \/ Diverged(1)'
    <3>1. /\ dirs[Top].ledger # <<>> => dirs[1].cursor # <<>>
          /\ dirs[Top].request = "agent" => dirs[Top].ledger # <<>>
          /\ try <= 1
          /\ try # 0 => dirs[Top].ledger = <<>> \/ Diverged(1)
      BY <1>1, <1>2, <2>4 DEF FiledFirst
    <3>2. CASE work = Top
      BY <1>2, <1>3, <2>1, <3>1, <3>2
    <3>3. CASE work # Top
      <4>1. dirs'[Top] = dirs[Top]
        BY <1>2, <1>3, <3>3
      <4> QED
        BY <1>2, <1>3, <2>1, <3>1, <4>1
    <3> QED
      BY <3>2, <3>3
  <2> QED
    BY <1>1, <2>1, <2>2, <2>3, <2>4 DEF FiledFirst
<1>12. JudgedAsFound'
  BY <1>1, <1>2, <1>3 DEF JudgedAsFound, PassIsDeserved, Attempting, Judging
<1>13. Proven'
  <2>1. exit' # "passed"
    BY <1>1, <1>2, RunSorts DEF Placed
  <2>2. Changed' => Changed
    BY <1>1 DEF Changed
  <2>3. dirs'[Top] = dirs[Top] \/ Len(dirs'[Top].ledger) = Len(dirs[Top].ledger) + 1
    BY <1>2, <1>3
  <2> QED
    BY <1>1, <1>4, <2>1, <2>2, <2>3, ProvenStays
<1> QED
  BY <1>3, <1>7, <1>8, <1>9, <1>10, <1>11, <1>12, <1>13 DEF RunProgressInv

-----------------------------------------------------------------------------
(* An attempt begins, and its consumers follow it *)

(* The types of what most steps of an attempt leave alone. *)
LEMMA TypeStays ==
    ASSUME RunProgressTypeOK, TopNoted, dirs' \in [RunDirs -> RunDirectories],
           UNCHANGED <<objective, stopped, solved, spoke, passed, evalFile, proof>>,
           UNCHANGED <<kills, halves, uncovered>>, commands' = commands, writing' = writing, work' \in RunDirs,
           try' = try, exit' = exit, said' \in Nat, copied' \in Nat, filed' \in Nat, begun' \in [RunDirs -> Nat],
           taken' \subseteq RunEvents, twice' \subseteq taken'
    PROVE  RunProgressTypeOK'
<1>1. commands' \in 0..MaxCommands /\ topBy' \in 0..commands'
  <2>1. commands \in 0..MaxCommands /\ topBy \in 0..commands /\ commands \in Nat
    BY RunSorts DEF RunProgressTypeOK
  <2>2. topBy' = topBy \/ topBy' = commands
    BY DEF TopNoted
  <2> QED
    BY <2>1, <2>2
<1>2. /\ writing' \in RunDirs \cup {Unset} /\ try' \in RunDirs
      /\ exit' \in {Unset, "passed", "failed", "stuck", "killed"}
  BY DEF RunProgressTypeOK
<1>3. /\ passed' \in BOOLEAN \cup {Unset} /\ evalFile' \in BOOLEAN \cup {Unset}
      /\ spoke' \in {Unset, "told", "stale", "broke"}
  BY DEF RunProgressTypeOK
<1>4. /\ objective' \in {"challenge", "script", "plain"} /\ stopped' \in BOOLEAN /\ solved' \in BOOLEAN
      /\ proof' \in Receipts \cup {Unset} /\ kills' \in 0..MaxKills
      /\ halves' \subseteq RunDirs \X RunEvents /\ uncovered' \subseteq RunEvents
  BY DEF RunProgressTypeOK
<1> QED
  BY <1>1, <1>2, <1>3, <1>4 DEF RunProgressTypeOK

(* An attempt empties its ledger, under the cursor of an earlier one where there is one. *)
LEMMA BeginTryRun == ASSUME RunProgressInv, BeginTry, TopNoted PROVE RunProgressInv'
<1>1. /\ point = "beginning" /\ writing = Unset /\ writing' = Unset /\ point' = "running" /\ work' = try /\ said' = 0
      /\ try' = try /\ commands' = commands /\ copied' = copied /\ exit' = exit
      /\ begun' = [begun EXCEPT ![try] = begun[try] + 1] /\ taken' = taken /\ twice' = twice
      /\ UNCHANGED <<objective, stopped, solved, spoke, passed, evalFile, proof>>
      /\ UNCHANGED <<kills, halves, uncovered, filed>>
      /\ dirs' = [dirs EXCEPT ![try] = [dirs[try] EXCEPT !.trail = <<>>, !.ledger = <<>>, !.request = "agent"]]
  BY DEF BeginTry, Goes, judgeVars, takenVars
<1>2. /\ RunProgressTypeOK /\ Placed /\ Said /\ Recorded /\ Once /\ Followed /\ Untaken /\ TrailFollowsLedger /\ EffectsOnce
      /\ FiledFirst /\ JudgedAsFound /\ Proven /\ Top \in RunDirs /\ 1 \in RunDirs
      /\ try \in RunDirs /\ dirs \in [RunDirs -> RunDirectories] /\ dirs[try] \in RunDirectories /\ begun \in [RunDirs -> Nat]
  BY RunSorts DEF RunProgressInv, RunProgressTypeOK
<1>3. try # 0 /\ try # Top /\ try \in Nat
  BY <1>1, <1>2, RunSorts DEF Placed
<1>4. /\ dirs' \in [RunDirs -> RunDirectories] /\ dirs'[try].ledger = <<>> /\ dirs'[try].trail = <<>>
      /\ dirs'[try].cursor = dirs[try].cursor /\ \A d \in RunDirs : d # try => dirs'[d] = dirs[d]
  <2> DEFINE new == [dirs[try] EXCEPT !.trail = <<>>, !.ledger = <<>>, !.request = "agent"]
  <2>1. <<>> \in Seq(RunEvents)
    BY EmptySeq
  <2>2. new \in RunDirectories /\ new.ledger = <<>> /\ new.trail = <<>> /\ new.cursor = dirs[try].cursor
    BY <1>2, <2>1 DEF RunDirectories, Requests
  <2>3. dirs' = [dirs EXCEPT ![try] = new]
    BY <1>1
  <2> HIDE DEF new
  <2>4. dirs' \in [RunDirs -> RunDirectories] /\ dirs'[try] = new /\ \A d \in RunDirs : d # try => dirs'[d] = dirs[d]
    BY <1>2, <2>2, <2>3
  <2> QED
    BY <2>2, <2>4
<1>5. Len(dirs'[try].ledger) = 0 /\ Len(dirs'[try].trail) = 0 /\ DOMAIN dirs'[try].ledger = {}
      /\ DOMAIN dirs'[try].trail = {}
  BY <1>4
<1>6. /\ begun' \in [RunDirs -> Nat] /\ begun'[try] = begun[try] + 1 /\ begun[try] \in Nat
      /\ \A d \in RunDirs : d # try => begun'[d] = begun[d]
  BY <1>1, <1>2
<1>7. dirs'[Top] = dirs[Top] /\ topBy' = topBy
  BY <1>2, <1>3, <1>4 DEF TopNoted
<1>8. RunProgressTypeOK'
  <2>1. said' \in Nat /\ copied' \in Nat /\ filed' \in Nat /\ taken' \subseteq RunEvents /\ twice' \subseteq taken'
        /\ UNCHANGED <<kills, halves, uncovered>> /\ writing' = writing
    BY <1>1, <1>2 DEF RunProgressTypeOK
  <2> QED
    BY <1>1, <1>2, <1>4, <1>6, <2>1, TypeStays
<1>9. Placed'
  <2>1. \A d \in RunDirs \ {Top} : dirs'[d].request = "agent" \/ dirs'[d].cursor # <<>> => begun'[d] >= 1
    BY <1>2, <1>4, <1>6 DEF Placed
  <2> QED
    BY <1>1, <1>2, <1>3, <1>6, <2>1 DEF Placed, Attempting
<1>10. Said' /\ InCopy'
  BY <1>1, <1>5 DEF Said, InCopy, InFlight
<1>11. \A e \in RunEvents : Bygone(e) => Bygone(e)'
  <2> SUFFICES ASSUME NEW e \in RunEvents, Bygone(e) PROVE Bygone(e)'
    OBVIOUS
  <2>1. e[2] \in RunDirs /\ e[2] \in Nat
    BY EventParts, RunSorts
  <2>2. e[1] = commands => e[2] # try
    BY <1>1, <1>3, <2>1 DEF Bygone
  <2> QED
    BY <1>1, <1>4, <2>1, <2>2 DEF Bygone
<1>12. ASSUME NEW d \in RunDirs, NEW n \in DOMAIN dirs'[d].ledger
       PROVE  d # try /\ dirs'[d] = dirs[d] /\ n \in DOMAIN dirs[d].ledger
  BY <1>4, <1>5, <1>12
<1>13. Recorded'
  <2>1. ASSUME NEW d \in RunDirs, NEW n \in DOMAIN dirs'[d].ledger PROVE Bygone(dirs[d].ledger[n])'
    <3>1. PICK e \in RunEvents : e = dirs[d].ledger[n] /\ e = dirs'[d].ledger[n]
      BY <1>2, <1>12, DirParts
    <3>2. Bygone(e)
      BY <1>2, <1>12, <3>1 DEF Recorded
    <3> QED
      BY <1>11, <3>1, <3>2
  <2>2. \A e \in taken : Bygone(e)'
    BY <1>2, <1>11 DEF Recorded, RunProgressTypeOK
  <2>3. (\A d \in RunDirs : \A n \in DOMAIN dirs[d].ledger : Bygone(dirs[d].ledger[n]))'
    BY <2>1
  <2>4. (\A e \in taken : Bygone(e))'
    BY <1>1, <2>2
  <2>5. (\A d \in RunDirs : \A n \in DOMAIN dirs[d].cursor : dirs[d].cursor[n] \in taken)'
    BY <1>1, <1>2, <1>4 DEF Recorded
  <2>6. \A h \in halves : h[2][1] <= commands /\ h[2][1] < commands
    BY <1>1, <1>2 DEF Recorded
  <2> QED
    BY <1>1, <2>3, <2>4, <2>5, <2>6 DEF Recorded
<1>14. Once'
  <2>1. \A d \in RunDirs \ {Top} : \A n \in DOMAIN dirs'[d].ledger :
            dirs'[d].ledger[n][2] = d /\ dirs'[d].ledger[n][3] = n
    BY <1>2, <1>12 DEF Once
  <2>2. ASSUME NEW n \in DOMAIN dirs'[Top].ledger, dirs'[Top].ledger[n][1] = commands'
        PROVE  dirs'[Top].ledger[n][2] < try
    <3>1. PICK e \in RunEvents : e = dirs[Top].ledger[n] /\ e = dirs'[Top].ledger[n]
      BY <1>2, <1>7, DirParts
    <3>2. Bygone(e)
      BY <1>2, <1>7, <3>1 DEF Recorded
    <3> QED
      BY <1>1, <1>3, <2>2, <3>1, <3>2 DEF Bygone
  <2> QED
    BY <1>1, <1>2, <1>7, <2>1, <2>2 DEF Once
<1>15. ASSUME NEW d \in RunDirs, d # try PROVE (Reaches(d)' <=> Reaches(d)) /\ (Diverged(d)' <=> Diverged(d))
  BY <1>4, <1>15 DEF Reaches, Diverged
<1>16. ASSUME NEW d \in RunDirs, d = try
       PROVE  (Reaches(d)' <=> dirs[d].cursor = <<>>) /\ (Diverged(d)' <=> dirs[d].cursor # <<>>)
  <2>1. Len(dirs[d].cursor) \in Nat /\ (dirs[d].cursor = <<>> <=> Len(dirs[d].cursor) = 0)
    BY <1>2, DirParts
  <2> QED
    BY <1>3, <1>4, <1>5, <1>16, <2>1 DEF Reaches, Diverged
<1>17. Followed'
  <2>1. (\A d \in RunDirs : Reaches(d) \/ Diverged(d))'
    <3>1. \A d \in RunDirs : Reaches(d) \/ Diverged(d)
      BY ZenonT(30), <1>2 DEF Followed
    <3> QED
      BY <1>15, <1>16, <3>1
  <2>2. ASSUME NEW n \in DOMAIN dirs'[Top].ledger, NEW e, e = dirs'[Top].ledger[n], e[2] # Top, Reaches(e[2])',
               e[3] \in DOMAIN dirs'[e[2]].ledger, dirs'[e[2]].ledger[e[3]] = e
        PROVE  e[3] <= Len(dirs'[e[2]].cursor)
    <3>1. n \in DOMAIN dirs[Top].ledger /\ e = dirs[Top].ledger[n] /\ e[2] \in RunDirs
      <4>1. n \in DOMAIN dirs[Top].ledger /\ e = dirs[Top].ledger[n]
        BY <1>7, <2>2
      <4> QED
        BY <1>2, <4>1, LedgerEvent
    <3>2. e[2] # try /\ dirs'[e[2]] = dirs[e[2]] /\ Reaches(e[2])
      BY <1>12, <1>15, <2>2, <3>1
    <3> QED
      BY <1>2, <2>2, <3>1, <3>2, FollowedSays
  <2> QED
    BY <2>1, <2>2 DEF Followed
<1>18. Untaken'
  <2> SUFFICES ASSUME NEW d \in RunDirs, NEW n \in DOMAIN dirs'[d].ledger, Reaches(d)', n > Len(dirs'[d].cursor),
                      dirs'[d].ledger[n] \in taken
               PROVE  dirs'[d].ledger[n] \in uncovered
    BY <1>1 DEF Untaken
  <2> QED
    BY <1>1, <1>2, <1>12, <1>15 DEF Untaken, InFlight
<1>19. TrailFollowsLedger'
  <2> SUFFICES ASSUME NEW d \in RunDirs PROVE Tells(dirs'[d].trail, Told(d)', dirs'[d].ledger)
    BY DEF TrailFollowsLedger
  <2>1. CASE d = try
    <3>1. Settled(d)' = 0
      BY <1>1, <1>2, <1>5, <2>1, RunSorts DEF Settled
    <3>2. Told(d)' = {}
      BY <3>1 DEF Told
    <3> QED
      BY <1>4, <1>5, <2>1, <3>2, FS_EmptySet DEF Tells
  <2>2. CASE d # try
    <3>1. Settled(d)' = Settled(d) /\ dirs'[d] = dirs[d]
      BY <1>1, <1>4, <2>2 DEF Settled
    <3>2. Told(d)' = Told(d)
      <4>1. halves' = halves
        BY <1>1
      <4> QED
        BY <3>1, <4>1 DEF Told
    <3> QED
      BY <1>2, <3>1, <3>2 DEF TrailFollowsLedger
  <2> QED
    BY <2>1, <2>2
<1>20. EffectsOnce'
  BY <1>1, <1>2 DEF EffectsOnce
<1>21. FiledFirst'
  <2>1. ASSUME NEW d \in RunDirs \ {Top} PROVE Reaches(d)' \/ begun'[d] > 1
    <3>1. CASE d = try
      BY <1>2, <1>3, <1>6, <1>16, <3>1 DEF Placed
    <3>2. CASE d # try
      BY <1>2, <1>6, <1>15, <2>1, <3>2 DEF FiledFirst
    <3> QED
      BY <3>1, <3>2
  <2>2. (Reaches(Top)' \/ filed' > 1) /\ exit' # "stuck"
    BY <1>1, <1>2, <1>3, <1>15, RunSorts DEF FiledFirst, Placed
  <2>3. ASSUME filed = 0
        PROVE  /\ dirs'[Top].ledger # <<>> => dirs'[1].cursor # <<>>
               /\ dirs'[Top].request = "agent" => dirs'[Top].ledger # <<>>
               /\ try <= 1
               /\ dirs'[Top].ledger = <<>> \/ Diverged(1)'
    <3>1. /\ dirs[Top].ledger # <<>> => dirs[1].cursor # <<>>
          /\ dirs[Top].request = "agent" => dirs[Top].ledger # <<>>
          /\ try <= 1
      BY <1>1, <1>2, <2>3 DEF FiledFirst
    <3>2. try = 1
      BY <1>3, <3>1
    <3> QED
      BY <1>2, <1>4, <1>7, <1>16, <3>1, <3>2
  <2> QED
    BY <1>1, <2>1, <2>2, <2>3 DEF FiledFirst, Attempting, InFlight
<1>22. JudgedAsFound'
  BY <1>1, <1>2 DEF JudgedAsFound, PassIsDeserved, Attempting, Judging
<1>23. Proven'
  <2>1. Changed' => Changed
    BY <1>1 DEF Changed, Judging
  <2>2. Len(dirs[Top].ledger) \in Nat /\ exit' # "passed"
    BY <1>1, <1>2, DirParts, RunSorts DEF Placed
  <2> QED
    <3>1. proof' = proof /\ commands' = commands /\ point # "idle"
      BY <1>1
    <3>2. Len(dirs'[Top].ledger) \in Nat /\ Len(dirs'[Top].ledger) >= Len(dirs[Top].ledger)
      BY <1>7, <2>2
    <3> QED
      BY <1>7, <2>1, <2>2, <3>1, <3>2, ProvenStays
<1> QED
  BY <1>8, <1>9, <1>10, <1>13, <1>14, <1>17, <1>18, <1>19, <1>20, <1>21, <1>22, <1>23 DEF RunProgressInv

(* The consumers take up to the Nth event: what is new to the cursor is new to them, but for what
   was copied without its cursor. *)
LEMMA ConsumeEvents ==
    ASSUME RunProgressInv, NEW N \in Nat, ConsumeTo(N), Reaches(work), Len(dirs[work].cursor) <= N, N <= Len(dirs[work].ledger),
           point \in {"running", "stopping"}, point' \in {"running", "stopping", "summing"}, writing' = writing,
           work' = work, try' = try, commands' = commands, halves' = halves, uncovered' = uncovered
    PROVE  /\ dirs' \in [RunDirs -> RunDirectories] /\ taken' \subseteq RunEvents /\ twice' \subseteq taken'
           /\ Len(dirs'[work].cursor) = N /\ (N = Len(dirs[work].ledger) => dirs'[work].cursor = dirs[work].ledger)
           /\ \A d \in RunDirs : /\ d # work => dirs'[d] = dirs[d]
                                 /\ dirs'[d].ledger = dirs[d].ledger /\ dirs'[d].trail = dirs[d].trail
                                 /\ dirs'[d].request = dirs[d].request /\ dirs'[d].summary = dirs[d].summary
                                 /\ Reaches(d)' <=> Reaches(d)
                                 /\ Diverged(d)' <=> Diverged(d)
           /\ Recorded' /\ Once' /\ Followed' /\ Untaken' /\ TrailFollowsLedger' /\ EffectsOnce'
<1> DEFINE w == work
           L == dirs[w].ledger
           c == Len(dirs[w].cursor)
           to == SubSeq(L, 1, N)
           events == {L[i] : i \in c + 1 .. N}
<1>1. /\ RunProgressTypeOK /\ Placed /\ Recorded /\ Once /\ Followed /\ Untaken /\ TrailFollowsLedger /\ EffectsOnce
      /\ Top \in RunDirs /\ w \in RunDirs /\ dirs \in [RunDirs -> RunDirectories]
  BY RunSorts DEF RunProgressInv, RunProgressTypeOK
<1>2. /\ dirs' = [dirs EXCEPT ![w] = [dirs[w] EXCEPT !.cursor = to]]
      /\ taken' = taken \cup events /\ twice' = twice \cup (taken \cap events)
  BY DEF ConsumeTo
<1>3. /\ L \in Seq(RunEvents) /\ Len(L) \in Nat /\ c \in Nat /\ c <= N /\ N <= Len(L) /\ dirs[w] \in RunDirectories
      /\ DOMAIN L = 1..Len(L)
      /\ DOMAIN dirs[w].cursor = 1..c /\ \A n \in 1..c : dirs[w].cursor[n] = L[n]
  BY <1>1, DirParts DEF Reaches
<1> HIDE DEF w
<1>4. /\ to \in Seq(RunEvents) /\ Len(to) = N /\ DOMAIN to = 1..N /\ \A n \in 1..N : to[n] = L[n]
      /\ (N = Len(L) => to = L)
  <2> HIDE DEF L
  <2>1. /\ to \in Seq(RunEvents) /\ Len(to) = N /\ DOMAIN to = 1..N /\ \A n \in 1..N : to[n] = L[n]
    BY <1>3
  <2>2. ASSUME N = Len(L) PROVE to = L
    <3> HIDE DEF to
    <3> QED
      BY <1>3, <2>1, <2>2, SeqEqual
  <2> QED
    BY <2>1, <2>2
<1>5. /\ dirs' \in [RunDirs -> RunDirectories] /\ dirs'[w].cursor = to
      /\ \A d \in RunDirs : /\ d # w => dirs'[d] = dirs[d]
                            /\ dirs'[d].ledger = dirs[d].ledger /\ dirs'[d].trail = dirs[d].trail
                            /\ dirs'[d].request = dirs[d].request /\ dirs'[d].summary = dirs[d].summary
  <2> HIDE DEF to
  <2> DEFINE new == [dirs[w] EXCEPT !.cursor = to]
  <2>1. /\ new \in RunDirectories /\ new.cursor = to /\ new.ledger = dirs[w].ledger /\ new.trail = dirs[w].trail
        /\ new.request = dirs[w].request /\ new.summary = dirs[w].summary
    BY <1>3, <1>4 DEF RunDirectories
  <2>2. dirs' = [dirs EXCEPT ![w] = new]
    BY <1>2
  <2> HIDE DEF new
  <2>3. dirs' \in [RunDirs -> RunDirectories] /\ dirs'[w] = new /\ \A d \in RunDirs : d # w => dirs'[d] = dirs[d]
    BY <1>1, <2>1, <2>2
  <2> QED
    BY <2>1, <2>3
<1> HIDE DEF to, L, c
<1>6. ASSUME NEW e \in events PROVE \E i \in (c + 1)..N : e = L[i] /\ i \in DOMAIN L /\ i \in 1..N /\ e \in RunEvents
  <2>1. PICK i \in (c + 1)..N : e = L[i]
    BY <1>6
  <2>2. i \in 1..Len(L) /\ i \in 1..N
    BY <1>3, <2>1
  <2>3. L[i] \in RunEvents
    BY <1>3, <2>2, ElementOfSeq
  <2> QED
    BY <1>3, <2>1, <2>2, <2>3
<1> HIDE DEF events
<1>7. taken' \subseteq RunEvents /\ twice' \subseteq taken'
  BY <1>1, <1>2, <1>6 DEF RunProgressTypeOK
<1>8. ASSUME NEW d \in RunDirs PROVE (Reaches(d)' <=> Reaches(d)) /\ (Diverged(d)' <=> Diverged(d))
  <2>1. CASE d # w
    BY <1>5, <2>1 DEF Reaches, Diverged
  <2>2. CASE d = w
    <3>1. Reaches(d) /\ Reaches(d)'
      BY <1>3, <1>4, <1>5, <2>2 DEF Reaches, L, w
    <3>2. ~Diverged(d)
      <4>1. /\ dirs[d].cursor = <<>> <=> c = 0 /\ (L = <<>> <=> Len(L) = 0)
        BY <1>1, <2>2, DirParts DEF c, L
      <4>2. /\ c # 0 => L # <<>> /\ L[1] = dirs[w].cursor[1]
        BY <1>3, <4>1
      <4> QED
        BY <2>2, <4>1, <4>2 DEF Diverged, L
    <3>3. ~Diverged(d)'
      <4>1. (to = <<>> <=> N = 0) /\ (L = <<>> <=> Len(L) = 0)
        BY <1>3, <1>4, EmptySeq
      <4>2. N # 0 => L # <<>> /\ L[1] = to[1]
        <5>1. N # 0 => 1 \in 1..N /\ Len(L) # 0
          BY <1>3
        <5> QED
          BY <1>4, <4>1, <5>1
      <4>3. dirs'[d].ledger = L /\ dirs'[d].cursor = to
        BY <1>5, <2>2 DEF L
      <4> QED
        BY SMTT(30), <4>1, <4>2, <4>3 DEF Diverged
    <3> QED
      BY <3>1, <3>2, <3>3
  <2> QED
    BY <2>1, <2>2
<1>9. \A e \in RunEvents : Bygone(e) => Bygone(e)'
  BY <1>5, EventParts DEF Bygone
<1>10. Recorded'
  <2>1. ASSUME NEW d \in RunDirs, NEW n \in DOMAIN dirs'[d].ledger PROVE Bygone(dirs[d].ledger[n])'
    <3>1. PICK e \in RunEvents : e = dirs[d].ledger[n] /\ e = dirs'[d].ledger[n] /\ n \in DOMAIN dirs[d].ledger
      BY <1>1, <1>5, DirParts
    <3>2. Bygone(e)
      BY <1>1, <3>1 DEF Recorded
    <3> QED
      BY <1>9, <3>1, <3>2
  <2>2. ASSUME NEW e \in taken' PROVE Bygone(e)'
    <3>1. CASE e \in taken
      BY <1>1, <1>9, <3>1 DEF Recorded, RunProgressTypeOK
    <3>2. CASE e \in events
      <4>1. PICK i \in (c + 1)..N : e = L[i] /\ i \in DOMAIN L /\ e \in RunEvents
        BY <1>6, <3>2
      <4>2. Bygone(L[i])
        BY <1>1, <4>1 DEF Recorded, L
      <4> QED
        BY <1>9, <4>1, <4>2
    <3> QED
      BY <1>2, <2>2, <3>1, <3>2
  <2>3. ASSUME NEW d \in RunDirs, NEW n \in DOMAIN dirs'[d].cursor PROVE dirs'[d].cursor[n] \in taken'
    <3>1. CASE d # w
      BY <1>1, <1>2, <1>5, <2>3, <3>1 DEF Recorded
    <3>2. CASE d = w
      <4>1. n \in 1..N /\ dirs'[d].cursor[n] = L[n]
        BY <1>4, <1>5, <2>3, <3>2
      <4>2. CASE n <= c
        <5>1. n \in DOMAIN dirs[w].cursor /\ L[n] = dirs[w].cursor[n]
          BY <1>3, <4>1, <4>2
        <5> QED
          BY <1>1, <1>2, <4>1, <5>1 DEF Recorded
      <4>3. CASE ~(n <= c)
        <5>1. n \in (c + 1)..N
          BY <1>3, <4>1, <4>3
        <5> QED
          BY <1>2, <4>1, <5>1 DEF events
      <4> QED
        BY <4>2, <4>3
    <3> QED
      BY <3>1, <3>2
  <2>4. (\A d \in RunDirs : \A n \in DOMAIN dirs[d].ledger : Bygone(dirs[d].ledger[n]))'
    BY <2>1
  <2>5. (\A e \in taken : Bygone(e))'
    BY <2>2
  <2>6. \A h \in halves : h[2][1] <= commands /\ h[2][1] < commands
    BY <1>1 DEF Recorded
  <2> QED
    BY <2>3, <2>4, <2>5, <2>6 DEF Recorded
<1>11. Once'
  BY <1>1, <1>5 DEF Once
<1>12. Followed'
  <2>1. (\A d \in RunDirs : Reaches(d) \/ Diverged(d))'
    BY <1>1, <1>8 DEF Followed
  <2>2. ASSUME NEW n \in DOMAIN dirs'[Top].ledger, NEW e, e = dirs'[Top].ledger[n], e[2] # Top, Reaches(e[2])',
               e[3] \in DOMAIN dirs'[e[2]].ledger, dirs'[e[2]].ledger[e[3]] = e
        PROVE  e[3] <= Len(dirs'[e[2]].cursor)
    <3>1. n \in DOMAIN dirs[Top].ledger /\ e = dirs[Top].ledger[n] /\ e[2] \in RunDirs /\ e[3] \in Nat
      <4>1. n \in DOMAIN dirs[Top].ledger /\ e = dirs[Top].ledger[n]
        BY ZenonT(30), <1>1, <1>5, <2>2
      <4> QED
        BY <1>1, <4>1, LedgerEvent
    <3>2. Reaches(e[2]) /\ e[3] \in DOMAIN dirs[e[2]].ledger /\ dirs[e[2]].ledger[e[3]] = e
      BY SMTT(60), <1>5, <1>8, <2>2, <3>1
    <3>3. e[3] <= Len(dirs[e[2]].cursor)
      BY ZenonT(30), <1>1, <2>2, <3>1, <3>2, FollowedSays
    <3>4. CASE e[2] = w
      <4>1. e[3] <= c /\ Len(dirs'[e[2]].cursor) = N
        BY <1>4, <1>5, <3>3, <3>4 DEF c
      <4> QED
        BY <1>3, <3>1, <4>1
    <3>5. CASE e[2] # w
      BY <1>5, <3>1, <3>3, <3>5
    <3> QED
      BY SMTT(30), <3>4, <3>5
  <2> QED
    BY <2>1, <2>2 DEF Followed
<1>13. ASSUME NEW i \in (c + 1)..N, L[i] \in taken PROVE L[i] \in uncovered
  <2>1. i \in DOMAIN L /\ i > c
    BY <1>3, <1>13
  <2> QED
    BY <1>1, <1>13, <2>1 DEF Untaken, InFlight, L, c, w
<1>14. Untaken'
  <2> SUFFICES ASSUME NEW d \in RunDirs, NEW n \in DOMAIN dirs'[d].ledger, Reaches(d)', n > Len(dirs'[d].cursor),
                      dirs'[d].ledger[n] \in taken'
               PROVE  dirs'[d].ledger[n] \in uncovered
    BY DEF Untaken
  <2>1. /\ Reaches(d) /\ n \in DOMAIN dirs[d].ledger /\ dirs'[d].ledger[n] = dirs[d].ledger[n]
        /\ n \in Nat /\ Len(dirs[d].cursor) \in Nat
    BY <1>1, <1>5, <1>8, DirParts
  <2>2. n > Len(dirs[d].cursor)
    <3>1. CASE d = w
      <4> HIDE DEF to, L
      <4>1. dirs'[d].cursor = to /\ Len(to) = N
        BY <1>4, <1>5, <3>1
      <4>2. n > N
        BY <4>1
      <4>3. Len(dirs[d].cursor) = c
        BY <3>1 DEF c
      <4> HIDE DEF c
      <4> QED
        BY <1>3, <2>1, <4>2, <4>3
    <3>2. CASE d # w
      BY <1>5, <3>2
    <3> QED
      BY <3>1, <3>2
  <2>3. CASE dirs[d].ledger[n] \in taken
    BY <1>1, <2>1, <2>2, <2>3 DEF Untaken, InFlight
  <2>4. CASE dirs[d].ledger[n] \in events
    <3>1. PICK i \in (c + 1)..N : dirs[d].ledger[n] = L[i] /\ i \in DOMAIN L /\ i \in 1..N
      BY <1>6, <2>4
    <3>2. CASE d = w
      <4>1. n = i
        BY <1>1, <2>1, <3>1, <3>2, LedgerOnce DEF L
      <4> QED
        BY <1>4, <1>5, <3>1, <3>2, <4>1
    <3>3. CASE d # w /\ d # Top /\ w # Top
      BY <1>1, <2>1, <3>1, <3>3 DEF Once, L
    <3>4. CASE d # w /\ w = Top
      <4>1. L[i][2] = d /\ L[i][3] = n
        BY <1>1, <2>1, <3>1, <3>4 DEF Once
      <4>2. n <= Len(dirs[d].cursor)
        BY <1>1, <2>1, <3>1, <3>4, <4>1 DEF Followed, L
      <4> QED
        BY <2>1, <2>2, <4>2
    <3>5. CASE d # w /\ d = Top
      <4>1. L[i][2] = w /\ L[i][3] = i
        BY <1>1, <3>1, <3>5 DEF Once, L
      <4>2. Reaches(w)
        BY DEF w
      <4>3. i <= c
        BY <1>1, <2>1, <3>1, <3>5, <4>1, <4>2 DEF Followed, L, c
      <4> QED
        BY <1>3, <3>1, <4>3
    <3> QED
      BY <3>2, <3>3, <3>4, <3>5
  <2> QED
    BY <1>2, <2>1, <2>3, <2>4
<1>15. TrailFollowsLedger'
  <2> SUFFICES ASSUME NEW d \in RunDirs PROVE Tells(dirs'[d].trail, Told(d)', dirs'[d].ledger)
    BY DEF TrailFollowsLedger
  <2>1. Settled(d)' = Settled(d)
    BY <1>5 DEF Settled
  <2>2. Told(d)' = Told(d)
    BY <1>5, <2>1 DEF Told
  <2> QED
    BY <1>1, <1>5, <2>2 DEF TrailFollowsLedger
<1>16. EffectsOnce'
  <2>1. taken \cap events \subseteq uncovered
    BY <1>6, <1>13
  <2> QED
    BY <1>1, <1>2, <2>1 DEF EffectsOnce
<1>17. Len(dirs'[w].cursor) = N /\ (N = Len(dirs[w].ledger) => dirs'[w].cursor = dirs[w].ledger)
  BY <1>4, <1>5 DEF L
<1> QED
  BY <1>5, <1>7, <1>8, <1>10, <1>11, <1>12, <1>14, <1>15, <1>16, <1>17 DEF w

(* A worker follows, or the consumers catch up. *)
LEMMA ConsumersRun == ASSUME RunProgressInv, FollowEvent \/ (StopConsumers /\ Follows(work)), TopNoted PROVE RunProgressInv'
<1>1. /\ writing' = writing /\ work' = work /\ try' = try /\ commands' = commands /\ said' = said
      /\ copied' = copied /\ exit' = exit /\ UNCHANGED <<objective, stopped, solved, spoke, passed, evalFile, proof>>
      /\ UNCHANGED <<kills, halves, uncovered, begun, filed>>
      /\ point \in {"running", "stopping"} /\ point' \in {"running", "summing"} /\ point # "idle" /\ point' # "idle"
      /\ point' = "running" <=> point = "running"
  BY DEF FollowEvent, StopConsumers, placeVars, judgeVars, pastVars, Goes
<1>2. /\ RunProgressTypeOK /\ Placed /\ Said /\ JudgedAsFound /\ Proven /\ FiledFirst /\ Top \in RunDirs /\ 1 \in RunDirs
      /\ work \in RunDirs /\ Reaches(work)
      /\ said \in Nat /\ copied \in Nat /\ filed \in Nat /\ begun \in [RunDirs -> Nat]
  <2>1. RunProgressTypeOK /\ work \in RunDirs /\ said \in Nat /\ copied \in Nat /\ filed \in Nat /\ begun \in [RunDirs -> Nat]
    BY DEF RunProgressInv, RunProgressTypeOK
  <2>2. Follows(work)
    BY DEF FollowEvent
  <2> QED
    BY <2>1, <2>2, RunSorts, FollowsReaches DEF RunProgressInv
<1>3. PICK N \in Nat : /\ ConsumeTo(N) /\ Len(dirs[work].cursor) <= N /\ N <= Len(dirs[work].ledger)
                       /\ point' = "summing" => N = Len(dirs[work].ledger)
  <2>1. /\ Len(dirs[work].cursor) \in Nat /\ Len(dirs[work].ledger) \in Nat
        /\ dirs[work].cursor \in Seq(RunEvents) /\ dirs[work].ledger \in Seq(RunEvents)
        /\ Len(dirs[work].cursor) <= Len(dirs[work].ledger)
        /\ \A n \in 1..Len(dirs[work].cursor) : dirs[work].cursor[n] = dirs[work].ledger[n]
    BY <1>2, DirParts DEF Reaches
  <2>2. CASE FollowEvent
    <3>1. Len(dirs[work].cursor) # Len(dirs[work].ledger)
      BY <2>1, <2>2, SeqEqual DEF FollowEvent
    <3>2. ConsumeTo(Len(dirs[work].cursor) + 1) /\ point' = "running"
      BY <2>2 DEF FollowEvent, placeVars
    <3> QED
      BY <2>1, <3>1, <3>2
  <2>3. CASE StopConsumers /\ Follows(work)
    BY <2>1, <2>3 DEF StopConsumers
  <2> QED
    BY <2>2, <2>3
<1>4. /\ dirs' \in [RunDirs -> RunDirectories] /\ taken' \subseteq RunEvents /\ twice' \subseteq taken'
      /\ Len(dirs'[work].cursor) = N /\ (N = Len(dirs[work].ledger) => dirs'[work].cursor = dirs[work].ledger)
      /\ \A d \in RunDirs : /\ d # work => dirs'[d] = dirs[d]
                            /\ dirs'[d].ledger = dirs[d].ledger /\ dirs'[d].trail = dirs[d].trail
                            /\ dirs'[d].request = dirs[d].request /\ dirs'[d].summary = dirs[d].summary
                            /\ Reaches(d)' <=> Reaches(d)
                            /\ Diverged(d)' <=> Diverged(d)
      /\ Recorded' /\ Once' /\ Followed' /\ Untaken' /\ TrailFollowsLedger' /\ EffectsOnce'
  BY <1>1, <1>2, <1>3, ConsumeEvents
<1>5. \A d \in RunDirs : dirs[d].cursor # <<>> => dirs'[d].cursor # <<>>
  <2>1. (dirs[work].cursor = <<>> <=> Len(dirs[work].cursor) = 0) /\ Len(dirs[work].cursor) \in Nat
    BY <1>2, DirParts
  <2>2. dirs'[work].cursor = <<>> => N = 0
    BY <1>4
  <2>3. dirs[work].cursor # <<>> => dirs'[work].cursor # <<>>
    BY <1>3, <2>1, <2>2
  <2> QED
    BY <1>4, <2>3
<1>6. RunProgressTypeOK'
  <2>1. said' \in Nat /\ copied' \in Nat /\ filed' \in Nat /\ begun' \in [RunDirs -> Nat] /\ work' \in RunDirs
        /\ UNCHANGED <<kills, halves, uncovered>>
    BY <1>1, <1>2
  <2> QED
    BY <1>1, <1>2, <1>4, <2>1, TypeStays
<1>7. Placed'
  <2>1. ASSUME NEW d \in RunDirs \ {Top}, dirs'[d].request = "agent" \/ dirs'[d].cursor # <<>> PROVE begun'[d] >= 1
    <3>1. CASE d = work
      BY <1>1, <1>2, <3>1, <2>1 DEF Placed, Attempting
    <3>2. CASE d # work
      BY <1>1, <1>2, <1>4, <2>1, <3>2 DEF Placed
    <3> QED
      BY <3>1, <3>2
  <2>2. writing # Unset => point = "running" /\ writing = work
    BY <1>1, <1>2 DEF Placed, Announced
  <2> QED
    BY <1>1, <1>2, <1>4, <2>1, <2>2 DEF Placed, Attempting
<1>8. ~(dirs'[Top] # dirs[Top]) \/ (work = Top /\ dirs[Top].request = "agent")
  BY <1>1, <1>2, <1>4 DEF Placed, Attempting
<1>9. Said'
  <2>1. /\ writing # Unset => writing \in RunDirs /\ point = "running"
        /\ writing = Top => topBy = commands
    <3>1. writing # Unset => writing = work /\ point = "running"
      BY <1>1, <1>2 DEF Placed, Announced
    <3>2. writing = Top => topBy = commands
      BY <1>2, RunSorts DEF Said
    <3> QED
      BY <1>2, <3>1, <3>2
  <2>2. writing' = Top => topBy' = commands'
    BY <1>1, <2>1 DEF TopNoted
  <2>3. point' \in {"summing"} \cup InFlight => dirs'[work].cursor = dirs'[work].ledger
    BY <1>1, <1>2, <1>3, <1>4 DEF InFlight
  <2>4. writing # Unset => dirs'[writing].ledger # <<>> /\ Last(dirs'[writing].ledger)[1] = commands
    BY <1>2, <1>4, <2>1 DEF Said
  <2>5. dirs'[work].ledger = dirs[work].ledger /\ dirs'[work].trail = dirs[work].trail
    BY <1>2, <1>4
  <2> QED
    BY <1>1, <1>2, <2>2, <2>3, <2>4, <2>5 DEF Said, Attempting
<1>10. InCopy'
  BY <1>1 DEF InCopy, InFlight
<1>11. FiledFirst'
  <2>1. (\A d \in RunDirs \ {Top} : Reaches(d) \/ begun[d] > 1)' /\ (Reaches(Top) \/ filed > 1)' /\ exit' # "stuck"
    BY <1>1, <1>2, <1>4, RunSorts DEF FiledFirst, Placed
  <2>2. ASSUME filed = 0
        PROVE  /\ dirs'[Top].ledger # <<>> => dirs'[1].cursor # <<>>
               /\ dirs'[Top].request = "agent" => dirs'[Top].ledger # <<>>
               /\ try <= 1
               /\ try # 0 => dirs'[Top].ledger = <<>>
    <3>1. /\ dirs[Top].ledger # <<>> => dirs[1].cursor # <<>>
          /\ dirs[Top].request = "agent" => dirs[Top].ledger # <<>>
          /\ try <= 1
          /\ try # 0 => dirs[Top].ledger = <<>> \/ Diverged(1)
      BY <1>1, <1>2, <2>2 DEF FiledFirst
    <3>2. try # 0 => work = 1
      <4>1. try \in Nat /\ (try # 0 => work = try)
        BY <1>1, <1>2, RunSorts DEF Placed, Attempting, RunProgressTypeOK
      <4> QED
        BY <3>1, <4>1
    <3>3. ~Diverged(work)
      <4>1. /\ (dirs[work].cursor = <<>> <=> Len(dirs[work].cursor) = 0) /\ Len(dirs[work].cursor) \in Nat
            /\ (dirs[work].ledger = <<>> <=> Len(dirs[work].ledger) = 0) /\ Len(dirs[work].ledger) \in Nat
        BY <1>2, DirParts
      <4> QED
        BY <1>2, <4>1 DEF Reaches, Diverged
    <3> QED
      BY <1>2, <1>4, <1>5, <3>1, <3>2, <3>3
  <2> QED
    BY <1>1, <2>1, <2>2 DEF FiledFirst, Attempting, InFlight
<1>12. JudgedAsFound'
  BY <1>1, <1>2, <1>4 DEF JudgedAsFound, PassIsDeserved, Attempting, Judging
<1>13. Proven'
  <2>1. exit' # "passed"
    BY <1>1, <1>2, RunSorts DEF Placed
  <2>2. Changed' => Changed
    BY <1>1 DEF Changed, Judging
  <2>3. Len(dirs[Top].ledger) \in Nat /\ dirs'[Top].ledger = dirs[Top].ledger
    BY <1>2, <1>4, DirParts
  <2>4. Len(dirs'[Top].ledger) \in Nat /\ Len(dirs'[Top].ledger) >= Len(dirs[Top].ledger)
    BY <2>3
  <2>5. dirs'[Top] = dirs[Top] \/ dirs[Top].request # "run"
    BY <1>8
  <2> QED
    BY <1>1, <2>1, <2>2, <2>4, <2>5, ProvenStays
<1> QED
  BY <1>4, <1>6, <1>7, <1>9, <1>10, <1>11, <1>12, <1>13 DEF RunProgressInv

-----------------------------------------------------------------------------
(* What an attempt leaves is copied *)

(* While it is copied, the attempt has the events of this command, all told and all taken. *)
LEMMA InFlightParts ==
    ASSUME RunProgressInv, point \in InFlight
    PROVE  LET L == dirs[work].ledger
               T == dirs[Top].ledger
               base == Len(T) - copied IN
           /\ work \in RunDirs /\ Top \in RunDirs /\ work # Top /\ work = try /\ try # 0 /\ writing = Unset
           /\ L \in Seq(RunEvents) /\ T \in Seq(RunEvents) /\ Len(L) \in Nat /\ Len(T) \in Nat /\ copied \in Nat
           /\ DOMAIN L = 1..Len(L) /\ DOMAIN T = 1..Len(T) /\ Len(L) # 0
           /\ \A n \in 1..Len(L) : L[n] = <<commands, work, n>> /\ L[n] \in RunEvents
           /\ dirs[work].cursor = L /\ dirs[work].trail \in Seq(RunEvents) /\ Len(dirs[work].trail) = Len(L)
           /\ \A n \in 1..Len(L) : dirs[work].trail[n] = L[n]
           /\ base \in Nat /\ copied <= Len(L) /\ \A n \in 1..copied : T[base + n] = L[n]
           /\ point # "copying" => copied = Len(L)
<1> DEFINE L == dirs[work].ledger
           T == dirs[Top].ledger
<1>1. /\ RunProgressTypeOK /\ Placed /\ Said /\ InCopy /\ work \in RunDirs /\ Top \in RunDirs /\ copied \in Nat
      /\ point \in Attempting /\ point # "running" /\ point \notin {"idle", "stopping", "summing"}
  BY RunSorts DEF RunProgressInv, RunProgressTypeOK, InFlight, Attempting
<1>2. try # 0 /\ work = try /\ work # Top
  BY <1>1, RunSorts DEF Placed
<1>3. writing = Unset
  BY <1>1 DEF Placed, Announced, Attempting
<1>4. /\ L \in Seq(RunEvents) /\ T \in Seq(RunEvents) /\ Len(L) \in Nat /\ Len(T) \in Nat
      /\ DOMAIN L = 1..Len(L) /\ DOMAIN T = 1..Len(T) /\ (L = <<>> <=> Len(L) = 0)
      /\ dirs[work].trail \in Seq(RunEvents) /\ DOMAIN dirs[work].trail = 1..Len(dirs[work].trail)
      /\ Len(dirs[work].trail) \in Nat
      /\ \A n \in DOMAIN L : L[n] \in RunEvents
  BY <1>1, DirParts
<1>5. /\ L # <<>> /\ \A n \in DOMAIN L : L[n] = <<commands, work, n>>
      /\ Len(dirs[work].trail) = Len(L) - 0
      /\ \A n \in DOMAIN dirs[work].trail : dirs[work].trail[n] = L[n]
      /\ dirs[work].cursor = L
  BY <1>1, <1>2, <1>3 DEF Said
<1>6. /\ copied <= Len(L) /\ Len(T) - copied >= 0 /\ \A n \in 1..copied : T[(Len(T) - copied) + n] = L[n]
      /\ point # "copying" => copied = Len(L)
  BY <1>1 DEF InCopy
<1> HIDE DEF L, T
<1>7. Len(T) - copied \in Nat
  <2>1. Len(T) \in Nat
    BY <1>4
  <2>2. copied \in Nat
    BY <1>1
  <2>3. Len(T) - copied >= 0
    BY <1>6
  <2> QED
    BY <2>1, <2>2, <2>3
<1>8. Len(dirs[work].trail) = Len(L) /\ \A n \in 1..Len(L) : dirs[work].trail[n] = L[n]
  BY <1>4, <1>5
<1> QED
  BY <1>1, <1>2, <1>3, <1>4, <1>5, <1>6, <1>7, <1>8 DEF L, T

(* An event of the attempt is copied into the ledger of the run, which has not had it. *)
LEMMA CopyEventRun == ASSUME RunProgressInv, CopyEvent, TopNoted PROVE RunProgressInv'
<1> DEFINE L == dirs[work].ledger
           T == dirs[Top].ledger
           k == Len(T)
           E == L[copied + 1]
           base == k - copied
<1>1. /\ point = "copying" /\ point' = "copying" /\ writing' = writing /\ work' = work /\ try' = try
      /\ commands' = commands /\ said' = said /\ exit' = exit /\ copied' = copied + 1 /\ copied < Len(L)
      /\ UNCHANGED <<objective, stopped, solved, spoke, passed, evalFile, proof>>
      /\ UNCHANGED <<kills, halves, uncovered, begun, filed>> /\ taken' = taken /\ twice' = twice
  BY DEF CopyEvent, CommandGoes, Goes, judgeVars, pastVars, takenVars
<1>2. dirs' = [dirs EXCEPT ![Top].ledger = Append(T, E)]
  BY DEF CopyEvent
<1>3. /\ work \in RunDirs /\ Top \in RunDirs /\ work # Top /\ work = try /\ try # 0 /\ writing = Unset
      /\ L \in Seq(RunEvents) /\ T \in Seq(RunEvents) /\ Len(L) \in Nat /\ k \in Nat /\ copied \in Nat
      /\ DOMAIN L = 1..Len(L) /\ DOMAIN T = 1..k /\ Len(L) # 0
      /\ \A n \in 1..Len(L) : L[n] = <<commands, work, n>> /\ L[n] \in RunEvents
      /\ dirs[work].cursor = L /\ base \in Nat /\ copied <= Len(L) /\ \A n \in 1..copied : T[base + n] = L[n]
  BY <1>1, InFlightParts DEF InFlight
<1>4. /\ RunProgressTypeOK /\ Placed /\ Said /\ Recorded /\ Once /\ Followed /\ Untaken /\ TrailFollowsLedger /\ EffectsOnce
      /\ FiledFirst /\ JudgedAsFound /\ Proven /\ dirs \in [RunDirs -> RunDirectories] /\ dirs[Top] \in RunDirectories
      /\ 1 \in RunDirs
  BY RunSorts DEF RunProgressInv, RunProgressTypeOK
<1> HIDE DEF L, T, k, base
<1>5. copied + 1 \in 1..Len(L) /\ E = <<commands, work, copied + 1>> /\ E \in RunEvents
  <2>1. copied + 1 \in 1..Len(L)
    BY <1>1, <1>3
  <2>2. L[copied + 1] = <<commands, work, copied + 1>> /\ L[copied + 1] \in RunEvents
    BY <1>3, <2>1
  <2> QED
    BY <2>1, <2>2
<1>6. E[1] = commands /\ E[2] = work /\ E[3] = copied + 1
  BY <1>5, EventParts
<1> DEFINE more == Append(T, E)
<1>7. /\ more \in Seq(RunEvents) /\ Len(more) = k + 1 /\ more[k + 1] = E /\ DOMAIN more = 1..(k + 1) /\ more # <<>>
      /\ \A n \in 1..k : more[n] = T[n]
  <2> HIDE DEF E
  <2>1. more \in Seq(RunEvents) /\ Len(more) = k + 1
    BY <1>3, <1>5 DEF k
  <2>2. more[k + 1] = E /\ \A n \in 1..k : more[n] = T[n]
    BY <1>3, <1>5 DEF k
  <2>3. DOMAIN more = 1..(k + 1) /\ more # <<>>
    <3> HIDE DEF more
    <3> QED
      BY <1>3, <2>1
  <2> QED
    BY <2>1, <2>2, <2>3
<1> HIDE DEF more, E
<1>8. /\ dirs' \in [RunDirs -> RunDirectories] /\ dirs'[Top].ledger = more
      /\ \A d \in RunDirs : /\ d # Top => dirs'[d] = dirs[d]
                            /\ dirs'[d].cursor = dirs[d].cursor /\ dirs'[d].trail = dirs[d].trail
                            /\ dirs'[d].request = dirs[d].request /\ dirs'[d].summary = dirs[d].summary
  <2> DEFINE new == [dirs[Top] EXCEPT !.ledger = more]
  <2>1. /\ new \in RunDirectories /\ new.ledger = more /\ new.cursor = dirs[Top].cursor /\ new.trail = dirs[Top].trail
        /\ new.request = dirs[Top].request /\ new.summary = dirs[Top].summary
    BY <1>4, <1>7 DEF RunDirectories
  <2>2. dirs' = [dirs EXCEPT ![Top] = new]
    BY <1>2 DEF more
  <2> HIDE DEF new
  <2>3. dirs' \in [RunDirs -> RunDirectories] /\ dirs'[Top] = new /\ \A d \in RunDirs : d # Top => dirs'[d] = dirs[d]
    BY <1>3, <1>4, <2>1, <2>2
  <2> QED
    BY <2>1, <2>3
<1>9. dirs'[work] = dirs[work] /\ dirs'[work].ledger = L
  BY <1>3, <1>8 DEF L
<1>10. ASSUME NEW n \in 1..(k + 1), n \notin 1..k PROVE n = k + 1
  BY <1>3, <1>10
<1>11. (Reaches(Top)' <=> Reaches(Top)) /\ (Diverged(Top)' <=> Diverged(Top))
  <2> DEFINE c == dirs[Top].cursor
  <2>1. /\ Len(c) \in Nat /\ DOMAIN c = 1..Len(c) /\ (c = <<>> <=> Len(c) = 0) /\ (T = <<>> <=> k = 0)
        /\ dirs'[Top].cursor = c
    BY <1>3, <1>4, <1>8, DirParts DEF T, k
  <2>2. Reaches(Top) <=> Len(c) <= k /\ \A n \in 1..Len(c) : c[n] = T[n]
    BY DEF Reaches, T, k
  <2>3. Reaches(Top)' <=> Len(c) <= k + 1 /\ \A n \in 1..Len(c) : c[n] = more[n]
    BY <1>7, <1>8, <2>1 DEF Reaches
  <2>4. Diverged(Top) <=> c # <<>> /\ T # <<>> /\ T[1] # c[1]
    BY DEF Diverged, T
  <2>5. Diverged(Top)' <=> c # <<>> /\ more[1] # c[1]
    BY <1>7, <1>8, <2>1 DEF Diverged
  <2>6. Reaches(Top) \/ Diverged(Top)
    BY <1>3, <1>4 DEF Followed
  <2> HIDE DEF c
  <2>7. T # <<>> => more[1] = T[1] /\ 1 \in 1..k
    BY <1>3, <1>7, <2>1
  <2>8. T = <<>> => c = <<>>
    BY <2>1, <2>2, <2>4, <2>6
  <2>9. Diverged(Top)' <=> Diverged(Top)
    BY <2>4, <2>5, <2>7, <2>8
  <2>10. Reaches(Top) => Reaches(Top)'
    BY <1>3, <1>7, <2>1, <2>2, <2>3
  <2>11. Reaches(Top)' /\ Diverged(Top)' => FALSE
    <3>1. c # <<>> => 1 \in 1..Len(c)
      BY <2>1
    <3> QED
      BY <2>3, <2>5, <3>1
  <2> QED
    BY <2>6, <2>9, <2>10, <2>11
<1>12. \A d \in RunDirs : (Reaches(d)' <=> Reaches(d)) /\ (Diverged(d)' <=> Diverged(d))
  <2>1. ASSUME NEW d \in RunDirs, d # Top PROVE (Reaches(d)' <=> Reaches(d)) /\ (Diverged(d)' <=> Diverged(d))
    BY <1>8, <2>1 DEF Reaches, Diverged
  <2> QED
    BY <1>11, <2>1
<1>13. dirs'[Top] # dirs[Top] /\ topBy' = commands
  BY <1>1, <1>3, <1>7, <1>8 DEF TopNoted, T, k
<1>14. RunProgressTypeOK'
  <2>1. said' \in Nat /\ copied' \in Nat /\ filed' \in Nat /\ begun' \in [RunDirs -> Nat] /\ work' \in RunDirs
        /\ UNCHANGED <<kills, halves, uncovered>> /\ taken' \subseteq RunEvents /\ twice' \subseteq taken'
    BY <1>1, <1>3, <1>4 DEF RunProgressTypeOK
  <2> QED
    BY <1>1, <1>4, <1>8, <2>1, TypeStays
<1>15. Placed'
  <2>1. \A d \in RunDirs \ {Top} : dirs'[d].request = "agent" \/ dirs'[d].cursor # <<>> => begun'[d] >= 1
    BY <1>1, <1>4, <1>8 DEF Placed
  <2> QED
    BY <1>1, <1>3, <1>4, <2>1 DEF Placed, Attempting
<1>16. Said'
  BY <1>1, <1>3, <1>4, <1>9 DEF Said
<1>17. InCopy'
  <2>1. ASSUME NEW n \in 1..(copied + 1) PROVE dirs'[Top].ledger[base + n] = L[n]
    <3>1. CASE n \in 1..copied
      <4>1. base + n \in 1..k
        BY <1>3, <3>1 DEF base
      <4> QED
        BY <1>3, <1>7, <1>8, <3>1, <4>1
    <3>2. CASE n \notin 1..copied
      <4>1. n = copied + 1 /\ base + n = k + 1
        BY <1>3, <2>1, <3>2 DEF base
      <4> QED
        BY <1>7, <1>8, <4>1 DEF E
    <3> QED
      BY <3>1, <3>2
  <2>2. Len(dirs'[Top].ledger) - copied' = base /\ copied' <= Len(L) /\ base >= 0
    BY <1>1, <1>3, <1>7, <1>8 DEF base
  <2> QED
    BY <1>1, <1>9, <2>1, <2>2 DEF InCopy
<1>18. \A e \in RunEvents : Bygone(e) => Bygone(e)'
  <2> SUFFICES ASSUME NEW e \in RunEvents, Bygone(e) PROVE Bygone(e)'
    OBVIOUS
  <2>1. e[2] \in RunDirs /\ e[3] \in Nat
    BY EventParts
  <2>2. e[3] <= Len(dirs[e[2]].ledger) => e[3] <= Len(dirs'[e[2]].ledger)
    <3>1. CASE e[2] = Top
      BY <1>3, <1>7, <1>8, <2>1, <3>1 DEF T, k
    <3>2. CASE e[2] # Top
      BY <1>8, <2>1, <3>2
    <3> QED
      BY <3>1, <3>2
  <2> QED
    BY <1>1, <2>2 DEF Bygone
<1>19. Recorded'
  <2>1. ASSUME NEW d \in RunDirs, NEW n \in DOMAIN dirs'[d].ledger PROVE Bygone(dirs[d].ledger[n])'
    <3>1. PICK x \in RunDirs : \E m \in DOMAIN dirs[x].ledger : dirs'[d].ledger[n] = dirs[x].ledger[m]
      <4>1. CASE d # Top
        BY <1>8, <2>1, <4>1
      <4>2. CASE d = Top /\ n \in 1..k
        BY <1>3, <1>7, <1>8, <4>2 DEF T
      <4>3. CASE d = Top /\ n \notin 1..k
        <5>1. n = k + 1
          BY <1>7, <1>8, <1>10, <2>1, <4>3
        <5>2. dirs'[d].ledger[n] = L[copied + 1] /\ copied + 1 \in DOMAIN L
          BY <1>3, <1>5, <1>7, <1>8, <4>3, <5>1 DEF E
        <5> QED
          BY <1>3, <5>2 DEF L
      <4> QED
        BY <4>1, <4>2, <4>3
    <3>2. PICK m \in DOMAIN dirs[x].ledger : dirs'[d].ledger[n] = dirs[x].ledger[m]
      BY <3>1
    <3>3. PICK e \in RunEvents : e = dirs[x].ledger[m] /\ e = dirs'[d].ledger[n]
      BY <1>4, <3>2, DirParts
    <3>4. Bygone(e)
      BY <1>4, <3>3 DEF Recorded
    <3> QED
      BY <1>18, <3>3, <3>4
  <2>2. \A e \in taken : Bygone(e)'
    BY <1>4, <1>18 DEF Recorded, RunProgressTypeOK
  <2>3. (\A d \in RunDirs : \A n \in DOMAIN dirs[d].ledger : Bygone(dirs[d].ledger[n]))'
    BY <2>1
  <2>4. (\A e \in taken : Bygone(e))'
    BY <1>1, <2>2
  <2>5. (\A d \in RunDirs : \A n \in DOMAIN dirs[d].cursor : dirs[d].cursor[n] \in taken)'
    BY <1>1, <1>4, <1>8 DEF Recorded
  <2> QED
    BY <1>1, <1>4, <2>3, <2>4, <2>5 DEF Recorded
<1>20. ASSUME NEW m \in 1..k PROVE T[m] # E
  <2>1. T[m][1] = commands /\ T[m][2] # Top /\ T[m][2] = try => T[m][3] <= copied
    BY <1>1, <1>3, <1>4, <1>20 DEF Once, T
  <2> QED
    BY <1>3, <1>6, <2>1
<1>21. Once'
  <2>1. \A d \in RunDirs \ {Top} : \A n \in DOMAIN dirs'[d].ledger :
            dirs'[d].ledger[n][2] = d /\ dirs'[d].ledger[n][3] = n
    BY <1>4, <1>8 DEF Once
  <2>2. ASSUME NEW m \in DOMAIN dirs'[Top].ledger, NEW n \in DOMAIN dirs'[Top].ledger,
               dirs'[Top].ledger[m] = dirs'[Top].ledger[n]
        PROVE  m = n
    <3>1. m \in 1..(k + 1) /\ n \in 1..(k + 1) /\ more[m] = more[n]
      BY <1>7, <1>8, <2>2
    <3>2. CASE m \in 1..k /\ n \in 1..k
      BY ZenonT(30), <1>3, <1>4, <1>7, <3>1, <3>2 DEF Once, T
    <3>3. CASE m \notin 1..k \/ n \notin 1..k
      BY <1>7, <1>10, <1>20, <3>1, <3>3
    <3> QED
      BY <3>2, <3>3
  <2>3. ASSUME NEW n \in DOMAIN dirs'[Top].ledger, dirs'[Top].ledger[n][1] = commands,
               dirs'[Top].ledger[n][2] # Top, dirs'[Top].ledger[n][2] = try
        PROVE  dirs'[Top].ledger[n][3] <= copied + 1
    <3>1. n \in 1..(k + 1) /\ dirs'[Top].ledger[n] = more[n]
      BY <1>7, <1>8, <2>3
    <3>2. CASE n \in 1..k
      <4>1. n \in DOMAIN dirs[Top].ledger /\ dirs[Top].ledger[n] = more[n] /\ more[n] \in RunEvents
        BY <1>3, <1>4, <1>7, <3>2, DirParts DEF T
      <4>2. more[n][3] <= copied /\ more[n][3] \in Nat
        BY <1>1, <1>3, <1>4, <2>3, <3>1, <4>1, EventParts DEF Once
      <4> QED
        BY <1>3, <3>1, <4>2
    <3>3. CASE n \notin 1..k
      BY <1>3, <1>6, <1>7, <1>10, <3>1, <3>3
    <3> QED
      BY <3>2, <3>3
  <2> QED
    BY <1>1, <2>1, <2>2, <2>3 DEF Once
<1>22. Followed'
  <2>1. (\A d \in RunDirs : Reaches(d) \/ Diverged(d))'
    BY <1>4, <1>12 DEF Followed
  <2>2. ASSUME NEW n \in DOMAIN dirs'[Top].ledger, NEW e, e = dirs'[Top].ledger[n], e[2] # Top, Reaches(e[2])',
               e[3] \in DOMAIN dirs'[e[2]].ledger, dirs'[e[2]].ledger[e[3]] = e
        PROVE  e[3] <= Len(dirs'[e[2]].cursor)
    <3>1. n \in 1..(k + 1) /\ e = more[n]
      BY SMTT(30), <1>7, <1>8, <2>2
    <3>2. CASE n \in 1..k
      <4>1. n \in DOMAIN dirs[Top].ledger /\ e = dirs[Top].ledger[n] /\ e[2] \in RunDirs
        <5>1. n \in DOMAIN dirs[Top].ledger /\ e = dirs[Top].ledger[n]
          BY <1>3, <1>4, <1>7, <3>1, <3>2 DEF T
        <5> QED
          BY <1>3, <1>4, <5>1, LedgerEvent
      <4>2. Reaches(e[2]) /\ dirs'[e[2]] = dirs[e[2]]
        BY <1>8, <1>12, <2>2, <4>1
      <4> QED
        BY <1>4, <2>2, <4>1, <4>2, FollowedSays
    <3>3. CASE n \notin 1..k
      <4>1. e[2] = work /\ e[3] = copied + 1
        BY <1>6, <1>7, <1>10, <3>1, <3>3
      <4> QED
        BY <1>3, <1>5, <1>9, <4>1
    <3> QED
      BY <3>2, <3>3
  <2> QED
    BY <2>1, <2>2 DEF Followed
<1>23. Untaken'
  <2> SUFFICES ASSUME NEW d \in RunDirs, NEW n \in DOMAIN dirs'[d].ledger, Reaches(d)', n > Len(dirs'[d].cursor),
                      dirs'[d].ledger[n] \in taken
               PROVE  \/ dirs'[d].ledger[n] \in uncovered
                      \/ d = Top /\ dirs'[d].ledger[n] \in EventsOf(work)
    <3>1. EventsOf(work)' = EventsOf(work)
      BY <1>1, <1>9 DEF EventsOf
    <3> QED
      BY <1>1, <3>1 DEF Untaken, InFlight
  <2>1. CASE n \in DOMAIN dirs[d].ledger /\ dirs'[d].ledger[n] = dirs[d].ledger[n]
    <3>1. Reaches(d) /\ n > Len(dirs[d].cursor)
      BY <1>8, <1>12
    <3> QED
      BY <1>4, <2>1, <3>1 DEF Untaken
  <2>2. CASE ~(n \in DOMAIN dirs[d].ledger /\ dirs'[d].ledger[n] = dirs[d].ledger[n])
    <3>1. d = Top /\ n \notin 1..k /\ n \in 1..(k + 1)
      BY <1>3, <1>7, <1>8, <2>2 DEF T
    <3>2. dirs'[d].ledger[n] = L[copied + 1] /\ copied + 1 \in DOMAIN L
      BY <1>3, <1>5, <1>7, <1>8, <1>10, <3>1 DEF E
    <3> QED
      BY <3>1, <3>2 DEF EventsOf, L
  <2> QED
    BY <2>1, <2>2
<1>24. TrailFollowsLedger'
  <2> SUFFICES ASSUME NEW d \in RunDirs PROVE Tells(dirs'[d].trail, Told(d)', dirs'[d].ledger)
    BY DEF TrailFollowsLedger
  <2>0. Tells(dirs[d].trail, Told(d), dirs[d].ledger) /\ dirs'[d].trail = dirs[d].trail /\ halves' = halves
    BY <1>1, <1>4, <1>8 DEF TrailFollowsLedger
  <2>1. CASE d # Top
    <3>1. Settled(d)' = Settled(d) /\ dirs'[d] = dirs[d]
      BY <1>1, <1>8, <2>1 DEF Settled
    <3> QED
      BY <2>0, <3>1 DEF Told
  <2>2. CASE d = Top
    <3>1. Settled(d) = base /\ Settled(d)' = base
      <4>1. Len(dirs[d].ledger) = k /\ Len(dirs'[d].ledger) = k + 1 /\ writing # d /\ writing' # d
        BY <1>1, <1>3, <1>7, <1>8, <2>2, RunSorts DEF k, T
      <4>2. Settled(d) = k - copied /\ Settled(d)' = (k + 1) - (copied + 1)
        BY <1>1, <2>2, <4>1 DEF Settled
      <4> QED
        BY <1>3, <4>2 DEF base
    <3>2. \A n \in 1..base : n \in 1..k
      BY <1>3 DEF base
    <3>3. \A n \in 1..base : dirs'[d].ledger[n] = dirs[d].ledger[n]
      BY <1>7, <1>8, <2>2, <3>2 DEF T
    <3>4. Told(d)' = Told(d) /\ \A n \in Told(d) : dirs'[d].ledger[n] = dirs[d].ledger[n]
      BY <2>0, <3>1, <3>3 DEF Told
    <3> QED
      BY <2>0, <3>4 DEF Tells
  <2> QED
    BY <2>1, <2>2
<1>25. EffectsOnce'
  BY <1>1, <1>4 DEF EffectsOnce
<1>26. FiledFirst'
  <2>1. (\A d \in RunDirs \ {Top} : Reaches(d) \/ begun[d] > 1)' /\ (Reaches(Top) \/ filed > 1)' /\ exit' # "stuck"
    BY <1>1, <1>3, <1>4, <1>12, RunSorts DEF FiledFirst, Placed
  <2>2. ASSUME filed = 0
        PROVE  dirs'[1].cursor # <<>> /\ dirs'[Top].ledger # <<>> /\ try <= 1 /\ Len(dirs'[Top].ledger) = copied + 1
    BY <1>1, <1>4, <1>7, <1>8, <2>2 DEF FiledFirst, InFlight, T, k
  <2> QED
    BY <1>1, <2>1, <2>2 DEF FiledFirst, Attempting, InFlight
<1>27. JudgedAsFound'
  BY <1>1, <1>4 DEF JudgedAsFound, PassIsDeserved, Attempting, Judging
<1>28. Proven'
  <2>1. exit' # "passed" /\ point # "idle" /\ proof' = proof
    BY <1>1, <1>4, RunSorts DEF Placed
  <2>2. Len(dirs'[Top].ledger) \in Nat /\ Len(dirs'[Top].ledger) >= Len(dirs[Top].ledger)
        /\ Len(dirs'[Top].ledger) > Len(dirs[Top].ledger)
    BY <1>3, <1>7, <1>8 DEF T, k
  <2> QED
    BY <1>1, <1>13, <2>1, <2>2, ProvenStays
<1> QED
  BY <1>14, <1>15, <1>16, <1>17, <1>19, <1>21, <1>22, <1>23, <1>24, <1>25, <1>26, <1>27, <1>28 DEF RunProgressInv

(* The trail of the attempt follows what is told of the run. *)
LEMMA CopyTrailRun == ASSUME RunProgressInv, CopyTrail, TopNoted PROVE RunProgressInv'
<1> DEFINE L == dirs[work].ledger
           T == dirs[Top].ledger
           base == Len(T) - copied
           t == dirs[Top].trail
           s == dirs[work].trail
           both == t \o s
<1>1. /\ point = "copying" /\ point' = "filing" /\ writing' = writing /\ work' = work /\ try' = try
      /\ commands' = commands /\ said' = said /\ exit' = exit /\ copied' = copied
      /\ (s = <<>> \/ copied = Len(L))
      /\ UNCHANGED <<objective, stopped, solved, spoke, passed, evalFile, proof>>
      /\ UNCHANGED <<kills, halves, uncovered, begun, filed>> /\ taken' = taken /\ twice' = twice
  BY DEF CopyTrail, CommandGoes, Goes, judgeVars, pastVars, takenVars
<1>2. dirs' = [dirs EXCEPT ![Top].trail = both]
  BY DEF CopyTrail
<1>3. /\ work \in RunDirs /\ Top \in RunDirs /\ work # Top /\ work = try /\ try # 0 /\ writing = Unset
      /\ L \in Seq(RunEvents) /\ T \in Seq(RunEvents) /\ Len(L) \in Nat /\ Len(T) \in Nat /\ copied \in Nat
      /\ DOMAIN L = 1..Len(L) /\ DOMAIN T = 1..Len(T) /\ Len(L) # 0
      /\ \A n \in 1..Len(L) : L[n] = <<commands, work, n>> /\ L[n] \in RunEvents
      /\ s \in Seq(RunEvents) /\ Len(s) = Len(L) /\ \A n \in 1..Len(L) : s[n] = L[n]
      /\ base \in Nat /\ copied <= Len(L) /\ \A n \in 1..copied : T[base + n] = L[n]
  BY <1>1, InFlightParts DEF InFlight
<1>4. /\ RunProgressTypeOK /\ Placed /\ Said /\ Recorded /\ Once /\ Followed /\ Untaken /\ TrailFollowsLedger /\ EffectsOnce
      /\ FiledFirst /\ JudgedAsFound /\ Proven /\ InCopy /\ dirs \in [RunDirs -> RunDirectories] /\ dirs[Top] \in RunDirectories
      /\ 1 \in RunDirs /\ t \in Seq(RunEvents) /\ Len(t) \in Nat
  <2>1. RunProgressTypeOK /\ Top \in RunDirs /\ 1 \in RunDirs
    BY RunSorts DEF RunProgressInv
  <2> QED
    BY <2>1, DirParts DEF RunProgressInv, RunProgressTypeOK
<1>5. copied = Len(L)
  BY <1>1, <1>3, EmptySeq
<1> HIDE DEF L, T, base, t, s
<1>6. /\ both \in Seq(RunEvents) /\ Len(both) = Len(t) + copied
      /\ \A i \in 1..Len(t) : both[i] = t[i]
      /\ \A j \in 1..copied : both[Len(t) + j] = s[j]
  <2>1. /\ both \in Seq(RunEvents) /\ Len(both) = Len(t) + Len(s)
        /\ \A i \in 1..(Len(t) + Len(s)) : both[i] = IF i <= Len(t) THEN t[i] ELSE s[i - Len(t)]
    BY <1>3, <1>4, ConcatProperties
  <2> HIDE DEF both
  <2>2. ASSUME NEW j \in 1..copied PROVE both[Len(t) + j] = s[j]
    <3>1. Len(t) + j \in 1..(Len(t) + Len(s)) /\ ~(Len(t) + j <= Len(t)) /\ (Len(t) + j) - Len(t) = j
      BY <1>3, <1>4, <1>5, <2>2
    <3> QED
      BY <2>1, <3>1
  <2>3. ASSUME NEW i \in 1..Len(t) PROVE both[i] = t[i]
    <3>1. i \in 1..(Len(t) + Len(s)) /\ i <= Len(t)
      BY <1>3, <1>4, <1>5, <2>3
    <3> QED
      BY <2>1, <3>1
  <2> QED
    BY <1>3, <1>5, <2>1, <2>2, <2>3
<1> HIDE DEF both
<1>7. /\ dirs' \in [RunDirs -> RunDirectories] /\ dirs'[Top].trail = both
      /\ \A d \in RunDirs : /\ d # Top => dirs'[d] = dirs[d]
                            /\ dirs'[d].cursor = dirs[d].cursor /\ dirs'[d].ledger = dirs[d].ledger
                            /\ dirs'[d].request = dirs[d].request /\ dirs'[d].summary = dirs[d].summary
  <2> DEFINE new == [dirs[Top] EXCEPT !.trail = both]
  <2>1. /\ new \in RunDirectories /\ new.trail = both /\ new.cursor = dirs[Top].cursor /\ new.ledger = dirs[Top].ledger
        /\ new.request = dirs[Top].request /\ new.summary = dirs[Top].summary
    BY <1>4, <1>6 DEF RunDirectories
  <2>2. dirs' = [dirs EXCEPT ![Top] = new]
    BY <1>2
  <2> HIDE DEF new
  <2>3. dirs' \in [RunDirs -> RunDirectories] /\ dirs'[Top] = new /\ \A d \in RunDirs : d # Top => dirs'[d] = dirs[d]
    BY <1>3, <1>4, <2>1, <2>2
  <2> QED
    BY <2>1, <2>3
<1>8. dirs'[work] = dirs[work] /\ dirs'[Top].ledger = T
  BY <1>3, <1>7 DEF T
<1>9. \A d \in RunDirs : (Reaches(d)' <=> Reaches(d)) /\ (Diverged(d)' <=> Diverged(d))
  BY ZenonT(30), <1>7 DEF Reaches, Diverged
<1>10. RunProgressTypeOK'
  <2>1. said' \in Nat /\ copied' \in Nat /\ filed' \in Nat /\ begun' \in [RunDirs -> Nat] /\ work' \in RunDirs
        /\ UNCHANGED <<kills, halves, uncovered>> /\ taken' \subseteq RunEvents /\ twice' \subseteq taken'
    BY ZenonT(30), <1>1, <1>3, <1>4 DEF RunProgressTypeOK
  <2> QED
    BY <1>1, <1>4, <1>7, <2>1, TypeStays
<1>11. Placed'
  <2>1. \A d \in RunDirs \ {Top} : dirs'[d].request = "agent" \/ dirs'[d].cursor # <<>> => begun'[d] >= 1
    BY SMTT(30), <1>1, <1>4, <1>7 DEF Placed
  <2> QED
    BY <1>1, <1>3, <1>4, <2>1 DEF Placed, Attempting
<1>12. Said'
  BY ZenonT(30), <1>1, <1>3, <1>4, <1>8 DEF Said, Attempting, InFlight
<1>13. InCopy'
  BY <1>1, <1>4, <1>5, <1>8 DEF InCopy, InFlight, L, T
<1>14. \A e \in RunEvents : Bygone(e) => Bygone(e)'
  BY <1>1, <1>7, EventParts DEF Bygone
<1>15. Recorded'
  <2>1. ASSUME NEW d \in RunDirs, NEW n \in DOMAIN dirs'[d].ledger PROVE Bygone(dirs[d].ledger[n])'
    <3>1. PICK e \in RunEvents : e = dirs[d].ledger[n] /\ e = dirs'[d].ledger[n] /\ n \in DOMAIN dirs[d].ledger
      BY <1>4, <1>7, DirParts
    <3>2. Bygone(e)
      BY <1>4, <3>1 DEF Recorded
    <3> QED
      BY <1>14, <3>1, <3>2
  <2>2. \A e \in taken : Bygone(e)'
    BY <1>4, <1>14 DEF Recorded, RunProgressTypeOK
  <2>3. (\A d \in RunDirs : \A n \in DOMAIN dirs[d].ledger : Bygone(dirs[d].ledger[n]))'
    BY <2>1
  <2>4. (\A e \in taken : Bygone(e))'
    BY <1>1, <2>2
  <2>5. (\A d \in RunDirs : \A n \in DOMAIN dirs[d].cursor : dirs[d].cursor[n] \in taken)'
    BY <1>1, <1>4, <1>7 DEF Recorded
  <2> QED
    BY <1>1, <1>4, <2>3, <2>4, <2>5 DEF Recorded
<1>16. Once'
  <2>1. (\A d \in RunDirs \ {Top} : \A n \in DOMAIN dirs[d].ledger :
            dirs[d].ledger[n][2] = d /\ dirs[d].ledger[n][3] = n)'
    BY <1>4, <1>7 DEF Once
  <2>2. (\A m, n \in DOMAIN dirs[Top].ledger : dirs[Top].ledger[m] = dirs[Top].ledger[n] => m = n)'
    BY <1>3, <1>4, <1>7 DEF Once
  <2> QED
    BY <1>1, <2>1, <2>2 DEF Once
<1>17. Followed'
  <2>1. (\A d \in RunDirs : Reaches(d) \/ Diverged(d))'
    <3>1. \A d \in RunDirs : Reaches(d) \/ Diverged(d)
      BY ZenonT(30), <1>4 DEF Followed
    <3> QED
      BY <1>9, <3>1
  <2>2. ASSUME NEW n \in DOMAIN dirs'[Top].ledger, NEW e, e = dirs'[Top].ledger[n], e[2] # Top, Reaches(e[2])',
               e[3] \in DOMAIN dirs'[e[2]].ledger, dirs'[e[2]].ledger[e[3]] = e
        PROVE  e[3] <= Len(dirs'[e[2]].cursor)
    <3>1. n \in DOMAIN dirs[Top].ledger /\ e = dirs[Top].ledger[n] /\ e[2] \in RunDirs
      <4>1. n \in DOMAIN dirs[Top].ledger /\ e = dirs[Top].ledger[n]
        BY <1>8, <2>2 DEF T
      <4> QED
        BY <1>3, <1>4, <4>1, LedgerEvent
    <3>2. Reaches(e[2]) /\ dirs'[e[2]].ledger = dirs[e[2]].ledger /\ dirs'[e[2]].cursor = dirs[e[2]].cursor
      BY <1>7, <1>9, <2>2, <3>1
    <3> QED
      BY <1>4, <2>2, <3>1, <3>2, FollowedSays
  <2> QED
    BY <2>1, <2>2 DEF Followed
<1>18. Untaken'
  <2>1. EventsOf(work)' = EventsOf(work)
    BY <1>1, <1>8 DEF EventsOf
  <2> SUFFICES ASSUME NEW d \in RunDirs, NEW n \in DOMAIN dirs'[d].ledger, Reaches(d)', n > Len(dirs'[d].cursor),
                      dirs'[d].ledger[n] \in taken
               PROVE  \/ dirs'[d].ledger[n] \in uncovered
                      \/ d = Top /\ dirs'[d].ledger[n] \in EventsOf(work)
    BY <1>1, <2>1 DEF Untaken, InFlight
  <2>2. Reaches(d) /\ n > Len(dirs[d].cursor) /\ n \in DOMAIN dirs[d].ledger /\ dirs'[d].ledger[n] = dirs[d].ledger[n]
    BY <1>7, <1>9
  <2> QED
    BY <1>4, <2>2 DEF Untaken
<1>19. TrailFollowsLedger'
  <2> SUFFICES ASSUME NEW d \in RunDirs PROVE Tells(dirs'[d].trail, Told(d)', dirs'[d].ledger)
    BY DEF TrailFollowsLedger
  <2>0. Tells(dirs[d].trail, Told(d), dirs[d].ledger) /\ dirs'[d].ledger = dirs[d].ledger /\ halves' = halves
    BY <1>1, <1>4, <1>7 DEF TrailFollowsLedger
  <2>1. CASE d # Top
    <3>1. Settled(d)' = Settled(d) /\ dirs'[d] = dirs[d]
      BY <1>1, <1>7, <2>1 DEF Settled
    <3> QED
      BY <2>0, <3>1 DEF Told
  <2>2. CASE d = Top
    <3>1. Settled(d) = base /\ Settled(d)' = base + copied
      <4>1. writing # d /\ writing' # d /\ dirs[d].ledger = T /\ dirs'[d].ledger = T
        BY <1>1, <1>3, <1>8, <2>2, RunSorts DEF T
      <4>2. Settled(d) = Len(T) - copied /\ Settled(d)' = Len(T) - 0
        BY <1>1, <2>2, <4>1 DEF Settled
      <4> QED
        BY SMTT(30), <1>3, <4>2 DEF base
    <3> DEFINE K == Told(d)
    <3>2. K = {n \in 1..base : <<d, T[n]>> \notin halves} /\ K \in SUBSET (1..base)
      BY <2>2, <3>1 DEF Told, T
    <3>3. Told(d)' = {n \in 1..(base + copied) : <<d, T[n]>> \notin halves}
      BY <1>8, <2>0, <2>2, <3>1 DEF Told
    <3> HIDE DEF K
    <3>4. ASSUME NEW j \in 1..copied PROVE <<d, T[base + j]>> \notin halves
      <4>1. T[base + j][1] = commands
        <5>1. j \in 1..copied /\ j \in 1..Len(L)
          BY <1>3, <3>4
        <5>2. T[base + j] = L[j] /\ L[j] = <<commands, work, j>>
          BY <1>3, <5>1
        <5> QED
          BY <5>2
      <4>2. \A h \in halves : h[2][1] < commands
        BY <1>1, <1>4 DEF Recorded
      <4>3. commands \in Nat
        BY <1>4, RunSorts DEF RunProgressTypeOK
      <4> QED
        BY <4>1, <4>2, <4>3
    <3>5. \A n \in (base + 1)..(base + copied) : <<d, T[n]>> \notin halves
      <4>1. \A n \in (base + 1)..(base + copied) : n - base \in 1..copied /\ base + (n - base) = n
        BY <1>3
      <4> QED
        BY <3>4, <4>1
    <3>6. Told(d)' = K \cup ((base + 1)..(base + copied))
      <4>1. \A n : n \in 1..(base + copied) <=> n \in 1..base \/ n \in (base + 1)..(base + copied)
        BY <1>3
      <4> QED
        BY <3>2, <3>3, <3>5, <4>1
    <3>7. Tells(t, K, T)
      BY <2>0, <2>2 DEF K, T, t
    <3>8. \A j \in 1..copied : both[Len(t) + j] = T[base + j]
      <4>1. \A j \in 1..copied : j \in 1..Len(L)
        BY <1>3
      <4> QED
        BY <1>3, <1>6, <4>1
    <3>9. Tells(both, K \cup ((base + 1)..(base + copied)), T)
      BY <1>3, <1>6, <3>2, <3>7, <3>8, ToldMore
    <3> QED
      BY <1>7, <1>8, <2>2, <3>6, <3>9
  <2> QED
    BY <2>1, <2>2
<1>20. EffectsOnce'
  BY <1>1, <1>4 DEF EffectsOnce
<1>21. FiledFirst'
  <2>1. (\A d \in RunDirs \ {Top} : Reaches(d) \/ begun[d] > 1)' /\ (Reaches(Top) \/ filed > 1)' /\ exit' # "stuck"
    BY <1>1, <1>3, <1>4, <1>9, RunSorts DEF FiledFirst, Placed
  <2>2. ASSUME filed = 0
        PROVE  /\ dirs'[1].cursor # <<>> /\ try <= 1 /\ Len(dirs'[Top].ledger) = copied
               /\ dirs'[Top].request = "agent" => dirs'[Top].ledger # <<>>
    BY <1>1, <1>3, <1>4, <1>7, <2>2 DEF FiledFirst, InFlight
  <2> QED
    BY SMTT(30), <1>1, <2>1, <2>2 DEF FiledFirst, Attempting, InFlight
<1>22. JudgedAsFound'
  BY <1>1, <1>4 DEF JudgedAsFound, PassIsDeserved, Attempting, Judging
<1>23. Proven'
  <2>1. exit' # "passed" /\ point # "idle" /\ proof' = proof
    BY <1>1, <1>4, RunSorts DEF Placed
  <2>2. Len(dirs'[Top].ledger) \in Nat /\ Len(dirs'[Top].ledger) >= Len(dirs[Top].ledger)
    BY <1>3, <1>8 DEF T
  <2>3. topBy = commands
    <3>1. copied > 0
      BY <1>3, <1>5
    <3> QED
      BY <1>1, <1>4, <3>1 DEF Proven, Changed
  <2> QED
    <3>1. Changed
      BY <1>1, <1>3, <1>5 DEF Changed
    <3> QED
      BY <1>1, <2>1, <2>2, <2>3, <3>1, ProvenStays
<1> QED
  BY <1>10, <1>11, <1>12, <1>13, <1>15, <1>16, <1>17, <1>18, <1>19, <1>20, <1>21, <1>22, <1>23 DEF RunProgressInv

(* The cursor of the attempt becomes that of the run: it reaches the ledger of the run where this
   is the only attempt. *)
LEMMA CopyArtifactsRun == ASSUME RunProgressInv, CopyArtifacts, TopNoted PROVE RunProgressInv'
<1> DEFINE L == dirs[work].ledger
           T == dirs[Top].ledger
           base == Len(T) - copied
<1>1. /\ point = "artifacts" /\ point' = "phase" /\ writing' = writing /\ work' = work /\ try' = try
      /\ commands' = commands /\ said' = said /\ exit' = exit /\ copied' = copied /\ filed' = filed + 1
      /\ UNCHANGED <<objective, stopped, solved, spoke, passed, evalFile, proof>>
      /\ UNCHANGED <<kills, halves, uncovered, begun>> /\ taken' = taken /\ twice' = twice
  BY DEF CopyArtifacts, CommandGoes, Goes, judgeVars, pastVars, takenVars
<1>2. /\ work \in RunDirs /\ Top \in RunDirs /\ work # Top /\ work = try /\ try # 0 /\ writing = Unset
      /\ L \in Seq(RunEvents) /\ T \in Seq(RunEvents) /\ Len(L) \in Nat /\ Len(T) \in Nat /\ copied \in Nat
      /\ DOMAIN L = 1..Len(L) /\ DOMAIN T = 1..Len(T) /\ Len(L) # 0
      /\ dirs[work].cursor = L
      /\ base \in Nat /\ copied = Len(L) /\ \A n \in 1..copied : T[base + n] = L[n]
  BY <1>1, InFlightParts DEF InFlight
<1>3. /\ RunProgressTypeOK /\ Placed /\ Said /\ Recorded /\ Once /\ Followed /\ Untaken /\ TrailFollowsLedger /\ EffectsOnce
      /\ FiledFirst /\ JudgedAsFound /\ Proven /\ dirs \in [RunDirs -> RunDirectories] /\ dirs[Top] \in RunDirectories
      /\ 1 \in RunDirs /\ filed \in Nat
  BY RunSorts DEF RunProgressInv, RunProgressTypeOK
<1>4. L # <<>> /\ T # <<>> /\ 1 \in 1..Len(L) /\ 1 \in 1..Len(T) /\ 1 \in 1..copied
  <2>1. Len(T) # 0 /\ 1 \in 1..Len(L) /\ 1 \in 1..Len(T) /\ 1 \in 1..copied
    <3> HIDE DEF T, L
    <3> QED
      BY <1>2 DEF base
  <2> QED
    BY <1>2, <2>1, EmptySeq
<1>5. dirs' = [dirs EXCEPT ![Top].cursor = L]
  BY <1>2, <1>4 DEF CopyArtifacts
<1> HIDE DEF L, T, base
<1>6. /\ dirs' \in [RunDirs -> RunDirectories] /\ dirs'[Top].cursor = L
      /\ \A d \in RunDirs : /\ d # Top => dirs'[d] = dirs[d]
                            /\ dirs'[d].trail = dirs[d].trail /\ dirs'[d].ledger = dirs[d].ledger
                            /\ dirs'[d].request = dirs[d].request /\ dirs'[d].summary = dirs[d].summary
  <2> DEFINE new == [dirs[Top] EXCEPT !.cursor = L]
  <2>1. /\ new \in RunDirectories /\ new.trail = dirs[Top].trail /\ new.cursor = L /\ new.ledger = dirs[Top].ledger
        /\ new.request = dirs[Top].request /\ new.summary = dirs[Top].summary
    BY <1>2, <1>3 DEF RunDirectories
  <2>2. dirs' = [dirs EXCEPT ![Top] = new]
    BY <1>5
  <2> HIDE DEF new
  <2>3. dirs' \in [RunDirs -> RunDirectories] /\ dirs'[Top] = new /\ \A d \in RunDirs : d # Top => dirs'[d] = dirs[d]
    BY <1>2, <1>3, <2>1, <2>2
  <2> QED
    BY <2>1, <2>3
<1>7. \A d \in RunDirs : d # Top => (Reaches(d)' <=> Reaches(d)) /\ (Diverged(d)' <=> Diverged(d))
  BY <1>6 DEF Reaches, Diverged
<1>8. T[1] = L[1] => base = 0
  <2>1. T[base + 1] = L[1] /\ base + 1 \in 1..Len(T)
    BY <1>2, <1>4 DEF base
  <2>2. T[1] = L[1] => base + 1 = 1
    <3>1. ASSUME NEW m \in 1..Len(T), NEW n \in 1..Len(T), T[m] = T[n] PROVE m = n
      BY <1>2, <1>3, <3>1 DEF Once, T
    <3> QED
      BY <1>4, <2>1, <3>1
  <2> QED
    BY <1>2, <2>2
<1>9. base = 0 => Reaches(Top)' /\ Len(T) = Len(L)
  <2>1. ASSUME base = 0 PROVE Len(T) = Len(L) /\ \A n \in 1..Len(L) : L[n] = T[n]
    <3>1. \A n \in 1..Len(L) : n \in Nat /\ base + n = n
      BY <2>1
    <3>2. Len(T) = copied
      <4>1. Len(T) \in Nat /\ copied \in Nat
        BY <1>2
      <4> QED
        BY <2>1, <4>1 DEF base
    <3> QED
      BY <1>2, <3>1, <3>2
  <2> QED
    BY <1>2, <1>6, <2>1 DEF Reaches, T
<1>10. Reaches(Top)' => base = 0
  BY <1>2, <1>4, <1>6, <1>8 DEF Reaches, T
<1>11. base # 0 => Diverged(Top)'
  BY <1>2, <1>4, <1>6, <1>8 DEF Diverged, T
<1>12. topBy = commands /\ topBy' = commands
  BY <1>1, <1>3 DEF Proven, Changed, TopNoted
<1>13. RunProgressTypeOK'
  <2>1. said' \in Nat /\ copied' \in Nat /\ filed' \in Nat /\ begun' \in [RunDirs -> Nat] /\ work' \in RunDirs
        /\ UNCHANGED <<kills, halves, uncovered>> /\ taken' \subseteq RunEvents /\ twice' \subseteq taken'
    BY <1>1, <1>2, <1>3 DEF RunProgressTypeOK
  <2> QED
    BY <1>1, <1>3, <1>6, <2>1, TypeStays
<1>14. Placed'
  <2>1. \A d \in RunDirs \ {Top} : dirs'[d].request = "agent" \/ dirs'[d].cursor # <<>> => begun'[d] >= 1
    BY <1>1, <1>3, <1>6 DEF Placed
  <2> QED
    BY <1>1, <1>2, <1>3, <2>1 DEF Placed, Attempting
<1>15. Said' /\ InCopy'
  BY <1>1, <1>2 DEF Said, InCopy, Attempting, InFlight
<1>16. \A e \in RunEvents : Bygone(e) => Bygone(e)'
  BY <1>1, <1>6, EventParts DEF Bygone
<1>17. Recorded'
  <2>1. ASSUME NEW d \in RunDirs, NEW n \in DOMAIN dirs'[d].ledger PROVE Bygone(dirs[d].ledger[n])'
    <3>1. PICK e \in RunEvents : e = dirs[d].ledger[n] /\ e = dirs'[d].ledger[n] /\ n \in DOMAIN dirs[d].ledger
      BY <1>3, <1>6, DirParts
    <3>2. Bygone(e)
      BY <1>3, <3>1 DEF Recorded
    <3> QED
      BY <1>16, <3>1, <3>2
  <2>2. \A e \in taken : Bygone(e)'
    BY <1>3, <1>16 DEF Recorded, RunProgressTypeOK
  <2>3. (\A d \in RunDirs : \A n \in DOMAIN dirs[d].ledger : Bygone(dirs[d].ledger[n]))'
    BY <2>1
  <2>4. (\A e \in taken : Bygone(e))'
    BY <1>1, <2>2
  <2>5. ASSUME NEW d \in RunDirs, NEW n \in DOMAIN dirs'[d].cursor PROVE dirs'[d].cursor[n] \in taken
    <3>1. CASE d = Top
      BY <1>2, <1>3, <1>6, <2>5, <3>1 DEF Recorded
    <3>2. CASE d # Top
      BY <1>3, <1>6, <2>5, <3>2 DEF Recorded
    <3> QED
      BY <3>1, <3>2
  <2> QED
    BY <1>1, <1>3, <2>3, <2>4, <2>5 DEF Recorded
<1>18. Once'
  BY <1>1, <1>2, <1>3, <1>6 DEF Once
<1>19. Followed'
  <2>1. (\A d \in RunDirs : Reaches(d) \/ Diverged(d))'
    <3>1. \A d \in RunDirs : Reaches(d) \/ Diverged(d)
      BY ZenonT(30), <1>3 DEF Followed
    <3> QED
      BY <1>7, <1>9, <1>11, <3>1
  <2>2. ASSUME NEW n \in DOMAIN dirs'[Top].ledger, NEW e, e = dirs'[Top].ledger[n], e[2] # Top, Reaches(e[2])',
               e[3] \in DOMAIN dirs'[e[2]].ledger, dirs'[e[2]].ledger[e[3]] = e
        PROVE  e[3] <= Len(dirs'[e[2]].cursor)
    <3>1. n \in DOMAIN dirs[Top].ledger /\ e = dirs[Top].ledger[n] /\ e[2] \in RunDirs
      <4>1. n \in DOMAIN dirs[Top].ledger /\ e = dirs[Top].ledger[n]
        BY <1>2, <1>6, <2>2
      <4> QED
        BY <1>2, <1>3, <4>1, LedgerEvent
    <3>2. Reaches(e[2]) /\ dirs'[e[2]] = dirs[e[2]]
      BY <1>6, <1>7, <2>2, <3>1
    <3> QED
      BY <1>3, <2>2, <3>1, <3>2, FollowedSays
  <2> QED
    BY <2>1, <2>2 DEF Followed
<1>20. Untaken'
  <2> SUFFICES ASSUME NEW d \in RunDirs, NEW n \in DOMAIN dirs'[d].ledger, Reaches(d)', n > Len(dirs'[d].cursor),
                      dirs'[d].ledger[n] \in taken
               PROVE  dirs'[d].ledger[n] \in uncovered
    BY <1>1 DEF Untaken
  <2>1. CASE d = Top
    <3>1. Len(T) = Len(L) /\ n \in 1..Len(T) /\ n > Len(L)
      BY <1>2, <1>6, <1>9, <1>10, <2>1 DEF T
    <3> QED
      BY <1>2, <3>1
  <2>2. CASE d # Top
    BY <1>3, <1>6, <1>7, <2>2 DEF Untaken
  <2> QED
    BY <2>1, <2>2
<1>21. TrailFollowsLedger'
  <2> SUFFICES ASSUME NEW d \in RunDirs PROVE Tells(dirs'[d].trail, Told(d)', dirs'[d].ledger)
    BY DEF TrailFollowsLedger
  <2>1. Settled(d)' = Settled(d)
    BY <1>1, <1>6 DEF Settled
  <2>2. Told(d)' = Told(d)
    BY <1>1, <1>6, <2>1 DEF Told
  <2> QED
    BY <1>3, <1>6, <2>2 DEF TrailFollowsLedger
<1>22. EffectsOnce'
  BY <1>1, <1>3 DEF EffectsOnce
<1>23. FiledFirst'
  <2>1. (\A d \in RunDirs \ {Top} : Reaches(d) \/ begun[d] > 1)'
    BY <1>1, <1>3, <1>7 DEF FiledFirst
  <2>2. Reaches(Top)' \/ filed' > 1
    <3>1. CASE filed = 0
      <4>1. Len(T) = copied
        BY <1>1, <1>3, <3>1 DEF FiledFirst, InFlight, T
      <4>2. base = 0
        BY <1>2, <4>1 DEF base
      <4> QED
        BY <1>9, <4>2
    <3>2. CASE filed # 0
      BY <1>1, <1>3, <3>2
    <3> QED
      BY <3>1, <3>2
  <2>3. exit' # "stuck" /\ filed' # 0
    BY <1>1, <1>3, RunSorts DEF Placed
  <2> QED
    BY <2>1, <2>2, <2>3 DEF FiledFirst
<1>24. JudgedAsFound'
  BY <1>1, <1>3 DEF JudgedAsFound, PassIsDeserved, Attempting, Judging
<1>25. Proven'
  <2>1. exit' # "passed" /\ point # "idle" /\ proof' = proof
    BY <1>1, <1>3, RunSorts DEF Placed
  <2>2. Len(dirs'[Top].ledger) \in Nat /\ Len(dirs'[Top].ledger) >= Len(dirs[Top].ledger)
    BY <1>2, <1>6 DEF T
  <2> QED
    BY <1>1, <1>12, <2>1, <2>2, ProvenStays DEF Changed
<1> QED
  BY <1>13, <1>14, <1>15, <1>17, <1>18, <1>19, <1>20, <1>21, <1>22, <1>23, <1>24, <1>25 DEF RunProgressInv

-----------------------------------------------------------------------------
(* Every step *)

(* A step of another part of the system, or a validation in the workspace. *)
LEMMA RunProgressStutters ==
    ASSUME RunProgressInv, UNCHANGED <<dirs, placeVars, judgeVars, pastVars, takenVars, topBy>>
    PROVE  RunProgressInv'
<1>0. Followed /\ Untaken
  BY DEF RunProgressInv
<1>1. /\ UNCHANGED <<objective, dirs, point, writing, work, try, commands, said, copied, exit>>
      /\ UNCHANGED <<stopped, solved, spoke, passed, evalFile, proof>>
      /\ UNCHANGED <<kills, halves, uncovered, taken, twice, begun, filed, topBy>>
  BY DEF placeVars, judgeVars, pastVars, takenVars
<1>2. RunProgressTypeOK'
  BY <1>1 DEF RunProgressInv, RunProgressTypeOK
<1>2a. Placed' /\ InCopy'
  BY <1>1 DEF RunProgressInv, Placed, InCopy
<1>2b. Said'
  BY <1>1 DEF RunProgressInv, Said
<1>3. Recorded'
  BY <1>1 DEF RunProgressInv, Recorded, Bygone
<1>3a. Once'
  BY <1>1 DEF RunProgressInv, Once
<1>3b. Followed'
  <2>1. /\ \A d \in RunDirs : Reaches(d)' \/ Diverged(d)'
        /\ Top' = Top /\ dirs' = dirs
    BY SMTT(60), <1>0, <1>1 DEF Followed, Reaches, Diverged
  <2>2. ASSUME NEW n \in DOMAIN dirs'[Top].ledger, NEW e, e = dirs'[Top].ledger[n], e[2] # Top, Reaches(e[2])',
               e[3] \in DOMAIN dirs'[e[2]].ledger, dirs'[e[2]].ledger[e[3]] = e
        PROVE  e[3] <= Len(dirs'[e[2]].cursor)
    <3>1. Reaches(e[2])
      BY <2>1, <2>2 DEF Reaches
    <3> QED
      BY ZenonT(30), <1>0, <2>1, <2>2, <3>1, FollowedSays
  <2> QED
    BY SMTT(30), <2>1, <2>2 DEF Followed
<1>3c. Untaken'
  BY <1>0, <1>1 DEF Untaken, Reaches, EventsOf
<1>4. FiledFirst' /\ JudgedAsFound' /\ Proven'
  BY <1>1 DEF RunProgressInv, FiledFirst, JudgedAsFound, Proven, Reaches, Diverged, PassIsDeserved, Changed, Hashed
<1>5. TrailFollowsLedger' /\ EffectsOnce'
  BY <1>1 DEF RunProgressInv, TrailFollowsLedger, Told, Settled, EffectsOnce
<1> QED
  BY <1>2, <1>2a, <1>2b, <1>3, <1>3a, <1>3b, <1>3c, <1>4, <1>5 DEF RunProgressInv

(* One lemma for each action. *)
LEMMA RunProgressMoves == ASSUME RunProgressInv, HashedLog \in Outputs \cup {Unset}, RunNext PROVE RunProgressInv'
<1>1. RunStep /\ TopNoted
  BY DEF RunNext, TopNoted
<1>2. CASE StartRun \/ \E d \in RunDirs : ResumeRun(d)
  BY <1>1, <1>2, StartCommandRun
<1>3. CASE RecordEnds \/ CommandDies
  BY <1>1, <1>3, RecordEndsRun, CommandDiesRun
<1>4. CASE BeginTry \/ AgentEmits \/ SaveCheckpoint \/ AgentStops \/ WriteAgentSummary
  BY <1>1, <1>4, BeginTryRun, AgentEmitsRun, SaveCheckpointRun, AgentStopsRun, WriteAgentSummaryRun
<1>5. CASE FollowEvent \/ StopConsumers
  BY <1>1, <1>5, ConsumersRun, StuckRun
<1>6. CASE CopyEvent \/ CopyTrail \/ CopyFiles \/ CopyArtifacts
  BY <1>1, <1>6, CopyEventRun, CopyTrailRun, CopyFilesRun, CopyArtifactsRun
<1>7. CASE AnnouncePhase \/ AnnounceResult \/ AnnounceRetried \/ AnnounceReset \/ ResetWorkspace \/ RetryStarts \/ AnnounceStop
  BY <1>1, <1>7, AnnounceRun
<1>8. CASE Evaluate \/ TakeStopReason \/ Conclude \/ BailOut
  BY <1>1, <1>8, EvaluateRun
<1>9. CASE WriteRunFiles \/ WriteReceipt
  BY <1>1, <1>9, WriteRunFilesRun, WriteReceiptRun
<1>10. CASE Validates
  <2>1. UNCHANGED <<dirs, placeVars, judgeVars, pastVars, takenVars>>
    BY <1>10 DEF Validates
  <2>2. topBy' = topBy
    BY <1>1, <2>1 DEF TopNoted
  <2> QED
    BY <2>1, <2>2, RunProgressStutters
<1> QED
  BY <1>1, <1>2, <1>3, <1>4, <1>5, <1>6, <1>7, <1>8, <1>9, <1>10 DEF RunStep

-----------------------------------------------------------------------------
(* The verify store of the workspace *)

Stores == [log : Outputs \cup {Unset}, stage : Outputs \cup {Unset}, graph : Outputs \cup {Unset}, torn : BOOLEAN]

(* What is in a store that has validated in this workspace only. *)
PrintedHere(it, done) ==
    /\ {it.log, it.stage, it.graph} \subseteq done \cup {Unset}
    /\ it.log = Unset => it.stage = Unset /\ it.graph = Unset

(* What the store of the user's own workspace has, validations have printed; so have they what a
   receipt has of it; and only a torn graph fails a run that passed. *)
StoreKept ==
    /\ room \in {"host", "copy", "none"} /\ validations \in 0..MaxValidations /\ printed \subseteq Outputs
    /\ store \in Stores
    /\ room = "host" => PrintedHere(store, printed)
    /\ room = "host" /\ proof # Unset =>
          (topBy = proof.by /\ proof.log # Unset => {proof.log, store.log, store.graph} \subseteq printed)
    /\ point \in {"resetting", "reset", "retrying", "bailing"} => passed = FALSE
    /\ exit = "failed" /\ try # 0 /\ passed = TRUE => store.torn

(* The inductive invariant of RetriedRun. *)
RunInv == RunProgressInv /\ StoreKept

(* The log that a receipt hashes. *)
LEMMA LogType == StoreKept => HashedLog \in Outputs \cup {Unset}
  BY DEF StoreKept, HashedLog, Stores

(* A store that is copied, or emptied. *)
LEMMA StoresMade ==
    /\ \A log \in Outputs \cup {Unset} : StoreOf(log) \in Stores
    /\ \A done : PrintedHere(StoreOf(Unset), done)
<1>1. \A log : /\ StoreOf(log).log = log /\ StoreOf(log).stage = log /\ StoreOf(log).graph = log
               /\ StoreOf(log).torn = FALSE
  BY DEF StoreOf
<1>2. ASSUME NEW log \in Outputs \cup {Unset} PROVE StoreOf(log) \in Stores
  BY DEF StoreOf, Stores
<1>3. \A done : PrintedHere(StoreOf(Unset), done)
  BY <1>1 DEF PrintedHere
<1> QED
  BY <1>2, <1>3

(* What a validation leaves in a store. *)
LEMMA ValidatedStore ==
    ASSUME NEW done \in SUBSET Outputs, NEW output \in Outputs, store \in Stores, NEW new \in Validated(output)
    PROVE  /\ new \in Stores /\ new.torn = store.torn
           /\ PrintedHere(store, done) => PrintedHere(new, done \cup {output})
           /\ new.log = output /\ (store.graph # Unset => new.graph = store.graph)
<1> DEFINE stage == IF store.stage = Unset THEN output ELSE store.stage
           graph == IF store.graph = Unset THEN stage ELSE store.graph
<1>1. new \in {[store EXCEPT !.log = output],
               [store EXCEPT !.log = output, !.stage = stage],
               [store EXCEPT !.log = output, !.stage = stage, !.graph = graph]}
  BY DEF Validated
<1>2. /\ stage \in Outputs \cup {Unset} /\ graph \in Outputs \cup {Unset} /\ stage \in {output, store.stage}
      /\ graph \in {output, store.stage, store.graph} /\ (store.graph # Unset => graph = store.graph)
  BY DEF Stores
<1> HIDE DEF stage, graph
<1>3. /\ new \in Stores /\ new.torn = store.torn /\ new.log = output
      /\ new.stage \in {store.stage, stage} /\ new.graph \in {store.graph, graph}
  BY <1>1, <1>2 DEF Stores
<1>4. new.stage \in {output, store.stage} /\ new.graph \in {output, store.stage, store.graph}
      /\ (store.graph # Unset => new.graph = store.graph)
  BY <1>2, <1>3
<1> QED
  BY <1>3, <1>4, RunSorts DEF PrintedHere

(* The steps that leave the verify store alone, and do not fail a command. *)
Elsewhere ==
    \/ \E d \in RunDirs : ResumeRun(d)
    \/ RecordEnds \/ BeginTry \/ AgentEmits \/ SaveCheckpoint \/ FollowEvent \/ AgentStops
    \/ CopyEvent \/ CopyTrail \/ CopyFiles \/ CopyArtifacts
    \/ AnnouncePhase \/ Evaluate \/ TakeStopReason \/ AnnounceResult \/ AnnounceRetried \/ Conclude
    \/ AnnounceReset \/ RetryStarts \/ WriteRunFiles \/ AnnounceStop

(* Where an attempt has failed, for the run to go on or to bail out. *)
Failing == {"resetting", "reset", "retrying", "bailing"}

LEMMA ElsewhereKeeps ==
    ASSUME RunProgressInv, Elsewhere, point \in Failing => passed = FALSE
    PROVE  /\ UNCHANGED verifyVars /\ proof' = proof /\ exit' = Unset
           /\ point' \in Failing => passed' = FALSE
<1>1. /\ Placed /\ JudgedAsFound
      /\ point # "idle" => exit = Unset
      /\ point = "idle" => writing = Unset
  BY DEF RunProgressInv, Placed, Announced
<1>2. CASE \E d \in RunDirs : ResumeRun(d)
  BY <1>2 DEF ResumeRun, StartCommand, Goes, Failing
<1>3. CASE RecordEnds
  BY <1>1, <1>3 DEF RecordEnds, judgeVars
<1>4. CASE BeginTry \/ AgentEmits \/ SaveCheckpoint \/ FollowEvent \/ AgentStops
  <2>1. UNCHANGED verifyVars /\ proof' = proof /\ exit' = exit /\ point # "idle" /\ point' \in {"running", "stopping"}
    BY <1>4 DEF BeginTry, AgentEmits, SaveCheckpoint, FollowEvent, AgentStops, CommandGoes, Goes, judgeVars, placeVars
  <2> QED
    BY <1>1, <2>1 DEF Failing
<1>5. CASE CopyEvent \/ CopyTrail \/ CopyFiles \/ CopyArtifacts
  <2>1. /\ UNCHANGED verifyVars /\ proof' = proof /\ exit' = exit /\ point # "idle"
        /\ point' \in {"copying", "filing", "artifacts", "phase"}
    BY <1>5 DEF CopyEvent, CopyTrail, CopyFiles, CopyArtifacts, CommandGoes, Goes, judgeVars
  <2> QED
    BY <1>1, <2>1 DEF Failing
<1>6. CASE AnnouncePhase \/ AnnounceResult \/ AnnounceRetried \/ AnnounceStop \/ RetryStarts
  <2>1. /\ UNCHANGED verifyVars /\ proof' = proof /\ exit' = exit /\ point # "idle"
        /\ point' \in {"evaluating", "retried", "judged", "receipt", "beginning"}
    BY <1>6 DEF AnnouncePhase, AnnounceResult, AnnounceRetried, AnnounceStop, RetryStarts, Announce, Goes, Later,
                Reported, judgeVars, verifyVars
  <2> QED
    BY <1>1, <2>1 DEF Failing
<1>7. CASE AnnounceReset
  <2>1. /\ UNCHANGED verifyVars /\ proof' = proof /\ exit' = exit /\ point = "resetting" /\ passed' = passed
    BY <1>7 DEF AnnounceReset, Announce, Goes, Later, judgeVars, verifyVars
  <2> QED
    BY <1>1, <2>1 DEF Failing
<1>8. CASE Evaluate \/ TakeStopReason \/ WriteRunFiles
  <2>1. /\ UNCHANGED verifyVars /\ proof' = proof /\ exit' = exit /\ point # "idle"
        /\ point' \in {"result", "retried", "judged", "closing"}
    BY <1>8 DEF Evaluate, TakeStopReason, WriteRunFiles, CommandGoes, Goes, Reported, judgeVars
  <2> QED
    BY <1>1, <2>1 DEF Failing
<1>9. CASE Conclude
  <2>1. /\ UNCHANGED verifyVars /\ proof' = proof /\ exit' = exit /\ point = "judged" /\ passed' = passed
        /\ passed => point' = "finishing"
    BY <1>9 DEF Conclude, CommandGoes, Goes, judgeVars
  <2>2. passed \in BOOLEAN
    BY <1>1, <2>1 DEF JudgedAsFound, Judging
  <2> QED
    BY <1>1, <2>1, <2>2 DEF Failing
<1> QED
  BY <1>2, <1>3, <1>4, <1>5, <1>6, <1>7, <1>8, <1>9 DEF Elsewhere

(* The steps are those, and the ones that are left. *)
LEMMA StepsElsewhere ==
    RunStep => \/ Elsewhere
               \/ StartRun \/ CommandDies \/ Validates \/ StopConsumers \/ WriteAgentSummary
               \/ ResetWorkspace \/ BailOut \/ WriteReceipt
  BY DEF RunStep, Elsewhere

(* A command that begins, and one that has changed the run, leave the receipts of the others. *)
LEMMA ReceiptsOfOthers ==
    ASSUME RunProgressInv, RunNext, proof' = proof, proof # Unset
    PROVE  topBy' = proof.by => topBy = proof.by /\ point # "reset"
<1>1. /\ RunStep /\ TopNoted /\ RunProgressTypeOK /\ Proven
      /\ proof.by <= commands /\ (point # "idle" => proof.by < commands)
      /\ point = "idle" => writing = Unset
  BY DEF RunNext, TopNoted, RunProgressInv, Proven, Placed, Announced
<1>2. proof.by \in Nat /\ commands \in Nat
  <2>1. proof \in Receipts /\ commands \in 0..MaxCommands
    BY <1>1 DEF RunProgressTypeOK
  <2> QED
    BY <2>1, RunSorts DEF Receipts
<1>3. point = "reset" => topBy = commands
  BY <1>1 DEF Proven, Changed, Judging
<1>4. CASE point = "idle"
  <2>1. dirs' = dirs
    <3>1. StartRun \/ (\E d \in RunDirs : ResumeRun(d)) \/ Validates
      BY <1>1, <1>4 DEF RunStep, RecordEnds, CommandDies, BeginTry, AgentEmits,
            SaveCheckpoint, FollowEvent, AgentStops, StopConsumers, WriteAgentSummary, CopyEvent, CopyTrail,
            CopyFiles, CopyArtifacts, AnnouncePhase, Evaluate, TakeStopReason, AnnounceResult, AnnounceRetried,
            Conclude, AnnounceReset, ResetWorkspace, BailOut, RetryStarts, WriteRunFiles, AnnounceStop, WriteReceipt
    <3> QED
      BY <3>1 DEF StartRun, ResumeRun, StartCommand, Validates
  <2> QED
    BY <1>1, <1>4, <2>1 DEF TopNoted
<1>5. CASE point # "idle"
  <2>1. ~StartRun /\ ~(\E d \in RunDirs : ResumeRun(d))
    BY <1>5 DEF StartRun, ResumeRun, StartCommand
  <2>2. RecordEnds => commands' = commands
    BY DEF RecordEnds
  <2>3. CommandDies => commands' = commands
    BY DEF CommandDies
  <2>4. BeginTry => commands' = commands
    BY DEF BeginTry
  <2>5. AgentEmits => commands' = commands
    BY DEF AgentEmits
  <2>6. SaveCheckpoint => commands' = commands
    BY DEF SaveCheckpoint, placeVars
  <2>7. Validates => commands' = commands
    BY DEF Validates, placeVars
  <2>8. FollowEvent => commands' = commands
    BY DEF FollowEvent, placeVars
  <2>9. AgentStops => commands' = commands
    BY DEF AgentStops, CommandGoes
  <2>10. StopConsumers => commands' = commands
    BY DEF StopConsumers
  <2>11. WriteAgentSummary => commands' = commands
    BY DEF WriteAgentSummary
  <2>12. CopyEvent => commands' = commands
    BY DEF CopyEvent, CommandGoes
  <2>13. CopyTrail => commands' = commands
    BY DEF CopyTrail, CommandGoes
  <2>14. CopyFiles => commands' = commands
    BY DEF CopyFiles, CommandGoes
  <2>15. CopyArtifacts => commands' = commands
    BY DEF CopyArtifacts, CommandGoes
  <2>16. AnnouncePhase => commands' = commands
    BY DEF AnnouncePhase, Announce
  <2>17. Evaluate => commands' = commands
    BY DEF Evaluate, CommandGoes
  <2>18. TakeStopReason => commands' = commands
    BY DEF TakeStopReason, CommandGoes
  <2>19. AnnounceResult => commands' = commands
    BY DEF AnnounceResult, Announce
  <2>20. AnnounceRetried => commands' = commands
    BY DEF AnnounceRetried, Announce
  <2>21. Conclude => commands' = commands
    BY DEF Conclude, CommandGoes
  <2>22. AnnounceReset => commands' = commands
    BY DEF AnnounceReset, Announce
  <2>23. ResetWorkspace => commands' = commands
    BY DEF ResetWorkspace, Announce
  <2>24. BailOut => commands' = commands
    BY DEF BailOut
  <2>25. RetryStarts => commands' = commands
    BY DEF RetryStarts, Announce
  <2>26. WriteRunFiles => commands' = commands
    BY DEF WriteRunFiles, CommandGoes
  <2>27. AnnounceStop => commands' = commands
    BY DEF AnnounceStop, Announce
  <2>28. WriteReceipt => commands' = commands
    BY DEF WriteReceipt
  <2>29. commands' = commands
    BY <1>1, <2>1, <2>2, <2>3, <2>4, <2>5, <2>6, <2>7, <2>8, <2>9, <2>10, <2>11, <2>12, <2>13, <2>14, <2>15, <2>16, <2>17, <2>18, <2>19, <2>20, <2>21, <2>22, <2>23, <2>24, <2>25, <2>26, <2>27, <2>28 DEF RunStep
  <2> QED
    BY <1>1, <1>2, <1>3, <1>5, <2>29 DEF TopNoted
<1> QED
  BY <1>4, <1>5

(* The store, where a step leaves the receipt alone. *)
LEMMA StoreStays ==
    ASSUME RunInv, RunNext, proof' = proof,
           room' \in {"host", "copy", "none"}, room' = "host" => room = "host",
           validations' \in 0..MaxValidations, printed' \subseteq Outputs, printed \subseteq printed',
           store' \in Stores, room = "host" => PrintedHere(store', printed'),
           store'.log # store.log \/ store'.graph # store.graph => point = "reset" \/
               (store'.log \in printed' /\ (store.graph # Unset => store'.graph = store.graph)),
           point' \in Failing => passed' = FALSE,
           exit' = "failed" /\ try' # 0 /\ passed' = TRUE => store'.torn
    PROVE  StoreKept'
<1>1. StoreKept /\ RunProgressInv
  BY DEF RunInv
<1>2. ASSUME room' = "host", proof # Unset, topBy' = proof.by, proof.log # Unset
      PROVE  {proof.log, store'.log, store'.graph} \subseteq printed'
  <2>1. topBy = proof.by /\ point # "reset"
    BY <1>1, <1>2, ReceiptsOfOthers
  <2>2. {proof.log, store.log, store.graph} \subseteq printed
    BY <1>1, <1>2, <2>1 DEF StoreKept
  <2>3. store.graph # Unset
    BY <1>1, <2>2, RunSorts DEF StoreKept
  <2> QED
    BY <2>1, <2>2, <2>3
<1>3. (room = "host" /\ proof # Unset =>
          (topBy = proof.by /\ proof.log # Unset => {proof.log, store.log, store.graph} \subseteq printed))'
  BY <1>2
<1>4. (room = "host" => PrintedHere(store, printed))'
  BY DEF PrintedHere
<1> QED
  BY <1>3, <1>4 DEF StoreKept, Failing

(* The receipt of a run whose store has a graph hashes what has been printed. *)
LEMMA ReceiptKept == ASSUME RunInv, RunNext, WriteReceipt, ~store.torn PROVE StoreKept'
<1>1. /\ StoreKept /\ RunProgressInv /\ store' = store /\ printed' = printed /\ validations' = validations
      /\ point' = "idle" /\ proof'.log = HashedLog
      /\ room' = IF room = "copy" /\ try # 0 THEN "none" ELSE room
      /\ exit' = "failed" => ~passed
      /\ passed' = passed /\ passed \in BOOLEAN
  BY DEF RunInv, WriteReceipt, CommandReturns, CommandEnds, Goes, RunProgressInv, JudgedAsFound, Judging
<1>2. ASSUME room' = "host", proof'.log # Unset
      PROVE  {proof'.log, store'.log, store'.graph} \subseteq printed'
  <2>1. room = "host" /\ PrintedHere(store, printed)
    BY <1>1, <1>2 DEF StoreKept
  <2>2. store.graph # Unset /\ proof'.log = store.log
    BY <1>1, <1>2 DEF HashedLog
  <2>3. store.log # Unset
    BY <2>1, <2>2 DEF PrintedHere
  <2> QED
    BY <1>1, <2>1, <2>2, <2>3 DEF PrintedHere
<1>3. (room = "host" /\ proof # Unset =>
          (topBy = proof.by /\ proof.log # Unset => {proof.log, store.log, store.graph} \subseteq printed))'
  BY <1>2
<1>4. (room = "host" => PrintedHere(store, printed))'
  BY <1>1 DEF PrintedHere, StoreKept
<1>5. room' \in {"host", "copy", "none"}
  BY <1>1 DEF StoreKept
<1>6. /\ validations' \in 0..MaxValidations /\ printed' \subseteq Outputs /\ store' \in Stores
  BY <1>1 DEF StoreKept
<1>7. (point \in {"resetting", "reset", "retrying", "bailing"} => passed = FALSE)'
      /\ (exit = "failed" /\ try # 0 /\ passed = TRUE => store.torn)'
  BY <1>1
<1> QED
  BY <1>3, <1>4, <1>5, <1>6, <1>7 DEF StoreKept

LEMMA StoreMoves == ASSUME RunInv, RunNext PROVE StoreKept'
<1>1. /\ RunStep /\ StoreKept /\ RunProgressInv /\ Placed /\ RunProgressTypeOK /\ JudgedAsFound
      /\ room \in {"host", "copy", "none"} /\ validations \in 0..MaxValidations /\ printed \subseteq Outputs
      /\ store \in Stores /\ (room = "host" => PrintedHere(store, printed))
      /\ point \in Failing => passed = FALSE
      /\ exit = "failed" /\ try # 0 /\ passed = TRUE => store.torn
      /\ point # "idle" => exit = Unset
  BY DEF RunInv, RunNext, StoreKept, RunProgressInv, Placed, Failing
<1>2. CASE Elsewhere
  <2>1. UNCHANGED verifyVars /\ proof' = proof /\ exit' = Unset /\ (point' \in Failing => passed' = FALSE)
    BY <1>1, <1>2, ElsewhereKeeps
  <2>2. room' = room /\ store' = store /\ validations' = validations /\ printed' = printed
    BY <2>1 DEF verifyVars
  <2>3. exit' # "failed"
    BY <2>1, RunSorts
  <2> QED
    BY <1>1, <2>1, <2>2, <2>3, StoreStays
<1>3. CASE StartRun
  <2>1. /\ proof' = proof /\ exit' = Unset /\ point' = "beginning" /\ validations' = validations /\ printed' = printed
        /\ \/ room = "host" /\ room' = room /\ store' = store
           \/ room # "host" /\ room' = "copy" /\ \E log \in Outputs \cup {Unset} : store' = StoreOf(log)
    BY <1>3 DEF StartRun, StartCommand, Goes
  <2>2. store' \in Stores
    BY <1>1, <2>1, StoresMade
  <2>3. exit' # "failed" /\ point' \notin Failing
    BY <2>1, RunSorts DEF Failing
  <2>4. CASE room = "host"
    BY <1>1, <2>1, <2>2, <2>3, <2>4, StoreStays
  <2>5. CASE room # "host"
    <3>1. room' = "copy"
      BY <2>1, <2>5
    <3> QED
      BY <1>1, <2>1, <2>2, <2>3, <3>1 DEF StoreKept, Failing
  <2> QED
    BY <2>4, <2>5
<1>4. CASE CommandDies
  <2>1. /\ proof' = proof /\ exit' = "killed" /\ point' = "idle" /\ validations' = validations /\ printed' = printed
        /\ room' = room /\ store' \in {store, [store EXCEPT !.torn = TRUE]}
    BY <1>4 DEF CommandDies, CommandEnds, Goes, judgeVars
  <2>2. store' \in Stores /\ store'.log = store.log /\ store'.stage = store.stage /\ store'.graph = store.graph
    BY <1>1, <2>1 DEF Stores
  <2>3. room = "host" => PrintedHere(store', printed')
    BY <1>1, <2>1, <2>2 DEF PrintedHere
  <2>4. exit' # "failed" /\ point' \notin Failing
    BY <2>1 DEF Failing
  <2> QED
    BY <1>1, <2>1, <2>2, <2>3, <2>4, StoreStays
<1>5. CASE Validates
  <2>1. PICK output \in Outputs : store' \in Validated(output) /\ printed' = printed \cup {output}
    BY <1>5 DEF Validates
  <2>2. /\ proof' = proof /\ exit' = exit /\ point' = point /\ try' = try /\ passed' = passed /\ room' = room
        /\ validations' = validations + 1 /\ validations < MaxValidations
    BY <1>5 DEF Validates, judgeVars, placeVars
  <2>3. validations' \in 0..MaxValidations
    BY <1>1, <2>2, RunSorts
  <2>4. /\ store' \in Stores /\ store'.torn = store.torn
        /\ PrintedHere(store, printed) => PrintedHere(store', printed')
        /\ store'.log = output /\ (store.graph # Unset => store'.graph = store.graph)
    BY <1>1, <2>1, ValidatedStore
  <2>5. printed' \subseteq Outputs /\ printed \subseteq printed' /\ store'.log \in printed'
    BY <1>1, <2>1, <2>4
  <2> QED
    BY <1>1, <2>2, <2>3, <2>4, <2>5, StoreStays
<1>6. CASE StopConsumers \/ WriteAgentSummary \/ BailOut
  <2>1. /\ proof' = proof /\ validations' = validations /\ printed' = printed /\ store' = store /\ try' = try
        /\ passed' = passed /\ point \notin {"idle", "reset"} /\ point' \in {"idle", "summing", "copying"}
        /\ room' \in {room, "none"}
        /\ exit' = "failed" => exit = "failed" \/ try = 0 \/ point = "bailing"
    BY <1>6 DEF StopConsumers, WriteAgentSummary, BailOut, CommandReturns, CommandEnds, Goes, judgeVars
  <2>2. exit' = "failed" /\ try' # 0 /\ passed' = TRUE => FALSE
    BY <1>1, <2>1, RunSorts DEF Failing
  <2>3. point' \notin Failing
    BY <2>1 DEF Failing
  <2>4. room' \in {"host", "copy", "none"} /\ (room' = "host" => room = "host")
    BY <1>1, <2>1
  <2> QED
    BY <1>1, <2>1, <2>2, <2>3, <2>4, StoreStays
<1>7. CASE ResetWorkspace
  <2>1. /\ proof' = proof /\ validations' = validations /\ printed' = printed /\ store' \in {store, StoreOf(Unset)}
        /\ passed' = passed /\ point = "reset" /\ room' = room /\ exit' = exit
    BY <1>7 DEF ResetWorkspace, Announce
  <2>2. store' \in Stores /\ (room = "host" => PrintedHere(store', printed'))
    BY <1>1, <2>1, StoresMade
  <2>3. passed' = FALSE /\ exit' # "failed"
    BY <1>1, <2>1, RunSorts DEF Failing
  <2> QED
    BY <1>1, <2>1, <2>2, <2>3, StoreStays
<1>8. CASE WriteReceipt
  <2>1. CASE ~store.torn
    BY <1>8, <2>1, ReceiptKept
  <2>2. CASE store.torn
    <3>1. /\ proof' = proof /\ validations' = validations /\ printed' = printed /\ store' = store
          /\ point' = "idle" /\ room' \in {room, "none"}
      BY <1>8, <2>2 DEF WriteReceipt, CommandReturns, CommandEnds, Goes
    <3>2. room' \in {"host", "copy", "none"} /\ (room' = "host" => room = "host") /\ point' \notin Failing
      BY <1>1, <3>1 DEF Failing
    <3> QED
      BY <1>1, <2>2, <3>1, <3>2, StoreStays
  <2> QED
    BY <2>1, <2>2
<1> QED
  BY <1>1, <1>2, <1>3, <1>4, <1>5, <1>6, <1>7, <1>8, StepsElsewhere

-----------------------------------------------------------------------------
(* Every step keeps both *)

LEMMA RunInitInv == RunInit => RunInv
<1> SUFFICES ASSUME RunInit PROVE RunInv
  OBVIOUS
<1>1. /\ room \in {"host", "none"} /\ store = StoreOf(Unset) /\ validations = 0 /\ printed = {} /\ point = "idle"
      /\ proof = Unset /\ exit = Unset
  BY DEF RunInit
<1>2. store \in Stores /\ PrintedHere(store, printed)
  BY <1>1 DEF StoreOf, Stores, PrintedHere
<1>3. exit # "failed" /\ 0 \in 0..MaxValidations
  BY <1>1, RunSorts
<1> QED
  BY <1>1, <1>2, <1>3, RunInitProgress DEF RunInv, StoreKept

LEMMA RunStutters == RunInv /\ UNCHANGED runVars => RunInv'
<1> SUFFICES ASSUME RunInv, UNCHANGED runVars PROVE RunInv'
  OBVIOUS
<1>1. UNCHANGED <<dirs, placeVars, judgeVars, pastVars, takenVars, topBy>>
  BY DEF runVars
<1>2. /\ UNCHANGED <<room, store, validations, printed>>
      /\ UNCHANGED <<proof, point, passed, exit, try, topBy>>
  BY DEF runVars, verifyVars, judgeVars, placeVars
<1>3. StoreKept'
  BY <1>2 DEF RunInv, StoreKept, PrintedHere
<1> QED
  BY <1>1, <1>3, RunProgressStutters DEF RunInv

LEMMA RunMoves == ASSUME RunInv, RunNext PROVE RunInv'
  BY LogType, RunProgressMoves, StoreMoves DEF RunInv

(* A receipt that does not verify is of a copy, or of an output that another has followed. *)
LEMMA ReceiptsStand == RunInv => ReceiptStands
<1> SUFFICES ASSUME RunInv PROVE ReceiptStands
  OBVIOUS
<1>1. RunProgressInv /\ StoreKept /\ Proven
  BY DEF RunInv, RunProgressInv
<1>2. ASSUME proof # Unset, Verifies PROVE topBy = proof.by
  BY <1>1, <1>2, HashedSince DEF Verifies
<1>3. ASSUME proof # Unset, topBy = proof.by, ~Verifies
      PROVE  proof.log # Unset /\ (room # "host" \/ \E one, other \in printed : one # other)
  <2>1. proof.log # Unset /\ ~(room = "host" /\ store.log = proof.log /\ store.graph = proof.log)
    BY <1>1, <1>3, HashedSince DEF Verifies
  <2>2. room = "host" => {proof.log, store.log, store.graph} \subseteq printed
    BY <1>1, <1>3, <2>1 DEF StoreKept
  <2> QED
    BY <2>1, <2>2
<1>4. exit = "passed" /\ try # 0 => proof # Unset /\ proof.by = commands /\ dirs[Top].summary.passed
  BY <1>1 DEF Proven
<1>5. exit = "failed" /\ try # 0 /\ passed = TRUE => store.torn
  BY <1>1 DEF StoreKept
<1> QED
  BY <1>2, <1>3, <1>4, <1>5 DEF ReceiptStands

LEMMA RunTyped == RunInv => RunTypeOK
  BY DEF RunInv, RunProgressInv, StoreKept, RunTypeOK, Stores

(* The properties follow from the invariant. *)
LEMMA RunInvHolds == RunInv =>
    RunTypeOK /\ TrailFollowsLedger /\ EffectsOnce /\ StuckAsKnown /\ PassIsDeserved /\ ReceiptStands
  BY StuckKnown, ReceiptsStand, RunTyped DEF RunInv, RunProgressInv, JudgedAsFound

(* However often a run is started, resumed, retried and killed, and whoever validates in its
   workspace: its trails tell what its ledgers tell, the consumers take an event once, they lose
   their cursor in the two known cases only, a verdict is what the evaluator found, and a receipt
   stands until the run is changed, its copy of the workspace is gone, or a validation printed
   otherwise. *)
THEOREM RunHolds ==
    RunSpec => [](RunTypeOK /\ TrailFollowsLedger /\ EffectsOnce /\ StuckAsKnown /\ PassIsDeserved /\ ReceiptStands)
<1>1. RunInv /\ [RunNext]_runVars => RunInv'
  BY RunMoves, RunStutters
<1> QED
  BY <1>1, RunInitInv, RunInvHolds, PTL DEF RunSpec

-----------------------------------------------------------------------------
(* The attempts of a benchmark *)

AttemptRecords ==
    [dir : BOOLEAN, allowed : 0..Budget, place : Attempts \cup {Sandbox}, spent : Nat,
     checkpoint : {NoFile, Torn, "written"}, summary : {NoFile, Torn, "success", "failed"},
     saved : {NoFile, Torn} \cup JudgedAttempts]

ReportTyped(file) == Readable(file) => file.attempts \in Seq(JudgedAttempts) /\ file.error \in BOOLEAN

\* Every variable has its type.
AttemptTypes ==
    /\ kind \in Kinds /\ limit \in {0, MaxAttempts}
    /\ manifest \in {NoFile, Torn, "written"}
    /\ attempt \in [Attempts -> AttemptRecords]
    /\ tree \in [Attempts \cup {Sandbox} -> 0..MaxEdits]
    /\ ReportTyped(report)
    /\ attempts \in Seq(JudgedAttempts)
    /\ number \in 1..(MaxAttempts + 1) /\ resumed \in 0..MaxAttempts
    /\ unsaved \subseteq Attempts
    /\ pc \in {"off", "preparing", "next", "agent", "waiting", "judging", "saving", "reporting", "final"}
    /\ watchdog \in {"watching", "saving", "reporting"}
    /\ asked \in BOOLEAN /\ reran \in BOOLEAN /\ dirty \in BOOLEAN
    /\ edits \in 0..MaxEdits /\ resumes \in Nat

InAttempt == pc \in {"agent", "waiting", "judging", "saving", "reporting"}
IsResumed == pc \in {"agent", "waiting", "judging"} /\ resumed = number
IsFresh == pc \in {"agent", "waiting", "judging"} /\ resumed # number

\* Where the process is.
AttemptGoing ==
    /\ InAttempt => number \in Attempts /\ attempt[number].dir /\ dirty
    /\ pc = "judging" => attempt[number].summary \in {"success", "failed"}
    /\ pc \in {"saving", "reporting"} => /\ attempts # <<>> /\ Last(attempts).number = number
                                         /\ Last(attempts).tokens = attempt[number].spent
                                         /\ resumed # number
    /\ pc = "reporting" => attempt[number].saved = Last(attempts)
    /\ pc \in {"off", "preparing"} => attempts = <<>> /\ resumed = 0
    /\ resumed <= number /\ (pc = "next" => resumed < number)
    /\ kind = "challenge" /\ course = "standard" /\ pc \in {"agent", "waiting", "judging"} =>
          resumes > 0 \/ attempt[number].place # Sandbox
    /\ watchdog # "watching" => pc \in {"agent", "waiting"} /\ resumed # number

\* Where agents work; there is nothing where there is no directory.
HeldPlaces(held) ==
    \A i \in Attempts : held[i].place \in {i, Sandbox} /\ (held[i].dir \/ held[i] = NoAttempt)

\* The directories are those of the first attempts, ...
DirsInARow(held) == \A i, k \in Attempts : held[i].dir /\ k < i => held[k].dir
AllBefore(held, n) == \A i \in Attempts : i < n => held[i].dir

\* ... up to the one under way.
PrefixOf(held, n) == \A i \in Attempts : held[i].dir <=> i <= n

InARowOfAttempts ==
    /\ pc = "preparing" => PrefixOf(attempt, 0)
    /\ pc = "next" => PrefixOf(attempt, number - 1)
    /\ InAttempt => PrefixOf(attempt, number)

\* A judged attempt: its directory, its workspace, and what made it a success.
Sound(held, what, often, a) ==
    /\ held[a.number].dir /\ a.place \in {a.number, Sandbox}
    /\ AttemptPassed(a) => \/ a.verdict = "passed" \/ (what = "unscored" /\ a.stop = "success")
                           \/ (what = "challenge" /\ (a.place # Sandbox \/ often > 0))

AllSound(held, what, often, known) == \A j \in 1..Len(known) : Sound(held, what, often, known[j])

HeldSound(held, what, often) ==
    \A i \in Attempts : Readable(held[i].saved) => /\ held[i].saved.number = i
                                                   /\ Sound(held, what, often, held[i].saved)

AttemptsSound ==
    /\ AllSound(attempt, kind, resumes, attempts)
    /\ HeldSound(attempt, kind, resumes)
    /\ Readable(report) => AllSound(attempt, kind, resumes, report.attempts)

\* Attempts in order.
Ordered(known) == \A j \in 2..Len(known) : known[j - 1].number < known[j].number
Before(known, n) == \A j \in 1..Len(known) : known[j].number < n

AttemptsOrdered ==
    /\ Ordered(attempts)
    /\ pc \in {"next", "agent", "waiting", "judging"} => Before(attempts, number)
    /\ pc \in {"saving", "reporting"} => Before(attempts, number + 1)

\* What a report may say of a workspace.
CountDirs(held) == Cardinality({i \in Attempts : held[i].dir})

IsCurrent(held, trees, gone, a) ==
    \/ a.edit = trees[a.place]
    \/ a.number \in gone
    \/ a.place = Sandbox /\ a.number < CountDirs(held)

AllCurrent(held, trees, gone, known) == \A j \in 1..Len(known) : IsCurrent(held, trees, gone, known[j])

\* What the workspace of an attempt begins with.
Beginning(held, trees, n) == IF held[n].place = Sandbox \/ kind # "challenge" THEN 0 ELSE trees[Sandbox]

\* But of an agent that is resumed.
HeldCurrent(held, trees, gone, again) ==
    \A i \in Attempts : Readable(held[i].saved) => IsCurrent(held, trees, gone, held[i].saved) \/ again = i

AttemptsCurrent ==
    /\ AllCurrent(attempt, tree, unsaved, attempts)
    /\ HeldCurrent(attempt, tree, unsaved, resumed)
    /\ pc \in {"agent", "waiting", "judging", "saving"} /\ resumed # number /\ watchdog # "reporting" =>
          ~Readable(attempt[number].saved)
    /\ course = "challenge" /\ (pc = "preparing" \/ (pc = "next" /\ number = 1)) => tree[Sandbox] = 0
    /\ pc = "agent" /\ resumed # number /\ ~asked =>
          tree[attempt[number].place] = Beginning(attempt, tree, number)
    /\ watchdog # "watching" =>
          number \in unsaved \/ tree[attempt[number].place] = Beginning(attempt, tree, number)

\* The tokens of the attempts that are saved, up to one of them.
SavedTokens(held, n) == Tokens(SavedUpTo(held)[n])

\* What may be billed beyond the budget.
Grace == MaxBill * (resumes + 1)

\* What is allowed is what those before have left.
HeldInBudget(held, grace) ==
    \A i \in Attempts :
        /\ held[i].spent <= held[i].allowed + grace
        /\ held[i].dir => held[i].allowed + SavedTokens(held, i - 1) <= Budget
        /\ Readable(held[i].saved) => held[i].saved.tokens <= held[i].spent

AttemptsInBudget ==
    /\ Tokens(attempts) <= Budget + Grace
    /\ IsResumed /\ pc = "agent" /\ ~asked => attempt[number].spent + MaxBill <= attempt[number].allowed + Grace
    /\ IsFresh => /\ attempt[number].spent <= attempt[number].allowed + MaxBill
                  /\ attempt[number].allowed + Tokens(attempts) <= Budget
                  /\ SavedTokens(attempt, number - 1) <= Tokens(attempts)
    /\ pc = "next" => SavedTokens(attempt, number - 1) <= Tokens(attempts)
    /\ pc \in {"saving", "reporting"} =>
          /\ SavedTokens(attempt, number - 1) + attempt[number].spent <= Tokens(attempts)
          /\ attempt[number].spent <= attempt[number].allowed + MaxBill

\* What is reported.
ReportFirst ==
    Readable(report) => /\ Ordered(report.attempts) /\ Tokens(report.attempts) <= Budget + Grace
                        /\ ~dirty => AllCurrent(attempt, tree, unsaved, report.attempts)

\* What holds until a run is begun a second time in the directory.
FirstRun ==
    /\ InARowOfAttempts /\ AttemptsOrdered /\ AttemptsCurrent /\ AttemptsInBudget
    /\ HeldInBudget(attempt, Grace) /\ ReportFirst

AttemptsInv ==
    /\ AttemptTypes /\ AttemptGoing
    /\ HeldPlaces(attempt) /\ DirsInARow(attempt) /\ (pc = "next" => AllBefore(attempt, number))
    /\ AttemptsSound
    /\ ~reran => FirstRun

\* What holds of zero, and of the next number with each, holds of every number.
LEMMA EveryNumber ==
    ASSUME NEW S, 0 \in S, \A n \in Nat : n \in S => n + 1 \in S
    PROVE  Nat \subseteq S
<1> DEFINE R == {pair \in Nat \X Nat : pair[1] < pair[2]}
           T == {n \in Nat : n \notin S}
<1> SUFFICES ASSUME T # {} PROVE FALSE
  OBVIOUS
<1>1. IsWellFoundedOn(R, Nat)
  BY NatLessThanWellFounded, Zenon DEF OpToRel
<1>3. \A k, j \in Nat : j < k => <<j, k>> \in R
  OBVIOUS
<1> HIDE DEF R
<1>2. PICK i \in T : \A j \in T : ~(<<j, i>> \in R)
  BY <1>1, WFMin
<1>4. i \in Nat /\ i # 0
  BY <1>2
<1>5. i - 1 \in Nat /\ i - 1 < i
  BY <1>4
<1>6. i - 1 \notin T
  BY <1>2, <1>3, <1>4, <1>5
<1> QED
  BY <1>4, <1>5, <1>6

\* The tokens are added one attempt after the other, ...
TotalRunning(known, g) ==
    /\ g[0] = 0
    /\ \A n \in 1..Len(known) : g[n] = g[n - 1] + known[n].tokens

LEMMA TotalRuns ==
    ASSUME NEW known, Len(known) \in Nat
    PROVE  \E g : TotalRunning(known, g) /\ Tokens(known) = g[Len(known)]
<1> DEFINE Upto(g, m) == g = [n \in 0..m |-> IF n = 0 THEN 0 ELSE g[n - 1] + known[n].tokens]
           S == {m \in Nat : \E g : Upto(g, m)}
<1>1. 0 \in S
  <2> DEFINE g == [n \in 0..0 |-> 0]
  <2>1. Upto(g, 0)
    OBVIOUS
  <2> QED
    BY <2>1
<1>2. ASSUME NEW m \in Nat, m \in S PROVE m + 1 \in S
  <2> PICK g : Upto(g, m)
    BY <1>2
  <2> DEFINE h == [n \in 0..(m + 1) |-> IF n <= m THEN g[n] ELSE g[n - 1] + known[n].tokens]
  <2>1. \A n \in 0..m : g[n] = IF n = 0 THEN 0 ELSE g[n - 1] + known[n].tokens
    BY Zenon
  <2>2. ASSUME NEW n \in 0..(m + 1)
        PROVE  h[n] = IF n = 0 THEN 0 ELSE h[n - 1] + known[n].tokens
    <3>1. \A k \in 0..m : k \in 0..(m + 1) /\ k <= m
      OBVIOUS
    <3>2. \A k \in 0..m : h[k] = g[k]
      BY <3>1
    <3>3. n \in 0..m \/ (n = m + 1 /\ ~(n <= m) /\ n # 0 /\ n - 1 \in 0..m)
      OBVIOUS
    <3>4. ~(n <= m) => h[n] = g[n - 1] + known[n].tokens
      BY Zenon
    <3> HIDE DEF h
    <3>5. CASE n = m + 1
      <4>1. ~(n <= m) /\ n # 0 /\ h[n - 1] = g[n - 1]
        BY <3>2, <3>3, <3>5
      <4> QED
        BY <3>4, <4>1, Zenon
    <3>6. CASE n \in 0..m
      <4>1. n = 0 \/ n - 1 \in 0..m
        BY <3>6
      <4>2. h[n] = g[n] /\ (n = 0 \/ h[n - 1] = g[n - 1])
        BY <3>2, <3>6, <4>1
      <4> QED
        BY <4>2, <3>6, <2>1, Zenon
    <3> QED
      BY <3>3, <3>5, <3>6
  <2>3. h = [n \in 0..(m + 1) |-> h[n]]
    OBVIOUS
  <2> HIDE DEF h
  <2>4. Upto(h, m + 1)
    BY <2>2, <2>3
  <2>5. m + 1 \in Nat
    OBVIOUS
  <2> HIDE DEF Upto
  <2> QED
    BY <2>4, <2>5
<1> DEFINE f == CHOOSE g : Upto(g, Len(known))
<1>3. Len(known) \in S
  <2> HIDE DEF S
  <2> QED
    BY <1>1, <1>2, EveryNumber
<1>4. Upto(f, Len(known))
  BY <1>3
<1>5. Tokens(known) = f[Len(known)]
  BY DEF Tokens
<1> HIDE DEF f
<1>6. f[0] = 0 /\ \A n \in 1..Len(known) : f[n] = f[n - 1] + known[n].tokens
  <2>1. \A n \in 0..Len(known) : f[n] = IF n = 0 THEN 0 ELSE f[n - 1] + known[n].tokens
    BY <1>4, Zenon
  <2>2. 0 \in 0..Len(known) /\ \A n \in 1..Len(known) : n \in 0..Len(known) /\ n # 0
    OBVIOUS
  <2> QED
    BY <2>1, <2>2
<1> QED
  BY <1>5, <1>6 DEF TotalRunning

\* ... and the saved attempts are read in their order.
SavedRunning(held, g) ==
    /\ g[0] = <<>>
    /\ \A n \in 1..MaxAttempts : g[n] = IF Readable(held[n].saved) THEN Append(g[n - 1], held[n].saved) ELSE g[n - 1]

LEMMA SavedRuns ==
    ASSUME NEW held
    PROVE  \E g : SavedRunning(held, g) /\ SavedUpTo(held) = g
<1>0. MaxAttempts \in Nat
  BY AttemptsAssumption
<1> DEFINE Upto(g, m) == g = [n \in 0..m |-> IF n = 0 THEN <<>> ELSE IF Readable(held[n].saved) THEN Append(g[n - 1], held[n].saved) ELSE g[n - 1]]
           S == {m \in Nat : \E g : Upto(g, m)}
<1>1. 0 \in S
  <2> DEFINE g == [n \in 0..0 |-> <<>>]
  <2>1. Upto(g, 0)
    OBVIOUS
  <2> QED
    BY <2>1
<1>2. ASSUME NEW m \in Nat, m \in S PROVE m + 1 \in S
  <2> PICK g : Upto(g, m)
    BY <1>2
  <2> DEFINE h == [n \in 0..(m + 1) |-> IF n <= m THEN g[n] ELSE IF Readable(held[n].saved) THEN Append(g[n - 1], held[n].saved) ELSE g[n - 1]]
  <2>1. \A n \in 0..m : g[n] = IF n = 0 THEN <<>> ELSE IF Readable(held[n].saved) THEN Append(g[n - 1], held[n].saved) ELSE g[n - 1]
    BY Zenon
  <2>2. ASSUME NEW n \in 0..(m + 1)
        PROVE  h[n] = IF n = 0 THEN <<>> ELSE IF Readable(held[n].saved) THEN Append(h[n - 1], held[n].saved) ELSE h[n - 1]
    <3>1. \A k \in 0..m : k \in 0..(m + 1) /\ k <= m
      OBVIOUS
    <3>2. \A k \in 0..m : h[k] = g[k]
      BY <3>1
    <3>3. n \in 0..m \/ (n = m + 1 /\ ~(n <= m) /\ n # 0 /\ n - 1 \in 0..m)
      OBVIOUS
    <3>4. ~(n <= m) => h[n] = IF Readable(held[n].saved) THEN Append(g[n - 1], held[n].saved) ELSE g[n - 1]
      BY Zenon
    <3> HIDE DEF h
    <3>5. CASE n = m + 1
      <4>1. ~(n <= m) /\ n # 0 /\ h[n - 1] = g[n - 1]
        BY <3>2, <3>3, <3>5
      <4> QED
        BY <3>4, <4>1, Zenon
    <3>6. CASE n \in 0..m
      <4>1. n = 0 \/ n - 1 \in 0..m
        BY <3>6
      <4>2. h[n] = g[n] /\ (n = 0 \/ h[n - 1] = g[n - 1])
        BY <3>2, <3>6, <4>1
      <4> QED
        BY <4>2, <3>6, <2>1, Zenon
    <3> QED
      BY <3>3, <3>5, <3>6
  <2>3. h = [n \in 0..(m + 1) |-> h[n]]
    OBVIOUS
  <2> HIDE DEF h
  <2>4. Upto(h, m + 1)
    BY <2>2, <2>3
  <2>5. m + 1 \in Nat
    OBVIOUS
  <2> HIDE DEF Upto
  <2> QED
    BY <2>4, <2>5
<1> DEFINE f == CHOOSE g : Upto(g, MaxAttempts)
<1>3. MaxAttempts \in S
  <2> HIDE DEF S
  <2> QED
    BY <1>0, <1>1, <1>2, EveryNumber
<1>4. Upto(f, MaxAttempts)
  BY <1>3
<1>5. SavedUpTo(held) = f
  BY DEF SavedUpTo
<1> HIDE DEF f
<1>6. f[0] = <<>> /\ \A n \in 1..MaxAttempts : f[n] = IF Readable(held[n].saved) THEN Append(f[n - 1], held[n].saved) ELSE f[n - 1]
  <2>1. \A n \in 0..MaxAttempts : f[n] = IF n = 0 THEN <<>> ELSE IF Readable(held[n].saved) THEN Append(f[n - 1], held[n].saved) ELSE f[n - 1]
    BY <1>4, Zenon
  <2>2. 0 \in 0..MaxAttempts /\ \A n \in 1..MaxAttempts : n \in 0..MaxAttempts /\ n # 0
    BY <1>0
  <2> QED
    BY <2>1, <2>2
<1> QED
  BY <1>5, <1>6 DEF SavedRunning


LEMMA TotalEmpty == Tokens(<<>>) = 0
<1>1. Len(<<>>) = 0
  OBVIOUS
<1>2. PICK g : TotalRunning(<<>>, g) /\ Tokens(<<>>) = g[Len(<<>>)]
  BY <1>1, TotalRuns
<1> QED
  BY <1>1, <1>2 DEF TotalRunning

\* One attempt more has its tokens more.
OneMoreTotal(known, a) == Tokens(Append(known, a)) = Tokens(known) + a.tokens

LEMMA TotalAppended ==
    ASSUME NEW S, NEW known, NEW a, known \in Seq(S), a \in S
    PROVE  OneMoreTotal(known, a)
<1> PICK N \in Nat : N = Len(known)
  BY LenProperties
<1>1. PICK all \in Seq(S) : all = Append(known, a)
  BY AppendProperties
<1>2. Len(all) = N + 1 /\ (\A n \in 1..N : all[n] = known[n]) /\ all[N + 1] = a
  BY <1>1, AppendProperties
<1>3. PICK g : TotalRunning(known, g) /\ Tokens(known) = g[N]
  BY TotalRuns
<1>4. PICK h : TotalRunning(all, h) /\ Tokens(all) = h[N + 1]
  <2>1. Len(all) \in Nat
    BY <1>2
  <2> QED
    BY <1>2, <2>1, TotalRuns
<1>5. g[0] = 0 /\ \A n \in 1..N : g[n] = g[n - 1] + known[n].tokens
  BY <1>3 DEF TotalRunning
<1>6. h[0] = 0 /\ \A n \in 1..(N + 1) : h[n] = h[n - 1] + all[n].tokens
  BY <1>2, <1>4 DEF TotalRunning
<1> DEFINE T == {n \in Nat : n <= N => h[n] = g[n]}
<1>7. 0 \in T
  BY <1>5, <1>6
<1>8. ASSUME NEW n \in Nat, n \in T PROVE n + 1 \in T
  <2> SUFFICES ASSUME n + 1 <= N PROVE h[n + 1] = g[n + 1]
    OBVIOUS
  <2>1. n + 1 \in 1..N /\ n + 1 \in 1..(N + 1) /\ (n + 1) - 1 = n /\ h[n] = g[n]
    BY <1>8
  <2>2. all[n + 1] = known[n + 1]
    BY <1>2, <2>1
  <2>3. h[n + 1] = h[n] + all[n + 1].tokens
    BY <1>6, <2>1
  <2>4. g[n + 1] = g[n] + known[n + 1].tokens
    BY <1>5, <2>1
  <2> QED
    BY <2>1, <2>2, <2>3, <2>4
<1>9. N \in T
  <2> HIDE DEF T
  <2> QED
    BY <1>7, <1>8, EveryNumber
<1>10. h[N + 1] = h[N] + a.tokens
  <2>1. N + 1 \in 1..(N + 1) /\ (N + 1) - 1 = N
    OBVIOUS
  <2> QED
    BY <1>2, <1>6, <2>1
<1>11. h[N] = g[N]
  BY <1>9
<1> QED
  BY <1>1, <1>3, <1>4, <1>10, <1>11 DEF OneMoreTotal

\* Judged attempts have a number of tokens.
LEMMA TotalType ==
    ASSUME NEW known \in Seq(JudgedAttempts)
    PROVE  Tokens(known) \in Nat
<1> PICK N \in Nat : N = Len(known)
  BY LenProperties
<1>1. \A n \in 1..N : known[n].tokens \in Nat
  <2>1. \A n \in 1..N : known[n] \in JudgedAttempts
    BY ElementOfSeq
  <2>2. MaxEdits \in Nat
    BY AttemptsAssumption
  <2> QED
    BY <2>1, <2>2 DEF JudgedAttempts
<1>2. PICK g : TotalRunning(known, g) /\ Tokens(known) = g[N]
  BY TotalRuns
<1>3. g[0] = 0 /\ \A n \in 1..N : g[n] = g[n - 1] + known[n].tokens
  BY <1>2 DEF TotalRunning
<1> DEFINE T == {n \in Nat : n <= N => g[n] \in Nat}
<1>4. 0 \in T
  BY <1>3
<1>5. ASSUME NEW n \in Nat, n \in T PROVE n + 1 \in T
  <2> SUFFICES ASSUME n + 1 <= N PROVE g[n + 1] \in Nat
    OBVIOUS
  <2>1. n + 1 \in 1..N /\ (n + 1) - 1 = n /\ g[n] \in Nat
    BY <1>5
  <2>2. g[n + 1] = g[n] + known[n + 1].tokens /\ known[n + 1].tokens \in Nat
    BY <1>1, <1>3, <2>1
  <2> QED
    BY <2>1, <2>2
<1>6. N \in T
  <2> HIDE DEF T
  <2> QED
    BY <1>4, <1>5, EveryNumber
<1> QED
  BY <1>2, <1>6

\* Judged attempts that can be read have their own number.
SavedGood(held) ==
    \A i \in Attempts : Readable(held[i].saved) => held[i].saved \in JudgedAttempts /\ held[i].saved.number = i

\* A list of saved attempts, up to one of them.
IsListed(held, s, n) ==
    /\ s \in Seq(JudgedAttempts) /\ Ordered(s) /\ Before(s, n + 1)
    /\ \A j \in 1..Len(s) : Readable(s[j]) /\ s[j] = held[s[j].number].saved

LEMMA ListedMore ==
    ASSUME NEW held, NEW n \in Nat, NEW s, IsListed(held, s, n), NEW a \in JudgedAttempts,
           a.number = n + 1, Readable(a), a = held[n + 1].saved
    PROVE  IsListed(held, Append(s, a), n + 1)
<1>1. s \in Seq(JudgedAttempts) /\ Ordered(s) /\ Before(s, n + 1)
  BY DEF IsListed
<1>2. \A j \in 1..Len(s) : Readable(s[j]) /\ s[j] = held[s[j].number].saved
  BY DEF IsListed
<1> PICK N \in Nat : N = Len(s)
  BY <1>1, LenProperties
<1>3. PICK t \in Seq(JudgedAttempts) : t = Append(s, a)
  BY <1>1, AppendProperties
<1>4. Len(t) = N + 1 /\ (\A j \in 1..N : t[j] = s[j]) /\ t[N + 1] = a
  BY <1>1, <1>3, AppendProperties
<1>5. \A j \in 1..N : s[j].number < n + 1 /\ s[j].number \in Nat
  <2>1. \A j \in 1..N : s[j] \in JudgedAttempts
    BY <1>1, ElementOfSeq
  <2>2. \A b \in JudgedAttempts : b.number \in Nat
    BY AttemptsAssumption DEF JudgedAttempts, Attempts
  <2> QED
    BY <1>1, <2>1, <2>2 DEF Before
<1>6. \A j \in 2..N : s[j - 1].number < s[j].number
  BY <1>1 DEF Ordered
<1>7. Ordered(t)
  <2> SUFFICES ASSUME NEW j \in 2..(N + 1) PROVE t[j - 1].number < t[j].number
    BY <1>4 DEF Ordered
  <2>1. j - 1 \in 1..N /\ t[j - 1] = s[j - 1]
    BY <1>4
  <2>2. CASE j = N + 1
    BY <1>4, <1>5, <2>1, <2>2
  <2>3. CASE j # N + 1
    <3>1. j \in 2..N /\ j \in 1..N
      BY <2>3
    <3>2. t[j] = s[j]
      BY <1>4, <3>1
    <3> QED
      BY <1>6, <2>1, <3>1, <3>2
  <2> QED
    BY <2>2, <2>3
<1>8. Before(t, (n + 1) + 1)
  <2> SUFFICES ASSUME NEW j \in 1..(N + 1) PROVE t[j].number < (n + 1) + 1
    BY <1>4 DEF Before
  <2>1. j \in 1..N \/ j = N + 1
    OBVIOUS
  <2> QED
    BY <1>4, <1>5, <2>1
<1>9. ASSUME NEW j \in 1..(N + 1) PROVE Readable(t[j]) /\ t[j] = held[t[j].number].saved
  <2>1. j \in 1..N \/ j = N + 1
    OBVIOUS
  <2> QED
    BY <1>2, <1>4, <2>1
<1> QED
  BY <1>3, <1>4, <1>7, <1>8, <1>9 DEF IsListed

\* What is saved is a list of what can be read, in its order.
SavedIsListed(held) == \A n \in 0..MaxAttempts : IsListed(held, SavedUpTo(held)[n], n)

LEMMA SavedListed ==
    ASSUME NEW held, SavedGood(held)
    PROVE  SavedIsListed(held)
<1>0. MaxAttempts \in Nat
  BY AttemptsAssumption
<1> PICK g : SavedRunning(held, g) /\ SavedUpTo(held) = g
  BY SavedRuns
<1>1. g[0] = <<>> /\ \A n \in 1..MaxAttempts : g[n] = IF Readable(held[n].saved) THEN Append(g[n - 1], held[n].saved) ELSE g[n - 1]
  BY DEF SavedRunning
<1> DEFINE T == {n \in Nat : n <= MaxAttempts => IsListed(held, g[n], n)}
<1>2. 0 \in T
  <2>1. <<>> \in Seq(JudgedAttempts) /\ Len(<<>>) = 0
    BY EmptySeq
  <2>2. IsListed(held, <<>>, 0)
    BY <2>1 DEF IsListed, Ordered, Before
  <2> QED
    BY <1>1, <2>2
<1>3. ASSUME NEW n \in Nat, n \in T PROVE n + 1 \in T
  <2> SUFFICES ASSUME n + 1 <= MaxAttempts PROVE IsListed(held, g[n + 1], n + 1)
    OBVIOUS
  <2>1. n + 1 \in 1..MaxAttempts /\ (n + 1) - 1 = n /\ IsListed(held, g[n], n)
    BY <1>0, <1>3
  <2>2. CASE Readable(held[n + 1].saved)
    <3>1. held[n + 1].saved \in JudgedAttempts /\ held[n + 1].saved.number = n + 1
      BY <2>1, <2>2 DEF SavedGood, Attempts
    <3>2. IsListed(held, Append(g[n], held[n + 1].saved), n + 1)
      BY <2>1, <2>2, <3>1, ListedMore
    <3>3. g[n + 1] = Append(g[n], held[n + 1].saved)
      BY <1>1, <2>1, <2>2
    <3> QED
      BY <3>2, <3>3
  <2>3. CASE ~Readable(held[n + 1].saved)
    <3>1. g[n + 1] = g[n]
      BY <1>1, <2>1, <2>3
    <3> PICK s : s = g[n]
      OBVIOUS
    <3>2. IsListed(held, s, n)
      BY <2>1
    <3>3. s \in Seq(JudgedAttempts) /\ Before(s, n + 1)
      BY <3>2 DEF IsListed
    <3>4. Before(s, (n + 1) + 1)
      <4> PICK N \in Nat : N = Len(s)
        BY <3>3, LenProperties
      <4>1. \A j \in 1..N : s[j].number < n + 1 /\ s[j].number \in Nat
        <5>1. \A j \in 1..N : s[j] \in JudgedAttempts
          BY <3>3, ElementOfSeq
        <5>2. \A b \in JudgedAttempts : b.number \in Nat
          BY AttemptsAssumption DEF JudgedAttempts, Attempts
        <5> QED
          BY <3>3, <5>1, <5>2 DEF Before
      <4> QED
        BY <4>1 DEF Before
    <3>5. IsListed(held, s, n + 1)
      BY <3>2, <3>4 DEF IsListed
    <3> QED
      BY <3>1, <3>5
  <2> QED
    BY <2>2, <2>3
<1> HIDE DEF T
<1>4. Nat \subseteq T
  BY <1>2, <1>3, EveryNumber
<1>5. \A n \in 0..MaxAttempts : IsListed(held, g[n], n)
  BY <1>4 DEF T
<1> QED
  BY <1>5 DEF SavedIsListed

\* Up to the first there is none; ...
LEMMA NoneSaved ==
    ASSUME NEW held
    PROVE  SavedUpTo(held)[0] = <<>>
<1> PICK g : SavedRunning(held, g) /\ SavedUpTo(held) = g
  BY SavedRuns
<1> QED
  BY DEF SavedRunning

\* ... each can have one more; ...
OneMoreSaved(held, n) ==
    SavedUpTo(held)[n] = IF Readable(held[n].saved) THEN Append(SavedUpTo(held)[n - 1], held[n].saved)
                                                    ELSE SavedUpTo(held)[n - 1]

LEMMA SavedNext ==
    ASSUME NEW held, NEW n \in 1..MaxAttempts
    PROVE  OneMoreSaved(held, n)
<1> PICK g : SavedRunning(held, g) /\ SavedUpTo(held) = g
  BY SavedRuns
<1>1. \A k \in 1..MaxAttempts : g[k] = IF Readable(held[k].saved) THEN Append(g[k - 1], held[k].saved) ELSE g[k - 1]
  BY DEF SavedRunning
<1> QED
  BY <1>1 DEF OneMoreSaved

LEMMA SavedTokensNone ==
    ASSUME NEW held
    PROVE  SavedTokens(held, 0) = 0
  BY NoneSaved, TotalEmpty DEF SavedTokens

\* ... and its tokens.
OneMorePaid(held, n) ==
    SavedTokens(held, n) = SavedTokens(held, n - 1) + (IF Readable(held[n].saved) THEN held[n].saved.tokens ELSE 0)

LEMMA SavedTokensType ==
    ASSUME NEW held, SavedGood(held), NEW n \in 0..MaxAttempts
    PROVE  SavedTokens(held, n) \in Nat
<1>1. IsListed(held, SavedUpTo(held)[n], n)
  BY SavedListed DEF SavedIsListed
<1>2. SavedUpTo(held)[n] \in Seq(JudgedAttempts)
  BY <1>1 DEF IsListed
<1> QED
  BY <1>2, TotalType DEF SavedTokens

LEMMA SavedTokensNext ==
    ASSUME NEW held, SavedGood(held), NEW n \in 1..MaxAttempts
    PROVE  OneMorePaid(held, n)
<1> PICK s : s = SavedUpTo(held)[n - 1]
  OBVIOUS
<1> PICK t : t = SavedUpTo(held)[n]
  OBVIOUS
<1>0. MaxAttempts \in Nat
  BY AttemptsAssumption
<1>1. n - 1 \in 0..MaxAttempts /\ n \in 0..MaxAttempts
  BY <1>0
<1>2. s \in Seq(JudgedAttempts)
  <2>1. IsListed(held, s, n - 1)
    BY <1>1, SavedListed DEF SavedIsListed
  <2> QED
    BY <2>1 DEF IsListed
<1>3. t = IF Readable(held[n].saved) THEN Append(s, held[n].saved) ELSE s
  BY SavedNext DEF OneMoreSaved
<1>4. SavedTokens(held, n - 1) = Tokens(s) /\ SavedTokens(held, n) = Tokens(t)
  BY DEF SavedTokens
<1>5. Tokens(s) \in Nat
  BY <1>2, TotalType
<1>6. CASE Readable(held[n].saved)
  <2>1. held[n].saved \in JudgedAttempts
    BY <1>6 DEF SavedGood, Attempts
  <2>2. OneMoreTotal(s, held[n].saved)
    BY <1>2, <2>1, TotalAppended
  <2> QED
    BY <1>3, <1>4, <1>6, <2>2 DEF OneMoreTotal, OneMorePaid
<1>7. CASE ~Readable(held[n].saved)
  BY <1>3, <1>4, <1>5, <1>7 DEF OneMorePaid
<1> QED
  BY <1>6, <1>7

\* What is saved up to an attempt depends on no later one.
SavedAlike(held, new, n) == \A i \in 1..n : new[i].saved = held[i].saved

LEMMA SavedSame ==
    ASSUME NEW held, NEW new, NEW n \in 0..MaxAttempts, SavedAlike(held, new, n)
    PROVE  SavedUpTo(new)[n] = SavedUpTo(held)[n]
<1>0. MaxAttempts \in Nat
  BY AttemptsAssumption
<1> PICK g : SavedRunning(held, g) /\ SavedUpTo(held) = g
  BY SavedRuns
<1> PICK h : SavedRunning(new, h) /\ SavedUpTo(new) = h
  BY SavedRuns
<1>1. g[0] = <<>> /\ \A k \in 1..MaxAttempts : g[k] = IF Readable(held[k].saved) THEN Append(g[k - 1], held[k].saved) ELSE g[k - 1]
  BY DEF SavedRunning
<1>2. h[0] = <<>> /\ \A k \in 1..MaxAttempts : h[k] = IF Readable(new[k].saved) THEN Append(h[k - 1], new[k].saved) ELSE h[k - 1]
  BY DEF SavedRunning
<1> DEFINE T == {k \in Nat : k <= n => h[k] = g[k]}
<1>3. 0 \in T
  BY <1>1, <1>2
<1>4. ASSUME NEW k \in Nat, k \in T PROVE k + 1 \in T
  <2> SUFFICES ASSUME k + 1 <= n PROVE h[k + 1] = g[k + 1]
    OBVIOUS
  <2>1. k + 1 \in 1..MaxAttempts /\ k + 1 \in 1..n /\ (k + 1) - 1 = k /\ h[k] = g[k]
    BY <1>0, <1>4
  <2>2. new[k + 1].saved = held[k + 1].saved
    BY <2>1 DEF SavedAlike
  <2>3. g[k + 1] = IF Readable(held[k + 1].saved) THEN Append(g[k], held[k + 1].saved) ELSE g[k]
    BY <1>1, <2>1
  <2>4. h[k + 1] = IF Readable(new[k + 1].saved) THEN Append(h[k], new[k + 1].saved) ELSE h[k]
    BY <1>2, <2>1
  <2> QED
    BY <2>1, <2>2, <2>3, <2>4, Zenon
<1>5. n \in T
  <2>1. n \in Nat
    BY <1>0
  <2> HIDE DEF T
  <2> QED
    BY <1>3, <1>4, <2>1, EveryNumber
<1> QED
  BY <1>0, <1>5

LEMMA SavedTokensSame ==
    ASSUME NEW held, NEW new, NEW n \in 0..MaxAttempts, SavedAlike(held, new, n)
    PROVE  SavedTokens(new, n) = SavedTokens(held, n)
  BY SavedSame DEF SavedTokens

\* Where nothing more can be read, the list ends.
NoneBeyond(held, n) == \A i \in Attempts : i > n => ~Readable(held[i].saved)

LEMMA SavedEnds ==
    ASSUME NEW held, NEW n \in 0..MaxAttempts, NoneBeyond(held, n)
    PROVE  SavedUpTo(held)[MaxAttempts] = SavedUpTo(held)[n]
<1>0. MaxAttempts \in Nat
  BY AttemptsAssumption
<1> PICK g : SavedRunning(held, g) /\ SavedUpTo(held) = g
  BY SavedRuns
<1>1. g[0] = <<>> /\ \A k \in 1..MaxAttempts : g[k] = IF Readable(held[k].saved) THEN Append(g[k - 1], held[k].saved) ELSE g[k - 1]
  BY DEF SavedRunning
<1> DEFINE T == {k \in Nat : n + k <= MaxAttempts => g[n + k] = g[n]}
<1>2. 0 \in T
  BY <1>0
<1>3. ASSUME NEW k \in Nat, k \in T PROVE k + 1 \in T
  <2> SUFFICES ASSUME n + (k + 1) <= MaxAttempts PROVE g[n + (k + 1)] = g[n]
    OBVIOUS
  <2> PICK m : m = n + (k + 1)
    OBVIOUS
  <2>1. m \in 1..MaxAttempts /\ m - 1 = n + k /\ m > n /\ g[n + k] = g[n]
    BY <1>0, <1>3
  <2>2. ~Readable(held[m].saved)
    BY <2>1 DEF NoneBeyond, Attempts
  <2>3. g[m] = IF Readable(held[m].saved) THEN Append(g[m - 1], held[m].saved) ELSE g[m - 1]
    BY <1>1, <2>1
  <2> QED
    BY <2>1, <2>2, <2>3
<1>4. MaxAttempts - n \in T
  <2>1. MaxAttempts - n \in Nat
    BY <1>0
  <2> HIDE DEF T
  <2> QED
    BY <1>2, <1>3, <2>1, EveryNumber
<1>5. n + (MaxAttempts - n) = MaxAttempts
  BY <1>0
<1> QED
  BY <1>0, <1>4, <1>5

\* The directories up to one of them.

LEMMA PrefixCounts ==
    ASSUME NEW held, NEW n \in 0..MaxAttempts, PrefixOf(held, n)
    PROVE  CountDirs(held) = n
<1>0. MaxAttempts \in Nat
  BY AttemptsAssumption
<1>1. {i \in Attempts : held[i].dir} = 1..n
  BY <1>0 DEF PrefixOf, Attempts
<1>2. Cardinality(1..n) = n
  <2>1. Cardinality(1..n) = IF 1 > n THEN 0 ELSE n - 1 + 1
    BY <1>0, FS_Interval
  <2> QED
    BY <1>0, <2>1
<1> QED
  BY <1>1, <1>2 DEF CountDirs


LEMMA PrefixIs ==
    ASSUME NEW held, DirsInARow(held)
    PROVE  \E n \in 0..MaxAttempts : PrefixOf(held, n) /\ CountDirs(held) = n
<1>0. MaxAttempts \in Nat
  BY AttemptsAssumption
<1> DEFINE T == {n \in Nat : n <= MaxAttempts => \A i \in 1..n : held[i].dir}
<1>1. \E n \in 0..MaxAttempts : PrefixOf(held, n)
  <2>1. CASE Nat \subseteq T
    <3>1. \A i \in 1..MaxAttempts : held[i].dir
      BY <1>0, <2>1
    <3>2. PrefixOf(held, MaxAttempts)
      BY <1>0, <3>1 DEF PrefixOf, Attempts
    <3> QED
      BY <1>0, <3>2
  <2>2. CASE ~(Nat \subseteq T)
    <3>1. 0 \in T
      OBVIOUS
    <3>2. PICK n \in Nat : n \in T /\ n + 1 \notin T
      <4> HIDE DEF T
      <4> QED
        BY <2>2, <3>1, EveryNumber
    <3>3. n + 1 <= MaxAttempts /\ (\A i \in 1..n : held[i].dir)
      BY <1>0, <3>2
    <3>4. ~held[n + 1].dir
      <4>1. PICK i \in 1..(n + 1) : ~held[i].dir
        BY <3>2
      <4>2. i \notin 1..n
        BY <3>3, <4>1
      <4>3. i = n + 1
        BY <4>2
      <4> QED
        BY <4>1, <4>3
    <3>5. ASSUME NEW i \in Attempts, i > n PROVE ~held[i].dir
      <4>1. n + 1 \in Attempts /\ (i = n + 1 \/ n + 1 < i)
        BY <1>0, <3>3, <3>5 DEF Attempts
      <4> QED
        BY <3>4, <4>1 DEF DirsInARow
    <3>6. ASSUME NEW i \in Attempts, i <= n PROVE held[i].dir
      BY <3>3, <3>6, <1>0 DEF Attempts
    <3>7. PrefixOf(held, n)
      <4> SUFFICES ASSUME NEW i \in Attempts PROVE held[i].dir <=> i <= n
        BY DEF PrefixOf
      <4>1. i \in Nat
        BY <1>0 DEF Attempts
      <4>2. i <= n \/ i > n
        BY <4>1
      <4> QED
        BY <3>5, <3>6, <4>2, <4>1
    <3> QED
      BY <1>0, <3>3, <3>7
  <2> QED
    BY <2>1, <2>2
<1> QED
  BY <1>1, PrefixCounts

\* What a resumed agent is judged gives way for what is saved, or is added.
LEMMA ReplaceParts ==
    ASSUME NEW a \in JudgedAttempts, Saved \in Seq(JudgedAttempts)
    PROVE  /\ Replace(a) \in Seq(JudgedAttempts)
           /\ \A j \in DOMAIN Replace(a) : Replace(a)[j] = a \/ \E k \in DOMAIN Saved : Replace(a)[j] = Saved[k]
<1> PICK s \in Seq(JudgedAttempts) : s = Saved
  OBVIOUS
<1> PICK N \in Nat : N = Len(s)
  BY LenProperties
<1>0. DOMAIN s = 1..N /\ \A j \in 1..N : s[j] \in JudgedAttempts
  BY LenProperties, ElementOfSeq
<1>1. CASE \E j \in DOMAIN Saved : Saved[j].number = a.number
  <2> PICK r : r = [j \in 1..N |-> IF s[j].number = a.number THEN a ELSE s[j]]
    OBVIOUS
  <2>1. Replace(a) = r
    BY <1>0, <1>1 DEF Replace
  <2>2. r \in [1..N -> JudgedAttempts] /\ DOMAIN r = 1..N /\ \A j \in 1..N : r[j] = a \/ r[j] = s[j]
    BY <1>0
  <2>3. r \in Seq(JudgedAttempts)
    BY <2>2, SeqDef
  <2> QED
    BY <1>0, <2>1, <2>2, <2>3
<1>2. CASE ~(\E j \in DOMAIN Saved : Saved[j].number = a.number)
  <2> PICK r : r = Append(s, a)
    OBVIOUS
  <2>1. Replace(a) = r
    BY <1>2, Zenon DEF Replace
  <2>2. r \in Seq(JudgedAttempts) /\ Len(r) = N + 1 /\ (\A j \in 1..N : r[j] = s[j]) /\ r[N + 1] = a
    BY AppendProperties
  <2>3. DOMAIN r = 1..(N + 1)
    BY <2>2, LenProperties
  <2>4. \A j \in 1..(N + 1) : j \in 1..N \/ j = N + 1
    OBVIOUS
  <2> QED
    BY <1>0, <2>1, <2>2, <2>3, <2>4
<1> QED
  BY <1>1, <1>2

\* After the attempts before it, when it is the last.
LEMMA ReplaceLast ==
    ASSUME SavedGood(attempt), number \in Attempts, NoneBeyond(attempt, number),
           NEW a \in JudgedAttempts, a.number = number
    PROVE  Replace(a) = Append(SavedUpTo(attempt)[number - 1], a)
<1>0. MaxAttempts \in Nat /\ number \in 0..MaxAttempts /\ number - 1 \in 0..MaxAttempts /\ number \in 1..MaxAttempts
  BY AttemptsAssumption DEF Attempts
<1> PICK n : n = number
  OBVIOUS
<1> PICK s : s = SavedUpTo(attempt)[n - 1]
  OBVIOUS
<1>1. Saved = IF Readable(attempt[n].saved) THEN Append(s, attempt[n].saved) ELSE s
  <2>1. Saved = SavedUpTo(attempt)[n]
    BY <1>0, SavedEnds DEF Saved
  <2> QED
    BY <1>0, <2>1, SavedNext DEF OneMoreSaved
<1>2. IsListed(attempt, s, n - 1)
  BY <1>0, SavedListed DEF SavedIsListed
<1>3. s \in Seq(JudgedAttempts) /\ Before(s, (n - 1) + 1)
  BY <1>2 DEF IsListed
<1> PICK N \in Nat : N = Len(s)
  BY <1>3, LenProperties
<1>4. DOMAIN s = 1..N /\ \A j \in 1..N : s[j].number # n
  <2>1. DOMAIN s = 1..N
    BY <1>3, LenProperties
  <2>2. \A j \in 1..N : s[j].number < n
    BY <1>3, <1>0 DEF Before
  <2> QED
    BY <1>0, <2>1, <2>2
<1>5. CASE Readable(attempt[n].saved)
  <2> PICK b \in JudgedAttempts : b = attempt[n].saved /\ b.number = n
    BY <1>5 DEF SavedGood
  <2> PICK r \in Seq(JudgedAttempts) : r = Append(s, b)
    BY <1>3, AppendProperties
  <2>1. Len(r) = N + 1 /\ (\A j \in 1..N : r[j] = s[j]) /\ r[N + 1] = b
    BY <1>3, AppendProperties
  <2>2. DOMAIN r = 1..(N + 1)
    BY <2>1, LenProperties
  <2>3. Saved = r
    BY <1>1, <1>5
  <2> PICK t \in Seq(JudgedAttempts) : t = Append(s, a)
    BY <1>3, AppendProperties
  <2>4. Len(t) = N + 1 /\ (\A j \in 1..N : t[j] = s[j]) /\ t[N + 1] = a
    BY <1>3, AppendProperties
  <2>5. DOMAIN t = 1..(N + 1) /\ t = [j \in 1..(N + 1) |-> t[j]]
    BY <2>4, LenProperties, SeqDef
  <2> PICK q : q = [j \in 1..(N + 1) |-> IF r[j].number = a.number THEN a ELSE r[j]]
    OBVIOUS
  <2>6. Replace(a) = q
    <3>1. N + 1 \in 1..(N + 1) /\ r[N + 1].number = a.number
      BY <2>1
    <3>2. \E j \in DOMAIN Saved : Saved[j].number = a.number
      BY <2>2, <2>3, <3>1
    <3>3. Replace(a) = [j \in DOMAIN Saved |-> IF Saved[j].number = a.number THEN a ELSE Saved[j]]
      BY <3>2, Zenon DEF Replace
    <3> QED
      BY <2>2, <2>3, <3>3
  <2>7. \A j \in 1..(N + 1) : (j \in 1..N /\ j # N + 1) \/ j = N + 1
    OBVIOUS
  <2>8. \A j \in 1..(N + 1) : q[j] = t[j]
    BY <1>4, <2>1, <2>4, <2>7
  <2>9. q = [j \in 1..(N + 1) |-> q[j]]
    OBVIOUS
  <2>10. q = t
    <3>1. [j \in 1..(N + 1) |-> q[j]] = [j \in 1..(N + 1) |-> t[j]]
      BY <2>8, ZenonT(30)
    <3> QED
      BY <2>5, <2>9, <3>1, Zenon
  <2> QED
    BY <2>6, <2>10
<1>6. CASE ~Readable(attempt[n].saved)
  <2>1. Saved = s
    BY <1>1, <1>6
  <2>2. ~(\E j \in DOMAIN Saved : Saved[j].number = a.number)
    BY <1>4, <2>1
  <2>3. Replace(a) = Append(Saved, a)
    BY <2>2, Zenon DEF Replace
  <2> QED
    BY <2>1, <2>3
<1> QED
  BY <1>5, <1>6

\* What holds of a list and of an attempt holds of a list that is made of them.
MadeOf(all, known, a) ==
    /\ all \in Seq(JudgedAttempts)
    /\ \A j \in 1..Len(all) : all[j] = a \/ \E k \in 1..Len(known) : all[j] = known[k]

LEMMA AppendMade ==
    ASSUME NEW known \in Seq(JudgedAttempts), NEW a \in JudgedAttempts
    PROVE  MadeOf(Append(known, a), known, a)
<1> PICK N \in Nat : N = Len(known)
  BY LenProperties
<1> PICK t \in Seq(JudgedAttempts) : t = Append(known, a)
  BY AppendProperties
<1>1. Len(t) = N + 1 /\ (\A j \in 1..N : t[j] = known[j]) /\ t[N + 1] = a
  BY AppendProperties
<1>2. \A j \in 1..(N + 1) : j \in 1..N \/ j = N + 1
  OBVIOUS
<1>3. \A j \in 1..Len(t) : t[j] = a \/ \E k \in 1..N : t[j] = known[k]
  BY <1>1, <1>2
<1> QED
  BY <1>3 DEF MadeOf

LEMMA ReplaceMade ==
    ASSUME NEW a \in JudgedAttempts, Saved \in Seq(JudgedAttempts)
    PROVE  MadeOf(Replace(a), Saved, a)
<1> PICK s \in Seq(JudgedAttempts) : s = Saved
  OBVIOUS
<1> PICK t : t = Replace(a)
  OBVIOUS
<1>1. t \in Seq(JudgedAttempts) /\ \A j \in DOMAIN t : t[j] = a \/ \E k \in DOMAIN s : t[j] = s[k]
  BY ReplaceParts
<1>2. DOMAIN t = 1..Len(t) /\ DOMAIN s = 1..Len(s)
  BY <1>1, LenProperties
<1> QED
  BY <1>1, <1>2 DEF MadeOf

LEMMA MadeSound ==
    ASSUME NEW held, NEW what, NEW often, NEW all, NEW known, NEW a, MadeOf(all, known, a),
           AllSound(held, what, often, known), Sound(held, what, often, a)
    PROVE  AllSound(held, what, often, all)
<1> SUFFICES ASSUME NEW j \in 1..Len(all) PROVE Sound(held, what, often, all[j])
  BY DEF AllSound
<1>1. all[j] = a \/ \E k \in 1..Len(known) : all[j] = known[k]
  BY DEF MadeOf
<1>2. \A k \in 1..Len(known) : Sound(held, what, often, known[k])
  BY DEF AllSound
<1> QED
  BY <1>1, <1>2

LEMMA MadeCurrent ==
    ASSUME NEW held, NEW trees, NEW gone, NEW all, NEW known, NEW a, MadeOf(all, known, a),
           AllCurrent(held, trees, gone, known), IsCurrent(held, trees, gone, a)
    PROVE  AllCurrent(held, trees, gone, all)
<1> SUFFICES ASSUME NEW j \in 1..Len(all) PROVE IsCurrent(held, trees, gone, all[j])
  BY DEF AllCurrent
<1>1. all[j] = a \/ \E k \in 1..Len(known) : all[j] = known[k]
  BY DEF MadeOf
<1>2. \A k \in 1..Len(known) : IsCurrent(held, trees, gone, known[k])
  BY DEF AllCurrent
<1> QED
  BY <1>1, <1>2

LEMMA AppendOrdered ==
    ASSUME NEW known \in Seq(JudgedAttempts), NEW a \in JudgedAttempts, Ordered(known), Before(known, a.number)
    PROVE  Ordered(Append(known, a)) /\ Before(Append(known, a), a.number + 1)
<1> PICK N \in Nat : N = Len(known)
  BY LenProperties
<1> PICK t \in Seq(JudgedAttempts) : t = Append(known, a)
  BY AppendProperties
<1>1. Len(t) = N + 1 /\ (\A j \in 1..N : t[j] = known[j]) /\ t[N + 1] = a
  BY AppendProperties
<1>2. \A b \in JudgedAttempts : b.number \in Nat
  BY AttemptsAssumption DEF JudgedAttempts, Attempts
<1>3. \A j \in 1..N : known[j].number < a.number /\ known[j].number \in Nat
  BY <1>2, ElementOfSeq DEF Before
<1>4. \A j \in 2..N : known[j - 1].number < known[j].number
  BY DEF Ordered
<1>5. Ordered(t)
  <2> SUFFICES ASSUME NEW j \in 2..(N + 1) PROVE t[j - 1].number < t[j].number
    BY <1>1 DEF Ordered
  <2>1. j - 1 \in 1..N /\ t[j - 1] = known[j - 1]
    BY <1>1
  <2>2. CASE j = N + 1
    BY <1>1, <1>3, <2>1, <2>2
  <2>3. CASE j # N + 1
    <3>1. j \in 2..N /\ j \in 1..N
      BY <2>3
    <3>2. t[j] = known[j]
      BY <1>1, <3>1
    <3> QED
      BY <1>4, <2>1, <3>1, <3>2
  <2> QED
    BY <2>2, <2>3
<1>6. Before(t, a.number + 1)
  <2> SUFFICES ASSUME NEW j \in 1..(N + 1) PROVE t[j].number < a.number + 1
    BY <1>1 DEF Before
  <2>1. j \in 1..N \/ j = N + 1
    OBVIOUS
  <2>2. a.number \in Nat
    BY <1>2
  <2> QED
    BY <1>1, <1>3, <2>1, <2>2
<1> QED
  BY <1>5, <1>6

LEMMA BeforeMore ==
    ASSUME NEW known \in Seq(JudgedAttempts), NEW n \in Int, NEW m \in Int, n <= m, Before(known, n)
    PROVE  Before(known, m)
<1> PICK N \in Nat : N = Len(known)
  BY LenProperties
<1>1. \A b \in JudgedAttempts : b.number \in Nat
  BY AttemptsAssumption DEF JudgedAttempts, Attempts
<1>2. \A j \in 1..N : known[j].number < n /\ known[j].number \in Nat
  BY <1>1, ElementOfSeq DEF Before
<1> QED
  BY <1>2 DEF Before

\* Nothing, and one attempt.
LEMMA NothingJudged ==
    /\ <<>> \in Seq(JudgedAttempts) /\ Ordered(<<>>) /\ (\A n : Before(<<>>, n))
    /\ \A held, what, often : AllSound(held, what, often, <<>>)
    /\ \A held, trees, gone : AllCurrent(held, trees, gone, <<>>)
<1>1. <<>> \in Seq(JudgedAttempts) /\ Len(<<>>) = 0
  BY EmptySeq
<1>2. 1..0 = {} /\ 2..0 = {}
  OBVIOUS
<1> QED
  BY <1>1, <1>2 DEF Ordered, Before, AllSound, AllCurrent

LEMMA OneJudged ==
    ASSUME NEW a \in JudgedAttempts
    PROVE  /\ <<a>> = Append(<<>>, a) /\ <<a>> \in Seq(JudgedAttempts)
           /\ MadeOf(<<a>>, <<>>, a) /\ Ordered(<<a>>) /\ Tokens(<<a>>) = a.tokens
<1>1. <<a>> = Append(<<>>, a)
  OBVIOUS
<1>2. <<>> \in Seq(JudgedAttempts)
  BY NothingJudged
<1>3. OneMoreTotal(<<>>, a)
  BY <1>2, TotalAppended
<1>4. a.tokens \in Nat
  BY AttemptsAssumption DEF JudgedAttempts
<1>5. Tokens(<<a>>) = a.tokens
  BY <1>1, <1>3, <1>4, TotalEmpty DEF OneMoreTotal
<1>6. MadeOf(<<a>>, <<>>, a)
  BY <1>1, <1>2, AppendMade
<1>7. <<a>> \in Seq(JudgedAttempts)
  BY <1>1, <1>2, AppendProperties
<1>8. Ordered(<<a>>)
  BY <1>1, <1>2, NothingJudged, AppendOrdered
<1> QED
  BY <1>1, <1>5, <1>6, <1>7, <1>8

\* Directories come, agents are resumed: what was sound stays so.
DirsGrow(held, new) == \A i \in Attempts : held[i].dir => new[i].dir

LEMMA SoundMore ==
    ASSUME NEW held, NEW new, NEW what, NEW often \in Nat, NEW more \in Nat, often <= more, DirsGrow(held, new),
           NEW a \in JudgedAttempts, Sound(held, what, often, a)
    PROVE  Sound(new, what, more, a)
<1>1. a.number \in Attempts
  BY DEF JudgedAttempts
<1> QED
  BY <1>1 DEF Sound, DirsGrow

LEMMA AllSoundMore ==
    ASSUME NEW held, NEW new, NEW what, NEW often \in Nat, NEW more \in Nat, often <= more, DirsGrow(held, new),
           NEW known \in Seq(JudgedAttempts), AllSound(held, what, often, known)
    PROVE  AllSound(new, what, more, known)
<1>1. \A j \in 1..Len(known) : known[j] \in JudgedAttempts /\ Sound(held, what, often, known[j])
  BY ElementOfSeq DEF AllSound
<1>2. \A j \in 1..Len(known) : Sound(new, what, more, known[j])
  BY <1>1, SoundMore
<1> QED
  BY <1>2 DEF AllSound

\* What is current stays so when its workspace is left alone, ...
CurrentKept(held, new, gone, more) ==
    gone \subseteq more /\ CountDirs(held) \in Nat /\ CountDirs(new) \in Nat /\ CountDirs(held) <= CountDirs(new)

LEMMA CurrentMore ==
    ASSUME NEW held, NEW new, NEW trees, NEW gone, NEW more, CurrentKept(held, new, gone, more),
           NEW a \in JudgedAttempts, IsCurrent(held, trees, gone, a)
    PROVE  IsCurrent(new, trees, more, a)
<1>1. a.number \in Nat
  BY AttemptsAssumption DEF JudgedAttempts, Attempts
<1> QED
  BY <1>1 DEF IsCurrent, CurrentKept

LEMMA AllCurrentMore ==
    ASSUME NEW held, NEW new, NEW trees, NEW gone, NEW more, CurrentKept(held, new, gone, more),
           NEW known \in Seq(JudgedAttempts), AllCurrent(held, trees, gone, known)
    PROVE  AllCurrent(new, trees, more, known)
<1>1. \A j \in 1..Len(known) : known[j] \in JudgedAttempts /\ IsCurrent(held, trees, gone, known[j])
  BY ElementOfSeq DEF AllCurrent
<1>2. \A j \in 1..Len(known) : IsCurrent(new, trees, more, known[j])
  BY <1>1, CurrentMore
<1> QED
  BY <1>2 DEF AllCurrent

\* ... or another attempt works in its own or in the sandbox.
WorksAt(trees, other, n) == \A w \in Attempts : w # n => other[w] = trees[w]

LEMMA CurrentElsewhere ==
    ASSUME NEW held, NEW new, NEW trees, NEW other, NEW gone, NEW n \in Attempts, WorksAt(trees, other, n),
           CountDirs(held) \in Nat, CountDirs(held) <= n, CountDirs(new) = n, NEW what, NEW often,
           NEW a \in JudgedAttempts, a.number < n, Sound(held, what, often, a), IsCurrent(held, trees, gone, a)
    PROVE  IsCurrent(new, other, gone, a)
<1>1. a.number \in Nat /\ n \in Nat /\ a.number \in Attempts /\ a.number # n
  BY AttemptsAssumption DEF JudgedAttempts, Attempts
<1>2. a.place = Sandbox \/ (a.place = a.number /\ other[a.place] = trees[a.place])
  BY <1>1 DEF Sound, WorksAt
<1> QED
  BY <1>1, <1>2 DEF IsCurrent

LEMMA AllCurrentElsewhere ==
    ASSUME NEW held, NEW new, NEW trees, NEW other, NEW gone, NEW n \in Attempts, WorksAt(trees, other, n),
           CountDirs(held) \in Nat, CountDirs(held) <= n, CountDirs(new) = n, NEW what, NEW often,
           NEW known \in Seq(JudgedAttempts), Before(known, n), AllSound(held, what, often, known),
           AllCurrent(held, trees, gone, known)
    PROVE  AllCurrent(new, other, gone, known)
<1>1. \A j \in 1..Len(known) : /\ known[j] \in JudgedAttempts /\ known[j].number < n
                               /\ Sound(held, what, often, known[j]) /\ IsCurrent(held, trees, gone, known[j])
  BY ElementOfSeq DEF AllCurrent, AllSound, Before
<1>2. \A j \in 1..Len(known) : IsCurrent(new, other, gone, known[j])
  BY <1>1, CurrentElsewhere
<1> QED
  BY <1>2 DEF AllCurrent

\* What is read from the directories is what is there.
LEMMA SavedRead ==
    ASSUME NEW held, SavedGood(held), NEW n \in 0..MaxAttempts, NEW j \in 1..Len(SavedUpTo(held)[n])
    PROVE  \E i \in Attempts : i <= n /\ Readable(held[i].saved) /\ SavedUpTo(held)[n][j] = held[i].saved
<1> PICK s : s = SavedUpTo(held)[n]
  OBVIOUS
<1>1. IsListed(held, s, n)
  BY SavedListed DEF SavedIsListed
<1>2. s[j] \in JudgedAttempts /\ s[j].number < n + 1 /\ Readable(s[j]) /\ s[j] = held[s[j].number].saved
  BY <1>1, ElementOfSeq DEF IsListed, Before
<1>3. s[j].number \in Attempts /\ s[j].number <= n
  BY <1>2, AttemptsAssumption DEF JudgedAttempts, Attempts
<1> QED
  BY <1>2, <1>3

LEMMA SavedSound ==
    ASSUME NEW held, SavedGood(held), NEW n \in 0..MaxAttempts, NEW what, NEW often,
           \A i \in Attempts : Readable(held[i].saved) => Sound(held, what, often, held[i].saved)
    PROVE  AllSound(held, what, often, SavedUpTo(held)[n])
<1>1. \A j \in 1..Len(SavedUpTo(held)[n]) : Sound(held, what, often, SavedUpTo(held)[n][j])
  BY SavedRead
<1> QED
  BY <1>1 DEF AllSound

LEMMA SavedCurrent ==
    ASSUME NEW held, SavedGood(held), NEW n \in 0..MaxAttempts, NEW trees, NEW gone,
           \A i \in Attempts : i <= n /\ Readable(held[i].saved) => IsCurrent(held, trees, gone, held[i].saved)
    PROVE  AllCurrent(held, trees, gone, SavedUpTo(held)[n])
<1>1. \A j \in 1..Len(SavedUpTo(held)[n]) : IsCurrent(held, trees, gone, SavedUpTo(held)[n][j])
  BY SavedRead
<1> QED
  BY <1>1 DEF AllCurrent

\* What the invariant needs of the directories, when their files change but not what is judged.
Alike(held, new) ==
    \A i \in Attempts : /\ new[i].dir = held[i].dir /\ new[i].allowed = held[i].allowed
                        /\ new[i].place = held[i].place /\ new[i].spent = held[i].spent
                        /\ new[i].saved = held[i].saved

DirsAlike(held, new) == \A i \in Attempts : new[i].dir = held[i].dir

LEMMA AlikeDirs ==
    ASSUME NEW held, NEW new, DirsAlike(held, new)
    PROVE  /\ CountDirs(new) = CountDirs(held) /\ DirsGrow(held, new)
           /\ (DirsInARow(held) => DirsInARow(new))
           /\ (\A n : PrefixOf(held, n) => PrefixOf(new, n))
           /\ (\A n : AllBefore(held, n) => AllBefore(new, n))
<1>1. {i \in Attempts : new[i].dir} = {i \in Attempts : held[i].dir}
  BY DEF DirsAlike
<1>2. CountDirs(new) = CountDirs(held)
  BY <1>1 DEF CountDirs
<1>3. DirsGrow(held, new)
  BY DEF DirsGrow, DirsAlike
<1>4. DirsInARow(held) => DirsInARow(new)
  BY DEF DirsInARow, DirsAlike
<1>5. \A n : PrefixOf(held, n) => PrefixOf(new, n)
  BY DEF PrefixOf, DirsAlike
<1>6. \A n : AllBefore(held, n) => AllBefore(new, n)
  BY DEF AllBefore, DirsAlike
<1> QED
  BY <1>2, <1>3, <1>4, <1>5, <1>6

LEMMA AlikeSaved ==
    ASSUME NEW held, NEW new, Alike(held, new), NEW n \in 0..MaxAttempts
    PROVE  SavedTokens(new, n) = SavedTokens(held, n)
<1>1. \A i \in 1..n : i \in Attempts
  BY AttemptsAssumption DEF Attempts
<1>2. SavedAlike(held, new, n)
  BY <1>1 DEF Alike, SavedAlike
<1> QED
  BY <1>2, SavedTokensSame

LEMMA AlikeHeld ==
    ASSUME NEW held, NEW new, Alike(held, new), NEW often \in Nat, HeldInBudget(held, often)
    PROVE  HeldInBudget(new, often)
<1>1. \A i \in Attempts : i - 1 \in 0..MaxAttempts
  BY AttemptsAssumption DEF Attempts
<1>2. \A i \in Attempts : SavedTokens(new, i - 1) = SavedTokens(held, i - 1)
  BY <1>1, AlikeSaved
<1> QED
  BY <1>2 DEF HeldInBudget, Alike

\* What is saved is sound, and current, when no more is saved.
LEMMA HeldSoundMore ==
    ASSUME NEW held, NEW new, NEW what, NEW often \in Nat, NEW more \in Nat, often <= more, DirsGrow(held, new),
           held \in [Attempts -> AttemptRecords],
           \A i \in Attempts : Readable(new[i].saved) => new[i].saved = held[i].saved,
           HeldSound(held, what, often)
    PROVE  HeldSound(new, what, more)
<1> SUFFICES ASSUME NEW i \in Attempts, Readable(new[i].saved)
             PROVE  new[i].saved.number = i /\ Sound(new, what, more, new[i].saved)
  BY DEF HeldSound
<1> PICK a : a = new[i].saved
  OBVIOUS
<1>1. a = held[i].saved /\ Readable(held[i].saved)
  OBVIOUS
<1>2. a \in JudgedAttempts
  <2>1. held[i] \in AttemptRecords
    OBVIOUS
  <2>2. held[i].saved \in {NoFile, Torn} \cup JudgedAttempts
    BY <2>1 DEF AttemptRecords
  <2> QED
    BY <1>1, <2>2 DEF Readable
<1>3. a.number = i /\ Sound(held, what, often, a)
  BY <1>1 DEF HeldSound
<1>4. Sound(new, what, more, a)
  BY <1>2, <1>3, SoundMore
<1> QED
  BY <1>3, <1>4

LEMMA SavedIsJudged ==
    ASSUME NEW held \in [Attempts -> AttemptRecords], NEW i \in Attempts, Readable(held[i].saved)
    PROVE  held[i].saved \in JudgedAttempts
<1>1. held[i] \in AttemptRecords
  OBVIOUS
<1>2. held[i].saved \in {NoFile, Torn} \cup JudgedAttempts
  BY <1>1 DEF AttemptRecords
<1> QED
  BY <1>2 DEF Readable

LEMMA HeldIsGood ==
    ASSUME NEW held \in [Attempts -> AttemptRecords], NEW what, NEW often, HeldSound(held, what, often)
    PROVE  SavedGood(held)
  BY SavedIsJudged DEF SavedGood, HeldSound

LEMMA HeldCurrentMore ==
    ASSUME NEW held \in [Attempts -> AttemptRecords], NEW new, NEW trees, NEW gone, NEW more,
           CurrentKept(held, new, gone, more),
           \A i \in Attempts : Readable(new[i].saved) => new[i].saved = held[i].saved,
           NEW again, NEW then, then = again \/ again \in more, NEW what, NEW often, HeldSound(held, what, often),
           HeldCurrent(held, trees, gone, again)
    PROVE  HeldCurrent(new, trees, more, then)
<1> SUFFICES ASSUME NEW i \in Attempts, Readable(new[i].saved)
             PROVE  IsCurrent(new, trees, more, new[i].saved) \/ then = i
  BY DEF HeldCurrent
<1> PICK a : a = new[i].saved
  OBVIOUS
<1>1. a = held[i].saved /\ Readable(held[i].saved)
  OBVIOUS
<1>2. a \in JudgedAttempts /\ a.number = i
  BY <1>1, SavedIsJudged DEF HeldSound
<1>3. IsCurrent(held, trees, gone, a) \/ again = i
  BY <1>1 DEF HeldCurrent
<1>4. CASE IsCurrent(held, trees, gone, a)
  BY <1>2, <1>4, CurrentMore
<1>5. CASE again = i /\ then # again
  BY <1>2, <1>5 DEF IsCurrent
<1>6. CASE again = i /\ then = again
  BY <1>6
<1> QED
  BY <1>3, <1>4, <1>5, <1>6

\* The facts of every state.
LEMMA AttemptFacts ==
    ASSUME AttemptsInv
    PROVE  /\ MaxAttempts \in Nat \ {0} /\ Budget \in Nat /\ MaxEdits \in Nat
           /\ Directories = CountDirs(attempt) /\ Directories \in 0..MaxAttempts /\ PrefixOf(attempt, Directories)
           /\ SavedGood(attempt) /\ Saved \in Seq(JudgedAttempts) /\ Tokens(attempts) \in Nat
           /\ Saved = SavedUpTo(attempt)[MaxAttempts]
<1>1. MaxAttempts \in Nat \ {0} /\ Budget \in Nat /\ MaxEdits \in Nat
  BY AttemptsAssumption
<1>2. Directories = CountDirs(attempt)
  BY DEF Directories, CountDirs
<1>3. \E n \in 0..MaxAttempts : PrefixOf(attempt, n) /\ CountDirs(attempt) = n
  BY PrefixIs DEF AttemptsInv
<1>4. SavedGood(attempt)
  BY HeldIsGood DEF AttemptsInv, AttemptTypes, AttemptsSound
<1>5. Saved \in Seq(JudgedAttempts)
  <2>1. MaxAttempts \in 0..MaxAttempts
    BY <1>1
  <2>2. IsListed(attempt, SavedUpTo(attempt)[MaxAttempts], MaxAttempts)
    BY <1>4, <2>1, SavedListed DEF SavedIsListed
  <2> QED
    BY <2>2 DEF IsListed, Saved
<1>6. Tokens(attempts) \in Nat
  BY TotalType DEF AttemptsInv, AttemptTypes
<1> QED
  BY <1>1, <1>2, <1>3, <1>4, <1>5, <1>6 DEF Saved

LEMMA GrowCounts ==
    ASSUME NEW held, NEW new, DirsGrow(held, new)
    PROVE  CountDirs(held) \in Nat /\ CountDirs(new) \in Nat /\ CountDirs(held) <= CountDirs(new)
<1> PICK S : S = {i \in Attempts : held[i].dir}
  OBVIOUS
<1> PICK T : T = {i \in Attempts : new[i].dir}
  OBVIOUS
<1>1. IsFiniteSet(Attempts)
  <2>1. 1 \in Int /\ MaxAttempts \in Int
    BY AttemptsAssumption
  <2> QED
    BY <2>1, FS_Interval DEF Attempts
<1>2. S \subseteq T /\ T \subseteq Attempts
  BY DEF DirsGrow
<1>3. IsFiniteSet(T)
  BY <1>1, <1>2, FS_Subset
<1>4. IsFiniteSet(S) /\ Cardinality(S) <= Cardinality(T)
  BY <1>2, <1>3, FS_Subset
<1>5. Cardinality(S) \in Nat /\ Cardinality(T) \in Nat
  BY <1>3, <1>4, FS_CardinalityType
<1> QED
  BY <1>4, <1>5 DEF CountDirs

\* What may be billed beyond the budget grows with each agent that is resumed.
LEMMA TimesMore == ASSUME NEW a \in Nat, NEW b \in Nat PROVE a * (b + 1) \in Nat /\ a <= a * (b + 1) /\ a * ((b + 1) + 1) = a * (b + 1) + a
<1>1. a * (b + 1) = a * b + a /\ a * ((b + 1) + 1) = a * b + a + a
  OBVIOUS
<1>2. a * b \in Nat
  OBVIOUS
<1> QED
  BY <1>1, <1>2

LEMMA GraceMore ==
    ASSUME resumes \in Nat
    PROVE  /\ Grace \in Nat /\ MaxBill \in Nat /\ MaxBill <= Grace
           /\ resumes' = resumes => Grace' = Grace
           /\ resumes' = resumes + 1 => Grace' = Grace + MaxBill
           /\ resumes' \in {resumes, resumes + 1} => Grace' \in Nat /\ Grace <= Grace'
<1>1. MaxBill \in Nat
  BY AttemptsAssumption
<1>2. MaxBill * (resumes + 1) \in Nat /\ MaxBill <= MaxBill * (resumes + 1)
      /\ MaxBill * ((resumes + 1) + 1) = MaxBill * (resumes + 1) + MaxBill
  BY <1>1, TimesMore
<1>3. Grace \in Nat /\ MaxBill <= Grace
  BY <1>2 DEF Grace
<1>4. resumes' = resumes => Grace' = Grace
  BY DEF Grace
<1>5. resumes' = resumes + 1 => Grace' = Grace + MaxBill
  BY <1>2 DEF Grace
<1>6. resumes' \in {resumes, resumes + 1} => Grace' \in Nat /\ Grace <= Grace'
  <2>1. CASE resumes' = resumes
    BY <1>3, <1>4, <2>1
  <2>2. CASE resumes' = resumes + 1
    BY <1>1, <1>3, <1>5, <2>2
  <2> QED
    BY <2>1, <2>2
<1> QED
  BY <1>1, <1>3, <1>4, <1>5, <1>6

\* A report that may be written in a step, and what a step may leave of one.
MayReport(known) ==
    /\ known \in Seq(JudgedAttempts) /\ AllSound(attempt', kind', resumes', known)
    /\ ~reran' => /\ Ordered(known) /\ AllCurrent(attempt', tree', unsaved', known)
                  /\ Tokens(known) <= Budget + Grace'

ReportStays == report' \in {report, Torn} /\ dirty' \in {dirty, TRUE}
ReportComes == (\E known, error : error \in BOOLEAN /\ MayReport(known) /\ report' = Report(known, error))
               /\ dirty' \in {dirty, FALSE}

\* What becomes of the report when no workspace changes.
ReportKept ==
    /\ ReportTyped(report')
    /\ Readable(report') => AllSound(attempt', kind', resumes', report'.attempts)
    /\ ~reran' => ReportFirst'

LEMMA ReportHolds ==
    ASSUME AttemptsInv, UNCHANGED <<kind, reran, tree>>, DirsGrow(attempt, attempt'), unsaved \subseteq unsaved',
           resumes' \in {resumes, resumes + 1}, ReportStays \/ ReportComes
    PROVE  ReportKept
<1>0. resumes \in Nat /\ ReportTyped(report) /\ Budget \in Nat /\ dirty \in BOOLEAN
  BY AttemptFacts DEF AttemptsInv, AttemptTypes
<1>1. CASE report' = report /\ dirty' \in {dirty, TRUE}
  <2>1. ASSUME Readable(report)
        PROVE  AllSound(attempt', kind', resumes', report.attempts)
    <3>1. report.attempts \in Seq(JudgedAttempts) /\ AllSound(attempt, kind, resumes, report.attempts)
      BY <1>0, <2>1 DEF ReportTyped, AttemptsInv, AttemptsSound
    <3>2. resumes' \in Nat /\ resumes <= resumes'
      BY <1>0
    <3> QED
      BY <1>0, <3>1, <3>2, AllSoundMore
  <2>2. ASSUME Readable(report), ~reran
        PROVE  Ordered(report.attempts) /\ Tokens(report.attempts) <= Budget + Grace'
    <3>1. Ordered(report.attempts) /\ Tokens(report.attempts) <= Budget + Grace
      BY <2>2 DEF AttemptsInv, FirstRun, ReportFirst
    <3>2. Tokens(report.attempts) \in Nat
      BY <1>0, <2>2, TotalType DEF ReportTyped
    <3>3. Grace \in Nat /\ Grace' \in Nat /\ Grace <= Grace'
      BY <1>0, GraceMore
    <3> QED
      BY <1>0, <3>1, <3>2, <3>3
  <2>3. ASSUME Readable(report), ~reran, ~dirty
        PROVE  AllCurrent(attempt', tree', unsaved', report.attempts)
    <3>1. report.attempts \in Seq(JudgedAttempts) /\ AllCurrent(attempt, tree, unsaved, report.attempts)
      BY <1>0, <2>3 DEF ReportTyped, AttemptsInv, FirstRun, ReportFirst
    <3>2. CurrentKept(attempt, attempt', unsaved, unsaved')
      BY GrowCounts DEF CurrentKept
    <3> QED
      BY <3>1, <3>2, AllCurrentMore
  <2> QED
    <3>1. ReportTyped(report')
      BY <1>0, <1>1
    <3>2. Readable(report') => AllSound(attempt', kind', resumes', report'.attempts)
      BY <1>1, <2>1
    <3>3. ASSUME ~reran' PROVE ReportFirst'
      <4>1. ~reran /\ (~dirty' => ~dirty)
        BY <1>0, <1>1, <3>3
      <4>2. Readable(report) => Ordered(report.attempts) /\ Tokens(report.attempts) <= Budget + Grace'
        BY <2>2, <4>1
      <4>3. Readable(report) /\ ~dirty' => AllCurrent(attempt', tree', unsaved', report.attempts)
        BY <2>3, <4>1
      <4> QED
        BY <1>1, <4>2, <4>3 DEF ReportFirst
    <3> QED
      BY <3>1, <3>2, <3>3 DEF ReportKept
<1>2. CASE report' = Torn
  <2>1. ~Readable(report')
    BY <1>2 DEF Readable
  <2> QED
    BY <2>1 DEF ReportKept, ReportTyped, ReportFirst
<1>3. CASE ReportComes
  <2>1. PICK known, error : error \in BOOLEAN /\ MayReport(known) /\ report' = Report(known, error)
    BY <1>3 DEF ReportComes
  <2>2. report'.attempts = known /\ report'.error \in BOOLEAN
    BY <2>1 DEF Report
  <2> QED
    BY <2>1, <2>2 DEF MayReport, ReportKept, ReportTyped, ReportFirst
<1> QED
  BY <1>1, <1>2, <1>3 DEF ReportStays

\* A process that ends in any way leaves what is on disk.
EndsWell ==
    /\ Ends /\ manifest' \in {NoFile, Torn, "written"} /\ tree' = tree
    /\ ReportStays \/ ReportComes
    /\ attempt' \in [Attempts -> AttemptRecords] /\ DirsGrow(attempt, attempt') /\ DirsInARow(attempt')
    /\ HeldPlaces(attempt') /\ HeldSound(attempt', kind, resumes)
    /\ ~reran => HeldCurrent(attempt', tree, unsaved', 0) /\ HeldInBudget(attempt', Grace)

LEMMA EndsKeep ==
    ASSUME AttemptsInv, EndsWell
    PROVE  AttemptsInv'
<1>0. /\ AttemptTypes /\ attempts' = <<>> /\ pc' = "off" /\ resumed' = 0 /\ number' = 1
      /\ UNCHANGED <<kind, limit, reran, tree, edits, resumes>> /\ unsaved' = IF resumed = 0 THEN unsaved ELSE unsaved \cup {resumed}
      /\ asked' = FALSE /\ watchdog' = "watching"
  BY DEF AttemptsInv, EndsWell, Ends
<1>1. /\ MaxAttempts \in Nat \ {0} /\ Budget \in Nat /\ resumes \in Nat
      /\ Grace \in Nat /\ Grace' = Grace
  BY <1>0, AttemptFacts, GraceMore DEF AttemptTypes
<1>2. unsaved \subseteq unsaved' /\ unsaved' \subseteq Attempts
  BY <1>0, <1>1 DEF AttemptTypes, Attempts
<1>3. ReportKept
  BY <1>0, <1>2, ReportHolds DEF EndsWell
<1>4. AttemptTypes'
  <2>1. ReportTyped(report')
    BY <1>3 DEF ReportKept
  <2>2. dirty' \in BOOLEAN
    BY <1>0 DEF EndsWell, ReportStays, ReportComes, AttemptTypes
  <2>3. attempts' \in Seq(JudgedAttempts)
    BY <1>0, NothingJudged
  <2>4. manifest' \in {NoFile, Torn, "written"} /\ attempt' \in [Attempts -> AttemptRecords]
    BY DEF EndsWell
  <2>5. number' \in 1..(MaxAttempts + 1) /\ resumed' \in 0..MaxAttempts
    BY <1>0, <1>1
  <2>6. asked' \in BOOLEAN /\ reran' \in BOOLEAN /\ watchdog' \in {"watching", "saving", "reporting"} /\ pc' \in {"off", "preparing", "next", "agent", "waiting", "judging", "saving", "reporting", "final"}
    BY <1>0 DEF AttemptTypes
  <2> QED
    BY <1>0, <1>2, <2>1, <2>2, <2>3, <2>4, <2>5, <2>6 DEF AttemptTypes
<1>5. AttemptGoing'
  BY <1>0 DEF AttemptGoing, InAttempt
<1>6. AttemptsSound'
  <2>1. HeldSound(attempt', kind', resumes')
    BY <1>0 DEF EndsWell
  <2>2. AllSound(attempt', kind', resumes', attempts')
    BY <1>0, NothingJudged
  <2> QED
    BY <2>1, <2>2, <1>3 DEF AttemptsSound, ReportKept
<1>7. ASSUME ~reran' PROVE FirstRun'
  <2>0. ~reran
    BY <1>0, <1>7
  <2>1. InARowOfAttempts'
    BY <1>0 DEF InARowOfAttempts, InAttempt
  <2>2. AttemptsOrdered'
    <3>1. Ordered(attempts')
      BY <1>0, NothingJudged
    <3> QED
      BY <1>0, <3>1 DEF AttemptsOrdered
  <2>3. AttemptsCurrent'
    <3>1. AllCurrent(attempt', tree', unsaved', attempts')
      BY <1>0, NothingJudged
    <3>2. HeldCurrent(attempt', tree', unsaved', resumed')
      BY <1>0, <2>0 DEF EndsWell
    <3> QED
      BY <1>0, <3>1, <3>2 DEF AttemptsCurrent
  <2>4. AttemptsInBudget'
    <3>1. Tokens(attempts') <= Budget + Grace'
      BY <1>0, <1>1, TotalEmpty
    <3> QED
      BY <1>0, <3>1 DEF AttemptsInBudget, IsResumed, IsFresh
  <2>5. HeldInBudget(attempt', Grace')
    BY <1>0, <1>1, <2>0 DEF EndsWell
  <2>6. ReportFirst'
    BY <1>3, <1>7 DEF ReportKept
  <2> QED
    BY <2>1, <2>2, <2>3, <2>4, <2>5, <2>6 DEF FirstRun
<1>8. HeldPlaces(attempt') /\ DirsInARow(attempt') /\ pc' # "next"
  BY <1>0 DEF EndsWell
<1> QED
  BY <1>4, <1>5, <1>6, <1>7, <1>8 DEF AttemptsInv

\* When nothing that is judged has changed, ...
EndsQuietly ==
    /\ Ends /\ manifest' \in {NoFile, Torn, "written"} /\ tree' = tree
    /\ ReportStays \/ (dirty' \in {dirty, FALSE} /\ \E error \in BOOLEAN : report' = Report(attempts, error))
    /\ attempt' \in [Attempts -> AttemptRecords] /\ Alike(attempt, attempt')
    /\ \A i \in Attempts : attempt[i].dir \/ attempt'[i] = attempt[i]

LEMMA KeptMayBeReported ==
    ASSUME AttemptsInv, UNCHANGED <<kind, reran, tree>>, DirsGrow(attempt, attempt'), unsaved \subseteq unsaved',
           resumes' = resumes
    PROVE  MayReport(attempts)
<1>1. resumes \in Nat /\ attempts \in Seq(JudgedAttempts)
  BY DEF AttemptsInv, AttemptTypes
<1>2. AllSound(attempt', kind', resumes', attempts)
  BY <1>1, AllSoundMore DEF AttemptsInv, AttemptsSound
<1>3. ASSUME ~reran' PROVE Ordered(attempts) /\ Tokens(attempts) <= Budget + Grace'
  BY <1>1, <1>3, GraceMore DEF AttemptsInv, FirstRun, AttemptsOrdered, AttemptsInBudget
<1>4. ASSUME ~reran' PROVE AllCurrent(attempt', tree', unsaved', attempts)
  <2>1. AllCurrent(attempt, tree, unsaved, attempts)
    BY <1>4 DEF AttemptsInv, FirstRun, AttemptsCurrent
  <2>2. CurrentKept(attempt, attempt', unsaved, unsaved')
    BY GrowCounts DEF CurrentKept
  <2>3. AllCurrent(attempt', tree, unsaved', attempts)
    BY <1>1, <2>1, <2>2, AllCurrentMore
  <2> QED
    BY <2>3
<1> QED
  BY <1>1, <1>2, <1>3, <1>4 DEF MayReport

LEMMA EndsQuietlyKeeps ==
    ASSUME AttemptsInv, EndsQuietly
    PROVE  AttemptsInv'
<1>0. /\ attempt' \in [Attempts -> AttemptRecords] /\ Alike(attempt, attempt')
      /\ UNCHANGED <<kind, reran, tree, resumes>> /\ unsaved' = IF resumed = 0 THEN unsaved ELSE unsaved \cup {resumed}
  BY DEF EndsQuietly, Ends
<1>1. /\ resumes \in Nat /\ HeldSound(attempt, kind, resumes) /\ attempt \in [Attempts -> AttemptRecords]
      /\ DirsInARow(attempt) /\ HeldPlaces(attempt)
  BY DEF AttemptsInv, AttemptTypes, AttemptsSound
<1>2. DirsAlike(attempt, attempt')
  BY <1>0 DEF Alike, DirsAlike
<1>3. DirsGrow(attempt, attempt') /\ DirsInARow(attempt')
  BY <1>1, <1>2, AlikeDirs
<1>4. ReportStays \/ ReportComes
  BY <1>0, <1>3, KeptMayBeReported DEF EndsQuietly, ReportComes
<1>5. \A i \in Attempts : Readable(attempt'[i].saved) => attempt'[i].saved = attempt[i].saved
  BY <1>0 DEF Alike
<1>6. HeldSound(attempt', kind, resumes)
  BY <1>1, <1>3, <1>5, HeldSoundMore
<1>7. HeldPlaces(attempt')
  BY <1>0, <1>1 DEF HeldPlaces, Alike, EndsQuietly
<1>8. ASSUME ~reran PROVE HeldCurrent(attempt', tree, unsaved', 0)
  <2>1. HeldCurrent(attempt, tree, unsaved, resumed)
    BY <1>8 DEF AttemptsInv, FirstRun, AttemptsCurrent
  <2>2. CurrentKept(attempt, attempt', unsaved, unsaved')
    BY <1>0, <1>3, GrowCounts DEF CurrentKept
  <2>3. 0 = resumed \/ resumed \in unsaved'
    BY <1>0
  <2> QED
    BY <1>1, <1>5, <2>1, <2>2, <2>3, HeldCurrentMore
<1>9. ASSUME ~reran PROVE HeldInBudget(attempt', Grace)
  <2>1. HeldInBudget(attempt, Grace) /\ Grace \in Nat
    BY <1>1, <1>9, GraceMore DEF AttemptsInv, FirstRun
  <2> QED
    BY <1>0, <1>1, <2>1, AlikeHeld
<1>10. EndsWell
  BY <1>0, <1>3, <1>4, <1>6, <1>7, <1>8, <1>9 DEF EndsWell, EndsQuietly
<1> QED
  BY <1>10, EndsKeep

\* A file of the agent of an attempt that has a directory changes.
AgentFileChanges ==
    /\ number \in Attempts /\ attempt[number].dir
    /\ \/ \E value \in {NoFile, Torn, "written"} : attempt' = [attempt EXCEPT ![number].checkpoint = value]
       \/ \E value \in {NoFile, Torn, "success", "failed"} : attempt' = [attempt EXCEPT ![number].summary = value]

LEMMA AgentFile ==
    ASSUME AttemptsInv, AgentFileChanges
    PROVE  /\ attempt' \in [Attempts -> AttemptRecords] /\ Alike(attempt, attempt')
           /\ \A i \in Attempts : attempt[i].dir \/ attempt'[i] = attempt[i]
<1>1. attempt \in [Attempts -> AttemptRecords] /\ number \in Attempts /\ attempt[number].dir
  BY DEF AttemptsInv, AttemptTypes, AgentFileChanges
<1>2. CASE \E value \in {NoFile, Torn, "written"} : attempt' = [attempt EXCEPT ![number].checkpoint = value]
  <2>1. PICK value \in {NoFile, Torn, "written"} : attempt' = [attempt EXCEPT ![number].checkpoint = value]
    BY <1>2
  <2>2. attempt' \in [Attempts -> AttemptRecords]
    BY <1>1, <2>1 DEF AttemptRecords
  <2>3. \A i \in Attempts : i # number => attempt'[i] = attempt[i]
    BY <1>1, <2>1
  <2>4. /\ attempt'[number].dir = attempt[number].dir /\ attempt'[number].allowed = attempt[number].allowed
        /\ attempt'[number].place = attempt[number].place /\ attempt'[number].spent = attempt[number].spent
        /\ attempt'[number].saved = attempt[number].saved
    BY <1>1, <2>1 DEF AttemptRecords
  <2> QED
    BY <1>1, <2>2, <2>3, <2>4 DEF Alike
<1>3. CASE \E value \in {NoFile, Torn, "success", "failed"} : attempt' = [attempt EXCEPT ![number].summary = value]
  <2>1. PICK value \in {NoFile, Torn, "success", "failed"} : attempt' = [attempt EXCEPT ![number].summary = value]
    BY <1>3
  <2>2. attempt' \in [Attempts -> AttemptRecords]
    BY <1>1, <2>1 DEF AttemptRecords
  <2>3. \A i \in Attempts : i # number => attempt'[i] = attempt[i]
    BY <1>1, <2>1
  <2>4. /\ attempt'[number].dir = attempt[number].dir /\ attempt'[number].allowed = attempt[number].allowed
        /\ attempt'[number].place = attempt[number].place /\ attempt'[number].spent = attempt[number].spent
        /\ attempt'[number].saved = attempt[number].saved
    BY <1>1, <2>1 DEF AttemptRecords
  <2> QED
    BY <1>1, <2>2, <2>3, <2>4 DEF Alike
<1> QED
  BY <1>2, <1>3 DEF AgentFileChanges

LEMMA SameAttempts ==
    ASSUME AttemptsInv, attempt' = attempt
    PROVE  /\ attempt' \in [Attempts -> AttemptRecords] /\ Alike(attempt, attempt')
           /\ \A i \in Attempts : attempt[i].dir \/ attempt'[i] = attempt[i]
  BY DEF AttemptsInv, AttemptTypes, Alike

LEMMA RunFailsKeeps == ASSUME AttemptsInv, RunFails PROVE AttemptsInv'
<1>1. attempts = <<>> /\ manifest \in {NoFile, Torn, "written"}
  BY DEF AttemptsInv, AttemptGoing, AttemptTypes, RunFails
<1>2. ReportStays \/ (dirty' \in {dirty, FALSE} /\ \E error \in BOOLEAN : report' = Report(attempts, error))
  BY <1>1 DEF RunFails, ReportStays
<1>3. EndsQuietly
  BY <1>1, <1>2, SameAttempts DEF EndsQuietly, RunFails
<1> QED
  BY <1>3, EndsQuietlyKeeps

LEMMA AgentErrsKeeps == ASSUME AttemptsInv, AgentErrs PROVE AttemptsInv'
<1>1. number \in Attempts /\ attempt[number].dir /\ manifest \in {NoFile, Torn, "written"}
  BY DEF AttemptsInv, AttemptGoing, AttemptTypes, AgentErrs, InAttempt
<1>2. Agent.summary \in {NoFile, Torn, "success", "failed"}
  BY <1>1 DEF AttemptsInv, AttemptTypes, AttemptRecords, Agent
<1>3. AgentFileChanges
  BY <1>1, <1>2 DEF AgentErrs, AgentFileChanges
<1>4. ReportStays \/ (dirty' \in {dirty, FALSE} /\ \E error \in BOOLEAN : report' = Report(attempts, error))
  BY DEF AgentErrs, ReportStays
<1>5. EndsQuietly
  BY <1>1, <1>3, <1>4, AgentFile DEF EndsQuietly, AgentErrs
<1> QED
  BY <1>5, EndsQuietlyKeeps

LEMMA JudgeFailsKeeps == ASSUME AttemptsInv, JudgeFails PROVE AttemptsInv'
<1>1. manifest \in {NoFile, Torn, "written"}
  BY DEF AttemptsInv, AttemptTypes
<1>2. ReportStays \/ (dirty' \in {dirty, FALSE} /\ \E error \in BOOLEAN : report' = Report(attempts, error))
  BY DEF JudgeFails, ReportStays
<1>3. EndsQuietly
  BY <1>1, <1>2, SameAttempts DEF EndsQuietly, JudgeFails
<1> QED
  BY <1>3, EndsQuietlyKeeps

LEMMA WriteFinalReportKeeps == ASSUME AttemptsInv, WriteFinalReport PROVE AttemptsInv'
<1>1. manifest \in {NoFile, Torn, "written"}
  BY DEF AttemptsInv, AttemptTypes
<1>2. ReportStays \/ (dirty' \in {dirty, FALSE} /\ \E error \in BOOLEAN : report' = Report(attempts, error))
  BY DEF WriteFinalReport
<1>3. EndsQuietly
  BY <1>1, <1>2, SameAttempts DEF EndsQuietly, WriteFinalReport
<1> QED
  BY <1>3, EndsQuietlyKeeps

\* What is saved of one attempt changes, and files of its agent may.
SavedAs(value) ==
    /\ number \in Attempts /\ attempt[number].dir /\ attempt' \in [Attempts -> AttemptRecords]
    /\ \A i \in Attempts : i # number => attempt'[i] = attempt[i]
    /\ attempt'[number].saved = value /\ attempt'[number].allowed = attempt[number].allowed
    /\ attempt'[number].spent = attempt[number].spent /\ attempt'[number].dir
    /\ attempt'[number].place = attempt[number].place

LEMMA SavedFile ==
    ASSUME AttemptsInv, NEW value, SavedAs(value)
    PROVE  DirsAlike(attempt, attempt') /\ HeldPlaces(attempt')
<1>1. DirsAlike(attempt, attempt')
  <2>1. attempt' \in [Attempts -> AttemptRecords] /\ attempt \in [Attempts -> AttemptRecords]
    BY DEF SavedAs, AttemptsInv, AttemptTypes
  <2>2. attempt'[number].dir = attempt[number].dir
    BY <2>1 DEF SavedAs, AttemptRecords
  <2> QED
    BY <2>2 DEF DirsAlike, SavedAs
<1>2. HeldPlaces(attempt)
  BY DEF AttemptsInv
<1>3. HeldPlaces(attempt')
  BY <1>2 DEF HeldPlaces, SavedAs
<1> QED
  BY <1>1, <1>3

LEMMA SavedInto ==
    ASSUME AttemptsInv, number \in Attempts, attempt[number].dir, NEW value \in {NoFile, Torn} \cup JudgedAttempts,
           NEW held \in [Attempts -> AttemptRecords], Alike(attempt, held),
           \A i \in Attempts : i # number => held[i] = attempt[i],
           attempt' = [held EXCEPT ![number].saved = value]
    PROVE  SavedAs(value)
<1>1. held[number] \in AttemptRecords
  OBVIOUS
<1>2. attempt' \in [Attempts -> AttemptRecords]
  BY <1>1 DEF AttemptRecords
<1>3. \A i \in Attempts : i # number => attempt'[i] = attempt[i]
  OBVIOUS
<1>4. /\ attempt'[number].dir = held[number].dir /\ attempt'[number].allowed = held[number].allowed
      /\ attempt'[number].place = held[number].place /\ attempt'[number].spent = held[number].spent
      /\ attempt'[number].saved = value
  BY <1>1 DEF AttemptRecords
<1> QED
  BY <1>2, <1>3, <1>4 DEF SavedAs, Alike

\* The budget of those before it, and its own.
LEMMA SavedInBudget ==
    ASSUME AttemptsInv, ~reran, NEW value, SavedAs(value), PrefixOf(attempt, number),
           Readable(value) => value.tokens <= attempt[number].spent
    PROVE  /\ HeldInBudget(attempt', Grace)
           /\ SavedTokens(attempt', number - 1) = SavedTokens(attempt, number - 1)
<1>1. HeldInBudget(attempt, Grace) /\ number \in Attempts
  BY DEF AttemptsInv, FirstRun, SavedAs
<1>2. \A i \in Attempts : i # number => attempt'[i] = attempt[i]
  BY DEF SavedAs
<1>3. /\ attempt'[number].saved = value /\ attempt'[number].allowed = attempt[number].allowed
      /\ attempt'[number].spent = attempt[number].spent /\ attempt'[number].dir
  BY DEF SavedAs
<1>4. MaxAttempts \in Nat
  BY AttemptsAssumption
<1>5. ASSUME NEW i \in Attempts, i <= number
      PROVE  SavedTokens(attempt', i - 1) = SavedTokens(attempt, i - 1)
  <2>1. \A k \in 1..(i - 1) : k \in Attempts /\ k # number
    BY <1>1, <1>4, <1>5 DEF Attempts
  <2>2. SavedAlike(attempt, attempt', i - 1) /\ i - 1 \in 0..MaxAttempts
    BY <1>2, <1>4, <2>1 DEF SavedAlike, Attempts
  <2> QED
    BY <2>2, SavedTokensSame
<1>6. \A i \in Attempts : i > number => ~attempt'[i].dir
  BY <1>1, <1>2, <1>4 DEF PrefixOf, Attempts
<1>7. \A i \in Attempts : i > number \/ i <= number
  BY <1>1, <1>4 DEF Attempts
<1>8. HeldInBudget(attempt', Grace)
  <2> SUFFICES ASSUME NEW i \in Attempts
               PROVE  /\ attempt'[i].spent <= attempt'[i].allowed + Grace
                      /\ attempt'[i].dir => attempt'[i].allowed + SavedTokens(attempt', i - 1) <= Budget
                      /\ Readable(attempt'[i].saved) => attempt'[i].saved.tokens <= attempt'[i].spent
    BY DEF HeldInBudget
  <2>1. /\ attempt[i].spent <= attempt[i].allowed + Grace
        /\ attempt[i].dir => attempt[i].allowed + SavedTokens(attempt, i - 1) <= Budget
        /\ Readable(attempt[i].saved) => attempt[i].saved.tokens <= attempt[i].spent
    BY <1>1 DEF HeldInBudget
  <2>2. CASE i # number
    BY <1>2, <1>5, <1>6, <1>7, <2>1, <2>2
  <2>3. CASE i = number
    <3>1. i <= number /\ attempt[number].dir
      BY <2>3, <1>4 DEF Attempts, SavedAs
    <3> QED
      BY <1>3, <1>5, <2>1, <2>3, <3>1
  <2> QED
    BY <2>2, <2>3
<1>9. number <= number
  BY <1>1, <1>4 DEF Attempts
<1> QED
  BY <1>1, <1>5, <1>8, <1>9

\* What changes is saved for the first time, and what the process knows of it is current.
LEMMA KillSaving ==
    ASSUME AttemptsInv, Ends, UNCHANGED <<manifest, report, tree, dirty>>, InAttempt, SavedAs(Torn)
    PROVE  AttemptsInv'
<1>0. /\ resumes \in Nat /\ attempt \in [Attempts -> AttemptRecords] /\ HeldSound(attempt, kind, resumes)
      /\ DirsInARow(attempt) /\ manifest \in {NoFile, Torn, "written"}
  BY DEF AttemptsInv, AttemptTypes, AttemptsSound
<1>1. /\ attempt' \in [Attempts -> AttemptRecords] /\ DirsAlike(attempt, attempt') /\ HeldPlaces(attempt')
  BY SavedFile DEF SavedAs
<1>2. DirsGrow(attempt, attempt') /\ DirsInARow(attempt')
  BY <1>0, <1>1, AlikeDirs
<1>3. \A i \in Attempts : Readable(attempt'[i].saved) => attempt'[i].saved = attempt[i].saved
  BY DEF Readable, SavedAs
<1>4. HeldSound(attempt', kind, resumes)
  BY <1>0, <1>2, <1>3, HeldSoundMore
<1>5. ASSUME ~reran PROVE HeldCurrent(attempt', tree, unsaved', 0) /\ HeldInBudget(attempt', Grace)
  <2>1. HeldCurrent(attempt, tree, unsaved, resumed) /\ PrefixOf(attempt, number)
    BY <1>5 DEF AttemptsInv, FirstRun, AttemptsCurrent, InARowOfAttempts
  <2>2. unsaved' = IF resumed = 0 THEN unsaved ELSE unsaved \cup {resumed}
    BY DEF Ends
  <2>3. CurrentKept(attempt, attempt', unsaved, unsaved')
    BY <1>2, <2>2, GrowCounts DEF CurrentKept
  <2>4. 0 = resumed \/ resumed \in unsaved'
    BY <2>2
  <2>5. HeldCurrent(attempt', tree, unsaved', 0)
    BY <1>0, <1>3, <2>1, <2>3, <2>4, HeldCurrentMore
  <2>6. ~Readable(Torn)
    BY DEF Readable
  <2>7. HeldInBudget(attempt', Grace)
    BY <1>5, <2>1, <2>6, SavedInBudget
  <2> QED
    BY <2>5, <2>7
<1>6. EndsWell
  BY <1>0, <1>1, <1>2, <1>4, <1>5 DEF EndsWell, ReportStays
<1> QED
  BY <1>6, EndsKeep

\* What the agent was writing.
LEMMA CutFile ==
    ASSUME AttemptsInv, NEW cut \in AgentCut
    PROVE  /\ cut \in [Attempts -> AttemptRecords] /\ Alike(attempt, cut)
           /\ \A i \in Attempts : attempt[i].dir \/ cut[i] = attempt[i]
           /\ \A i \in Attempts : i # number => cut[i] = attempt[i]
<1>1. attempt \in [Attempts -> AttemptRecords] /\ (pc = "agent" => number \in Attempts /\ attempt[number].dir)
  BY DEF AttemptsInv, AttemptTypes, AttemptGoing, InAttempt
<1>2. CASE cut = attempt
  BY <1>1, <1>2 DEF Alike
<1>3. CASE pc = "agent" /\ cut = [attempt EXCEPT ![number].summary = Torn]
  <2>1. cut \in [Attempts -> AttemptRecords]
    BY <1>1, <1>3 DEF AttemptRecords
  <2>2. \A i \in Attempts : i # number => cut[i] = attempt[i]
    BY <1>1, <1>3
  <2>3. /\ cut[number].dir = attempt[number].dir /\ cut[number].allowed = attempt[number].allowed
        /\ cut[number].place = attempt[number].place /\ cut[number].spent = attempt[number].spent
        /\ cut[number].saved = attempt[number].saved
    BY <1>1, <1>3 DEF AttemptRecords
  <2> QED
    BY <1>1, <1>3, <2>1, <2>2, <2>3 DEF Alike
<1>4. CASE pc = "agent" /\ cut = [attempt EXCEPT ![number].checkpoint = Torn]
  <2>1. cut \in [Attempts -> AttemptRecords]
    BY <1>1, <1>4 DEF AttemptRecords
  <2>2. \A i \in Attempts : i # number => cut[i] = attempt[i]
    BY <1>1, <1>4
  <2>3. /\ cut[number].dir = attempt[number].dir /\ cut[number].allowed = attempt[number].allowed
        /\ cut[number].place = attempt[number].place /\ cut[number].spent = attempt[number].spent
        /\ cut[number].saved = attempt[number].saved
    BY <1>1, <1>4 DEF AttemptRecords
  <2> QED
    BY <1>1, <1>4, <2>1, <2>2, <2>3 DEF Alike
<1> QED
  BY <1>2, <1>3, <1>4 DEF AgentCut

LEMMA KillKeeps == ASSUME AttemptsInv, Kill PROVE AttemptsInv'
<1>0. /\ manifest \in {NoFile, Torn, "written"} /\ Ends /\ UNCHANGED <<tree, dirty>>
      /\ InAttempt => number \in Attempts /\ attempt[number].dir
      /\ pc = "saving" \/ watchdog = "saving" => InAttempt
      /\ attempt \in [Attempts -> AttemptRecords]
  BY DEF AttemptsInv, AttemptTypes, AttemptGoing, InAttempt, Kill
<1>1. CASE UNCHANGED <<manifest, attempt, report>>
  <2>1. EndsQuietly
    BY <1>0, <1>1, SameAttempts DEF EndsQuietly, ReportStays
  <2> QED
    BY <2>1, EndsQuietlyKeeps
<1>2. CASE pc = "preparing" /\ manifest' = Torn /\ UNCHANGED <<attempt, report>>
  <2>1. EndsQuietly
    BY <1>0, <1>2, SameAttempts DEF EndsQuietly, ReportStays
  <2> QED
    BY <2>1, EndsQuietlyKeeps
<1>3. CASE attempt' \in AgentCut /\ report' \in {report, Torn} /\ UNCHANGED manifest
  <2>1. /\ attempt' \in [Attempts -> AttemptRecords] /\ Alike(attempt, attempt')
        /\ \A i \in Attempts : attempt[i].dir \/ attempt'[i] = attempt[i]
    BY <1>3, CutFile
  <2>2. EndsQuietly
    BY <1>0, <1>3, <2>1 DEF EndsQuietly, ReportStays
  <2> QED
    BY <2>2, EndsQuietlyKeeps
<1>4. CASE /\ watchdog = "saving" /\ \E cut \in AgentCut : attempt' = [cut EXCEPT ![number].saved = Torn]
           /\ UNCHANGED <<manifest, report>>
  <2>1. PICK cut \in AgentCut : attempt' = [cut EXCEPT ![number].saved = Torn]
    BY <1>4
  <2>2. SavedAs(Torn)
    BY <1>0, <1>4, <2>1, CutFile, SavedInto
  <2> QED
    BY <1>0, <1>4, <2>2, KillSaving
<1>5. CASE pc = "saving" /\ attempt' = [attempt EXCEPT ![number].saved = Torn] /\ UNCHANGED <<manifest, report>>
  <2>1. Alike(attempt, attempt)
    BY DEF Alike
  <2>2. SavedAs(Torn)
    BY <1>0, <1>5, <2>1, SavedInto
  <2> QED
    BY <1>0, <1>5, <2>2, KillSaving
<1>6. CASE pc \in {"reporting", "final"} /\ report' = Torn /\ UNCHANGED <<manifest, attempt>>
  <2>1. EndsQuietly
    BY <1>0, <1>6, SameAttempts DEF EndsQuietly, ReportStays
  <2> QED
    BY <2>1, EndsQuietlyKeeps
<1> QED
  BY <1>1, <1>2, <1>3, <1>4, <1>5, <1>6 DEF Kill

\* A directory that was begun and has nothing in it.
LEMMA AttemptFailsKeeps == ASSUME AttemptsInv, AttemptFails PROVE AttemptsInv'
<1>0. /\ resumes \in Nat /\ attempt \in [Attempts -> AttemptRecords] /\ HeldSound(attempt, kind, resumes)
      /\ DirsInARow(attempt) /\ manifest \in {NoFile, Torn, "written"} /\ AllBefore(attempt, number)
      /\ HeldPlaces(attempt) /\ number \in Attempts /\ Ends /\ UNCHANGED <<manifest, tree, dirty>>
  BY DEF AttemptsInv, AttemptTypes, AttemptsSound, AttemptFails, Another
<1>1. CASE course = "challenge"
  <2>1. ReportStays \/ (dirty' \in {dirty, FALSE} /\ \E error \in BOOLEAN : report' = Report(attempts, error))
    BY <1>1 DEF AttemptFails
  <2>2. attempt' = attempt
    BY <1>1 DEF AttemptFails
  <2>3. EndsQuietly
    BY <1>0, <2>1, <2>2, SameAttempts DEF EndsQuietly
  <2> QED
    BY <2>3, EndsQuietlyKeeps
<1>2. CASE course # "challenge"
  <2>1. attempt' = [attempt EXCEPT ![number].dir = TRUE] /\ report' = report
    BY <1>2 DEF AttemptFails
  <2>2. attempt' \in [Attempts -> AttemptRecords]
    BY ZenonT(30), <1>0, <2>1 DEF AttemptRecords
  <2>3. \A i \in Attempts : i # number => attempt'[i] = attempt[i]
    BY <1>0, <2>1
  <2>4. /\ attempt'[number].dir /\ attempt'[number].allowed = attempt[number].allowed
        /\ attempt'[number].place = attempt[number].place /\ attempt'[number].spent = attempt[number].spent
        /\ attempt'[number].saved = attempt[number].saved
    BY <1>0, <2>1 DEF AttemptRecords
  <2>5. DirsGrow(attempt, attempt')
    BY <2>3, <2>4 DEF DirsGrow
  <2>6. DirsInARow(attempt')
    <3> SUFFICES ASSUME NEW i \in Attempts, NEW k \in Attempts, attempt'[i].dir, k < i PROVE attempt'[k].dir
      BY DEF DirsInARow
    <3>1. CASE i = number
      BY <1>0, <2>3, <2>4, <3>1 DEF AllBefore
    <3>2. CASE i # number
      BY <1>0, <2>3, <2>4, <3>2 DEF DirsInARow
    <3> QED
      BY <3>1, <3>2
  <2>7. HeldPlaces(attempt')
    BY <1>0, <2>3, <2>4 DEF HeldPlaces
  <2>8. \A i \in Attempts : Readable(attempt'[i].saved) => attempt'[i].saved = attempt[i].saved
    BY <2>3, <2>4
  <2>9. HeldSound(attempt', kind, resumes)
    BY <1>0, <2>5, <2>8, HeldSoundMore
  <2>10. ASSUME ~reran PROVE HeldCurrent(attempt', tree, unsaved', 0)
    <3>1. HeldCurrent(attempt, tree, unsaved, resumed)
      BY <2>10 DEF AttemptsInv, FirstRun, AttemptsCurrent
    <3>2. unsaved' = IF resumed = 0 THEN unsaved ELSE unsaved \cup {resumed}
      BY DEF Ends, AttemptFails
    <3>3. CurrentKept(attempt, attempt', unsaved, unsaved')
      BY <2>5, <3>2, GrowCounts DEF CurrentKept
    <3>4. 0 = resumed \/ resumed \in unsaved'
      BY <3>2
    <3> QED
      BY <1>0, <2>8, <3>1, <3>3, <3>4, HeldCurrentMore
  <2>11. ASSUME ~reran PROVE HeldInBudget(attempt', Grace)
    <3>1. /\ HeldInBudget(attempt, Grace) /\ PrefixOf(attempt, number - 1)
          /\ SavedTokens(attempt, number - 1) <= Tokens(attempts) /\ ~(Tokens(attempts) >= Budget)
      BY <2>11 DEF AttemptsInv, FirstRun, AttemptsInBudget, InARowOfAttempts, AttemptFails, Another, Exhausted
    <3>2. MaxAttempts \in Nat /\ Budget \in Nat /\ Tokens(attempts) \in Nat
      BY AttemptFacts
    <3>3. ~attempt[number].dir
      BY <1>0, <3>1, <3>2 DEF PrefixOf, Attempts
    <3>4. attempt[number].allowed = 0
      BY <1>0, <3>3 DEF HeldPlaces, NoAttempt
    <3>5. ASSUME NEW i \in Attempts PROVE SavedTokens(attempt', i - 1) = SavedTokens(attempt, i - 1)
      <4>1. \A k \in 1..(i - 1) : k \in Attempts
        BY <3>2 DEF Attempts
      <4>2. SavedAlike(attempt, attempt', i - 1) /\ i - 1 \in 0..MaxAttempts
        BY <2>3, <2>4, <3>2, <4>1 DEF SavedAlike, Attempts
      <4> QED
        BY <4>2, SavedTokensSame
    <3>6. SavedTokens(attempt, number - 1) \in Nat
      <4>1. number - 1 \in 0..MaxAttempts
        BY <1>0, <3>2 DEF Attempts
      <4> QED
        BY <4>1, AttemptFacts, SavedTokensType
    <3>7. attempt[number].allowed + SavedTokens(attempt, number - 1) <= Budget
      BY <3>1, <3>2, <3>4, <3>6
    <3> SUFFICES ASSUME NEW i \in Attempts
                 PROVE  /\ attempt'[i].spent <= attempt'[i].allowed + Grace
                        /\ attempt'[i].dir => attempt'[i].allowed + SavedTokens(attempt', i - 1) <= Budget
                        /\ Readable(attempt'[i].saved) => attempt'[i].saved.tokens <= attempt'[i].spent
      BY DEF HeldInBudget
    <3>8. /\ attempt[i].spent <= attempt[i].allowed + Grace
          /\ attempt[i].dir => attempt[i].allowed + SavedTokens(attempt, i - 1) <= Budget
          /\ Readable(attempt[i].saved) => attempt[i].saved.tokens <= attempt[i].spent
      BY <3>1 DEF HeldInBudget
    <3>9. CASE i # number
      BY <2>3, <3>5, <3>8, <3>9
    <3>10. CASE i = number
      BY <2>4, <3>5, <3>7, <3>8, <3>10
    <3> QED
      BY <3>9, <3>10
  <2>12. EndsWell
    BY <1>0, <2>1, <2>2, <2>5, <2>6, <2>7, <2>9, <2>10, <2>11 DEF EndsWell, ReportStays
  <2> QED
    BY <2>12, EndsKeep
<1> QED
  BY <1>1, <1>2

\* What an attempt is judged as.
LEMMA JudgedAttempt ==
    ASSUME AttemptsInv, pc \in {"agent", "waiting", "judging"}, NEW stop \in {"success", "failed"},
           NEW verdict \in {"passed", "failed", "none"}
    PROVE  /\ JudgedAs(stop, verdict) \in JudgedAttempts
           /\ JudgedAs(stop, verdict).number = number /\ JudgedAs(stop, verdict).stop = stop
           /\ JudgedAs(stop, verdict).verdict = verdict /\ JudgedAs(stop, verdict).place = attempt[number].place
           /\ JudgedAs(stop, verdict).edit = tree[attempt[number].place]
           /\ JudgedAs(stop, verdict).tokens = attempt[number].spent
<1>1. /\ number \in Attempts /\ attempt[number] \in AttemptRecords
      /\ tree \in [Attempts \cup {Sandbox} -> 0..MaxEdits]
  BY DEF AttemptsInv, AttemptTypes, AttemptGoing, InAttempt
<1>2. attempt[number].place \in Attempts \cup {Sandbox} /\ attempt[number].spent \in Nat
  BY <1>1 DEF AttemptRecords
<1>3. tree[attempt[number].place] \in 0..MaxEdits
  BY <1>1, <1>2
<1> QED
  BY <1>1, <1>2, <1>3 DEF JudgedAs, JudgedAttempts

\* What the watchdog reports.
LEMMA StalledFacts ==
    ASSUME AttemptsInv, watchdog # "watching"
    PROVE  /\ pc \in {"agent", "waiting"} /\ resumed # number /\ number \in Attempts /\ attempt[number].dir
           /\ Stalled \in JudgedAttempts /\ Stalled.number = number /\ Stalled.tokens = 0
           /\ \A often : Sound(attempt, kind, often, Stalled)
           /\ ~reran => IsCurrent(attempt, tree, unsaved, Stalled)
<1>1. /\ pc \in {"agent", "waiting"} /\ resumed # number /\ number \in Attempts /\ attempt[number].dir
      /\ attempt[number].place \in {number, Sandbox} /\ tree \in [Attempts \cup {Sandbox} -> 0..MaxEdits]
  BY DEF AttemptsInv, AttemptTypes, AttemptGoing, InAttempt, HeldPlaces
<1> PICK judged : judged = JudgedAs("failed", "none")
  OBVIOUS
<1> PICK edit : edit = IF Agent.place = Sandbox THEN 0 ELSE Fresh
  OBVIOUS
<1>2. /\ judged \in JudgedAttempts /\ judged.number = number /\ judged.stop = "failed" /\ judged.verdict = "none"
      /\ judged.place = attempt[number].place
  BY <1>1, JudgedAttempt
<1>3. edit \in 0..MaxEdits
  BY <1>1, AttemptsAssumption DEF Fresh
<1>4. Stalled = [judged EXCEPT !.edit = edit, !.tokens = 0]
  BY DEF Stalled
<1>5. /\ Stalled \in JudgedAttempts /\ Stalled.number = number /\ Stalled.tokens = 0 /\ Stalled.edit = edit
      /\ Stalled.stop = "failed" /\ Stalled.verdict = "none" /\ Stalled.place = attempt[number].place
  BY <1>2, <1>3, <1>4, AttemptsAssumption DEF JudgedAttempts
<1>6. ~AttemptPassed(Stalled)
  BY <1>5 DEF AttemptPassed
<1>7. \A often : Sound(attempt, kind, often, Stalled)
  BY <1>1, <1>5, <1>6 DEF Sound
<1>8. ASSUME ~reran PROVE IsCurrent(attempt, tree, unsaved, Stalled)
  <2>1. number \in unsaved \/ tree[attempt[number].place] = Beginning(attempt, tree, number)
    BY <1>8 DEF AttemptsInv, FirstRun, AttemptsCurrent
  <2>2. Beginning(attempt, tree, number) = edit
    BY DEF Beginning, Agent, Fresh
  <2> QED
    BY <1>5, <2>1, <2>2 DEF IsCurrent
<1> QED
  BY <1>1, <1>5, <1>7, <1>8

\* The process of an attempt that was given up ends.
LEMMA WatchdogExitsKeeps == ASSUME AttemptsInv, WatchdogExits PROVE AttemptsInv'
<1> PICK stalled : stalled = Stalled
  OBVIOUS
<1>0. /\ resumes \in Nat /\ attempt \in [Attempts -> AttemptRecords] /\ HeldSound(attempt, kind, resumes)
      /\ DirsInARow(attempt) /\ manifest \in {NoFile, Torn, "written"} /\ HeldPlaces(attempt)
      /\ Ends /\ UNCHANGED <<manifest, tree>> /\ watchdog = "reporting"
      /\ report' = Report(<<stalled>>, FALSE) /\ dirty' = FALSE
  BY DEF AttemptsInv, AttemptTypes, AttemptsSound, WatchdogExits
<1>1. /\ attempt' \in [Attempts -> AttemptRecords] /\ Alike(attempt, attempt')
      /\ \A i \in Attempts : attempt[i].dir \/ attempt'[i] = attempt[i]
  BY CutFile DEF WatchdogExits
<1>2. DirsAlike(attempt, attempt')
  BY <1>1 DEF Alike, DirsAlike
<1>3. DirsGrow(attempt, attempt') /\ DirsInARow(attempt')
  BY <1>0, <1>2, AlikeDirs
<1>4. \A i \in Attempts : Readable(attempt'[i].saved) => attempt'[i].saved = attempt[i].saved
  BY <1>1 DEF Alike
<1>5. HeldSound(attempt', kind, resumes)
  BY <1>0, <1>3, <1>4, HeldSoundMore
<1>6. HeldPlaces(attempt')
  BY <1>0, <1>1 DEF HeldPlaces, Alike
<1>7. unsaved' = IF resumed = 0 THEN unsaved ELSE unsaved \cup {resumed}
  BY <1>0 DEF Ends
<1>8. CurrentKept(attempt, attempt', unsaved, unsaved')
  BY <1>3, <1>7, GrowCounts DEF CurrentKept
<1>9. ASSUME ~reran PROVE HeldCurrent(attempt', tree, unsaved', 0) /\ HeldInBudget(attempt', Grace)
  <2>1. HeldCurrent(attempt, tree, unsaved, resumed) /\ HeldInBudget(attempt, Grace)
    BY <1>9 DEF AttemptsInv, FirstRun, AttemptsCurrent
  <2>2. 0 = resumed \/ resumed \in unsaved'
    BY <1>7
  <2>3. HeldCurrent(attempt', tree, unsaved', 0)
    BY <1>0, <1>4, <1>8, <2>1, <2>2, HeldCurrentMore
  <2>4. Grace \in Nat
    BY <1>0, GraceMore
  <2> QED
    BY <1>1, <2>1, <2>3, <2>4, AlikeHeld
<1>10. MayReport(<<stalled>>)
  <2>1. stalled \in JudgedAttempts /\ stalled.tokens = 0
    BY <1>0, StalledFacts
  <2>2. /\ <<stalled>> \in Seq(JudgedAttempts) /\ MadeOf(<<stalled>>, <<>>, stalled) /\ Ordered(<<stalled>>)
        /\ Tokens(<<stalled>>) = 0
    BY <2>1, OneJudged
  <2>3. UNCHANGED <<kind, reran, tree, resumes>>
    BY <1>0 DEF Ends
  <2>4. Sound(attempt', kind', resumes', stalled)
    <3>1. Sound(attempt, kind, resumes, stalled)
      BY <1>0, StalledFacts
    <3>2. Sound(attempt', kind, resumes, stalled)
      BY <1>0, <1>3, <2>1, <3>1, SoundMore
    <3> QED
      BY <2>3, <3>2
  <2>5. AllSound(attempt', kind', resumes', <<stalled>>)
    BY <2>2, <2>4, NothingJudged, MadeSound
  <2>6. ASSUME ~reran PROVE AllCurrent(attempt', tree', unsaved', <<stalled>>)
    <3>1. IsCurrent(attempt, tree, unsaved, stalled)
      BY <1>0, <2>6, StalledFacts
    <3>2. IsCurrent(attempt', tree, unsaved', stalled)
      BY <1>8, <2>1, <3>1, CurrentMore
    <3> QED
      BY <2>2, <2>3, <3>2, NothingJudged, MadeCurrent
  <2>7. 0 <= Budget + Grace'
    BY <1>0, <2>3, GraceMore, AttemptsAssumption
  <2> QED
    BY <2>2, <2>3, <2>5, <2>6, <2>7 DEF MayReport
<1>11. ReportComes
  BY <1>0, <1>10 DEF ReportComes
<1>12. EndsWell
  BY <1>0, <1>1, <1>3, <1>5, <1>6, <1>9, <1>11 DEF EndsWell
<1> QED
  BY <1>12, EndsKeep

\* A process goes on: nothing in the directory changes but its reports.
ProcessMoves ==
    /\ UNCHANGED <<kind, limit, attempt, tree, edits, reran, unsaved>> /\ manifest' \in {NoFile, Torn, "written"}
    /\ resumes' \in {resumes, resumes + 1} /\ (ReportStays \/ ReportComes)
    /\ attempts' \in Seq(JudgedAttempts) /\ number' \in 1..(MaxAttempts + 1) /\ resumed' \in 0..MaxAttempts
    /\ pc' \in {"off", "preparing", "next", "agent", "waiting", "judging", "saving", "reporting", "final"} /\ asked' \in BOOLEAN
    /\ watchdog' \in {"watching", "saving", "reporting"}

LEMMA ProcessTypes == ASSUME AttemptsInv, ProcessMoves PROVE AttemptTypes' /\ ReportKept
<1>1. /\ UNCHANGED <<kind, reran, tree>> /\ resumes' \in {resumes, resumes + 1} /\ (ReportStays \/ ReportComes)
      /\ attempt' = attempt /\ unsaved' = unsaved
  BY DEF ProcessMoves
<1>2. DirsGrow(attempt, attempt') /\ unsaved \subseteq unsaved'
  BY <1>1 DEF DirsGrow
<1>3. ReportKept
  BY <1>1, <1>2, ReportHolds
<1>4. dirty' \in BOOLEAN
  BY <1>1 DEF ReportStays, ReportComes, AttemptsInv, AttemptTypes
<1>5. ReportTyped(report')
  BY <1>3 DEF ReportKept
<1>6. resumes' \in Nat
  BY <1>1 DEF AttemptsInv, AttemptTypes
<1>7. AttemptTypes
  BY DEF AttemptsInv
<1>8. AttemptTypes'
  BY <1>4, <1>5, <1>6, <1>7 DEF AttemptTypes, ProcessMoves
<1> QED
  BY <1>3, <1>8

\* The agents that were resumed allow more.
LEMMA HeldInBudgetMore ==
    ASSUME NEW held \in [Attempts -> AttemptRecords], NEW often \in Nat, NEW more \in Nat, often <= more, HeldInBudget(held, often)
    PROVE  HeldInBudget(held, more)
<1>1. \A i \in Attempts : held[i].spent \in Nat /\ held[i].allowed \in Nat
  BY AttemptsAssumption DEF AttemptRecords
<1> QED
  BY <1>1 DEF HeldInBudget

\* Where it goes has to be right, ...
ProcessIsRight ==
    /\ AttemptGoing' /\ (pc' = "next" => AllBefore(attempt, number'))
    /\ AllSound(attempt, kind, resumes', attempts')
    /\ ~reran => InARowOfAttempts' /\ AttemptsOrdered' /\ AttemptsCurrent' /\ AttemptsInBudget'

\* ... the rest stays.
LEMMA ProcessKeeps == ASSUME AttemptsInv, ProcessMoves, ProcessIsRight PROVE AttemptsInv'
<1>1. AttemptTypes' /\ ReportKept
  BY ProcessTypes
<1>2. /\ UNCHANGED <<kind, attempt, edits, reran>> /\ resumes' \in {resumes, resumes + 1}
  BY DEF ProcessMoves
<1>3. /\ attempt \in [Attempts -> AttemptRecords] /\ resumes \in Nat /\ HeldSound(attempt, kind, resumes)
      /\ HeldPlaces(attempt) /\ DirsInARow(attempt)
  BY DEF AttemptsInv, AttemptTypes, AttemptsSound
<1>4. resumes' \in Nat /\ resumes <= resumes' /\ Grace \in Nat /\ Grace' \in Nat /\ Grace <= Grace'
  BY <1>2, <1>3, GraceMore
<1>5. AttemptsSound'
  <2>1. DirsGrow(attempt, attempt)
    BY DEF DirsGrow
  <2>2. HeldSound(attempt, kind, resumes')
    BY <1>3, <1>4, <2>1, HeldSoundMore
  <2> QED
    BY <1>1, <1>2, <2>2 DEF AttemptsSound, ProcessIsRight, ReportKept
<1>6. ASSUME ~reran' PROVE FirstRun'
  <2>1. HeldInBudget(attempt, Grace)
    BY <1>2, <1>6 DEF AttemptsInv, FirstRun
  <2>2. HeldInBudget(attempt, Grace')
    BY <1>3, <1>4, <2>1, HeldInBudgetMore
  <2> QED
    BY <1>1, <1>2, <1>6, <2>2 DEF FirstRun, ProcessIsRight, ReportKept
<1> QED
  BY <1>1, <1>2, <1>3, <1>5, <1>6 DEF AttemptsInv, ProcessIsRight

LEMMA SameKeeps ==
    ASSUME AttemptsInv,
           UNCHANGED <<kind, limit, manifest, attempt, tree, report, pc, course, number, attempts, resumed, asked>>,
           UNCHANGED <<watchdog, edits, reran, unsaved, dirty, resumes>>
    PROVE  AttemptsInv'
<1>1. Grace' = Grace
  BY DEF Grace
<1>2. AttemptTypes' /\ AttemptGoing' /\ AttemptsSound'
  BY <1>1 DEF AttemptsInv, AttemptTypes, AttemptGoing, AttemptsSound, InAttempt
<1>3. ~reran' => FirstRun'
  BY <1>1 DEF AttemptsInv, FirstRun, InARowOfAttempts, AttemptsOrdered, AttemptsCurrent, AttemptsInBudget, ReportFirst, InAttempt, IsResumed, IsFresh, Beginning
<1> QED
  BY <1>2, <1>3 DEF AttemptsInv

LEMMA ResumeIsDoneKeeps == ASSUME AttemptsInv, ResumeIsDone PROVE AttemptsInv'
<1>1. /\ UNCHANGED <<kind, limit, manifest, attempt, tree, report, pc, course, number, attempts, resumed, asked>>
      /\ UNCHANGED <<watchdog, edits, reran, unsaved, dirty, resumes>>
  BY DEF ResumeIsDone, diskVariables, processVariables
<1> QED
  BY <1>1, SameKeeps

LEMMA NoMoreAttemptsKeeps == ASSUME AttemptsInv, NoMoreAttempts PROVE AttemptsInv'
<1>1. /\ UNCHANGED <<kind, limit, manifest, attempt, tree, report, course, number, attempts, resumed, asked>>
      /\ UNCHANGED <<watchdog, edits, reran, unsaved, dirty, resumes>> /\ pc = "next" /\ pc' = "final"
  BY DEF NoMoreAttempts, diskVariables
<1>2. AttemptTypes' /\ AttemptGoing' /\ AttemptsSound' /\ watchdog' = "watching" /\ Grace' = Grace
  BY <1>1 DEF AttemptsInv, AttemptTypes, AttemptGoing, AttemptsSound, InAttempt, Grace
<1>3. ~reran' => FirstRun'
  BY <1>1, <1>2 DEF AttemptsInv, FirstRun, InARowOfAttempts, AttemptsOrdered, AttemptsCurrent, AttemptsInBudget, ReportFirst, InAttempt, IsResumed, IsFresh
<1> QED
  BY <1>1, <1>2, <1>3 DEF AttemptsInv

\* The summary of an agent.
LEMMA AgentEndsKeeps == ASSUME AttemptsInv, NEW stop \in {"success", "failed"}, AgentEnds(stop) PROVE AttemptsInv'
<1>0. /\ pc = "agent" /\ pc' \in {"waiting", "judging"} /\ (watchdog # "watching" => pc' = "waiting")
      /\ attempt' = [attempt EXCEPT ![number].summary = stop]
      /\ UNCHANGED <<kind, limit, manifest, tree, report, course, number, attempts, resumed, asked>>
      /\ UNCHANGED <<watchdog, edits, reran, unsaved, dirty, resumes>>
  BY DEF AgentEnds
<1>1. /\ number \in Attempts /\ attempt[number].dir /\ attempt \in [Attempts -> AttemptRecords] /\ attempt[number] \in AttemptRecords
      /\ resumes \in Nat /\ HeldSound(attempt, kind, resumes) /\ AllSound(attempt, kind, resumes, attempts)
      /\ attempts \in Seq(JudgedAttempts) /\ DirsInARow(attempt) /\ HeldPlaces(attempt)
  BY <1>0 DEF AttemptsInv, AttemptGoing, AttemptTypes, AttemptsSound, InAttempt
<1>2. AgentFileChanges
  BY <1>0, <1>1 DEF AgentFileChanges
<1>3. /\ attempt' \in [Attempts -> AttemptRecords] /\ Alike(attempt, attempt')
      /\ \A i \in Attempts : attempt[i].dir \/ attempt'[i] = attempt[i]
  BY <1>2, AgentFile
<1>4. attempt'[number].summary = stop
  BY <1>0, <1>1 DEF AttemptRecords
<1>5. DirsAlike(attempt, attempt')
  BY <1>3 DEF Alike, DirsAlike
<1>6. CountDirs(attempt') = CountDirs(attempt) /\ DirsGrow(attempt, attempt') /\ DirsInARow(attempt')
  BY <1>1, <1>5, AlikeDirs
<1>7. ReportKept
  <2>1. ReportStays /\ unsaved \subseteq unsaved' /\ resumes' \in {resumes, resumes + 1}
    BY <1>0 DEF ReportStays
  <2> QED
    BY <1>0, <1>6, <2>1, ReportHolds
<1>8. AttemptTypes'
  <2>1. AttemptTypes /\ ReportTyped(report')
    BY <1>7 DEF AttemptsInv, ReportKept
  <2> QED
    BY <1>0, <1>3, <2>1 DEF AttemptTypes
<1>9. AttemptGoing'
  <2>1. AttemptGoing
    BY DEF AttemptsInv
  <2>2. attempt'[number].dir = attempt[number].dir /\ attempt'[number].place = attempt[number].place
    BY <1>1, <1>3 DEF Alike
  <2> QED
    BY <1>0, <1>1, <1>4, <2>1, <2>2 DEF AttemptGoing, InAttempt
<1>10. HeldPlaces(attempt')
  BY <1>0, <1>1, <1>3 DEF HeldPlaces, Alike
<1>11. \A i \in Attempts : Readable(attempt'[i].saved) => attempt'[i].saved = attempt[i].saved
  BY <1>3 DEF Alike
<1>12. AttemptsSound'
  <2>1. HeldSound(attempt', kind, resumes)
    BY <1>1, <1>6, <1>11, HeldSoundMore
  <2>2. AllSound(attempt', kind, resumes, attempts)
    BY <1>1, <1>6, AllSoundMore
  <2> QED
    BY <1>0, <1>7, <2>1, <2>2 DEF AttemptsSound, ReportKept
<1>13. ASSUME ~reran' PROVE FirstRun'
  <2>0. FirstRun
    BY <1>0, <1>13 DEF AttemptsInv
  <2>1. InARowOfAttempts'
    <3>1. PrefixOf(attempt, number)
      BY <1>0, <2>0 DEF FirstRun, InARowOfAttempts, InAttempt
    <3>2. PrefixOf(attempt', number)
      BY <1>5, <3>1, AlikeDirs
    <3> QED
      BY <1>0, <3>2 DEF InARowOfAttempts, InAttempt
  <2>2. AttemptsOrdered'
    BY <1>0, <2>0 DEF FirstRun, AttemptsOrdered
  <2>3. AttemptsCurrent'
    <3>1. AttemptsCurrent
      BY <2>0 DEF FirstRun
    <3>2. CurrentKept(attempt, attempt', unsaved, unsaved)
      BY <1>6, GrowCounts DEF CurrentKept
    <3>3. AllCurrent(attempt', tree, unsaved, attempts)
      BY <1>1, <3>1, <3>2, AllCurrentMore DEF AttemptsCurrent
    <3>4. HeldCurrent(attempt', tree, unsaved, resumed)
      <4>1. HeldCurrent(attempt, tree, unsaved, resumed)
        BY <3>1 DEF AttemptsCurrent
      <4> QED
        BY <1>1, <1>11, <3>2, <4>1, HeldCurrentMore
    <3>5. resumed # number /\ watchdog # "reporting" => ~Readable(attempt'[number].saved)
      BY <1>0, <1>1, <1>3, <3>1 DEF AttemptsCurrent, Alike
    <3>6. attempt'[number].place = attempt[number].place
      BY <1>1, <1>3 DEF Alike
    <3>7. watchdog # "watching" =>
              number \in unsaved \/ tree[attempt'[number].place] = Beginning(attempt', tree', number')
      BY <1>0, <3>1, <3>6 DEF AttemptsCurrent, Beginning
    <3> QED
      BY <1>0, <3>3, <3>4, <3>5, <3>7 DEF AttemptsCurrent, Beginning
  <2>4. AttemptsInBudget'
    <3>1. AttemptsInBudget /\ Grace' = Grace
      BY <1>0, <2>0 DEF FirstRun, Grace
    <3>2. number - 1 \in 0..MaxAttempts
      BY <1>1, AttemptsAssumption DEF Attempts
    <3>3. SavedTokens(attempt', number - 1) = SavedTokens(attempt, number - 1)
      BY <1>3, <3>2, AlikeSaved
    <3>4. attempt'[number].spent = attempt[number].spent /\ attempt'[number].allowed = attempt[number].allowed
      BY <1>1, <1>3 DEF Alike
    <3> QED
      BY <1>0, <3>1, <3>3, <3>4 DEF AttemptsInBudget, IsResumed, IsFresh
  <2>5. HeldInBudget(attempt', Grace')
    <3>1. Grace' = Grace /\ Grace \in Nat
      BY <1>0, <1>1, GraceMore
    <3> QED
      BY <1>1, <1>3, <2>0, <3>1, AlikeHeld DEF FirstRun
  <2>6. ReportFirst'
    BY <1>7, <1>13 DEF ReportKept
  <2> QED
    BY <2>1, <2>2, <2>3, <2>4, <2>5, <2>6 DEF FirstRun
<1> QED
  BY <1>0, <1>6, <1>8, <1>9, <1>10, <1>12, <1>13 DEF AttemptsInv

\* Where there is no directory, nothing is saved.
LEMMA NothingBeyond ==
    ASSUME AttemptsInv, NEW n \in 0..MaxAttempts, PrefixOf(attempt, n)
    PROVE  NoneBeyond(attempt, n) /\ Saved = SavedUpTo(attempt)[n]
<1>1. HeldPlaces(attempt)
  BY DEF AttemptsInv
<1>2. ASSUME NEW i \in Attempts, i > n PROVE ~Readable(attempt[i].saved)
  <2>1. ~attempt[i].dir
    BY <1>2, AttemptsAssumption DEF PrefixOf, Attempts
  <2>2. attempt[i].saved = NoFile
    BY <1>1, <2>1 DEF HeldPlaces, NoAttempt
  <2> QED
    BY <2>2 DEF Readable
<1>3. NoneBeyond(attempt, n)
  BY <1>2 DEF NoneBeyond
<1> QED
  BY <1>3, SavedEnds DEF Saved

LEMMA PreviousDirectories ==
    ASSUME AttemptsInv, NEW n \in Attempts, attempt[n].dir
    PROVE  AllBefore(attempt, n + 1)
<1>1. DirsInARow(attempt)
  BY DEF AttemptsInv
<1>2. ASSUME NEW i \in Attempts, i < n + 1 PROVE attempt[i].dir
  <2>1. i = n \/ i < n
    BY <1>2, AttemptsAssumption DEF Attempts
  <2> QED
    BY <1>1, <2>1 DEF DirsInARow
<1> QED
  BY <1>2 DEF AllBefore

LEMMA RunBeginsKeeps == ASSUME AttemptsInv, RunBegins PROVE AttemptsInv'
<1>0. /\ pc = "off" /\ pc' = "preparing" /\ reran' = (reran \/ \E i \in Attempts : attempt[i].dir)
      /\ tree' = [tree EXCEPT ![Sandbox] = 0] /\ course' = Course
      /\ UNCHANGED <<kind, limit, manifest, attempt, report, number, attempts, resumed, asked, watchdog>>
      /\ UNCHANGED <<edits, unsaved, dirty, resumes>>
  BY DEF RunBegins, Begins
<1>1. AttemptTypes /\ attempts = <<>> /\ resumed = 0 /\ HeldPlaces(attempt)
  BY <1>0 DEF AttemptsInv, AttemptGoing
<1>2. MaxAttempts \in Nat \ {0} /\ MaxEdits \in Nat /\ watchdog = "watching" /\ Grace' = Grace
  BY <1>0, AttemptFacts DEF AttemptsInv, AttemptGoing, Grace
<1>3. AttemptTypes'
  <2>1. tree' \in [Attempts \cup {Sandbox} -> 0..MaxEdits]
    BY <1>0, <1>1, <1>2 DEF AttemptTypes
  <2>2. reran' \in BOOLEAN
    BY <1>0, <1>1 DEF AttemptTypes
  <2> QED
    BY <1>0, <1>1, <2>1, <2>2 DEF AttemptTypes
<1>4. AttemptGoing'
  <2>1. resumed' <= number'
    BY <1>0 DEF AttemptsInv, AttemptGoing
  <2> QED
    BY <1>0, <1>1, <1>2, <2>1 DEF AttemptGoing, InAttempt
<1>5. AttemptsSound'
  BY <1>0 DEF AttemptsSound, AttemptsInv
<1>6. ASSUME ~reran' PROVE FirstRun'
  <2>1. FirstRun /\ \A i \in Attempts : ~attempt[i].dir
    BY <1>0, <1>6 DEF AttemptsInv
  <2>2. PrefixOf(attempt, 0)
    BY <1>2, <2>1 DEF PrefixOf, Attempts
  <2>3. InARowOfAttempts'
    BY <1>0, <2>2 DEF InARowOfAttempts, InAttempt
  <2>4. AttemptsOrdered'
    BY <1>0, <2>1 DEF FirstRun, AttemptsOrdered
  <2>5. AttemptsCurrent'
    <3>1. NoneBeyond(attempt, 0)
      BY <1>2, <2>2, NothingBeyond
    <3>2. \A i \in Attempts : ~Readable(attempt[i].saved)
      BY <1>2, <3>1 DEF NoneBeyond, Attempts
    <3>3. HeldCurrent(attempt', tree', unsaved', resumed')
      BY <1>0, <3>2 DEF HeldCurrent
    <3>4. AllCurrent(attempt', tree', unsaved', attempts')
      BY <1>0, <1>1, NothingJudged
    <3>5. tree'[Sandbox] = 0
      BY <1>0, <1>1 DEF AttemptTypes
    <3> QED
      BY <1>0, <1>2, <3>3, <3>4, <3>5 DEF AttemptsCurrent
  <2>6. AttemptsInBudget'
    BY <1>0, <1>2, <2>1 DEF FirstRun, AttemptsInBudget, IsResumed, IsFresh
  <2>7. HeldInBudget(attempt', Grace')
    BY <1>0, <1>2, <2>1 DEF FirstRun
  <2>8. ReportFirst'
    <3>1. Readable(report) => Ordered(report.attempts) /\ Tokens(report.attempts) <= Budget + Grace
      BY <2>1 DEF FirstRun, ReportFirst
    <3>2. ASSUME Readable(report) PROVE AllCurrent(attempt', tree', unsaved', report.attempts)
      <4>1. report.attempts \in Seq(JudgedAttempts) /\ AllSound(attempt, kind, resumes, report.attempts)
        BY <1>1, <3>2 DEF AttemptTypes, ReportTyped, AttemptsInv, AttemptsSound
      <4>2. ASSUME NEW j \in 1..Len(report.attempts) PROVE FALSE
        <5>1. report.attempts[j] \in JudgedAttempts /\ Sound(attempt, kind, resumes, report.attempts[j])
          BY <4>1, ElementOfSeq DEF AllSound
        <5>2. report.attempts[j].number \in Attempts /\ attempt[report.attempts[j].number].dir
          BY <5>1 DEF JudgedAttempts, Sound
        <5> QED
          BY <2>1, <5>2
      <4> QED
        BY <4>2 DEF AllCurrent
    <3> QED
      BY <1>0, <1>2, <3>1, <3>2 DEF ReportFirst
  <2> QED
    BY <2>3, <2>4, <2>5, <2>6, <2>7, <2>8 DEF FirstRun
<1> QED
  BY <1>0, <1>3, <1>4, <1>5, <1>6 DEF AttemptsInv

LEMMA RunStartsKeeps == ASSUME AttemptsInv, RunStarts PROVE AttemptsInv'
<1>0. /\ pc = "preparing" /\ pc' = "next" /\ number' = 1 /\ manifest' = "written"
      /\ attempts' = IF kind = "challenge" THEN <<>> ELSE Saved
      /\ UNCHANGED <<kind, limit, attempt, tree, report, course, resumed, asked, watchdog>>
      /\ UNCHANGED <<edits, reran, unsaved, dirty, resumes>>
  BY DEF RunStarts
<1>1. AttemptTypes /\ resumed = 0 /\ HeldSound(attempt, kind, resumes) /\ watchdog = "watching"
  BY <1>0 DEF AttemptsInv, AttemptGoing, AttemptsSound
<1>2. MaxAttempts \in Nat \ {0} /\ Saved \in Seq(JudgedAttempts) /\ Saved = SavedUpTo(attempt)[MaxAttempts] /\ SavedGood(attempt)
      /\ Budget \in Nat
  BY AttemptFacts
<1>3. attempts' \in Seq(JudgedAttempts)
  BY <1>0, <1>2, NothingJudged
<1>4. ProcessMoves
  <2>1. ReportStays /\ resumes' \in {resumes, resumes + 1}
    BY <1>0 DEF ReportStays
  <2>2. number' \in 1..(MaxAttempts + 1) /\ resumed' \in 0..MaxAttempts
    BY <1>0, <1>1, <1>2
  <2>3. asked' \in BOOLEAN /\ watchdog' \in {"watching", "saving", "reporting"}
    BY <1>0, <1>1 DEF AttemptTypes
  <2> QED
    BY <1>0, <1>3, <2>1, <2>2, <2>3 DEF ProcessMoves
<1>5. AttemptGoing'
  BY <1>0, <1>1 DEF AttemptGoing, InAttempt
<1>6. AllBefore(attempt, number')
  BY <1>0, <1>2 DEF AllBefore, Attempts
<1>7. AllSound(attempt, kind, resumes', attempts')
  <2>1. MaxAttempts \in 0..MaxAttempts
    BY <1>2
  <2>2. AllSound(attempt, kind, resumes, Saved)
    BY <1>1, <1>2, <2>1, SavedSound DEF HeldSound
  <2> QED
    BY <1>0, <2>2, NothingJudged
<1>8. ASSUME ~reran PROVE InARowOfAttempts' /\ AttemptsOrdered' /\ AttemptsCurrent' /\ AttemptsInBudget'
  <2>1. PrefixOf(attempt, 0) /\ FirstRun
    BY <1>0, <1>8 DEF AttemptsInv, FirstRun, InARowOfAttempts
  <2>2. attempts' = <<>>
    BY <1>0, <1>2, <2>1, NothingBeyond, NoneSaved
  <2>3. InARowOfAttempts'
    BY <1>0, <2>1 DEF InARowOfAttempts, InAttempt
  <2>4. AttemptsOrdered'
    BY <1>0, <2>2, NothingJudged DEF AttemptsOrdered
  <2>5. AttemptsCurrent'
    <3>1. HeldCurrent(attempt, tree, unsaved, resumed)
      BY <2>1 DEF FirstRun, AttemptsCurrent
    <3>2. AllCurrent(attempt', tree', unsaved', attempts')
      BY <2>2, NothingJudged
    <3>3. course = "challenge" => tree[Sandbox] = 0
      BY <1>0, <2>1 DEF FirstRun, AttemptsCurrent
    <3> QED
      BY <1>0, <1>1, <3>1, <3>2, <3>3 DEF AttemptsCurrent
  <2>6. AttemptsInBudget'
    <3>1. Tokens(attempts') = 0 /\ SavedTokens(attempt', 0) = 0
      BY <2>2, TotalEmpty, SavedTokensNone
    <3>2. 0 <= Budget + Grace'
      <4>1. resumes \in Nat
        BY <1>1 DEF AttemptTypes
      <4>2. Grace' \in Nat
        BY <1>0, <4>1, GraceMore
      <4>3. Budget \in Nat
        BY <1>2
      <4>4. \A b, g \in Nat : 0 <= b + g
        OBVIOUS
      <4> QED
        BY <4>2, <4>3, <4>4
    <3>3. number' - 1 = 0
      BY <1>0
    <3> QED
      BY <1>0, <3>1, <3>2, <3>3 DEF AttemptsInBudget, IsResumed, IsFresh
  <2> QED
    BY <2>3, <2>4, <2>5, <2>6
<1>9. ProcessIsRight
  BY <1>5, <1>6, <1>7, <1>8 DEF ProcessIsRight
<1> QED
  BY <1>4, <1>9, ProcessKeeps

LEMMA ResumeAgentKeeps == ASSUME AttemptsInv, ResumeAgent PROVE AttemptsInv'
<1>0. /\ pc = "off" /\ pc' = "agent" /\ course' = "standard" /\ number' = Directories /\ resumed' = Directories
      /\ asked' = FALSE /\ dirty' = TRUE /\ resumes' = resumes + 1 /\ Directories > 0
      /\ UNCHANGED <<kind, limit, manifest, attempt, tree, report, attempts, watchdog, edits, reran, unsaved>>
  BY DEF ResumeAgent, Begins, HasAgent, diskVariables
<1>1. AttemptTypes /\ attempts = <<>> /\ resumed = 0 /\ watchdog = "watching"
  BY <1>0 DEF AttemptsInv, AttemptGoing
<1>2. MaxAttempts \in Nat \ {0} /\ Directories \in 0..MaxAttempts /\ PrefixOf(attempt, Directories) /\ Budget \in Nat
  BY AttemptFacts
<1>3. Directories \in Attempts /\ attempt[Directories].dir
  BY <1>0, <1>2 DEF PrefixOf, Attempts
<1>4. resumes \in Nat /\ manifest \in {NoFile, Torn, "written"}
  BY <1>1 DEF AttemptTypes
<1>5. ProcessMoves
  <2>1. ReportStays
    BY <1>0 DEF ReportStays
  <2>2. number' \in 1..(MaxAttempts + 1) /\ resumed' \in 0..MaxAttempts
    BY <1>0, <1>2
  <2>3. attempts' \in Seq(JudgedAttempts)
    BY <1>0, <1>1, NothingJudged
  <2> QED
    BY <1>0, <1>1, <1>4, <2>1, <2>2, <2>3 DEF ProcessMoves
<1>6. AttemptGoing'
  <2>1. Directories <= Directories /\ resumes + 1 > 0
    BY <1>2, <1>4
  <2> QED
    BY <1>0, <1>1, <1>3, <2>1 DEF AttemptGoing, InAttempt
<1>7. AllSound(attempt, kind, resumes', attempts')
  BY <1>0, <1>1, NothingJudged
<1>8. ASSUME ~reran PROVE InARowOfAttempts' /\ AttemptsOrdered' /\ AttemptsCurrent' /\ AttemptsInBudget'
  <2>1. FirstRun
    BY <1>8 DEF AttemptsInv
  <2>2. InARowOfAttempts'
    BY <1>0, <1>2 DEF InARowOfAttempts, InAttempt
  <2>3. AttemptsOrdered'
    BY <1>0, <1>1, NothingJudged DEF AttemptsOrdered
  <2>4. AttemptsCurrent'
    <3>1. HeldCurrent(attempt, tree, unsaved, 0)
      BY <1>1, <2>1 DEF FirstRun, AttemptsCurrent
    <3>2. \A i \in Attempts : i # 0
      BY DEF Attempts
    <3>3. HeldCurrent(attempt, tree, unsaved, Directories)
      BY <3>1, <3>2 DEF HeldCurrent
    <3>4. AllCurrent(attempt', tree', unsaved', attempts')
      BY <1>0, <1>1, NothingJudged
    <3> QED
      BY <1>0, <1>1, <3>3, <3>4 DEF AttemptsCurrent
  <2>5. AttemptsInBudget'
    <3>1. Tokens(attempts') = 0
      BY <1>0, <1>1, TotalEmpty
    <3>2. attempt[Directories].spent <= attempt[Directories].allowed + Grace
      BY <1>3, <2>1 DEF FirstRun, HeldInBudget
    <3>3. attempt[Directories].spent \in Nat /\ attempt[Directories].allowed \in Nat
      BY <1>1, <1>2, <1>3, AttemptsAssumption DEF AttemptTypes, AttemptRecords
    <3>6. Grace \in Nat /\ MaxBill \in Nat /\ Grace' = Grace + MaxBill
      BY <1>0, <1>4, GraceMore
    <3>4. attempt[Directories].spent + MaxBill <= attempt[Directories].allowed + Grace'
      BY <3>2, <3>3, <3>6
    <3>5. 0 <= Budget + Grace'
      BY <1>2, <3>6
    <3> QED
      BY <1>0, <3>1, <3>4, <3>5 DEF AttemptsInBudget, IsResumed, IsFresh
  <2> QED
    BY <2>2, <2>3, <2>4, <2>5
<1>9. ProcessIsRight
  BY <1>0, <1>6, <1>7, <1>8 DEF ProcessIsRight
<1> QED
  BY <1>5, <1>9, ProcessKeeps

LEMMA ResumeStartsKeeps == ASSUME AttemptsInv, ResumeStarts PROVE AttemptsInv'
<1>0. /\ pc = "off" /\ pc' = "next" /\ course' = "standard" /\ number' = Directories + 1 /\ attempts' = Saved
      /\ UNCHANGED <<kind, limit, manifest, attempt, tree, report, resumed, asked, watchdog>>
      /\ UNCHANGED <<edits, reran, unsaved, dirty, resumes>>
  BY DEF ResumeStarts, Begins, diskVariables
<1>1. AttemptTypes /\ resumed = 0 /\ HeldSound(attempt, kind, resumes) /\ watchdog = "watching"
  BY <1>0 DEF AttemptsInv, AttemptGoing, AttemptsSound
<1>2. MaxAttempts \in Nat \ {0} /\ Saved \in Seq(JudgedAttempts) /\ SavedGood(attempt) /\ Budget \in Nat
  BY AttemptFacts
<1>3. PICK d \in 0..MaxAttempts : d = Directories /\ PrefixOf(attempt, d)
  BY AttemptFacts
<1>4. Saved = SavedUpTo(attempt)[d]
  BY <1>3, NothingBeyond
<1>5. resumes \in Nat /\ manifest \in {NoFile, Torn, "written"} /\ asked \in BOOLEAN /\ attempt \in [Attempts -> AttemptRecords]
      /\ Grace \in Nat /\ Grace' = Grace
  BY <1>0, <1>1, GraceMore DEF AttemptTypes
<1>6. ProcessMoves
  <2>1. ReportStays /\ resumes' \in {resumes, resumes + 1}
    BY <1>0 DEF ReportStays
  <2>2. number' \in 1..(MaxAttempts + 1) /\ resumed' \in 0..MaxAttempts
    BY <1>0, <1>1, <1>2, <1>3
  <2> QED
    BY <1>0, <1>1, <1>2, <1>5, <2>1, <2>2 DEF ProcessMoves
<1>7. AttemptGoing'
  <2>1. 0 < d + 1
    BY <1>2
  <2> QED
    BY <1>0, <1>1, <1>3, <2>1 DEF AttemptGoing, InAttempt
<1>8. AllBefore(attempt, number')
  <2>1. \A i \in Attempts : i < d + 1 => i <= d
    BY <1>2 DEF Attempts
  <2> QED
    BY <1>0, <1>3, <2>1 DEF AllBefore, PrefixOf
<1>9. AllSound(attempt, kind, resumes', attempts')
  BY <1>0, <1>1, <1>2, <1>4, SavedSound DEF HeldSound
<1>10. ASSUME ~reran PROVE InARowOfAttempts' /\ AttemptsOrdered' /\ AttemptsCurrent' /\ AttemptsInBudget'
  <2>1. FirstRun
    BY <1>10 DEF AttemptsInv
  <2>2. number' - 1 = d
    BY <1>0, <1>2, <1>3
  <2>3. InARowOfAttempts'
    BY <1>0, <1>3, <2>2 DEF InARowOfAttempts, InAttempt
  <2>4. AttemptsOrdered'
    <3>1. IsListed(attempt, Saved, d)
      BY <1>2, <1>4, SavedListed DEF SavedIsListed
    <3>2. Ordered(Saved) /\ Before(Saved, d + 1)
      BY <3>1 DEF IsListed
    <3> QED
      BY <1>0, <1>3, <3>2 DEF AttemptsOrdered
  <2>5. HeldCurrent(attempt, tree, unsaved, 0) /\ HeldInBudget(attempt, Grace)
    BY <1>1, <2>1 DEF FirstRun, AttemptsCurrent
  <2>6. AttemptsCurrent'
    <3>1. \A i \in Attempts : i # 0
      BY DEF Attempts
    <3>2. \A i \in Attempts : i <= d /\ Readable(attempt[i].saved) => IsCurrent(attempt, tree, unsaved, attempt[i].saved)
      BY <2>5, <3>1 DEF HeldCurrent
    <3>3. AllCurrent(attempt, tree, unsaved, Saved)
      BY <1>2, <1>4, <3>2, SavedCurrent
    <3> QED
      BY <1>0, <1>1, <2>5, <3>3 DEF AttemptsCurrent
  <2>7. AttemptsInBudget'
    <3>1. Tokens(Saved) = SavedTokens(attempt, d) /\ SavedTokens(attempt, d) \in Nat
      BY <1>2, <1>4, SavedTokensType DEF SavedTokens
    <3>2. SavedTokens(attempt, d) <= Budget + Grace
      <4>1. CASE d = 0
        BY <1>2, <1>5, <4>1, SavedTokensNone
      <4>2. CASE d # 0
        <5>1. d \in 1..MaxAttempts /\ d \in Attempts /\ d - 1 \in 0..MaxAttempts
          BY <1>2, <4>2 DEF Attempts
        <5>2. OneMorePaid(attempt, d) /\ SavedTokens(attempt, d - 1) \in Nat
          BY <1>2, <5>1, SavedTokensNext, SavedTokensType
        <5>3. attempt[d].dir
          BY <1>2, <1>3, <5>1 DEF PrefixOf
        <5>4. attempt[d].allowed + SavedTokens(attempt, d - 1) <= Budget /\ attempt[d].spent <= attempt[d].allowed + Grace
              /\ (Readable(attempt[d].saved) => attempt[d].saved.tokens <= attempt[d].spent)
          BY <2>5, <5>1, <5>3 DEF HeldInBudget
        <5>5. attempt[d].allowed \in Nat /\ attempt[d].spent \in Nat /\ (Readable(attempt[d].saved) => attempt[d].saved.tokens \in Nat)
          <6>1. attempt[d] \in AttemptRecords
            BY <1>5, <5>1
          <6>2. attempt[d].allowed \in Nat /\ attempt[d].spent \in Nat
            BY <1>2, <6>1 DEF AttemptRecords
          <6>3. Readable(attempt[d].saved) => attempt[d].saved \in JudgedAttempts
            BY <1>5, <5>1, SavedIsJudged
          <6>4. \A a \in JudgedAttempts : a.tokens \in Nat
            BY AttemptsAssumption DEF JudgedAttempts
          <6> QED
            BY <6>2, <6>3, <6>4
        <5> QED
          <6>1. Grace \in Nat /\ Budget \in Nat
            BY <1>2, <1>5
          <6>2. CASE Readable(attempt[d].saved)
            <7>1. SavedTokens(attempt, d) = SavedTokens(attempt, d - 1) + attempt[d].saved.tokens
              BY <5>2, <6>2 DEF OneMorePaid
            <7> QED
              BY <5>2, <5>4, <5>5, <6>1, <6>2, <7>1
          <6>3. CASE ~Readable(attempt[d].saved)
            <7>1. SavedTokens(attempt, d) = SavedTokens(attempt, d - 1)
              BY <5>2, <6>3 DEF OneMorePaid
            <7> QED
              BY <5>2, <5>4, <5>5, <6>1, <7>1
          <6> QED
            BY <6>2, <6>3
      <4> QED
        BY <4>1, <4>2
    <3>3. Tokens(Saved) <= Budget + Grace /\ SavedTokens(attempt, d) <= Tokens(Saved)
      BY <1>2, <1>5, <3>1, <3>2
    <3> QED
      BY <1>0, <1>5, <2>2, <3>3 DEF AttemptsInBudget, IsResumed, IsFresh
  <2> QED
    BY <2>3, <2>4, <2>6, <2>7
<1>11. ProcessIsRight
  BY <1>7, <1>8, <1>9, <1>10 DEF ProcessIsRight
<1> QED
  BY <1>6, <1>11, ProcessKeeps

LEMMA LastAppended ==
    ASSUME NEW S, NEW known \in Seq(S), NEW a \in S
    PROVE  Append(known, a) # <<>> /\ Last(Append(known, a)) = a
<1> PICK N \in Nat : N = Len(known)
  BY LenProperties
<1> PICK t \in Seq(S) : t = Append(known, a)
  BY AppendProperties
<1>1. Len(t) = N + 1 /\ t[N + 1] = a
  BY AppendProperties
<1>2. Len(<<>>) = 0
  OBVIOUS
<1>3. t # <<>>
  BY <1>1, <1>2
<1> QED
  BY <1>1, <1>3 DEF Last

LEMMA LastJudged ==
    ASSUME NEW known \in Seq(JudgedAttempts), known # <<>>
    PROVE  Len(known) \in 1..Len(known) /\ Last(known) = known[Len(known)] /\ Last(known) \in JudgedAttempts
<1>1. Len(known) \in Nat /\ Len(known) # 0
  BY LenProperties, EmptySeq
<1>2. Len(known) \in 1..Len(known)
  BY <1>1
<1> QED
  BY <1>2, ElementOfSeq DEF Last

\* The verdict makes sense of the agent's success.
LEMMA JudgedIsSound ==
    ASSUME AttemptsInv, pc = "judging", NEW verdict \in Verdicts
    PROVE  /\ JudgedAs(Agent.summary, verdict) \in JudgedAttempts
           /\ JudgedAs(Agent.summary, verdict).number = number
           /\ JudgedAs(Agent.summary, verdict).tokens = attempt[number].spent
           /\ Sound(attempt, kind, resumes, JudgedAs(Agent.summary, verdict))
           /\ IsCurrent(attempt, tree, unsaved, JudgedAs(Agent.summary, verdict))
<1> PICK stop : stop = Agent.summary
  OBVIOUS
<1> PICK a : a = JudgedAs(stop, verdict)
  OBVIOUS
<1>1. /\ stop \in {"success", "failed"} /\ number \in Attempts /\ attempt[number].dir /\ HeldPlaces(attempt)
      /\ kind \in {"standard", "unscored", "challenge"}
      /\ kind = "challenge" /\ course = "standard" => resumes > 0 \/ attempt[number].place # Sandbox
  BY DEF AttemptsInv, AttemptGoing, InAttempt, Agent, AttemptTypes, Kinds
<1>2. verdict \in {"passed", "failed", "none"} /\ (verdict = "none" <=> course = "standard" /\ kind # "standard")
  BY DEF Verdicts
<1>3. /\ a \in JudgedAttempts /\ a.number = number /\ a.stop = stop /\ a.verdict = verdict
      /\ a.place = attempt[number].place /\ a.edit = tree[attempt[number].place] /\ a.tokens = attempt[number].spent
  BY <1>1, <1>2, JudgedAttempt
<1>4. IsCurrent(attempt, tree, unsaved, a)
  BY <1>3 DEF IsCurrent
<1>5. a.place \in {number, Sandbox}
  BY <1>1, <1>3 DEF HeldPlaces
<1>6. AttemptPassed(a) => a.verdict = "passed" \/ (kind = "unscored" /\ a.stop = "success") \/ (kind = "challenge" /\ (a.place # Sandbox \/ resumes > 0))
  BY <1>1, <1>2, <1>3 DEF AttemptPassed
<1>7. Sound(attempt, kind, resumes, a)
  BY <1>1, <1>3, <1>5, <1>6 DEF Sound
<1> QED
  BY <1>3, <1>4, <1>7

LEMMA JudgeFreshKeeps ==
    ASSUME AttemptsInv, NEW verdict \in Verdicts, Judge(verdict), resumed # number
    PROVE  AttemptsInv'
<1> PICK a : a = JudgedAs(Agent.summary, verdict)
  OBVIOUS
<1>0. /\ pc = "judging" /\ pc' = "saving" /\ attempts' = Append(attempts, a) /\ number' = number
      /\ UNCHANGED <<kind, limit, manifest, attempt, tree, report, course, resumed, asked, watchdog>>
      /\ UNCHANGED <<edits, reran, unsaved, dirty, resumes>>
  BY DEF Judge, diskVariables
<1>1. AttemptTypes /\ AllSound(attempt, kind, resumes, attempts) /\ watchdog = "watching"
  BY <1>0 DEF AttemptsInv, AttemptsSound, AttemptGoing
<1>2. /\ a \in JudgedAttempts /\ a.number = number /\ a.tokens = attempt[number].spent
      /\ Sound(attempt, kind, resumes, a) /\ IsCurrent(attempt, tree, unsaved, a)
  BY <1>0, JudgedIsSound
<1>3. /\ attempts \in Seq(JudgedAttempts) /\ resumes \in Nat /\ attempt \in [Attempts -> AttemptRecords]
      /\ manifest \in {NoFile, Torn, "written"} /\ asked \in BOOLEAN
      /\ Grace \in Nat /\ MaxBill \in Nat /\ MaxBill <= Grace /\ Grace' = Grace
  BY <1>0, <1>1, GraceMore DEF AttemptTypes
<1>4. number \in Attempts /\ attempt[number].dir /\ dirty /\ resumed <= number
  BY <1>0 DEF AttemptsInv, AttemptGoing, InAttempt
<1>5. MadeOf(attempts', attempts, a)
  BY <1>0, <1>2, <1>3, AppendMade
<1>6. attempts' \in Seq(JudgedAttempts)
  BY <1>5 DEF MadeOf
<1>7. ProcessMoves
  <2>1. ReportStays /\ resumes' \in {resumes, resumes + 1}
    BY <1>0 DEF ReportStays
  <2>2. number' \in 1..(MaxAttempts + 1) /\ resumed' \in 0..MaxAttempts
    BY <1>0, <1>1 DEF AttemptTypes
  <2> QED
    BY <1>0, <1>1, <1>3, <1>6, <2>1, <2>2 DEF ProcessMoves
<1>8. AttemptGoing'
  <2>1. attempts' # <<>> /\ Last(attempts') = a
    BY <1>0, <1>2, <1>3, LastAppended
  <2> QED
    BY <1>0, <1>1, <1>2, <1>4, <2>1 DEF AttemptGoing, InAttempt
<1>9. AllSound(attempt, kind, resumes', attempts')
  BY <1>0, <1>1, <1>2, <1>5, MadeSound
<1>10. ASSUME ~reran PROVE InARowOfAttempts' /\ AttemptsOrdered' /\ AttemptsCurrent' /\ AttemptsInBudget'
  <2>1. FirstRun
    BY <1>10 DEF AttemptsInv
  <2>2. InARowOfAttempts'
    BY <1>0, <2>1 DEF FirstRun, InARowOfAttempts, InAttempt
  <2>3. AttemptsOrdered'
    <3>1. Ordered(attempts) /\ Before(attempts, number)
      BY <1>0, <2>1 DEF FirstRun, AttemptsOrdered
    <3>2. Ordered(attempts') /\ Before(attempts', number + 1)
      BY <1>0, <1>2, <1>3, <3>1, AppendOrdered
    <3> QED
      BY <1>0, <3>2 DEF AttemptsOrdered
  <2>4. AttemptsCurrent'
    <3>1. AllCurrent(attempt, tree, unsaved, attempts) /\ HeldCurrent(attempt, tree, unsaved, resumed) /\ ~Readable(attempt[number].saved)
      BY <1>0, <1>1, <2>1 DEF FirstRun, AttemptsCurrent
    <3>2. AllCurrent(attempt, tree, unsaved, attempts')
      BY <1>2, <1>5, <3>1, MadeCurrent
    <3> QED
      BY <1>0, <1>1, <3>1, <3>2 DEF AttemptsCurrent
  <2>5. AttemptsInBudget'
    <3>1. /\ attempt[number].spent <= attempt[number].allowed + MaxBill
          /\ attempt[number].allowed + Tokens(attempts) <= Budget
          /\ SavedTokens(attempt, number - 1) <= Tokens(attempts)
      BY <1>0, <2>1 DEF FirstRun, AttemptsInBudget, IsFresh
    <3>2. Tokens(attempts') = Tokens(attempts) + attempt[number].spent
      <4>1. OneMoreTotal(attempts, a)
        BY <1>2, <1>3, TotalAppended
      <4> QED
        BY <1>0, <1>2, <4>1 DEF OneMoreTotal
    <3>3. /\ attempt[number].spent \in Nat /\ attempt[number].allowed \in Nat /\ Tokens(attempts) \in Nat /\ Budget \in Nat
          /\ SavedTokens(attempt, number - 1) \in Nat
      <4>1. number - 1 \in 0..MaxAttempts
        BY <1>4, AttemptsAssumption DEF Attempts
      <4>2. SavedTokens(attempt, number - 1) \in Nat
        BY <4>1, AttemptFacts, SavedTokensType
      <4>3. attempt[number] \in AttemptRecords
        BY <1>3, <1>4
      <4> QED
        BY <4>2, <4>3, AttemptFacts, AttemptsAssumption DEF AttemptRecords
    <3>4. Tokens(attempts') <= Budget + Grace /\ SavedTokens(attempt, number - 1) + attempt[number].spent <= Tokens(attempts')
      BY SMTT(30), <1>3, <3>1, <3>2, <3>3
    <3> QED
      BY <1>0, <1>3, <3>1, <3>4 DEF AttemptsInBudget, IsResumed, IsFresh
  <2> QED
    BY <2>2, <2>3, <2>4, <2>5
<1>11. ProcessIsRight
  BY <1>0, <1>8, <1>9, <1>10 DEF ProcessIsRight
<1> QED
  BY <1>7, <1>11, ProcessKeeps

LEMMA JudgeResumedKeeps ==
    ASSUME AttemptsInv, NEW verdict \in Verdicts, Judge(verdict), resumed = number
    PROVE  AttemptsInv'
<1> PICK a : a = JudgedAs(Agent.summary, verdict)
  OBVIOUS
<1>0. /\ pc = "judging" /\ pc' = "next" /\ attempts' = Replace(a) /\ number' = number + 1
      /\ UNCHANGED <<kind, limit, manifest, attempt, tree, report, course, resumed, asked, watchdog>>
      /\ UNCHANGED <<edits, reran, unsaved, dirty, resumes>>
  BY DEF Judge, diskVariables
<1>1. AttemptTypes /\ HeldSound(attempt, kind, resumes) /\ watchdog = "watching"
  BY <1>0 DEF AttemptsInv, AttemptsSound, AttemptGoing
<1>2. /\ a \in JudgedAttempts /\ a.number = number /\ a.tokens = attempt[number].spent
      /\ Sound(attempt, kind, resumes, a) /\ IsCurrent(attempt, tree, unsaved, a)
  BY <1>0, JudgedIsSound
<1>3. /\ resumes \in Nat /\ attempt \in [Attempts -> AttemptRecords] /\ manifest \in {NoFile, Torn, "written"} /\ asked \in BOOLEAN
      /\ Grace \in Nat /\ Grace' = Grace
  BY <1>0, <1>1, GraceMore DEF AttemptTypes
<1>4. number \in Attempts /\ attempt[number].dir
  BY <1>0 DEF AttemptsInv, AttemptGoing, InAttempt
<1>5. /\ MaxAttempts \in Nat \ {0} /\ Saved \in Seq(JudgedAttempts) /\ SavedGood(attempt) /\ Budget \in Nat
      /\ Saved = SavedUpTo(attempt)[MaxAttempts]
  BY AttemptFacts
<1>6. MadeOf(attempts', Saved, a)
  BY <1>0, <1>2, <1>5, ReplaceMade
<1>7. attempts' \in Seq(JudgedAttempts)
  BY <1>6 DEF MadeOf
<1>8. ProcessMoves
  <2>1. ReportStays /\ resumes' \in {resumes, resumes + 1}
    BY <1>0 DEF ReportStays
  <2>2. number' \in 1..(MaxAttempts + 1) /\ resumed' \in 0..MaxAttempts
    BY <1>0, <1>1, <1>4, <1>5 DEF AttemptTypes, Attempts
  <2> QED
    BY <1>0, <1>1, <1>3, <1>7, <2>1, <2>2 DEF ProcessMoves
<1>9. AttemptGoing'
  <2>1. number < number + 1 /\ number <= number + 1
    BY <1>4, <1>5 DEF Attempts
  <2> QED
    BY <1>0, <1>1, <2>1 DEF AttemptGoing, InAttempt
<1>10. AllBefore(attempt, number')
  BY <1>0, <1>4, PreviousDirectories
<1>11. AllSound(attempt, kind, resumes', attempts')
  <2>1. MaxAttempts \in 0..MaxAttempts
    BY <1>5
  <2>2. AllSound(attempt, kind, resumes, Saved)
    BY <1>1, <1>5, <2>1, SavedSound DEF HeldSound
  <2> QED
    BY <1>0, <1>2, <1>6, <2>2, MadeSound
<1>12. ASSUME ~reran PROVE InARowOfAttempts' /\ AttemptsOrdered' /\ AttemptsCurrent' /\ AttemptsInBudget'
  <2>0. FirstRun
    BY <1>12 DEF AttemptsInv
  <2>1. PrefixOf(attempt, number) /\ number \in 0..MaxAttempts /\ number - 1 \in 0..MaxAttempts /\ number \in 1..MaxAttempts
    BY <1>0, <1>4, <1>5, <2>0 DEF FirstRun, InARowOfAttempts, InAttempt, Attempts
  <2> PICK s : s = SavedUpTo(attempt)[number - 1]
    OBVIOUS
  <2>2. attempts' = Append(s, a)
    BY <1>0, <1>2, <1>4, <1>5, <2>1, NothingBeyond, ReplaceLast
  <2>3. IsListed(attempt, s, number - 1)
    BY <1>5, <2>1, SavedListed DEF SavedIsListed
  <2>4. (number - 1) + 1 = number /\ (number + 1) - 1 = number
    BY <1>4, <1>5 DEF Attempts
  <2>5. s \in Seq(JudgedAttempts) /\ Ordered(s) /\ Before(s, number)
    BY <2>3, <2>4 DEF IsListed
  <2>6. InARowOfAttempts'
    BY <1>0, <2>1, <2>4 DEF InARowOfAttempts, InAttempt
  <2>7. AttemptsOrdered'
    <3>1. Ordered(attempts') /\ Before(attempts', number + 1)
      BY <1>2, <2>2, <2>5, AppendOrdered
    <3> QED
      BY <1>0, <3>1 DEF AttemptsOrdered
  <2>8. HeldCurrent(attempt, tree, unsaved, resumed) /\ HeldInBudget(attempt, Grace)
    BY <2>0 DEF FirstRun, AttemptsCurrent
  <2>9. AttemptsCurrent'
    <3>1. \A i \in Attempts : i <= number - 1 => resumed # i
      BY <1>4, <1>5 DEF Attempts
    <3>2. \A i \in Attempts : i <= number - 1 /\ Readable(attempt[i].saved) => IsCurrent(attempt, tree, unsaved, attempt[i].saved)
      BY <2>8, <3>1 DEF HeldCurrent
    <3>3. AllCurrent(attempt, tree, unsaved, s)
      BY <1>5, <2>1, <3>2, SavedCurrent
    <3>4. MadeOf(attempts', s, a)
      BY <1>2, <2>2, <2>5, AppendMade
    <3>5. AllCurrent(attempt, tree, unsaved, attempts')
      BY <1>2, <3>3, <3>4, MadeCurrent
    <3> QED
      BY <1>0, <1>1, <1>4, <1>5, <2>4, <2>8, <3>5 DEF AttemptsCurrent, Attempts
  <2>10. AttemptsInBudget'
    <3>1. /\ attempt[number].spent <= attempt[number].allowed + Grace
          /\ attempt[number].allowed + SavedTokens(attempt, number - 1) <= Budget
          /\ Readable(attempt[number].saved) => attempt[number].saved.tokens <= attempt[number].spent
      BY <1>4, <2>8 DEF HeldInBudget
    <3>2. Tokens(attempts') = SavedTokens(attempt, number - 1) + attempt[number].spent
      <4>1. OneMoreTotal(s, a)
        BY <1>2, <2>5, TotalAppended
      <4> QED
        BY <1>2, <2>2, <4>1 DEF OneMoreTotal, SavedTokens
    <3>3. OneMorePaid(attempt, number)
      BY <1>5, <2>1, SavedTokensNext
    <3>4. attempt[number].spent \in Nat /\ attempt[number].allowed \in Nat /\ SavedTokens(attempt, number - 1) \in Nat
      <4>1. attempt[number] \in AttemptRecords
        BY <1>3, <1>4
      <4> QED
        BY <1>5, <2>1, <4>1, SavedTokensType, AttemptsAssumption DEF AttemptRecords
    <3>5. SavedTokens(attempt, number) <= Tokens(attempts')
      <4>1. Readable(attempt[number].saved) => attempt[number].saved.tokens \in Nat
        <5>1. Readable(attempt[number].saved) => attempt[number].saved \in JudgedAttempts
          BY <1>3, <1>4, SavedIsJudged
        <5>2. \A b \in JudgedAttempts : b.tokens \in Nat
          BY AttemptsAssumption DEF JudgedAttempts
        <5> QED
          BY <5>1, <5>2
      <4> QED
        BY <3>1, <3>2, <3>3, <3>4, <4>1 DEF OneMorePaid
    <3>6. Tokens(attempts') <= Budget + Grace
      BY <1>3, <1>5, <3>1, <3>2, <3>4
    <3> QED
      BY <1>0, <1>3, <2>4, <3>5, <3>6 DEF AttemptsInBudget, IsResumed, IsFresh
  <2> QED
    BY <2>6, <2>7, <2>9, <2>10
<1>13. ProcessIsRight
  BY <1>9, <1>10, <1>11, <1>12 DEF ProcessIsRight
<1> QED
  BY <1>8, <1>13, ProcessKeeps

LEMMA WriteReportKeeps == ASSUME AttemptsInv, WriteReport PROVE AttemptsInv'
<1>0. /\ pc = "reporting" /\ report' = Report(attempts, FALSE) /\ dirty' = FALSE
      /\ (pc' = "final" /\ number' = number) \/ (pc' = "next" /\ number' = number + 1)
      /\ UNCHANGED <<kind, limit, manifest, attempt, tree, course, attempts, resumed, asked, watchdog>>
      /\ UNCHANGED <<edits, reran, unsaved, resumes>>
  BY DEF WriteReport
<1>1. AttemptTypes /\ AllSound(attempt, kind, resumes, attempts) /\ watchdog = "watching"
  BY <1>0 DEF AttemptsInv, AttemptsSound, AttemptGoing
<1>2. /\ number \in Attempts /\ attempt[number].dir /\ attempts # <<>> /\ Last(attempts).number = number
      /\ Last(attempts).tokens = attempt[number].spent /\ resumed # number /\ resumed <= number
      /\ attempt[number].saved = Last(attempts)
  BY <1>0 DEF AttemptsInv, AttemptGoing, InAttempt
<1>3. /\ attempts \in Seq(JudgedAttempts) /\ resumes \in Nat /\ attempt \in [Attempts -> AttemptRecords]
      /\ manifest \in {NoFile, Torn, "written"} /\ asked \in BOOLEAN /\ resumed \in 0..MaxAttempts
  BY <1>1 DEF AttemptTypes
<1>4. MaxAttempts \in Nat \ {0} /\ SavedGood(attempt)
  BY AttemptFacts
<1>5. ReportComes
  <2>1. DirsGrow(attempt, attempt') /\ unsaved \subseteq unsaved'
    BY <1>0 DEF DirsGrow
  <2>2. MayReport(attempts)
    BY <1>0, <2>1, KeptMayBeReported
  <2> QED
    BY <1>0, <2>2 DEF ReportComes
<1>6. ProcessMoves
  <2>1. resumes' \in {resumes, resumes + 1}
    BY <1>0
  <2>2. number' \in 1..(MaxAttempts + 1)
    BY <1>0, <1>2, <1>4 DEF Attempts
  <2> QED
    BY <1>0, <1>1, <1>3, <1>5, <2>1, <2>2 DEF ProcessMoves
<1>7. AttemptGoing'
  <2>1. resumed < number + 1 /\ resumed <= number + 1
    BY <1>2, <1>3, <1>4 DEF Attempts
  <2> QED
    BY <1>0, <1>1, <1>2, <2>1 DEF AttemptGoing, InAttempt
<1>8. pc' = "next" => AllBefore(attempt, number')
  BY <1>0, <1>2, PreviousDirectories
<1>9. AllSound(attempt, kind, resumes', attempts')
  BY <1>0, <1>1
<1>10. ASSUME ~reran PROVE InARowOfAttempts' /\ AttemptsOrdered' /\ AttemptsCurrent' /\ AttemptsInBudget'
  <2>0. FirstRun
    BY <1>10 DEF AttemptsInv
  <2>1. (number + 1) - 1 = number
    BY <1>2, <1>4 DEF Attempts
  <2>2. InARowOfAttempts'
    BY <1>0, <2>0, <2>1 DEF FirstRun, InARowOfAttempts, InAttempt
  <2>3. AttemptsOrdered'
    BY <1>0, <2>0 DEF FirstRun, AttemptsOrdered
  <2>4. AttemptsCurrent'
    BY <1>0, <1>1, <1>2, <1>4, <2>0 DEF FirstRun, AttemptsCurrent, Attempts
  <2>5. AttemptsInBudget'
    <3>1. /\ Tokens(attempts) <= Budget + Grace
          /\ SavedTokens(attempt, number - 1) + attempt[number].spent <= Tokens(attempts)
      BY <1>0, <2>0 DEF FirstRun, AttemptsInBudget
    <3>2. number \in 1..MaxAttempts /\ number - 1 \in 0..MaxAttempts
      BY <1>2, <1>4 DEF Attempts
    <3>3. OneMorePaid(attempt, number) /\ SavedTokens(attempt, number - 1) \in Nat
      BY <1>4, <3>2, SavedTokensNext, SavedTokensType
    <3>4. attempt[number].spent \in Nat /\ Tokens(attempts) \in Nat
      BY <1>2, <1>3, AttemptFacts, AttemptsAssumption DEF AttemptRecords
    <3>5. SavedTokens(attempt, number) <= Tokens(attempts)
      BY <1>2, <3>1, <3>3, <3>4 DEF OneMorePaid
    <3>6. Grace' = Grace
      BY <1>0 DEF Grace
    <3> QED
      BY <1>0, <2>1, <3>1, <3>5, <3>6 DEF AttemptsInBudget, IsResumed, IsFresh
  <2> QED
    BY <2>2, <2>3, <2>4, <2>5
<1>11. ProcessIsRight
  BY <1>7, <1>8, <1>9, <1>10 DEF ProcessIsRight
<1> QED
  BY <1>6, <1>11, ProcessKeeps

\* An attempt is saved.
LEMMA SavedKeeps ==
    ASSUME AttemptsInv, InAttempt, NEW a \in JudgedAttempts, SavedAs(a), a.number = number,
           a.tokens <= attempt[number].spent, Sound(attempt, kind, resumes, a),
           ~reran => IsCurrent(attempt, tree, unsaved, a),
           UNCHANGED <<kind, tree, report, number, attempts, resumed, reran, unsaved, dirty, resumes>>
    PROVE  /\ ReportKept /\ AttemptsSound' /\ HeldPlaces(attempt') /\ DirsInARow(attempt')
           /\ ~reran => /\ PrefixOf(attempt', number) /\ AllCurrent(attempt', tree, unsaved, attempts)
                        /\ HeldCurrent(attempt', tree, unsaved, resumed) /\ HeldInBudget(attempt', Grace)
                        /\ SavedTokens(attempt', number - 1) = SavedTokens(attempt, number - 1)
<1>1. /\ AllSound(attempt, kind, resumes, attempts) /\ HeldSound(attempt, kind, resumes) /\ DirsInARow(attempt)
      /\ attempts \in Seq(JudgedAttempts) /\ resumes \in Nat /\ attempt \in [Attempts -> AttemptRecords]
  BY DEF AttemptsInv, AttemptTypes, AttemptsSound
<1>2. /\ attempt' \in [Attempts -> AttemptRecords] /\ DirsAlike(attempt, attempt') /\ HeldPlaces(attempt')
  BY SavedFile DEF SavedAs
<1>3. (\A i \in Attempts : i # number => attempt'[i] = attempt[i]) /\ attempt'[number].saved = a
  BY DEF SavedAs
<1>4. CountDirs(attempt') = CountDirs(attempt) /\ DirsGrow(attempt, attempt') /\ DirsInARow(attempt')
  BY <1>1, <1>2, AlikeDirs
<1>5. ReportKept
  <2>1. ReportStays /\ unsaved \subseteq unsaved' /\ resumes' \in {resumes, resumes + 1}
    BY DEF ReportStays
  <2> QED
    BY <1>4, <2>1, ReportHolds
<1>6. AllSound(attempt', kind, resumes, attempts)
  BY <1>1, <1>4, AllSoundMore
<1>7. HeldSound(attempt', kind, resumes)
  <2> SUFFICES ASSUME NEW i \in Attempts, Readable(attempt'[i].saved)
               PROVE  attempt'[i].saved.number = i /\ Sound(attempt', kind, resumes, attempt'[i].saved)
    BY DEF HeldSound
  <2>1. CASE i = number
    <3>1. Sound(attempt', kind, resumes, a)
      BY <1>1, <1>4, SoundMore
    <3> QED
      BY <1>3, <2>1, <3>1
  <2>2. CASE i # number
    <3>1. attempt'[i].saved = attempt[i].saved /\ Readable(attempt[i].saved)
      BY <1>3, <2>2
    <3>2. attempt[i].saved \in JudgedAttempts
      BY <1>1, <3>1, SavedIsJudged
    <3>3. attempt[i].saved.number = i /\ Sound(attempt, kind, resumes, attempt[i].saved)
      BY <1>1, <3>1 DEF HeldSound
    <3>4. Sound(attempt', kind, resumes, attempt[i].saved)
      BY <1>1, <1>4, <3>2, <3>3, SoundMore
    <3> QED
      BY <3>1, <3>3, <3>4
  <2> QED
    BY <2>1, <2>2
<1>8. AttemptsSound'
  BY <1>5, <1>6, <1>7 DEF AttemptsSound, ReportKept
<1>9. ASSUME ~reran
      PROVE  /\ PrefixOf(attempt', number) /\ AllCurrent(attempt', tree, unsaved, attempts)
             /\ HeldCurrent(attempt', tree, unsaved, resumed) /\ HeldInBudget(attempt', Grace)
             /\ SavedTokens(attempt', number - 1) = SavedTokens(attempt, number - 1)
  <2>1. /\ PrefixOf(attempt, number) /\ AllCurrent(attempt, tree, unsaved, attempts)
        /\ HeldCurrent(attempt, tree, unsaved, resumed)
    BY <1>9 DEF AttemptsInv, FirstRun, InARowOfAttempts, AttemptsCurrent
  <2>2. PrefixOf(attempt', number)
    BY <1>2, <2>1, AlikeDirs
  <2>3. CurrentKept(attempt, attempt', unsaved, unsaved)
    BY <1>4, GrowCounts DEF CurrentKept
  <2>4. AllCurrent(attempt', tree, unsaved, attempts)
    BY <1>1, <2>1, <2>3, AllCurrentMore
  <2>5. HeldCurrent(attempt', tree, unsaved, resumed)
    <3> SUFFICES ASSUME NEW i \in Attempts, Readable(attempt'[i].saved)
                 PROVE  IsCurrent(attempt', tree, unsaved, attempt'[i].saved) \/ resumed = i
      BY DEF HeldCurrent
    <3>1. CASE i = number
      <4>1. IsCurrent(attempt', tree, unsaved, a)
        BY <1>9, <2>3, CurrentMore
      <4> QED
        BY <1>3, <3>1, <4>1
    <3>2. CASE i # number
      <4>1. attempt'[i].saved = attempt[i].saved /\ Readable(attempt[i].saved)
        BY <1>3, <3>2
      <4>2. attempt[i].saved \in JudgedAttempts
        BY <1>1, <4>1, SavedIsJudged
      <4>3. IsCurrent(attempt, tree, unsaved, attempt[i].saved) \/ resumed = i
        BY <2>1, <4>1 DEF HeldCurrent
      <4> QED
        BY <2>3, <4>1, <4>2, <4>3, CurrentMore
    <3> QED
      BY <3>1, <3>2
  <2>6. HeldInBudget(attempt', Grace) /\ SavedTokens(attempt', number - 1) = SavedTokens(attempt, number - 1)
    BY <1>9, <2>1, SavedInBudget
  <2> QED
    BY <2>2, <2>4, <2>5, <2>6
<1> QED
  BY <1>4, <1>2, <1>5, <1>8, <1>9

LEMMA SaveAttemptKeeps == ASSUME AttemptsInv, SaveAttempt PROVE AttemptsInv'
<1> PICK a : a = Last(attempts)
  OBVIOUS
<1>0. /\ pc = "saving" /\ pc' = "reporting" /\ attempt' = [attempt EXCEPT ![number].saved = a]
      /\ UNCHANGED <<kind, limit, manifest, tree, report, course, number, attempts, resumed, asked, watchdog>>
      /\ UNCHANGED <<edits, reran, unsaved, dirty, resumes>>
  BY DEF SaveAttempt
<1>1. AttemptTypes /\ AllSound(attempt, kind, resumes, attempts)
  BY DEF AttemptsInv, AttemptsSound
<1>2. /\ number \in Attempts /\ attempt[number].dir /\ dirty /\ attempts # <<>> /\ a.number = number
      /\ a.tokens = attempt[number].spent /\ resumed # number /\ resumed <= number /\ watchdog = "watching"
      /\ InAttempt
  BY <1>0 DEF AttemptsInv, AttemptGoing, InAttempt
<1>3. /\ attempts \in Seq(JudgedAttempts) /\ resumes \in Nat /\ attempt \in [Attempts -> AttemptRecords]
  BY <1>1 DEF AttemptTypes
<1>4. Len(attempts) \in 1..Len(attempts) /\ a = attempts[Len(attempts)] /\ a \in JudgedAttempts
  BY <1>2, <1>3, LastJudged
<1>5. SavedAs(a)
  <2>1. Alike(attempt, attempt)
    BY DEF Alike
  <2> QED
    BY <1>0, <1>2, <1>3, <1>4, <2>1, SavedInto
<1>6. /\ attempt' \in [Attempts -> AttemptRecords] /\ attempt'[number].dir
      /\ attempt'[number].saved = a /\ attempt'[number].allowed = attempt[number].allowed
      /\ attempt'[number].spent = attempt[number].spent
  BY <1>5 DEF SavedAs
<1>7. a.tokens <= attempt[number].spent
  BY <1>2, <1>3, AttemptsAssumption DEF AttemptRecords
<1>8. Sound(attempt, kind, resumes, a)
  BY <1>1, <1>4 DEF AllSound
<1>9. ~reran => IsCurrent(attempt, tree, unsaved, a)
  BY <1>4 DEF AttemptsInv, FirstRun, AttemptsCurrent, AllCurrent
<1>10. /\ ReportKept /\ AttemptsSound' /\ HeldPlaces(attempt') /\ DirsInARow(attempt')
       /\ ~reran => /\ PrefixOf(attempt', number) /\ AllCurrent(attempt', tree, unsaved, attempts)
                    /\ HeldCurrent(attempt', tree, unsaved, resumed) /\ HeldInBudget(attempt', Grace)
                    /\ SavedTokens(attempt', number - 1) = SavedTokens(attempt, number - 1)
  BY <1>0, <1>2, <1>4, <1>5, <1>7, <1>8, <1>9, SavedKeeps
<1>11. AttemptTypes'
  <2>1. ReportTyped(report')
    BY <1>10 DEF ReportKept
  <2> QED
    BY <1>0, <1>1, <1>6, <2>1 DEF AttemptTypes
<1>12. AttemptGoing'
  BY <1>0, <1>2, <1>6 DEF AttemptGoing, InAttempt
<1>13. ASSUME ~reran' PROVE FirstRun'
  <2>0. FirstRun /\ ~reran
    BY <1>0, <1>13 DEF AttemptsInv
  <2>1. InARowOfAttempts'
    BY <1>0, <1>10, <2>0 DEF InARowOfAttempts, InAttempt
  <2>2. AttemptsOrdered'
    BY <1>0, <2>0 DEF FirstRun, AttemptsOrdered
  <2>3. AttemptsCurrent'
    BY <1>0, <1>2, <1>10, <2>0 DEF AttemptsCurrent
  <2>4. Grace' = Grace
    BY <1>0 DEF Grace
  <2>5. AttemptsInBudget'
    BY <1>0, <1>6, <1>10, <2>0, <2>4 DEF FirstRun, AttemptsInBudget, IsResumed, IsFresh
  <2>6. HeldInBudget(attempt', Grace') /\ ReportFirst'
    BY <1>10, <1>13, <2>0, <2>4 DEF ReportKept
  <2> QED
    BY <2>1, <2>2, <2>3, <2>5, <2>6 DEF FirstRun
<1> QED
  BY <1>0, <1>10, <1>11, <1>12, <1>13 DEF AttemptsInv

\* The watchdog saves the attempt that it gives up.
LEMMA WatchdogSavesKeeps == ASSUME AttemptsInv, WatchdogSaves PROVE AttemptsInv'
<1> PICK a : a = Stalled
  OBVIOUS
<1>0. /\ watchdog = "saving" /\ watchdog' = "reporting" /\ attempt' = [attempt EXCEPT ![number].saved = a]
      /\ UNCHANGED <<kind, limit, manifest, tree, report, pc, course, number, attempts, resumed, asked>>
      /\ UNCHANGED <<edits, reran, unsaved, dirty, resumes>>
  BY DEF WatchdogSaves
<1>1. AttemptTypes /\ AttemptGoing
  BY DEF AttemptsInv
<1>2. /\ number \in Attempts /\ attempt[number].dir /\ dirty /\ resumed # number /\ InAttempt
      /\ pc \in {"agent", "waiting"}
  BY <1>0, <1>1 DEF AttemptGoing, InAttempt
<1>3. /\ resumes \in Nat /\ attempt \in [Attempts -> AttemptRecords] /\ attempt[number].spent \in Nat
  BY <1>1, <1>2 DEF AttemptTypes, AttemptRecords
<1>4. /\ a \in JudgedAttempts /\ a.number = number /\ a.tokens = 0 /\ Sound(attempt, kind, resumes, a)
      /\ ~reran => IsCurrent(attempt, tree, unsaved, a)
  BY <1>0, StalledFacts
<1>5. SavedAs(a)
  <2>1. Alike(attempt, attempt)
    BY DEF Alike
  <2> QED
    BY <1>0, <1>2, <1>3, <1>4, <2>1, SavedInto
<1>6. /\ attempt' \in [Attempts -> AttemptRecords] /\ attempt'[number].dir
      /\ attempt'[number].saved = a /\ attempt'[number].allowed = attempt[number].allowed
      /\ attempt'[number].spent = attempt[number].spent /\ attempt'[number].place = attempt[number].place
  BY <1>5 DEF SavedAs
<1>7. a.tokens <= attempt[number].spent
  BY <1>3, <1>4
<1>8. /\ ReportKept /\ AttemptsSound' /\ HeldPlaces(attempt') /\ DirsInARow(attempt')
      /\ ~reran => /\ PrefixOf(attempt', number) /\ AllCurrent(attempt', tree, unsaved, attempts)
                   /\ HeldCurrent(attempt', tree, unsaved, resumed) /\ HeldInBudget(attempt', Grace)
                   /\ SavedTokens(attempt', number - 1) = SavedTokens(attempt, number - 1)
  BY <1>0, <1>2, <1>4, <1>5, <1>7, SavedKeeps
<1>9. AttemptTypes'
  <2>1. ReportTyped(report')
    BY <1>8 DEF ReportKept
  <2> QED
    BY <1>0, <1>1, <1>6, <2>1 DEF AttemptTypes
<1>10. AttemptGoing'
  BY <1>0, <1>1, <1>2, <1>6 DEF AttemptGoing, InAttempt
<1>11. ASSUME ~reran' PROVE FirstRun'
  <2>0. FirstRun /\ ~reran
    BY <1>0, <1>11 DEF AttemptsInv
  <2>1. InARowOfAttempts'
    BY <1>0, <1>2, <1>8, <2>0 DEF InARowOfAttempts, InAttempt
  <2>2. AttemptsOrdered'
    BY <1>0, <2>0 DEF FirstRun, AttemptsOrdered
  <2>3. AttemptsCurrent'
    <3>1. AttemptsCurrent
      BY <2>0 DEF FirstRun
    <3>2. Beginning(attempt', tree', number') = Beginning(attempt, tree, number)
      BY <1>0, <1>6 DEF Beginning
    <3> QED
      BY <1>0, <1>2, <1>6, <1>8, <2>0, <3>1, <3>2 DEF AttemptsCurrent, Beginning
  <2>4. Grace' = Grace
    BY <1>0 DEF Grace
  <2>5. AttemptsInBudget'
    BY <1>0, <1>2, <1>6, <1>8, <2>0, <2>4 DEF FirstRun, AttemptsInBudget, IsResumed, IsFresh
  <2>6. HeldInBudget(attempt', Grace') /\ ReportFirst'
    BY <1>8, <1>11, <2>0, <2>4 DEF ReportKept
  <2> QED
    BY <2>1, <2>2, <2>3, <2>5, <2>6 DEF FirstRun
<1> QED
  BY <1>0, <1>2, <1>8, <1>9, <1>10, <1>11 DEF AttemptsInv

\* The watchdog finds that nothing was asked, or the agent's thread that its watchdog gave it up.
LEMMA WatchingKeeps ==
    ASSUME AttemptsInv, pc = "agent",
           UNCHANGED <<kind, limit, manifest, attempt, tree, report, course, number, attempts, resumed, asked>>,
           UNCHANGED <<edits, reran, unsaved, dirty, resumes>>,
           \/ ~asked /\ resumed # number /\ watchdog = "watching" /\ pc' = "agent" /\ watchdog' = "saving"
           \/ watchdog # "watching" /\ pc' = "waiting" /\ watchdog' = watchdog
    PROVE  AttemptsInv'
<1>1. Grace' = Grace
  BY DEF Grace
<1>2. AttemptTypes' /\ AttemptsSound'
  BY <1>1 DEF AttemptsInv, AttemptTypes, AttemptsSound
<1>3. AttemptGoing'
  BY <1>1 DEF AttemptsInv, AttemptGoing, InAttempt
<1>4. ASSUME ~reran' PROVE FirstRun'
  <2>0. FirstRun
    BY <1>4 DEF AttemptsInv
  <2>1. InARowOfAttempts' /\ AttemptsOrdered' /\ ReportFirst'
    BY <1>1, <2>0 DEF FirstRun, InARowOfAttempts, AttemptsOrdered, ReportFirst, InAttempt
  <2>2. AttemptsCurrent'
    BY <2>0 DEF FirstRun, AttemptsCurrent, Beginning
  <2>3. AttemptsInBudget' /\ HeldInBudget(attempt', Grace')
    BY <1>1, <2>0 DEF FirstRun, AttemptsInBudget, IsResumed, IsFresh
  <2> QED
    BY <2>1, <2>2, <2>3 DEF FirstRun
<1> QED
  BY <1>2, <1>3, <1>4 DEF AttemptsInv

LEMMA StallsKeeps == ASSUME AttemptsInv, Stalls PROVE AttemptsInv'
<1>1. UNCHANGED <<kind, limit, manifest, attempt, tree, report, pc, course, number, attempts, resumed, asked>>
  BY DEF Stalls, diskVariables
<1> QED
  BY <1>1, WatchingKeeps DEF Stalls

LEMMA AgentErrsLateKeeps == ASSUME AttemptsInv, AgentErrsLate PROVE AttemptsInv'
<1>1. UNCHANGED <<kind, limit, manifest, attempt, tree, report, course, number, attempts, resumed, asked>>
  BY DEF AgentErrsLate, diskVariables
<1> QED
  BY <1>1, WatchingKeeps DEF AgentErrsLate

\* While an attempt is under way, what is reported need not be current.
LEMMA ReportHoldsMeanwhile ==
    ASSUME AttemptsInv, UNCHANGED <<kind, reran, report, resumes>>, DirsGrow(attempt, attempt'), dirty'
    PROVE  ReportKept
<1>0. resumes \in Nat /\ ReportTyped(report)
  BY DEF AttemptsInv, AttemptTypes
<1>1. ASSUME Readable(report)
      PROVE  AllSound(attempt', kind', resumes', report.attempts)
  <2>1. report.attempts \in Seq(JudgedAttempts) /\ AllSound(attempt, kind, resumes, report.attempts)
    BY <1>0, <1>1 DEF ReportTyped, AttemptsInv, AttemptsSound
  <2> QED
    BY <1>0, <2>1, AllSoundMore
<1>2. ~reran' => ReportFirst'
  <2>1. Grace' = Grace
    BY DEF Grace
  <2> QED
    BY <2>1 DEF AttemptsInv, FirstRun, ReportFirst
<1> QED
  BY <1>0, <1>1, <1>2 DEF ReportKept

\* What is saved elsewhere, of those before, is what it was; and what is saved here.
SavedElsewhere(held, new, n) ==
    \A i \in Attempts : i # n => new[i].saved = held[i].saved /\ (Readable(held[i].saved) => i < n)

SavedHere(new, gone, again, n) ==
    Readable(new[n].saved) => again = n \/ (n \in gone /\ new[n].saved.number = n)

\* What is saved of those before stays current when this one works.
LEMMA HeldCurrentElsewhere ==
    ASSUME NEW held \in [Attempts -> AttemptRecords], NEW new, NEW trees, NEW other, NEW gone, NEW n \in Attempts,
           WorksAt(trees, other, n), CountDirs(held) \in Nat, CountDirs(held) <= n, CountDirs(new) = n,
           NEW what, NEW often, HeldSound(held, what, often), NEW again, HeldCurrent(held, trees, gone, again),
           SavedElsewhere(held, new, n), SavedHere(new, gone, again, n)
    PROVE  HeldCurrent(new, other, gone, again)
<1> SUFFICES ASSUME NEW i \in Attempts, Readable(new[i].saved)
             PROVE  IsCurrent(new, other, gone, new[i].saved) \/ again = i
  BY DEF HeldCurrent
<1>1. CASE i = n
  BY <1>1 DEF IsCurrent, SavedHere
<1>2. CASE i # n
  <2>1. new[i].saved = held[i].saved /\ Readable(held[i].saved) /\ i < n
    BY <1>2 DEF SavedElsewhere
  <2>2. held[i].saved \in JudgedAttempts /\ held[i].saved.number = i /\ Sound(held, what, often, held[i].saved)
    BY <2>1, SavedIsJudged DEF HeldSound
  <2>3. IsCurrent(held, trees, gone, held[i].saved) \/ again = i
    BY <2>1 DEF HeldCurrent
  <2> QED
    BY <2>1, <2>2, <2>3, CurrentElsewhere
<1> QED
  BY <1>1, <1>2

LEMMA AgentTurnKeeps == ASSUME AttemptsInv, AgentTurn PROVE AttemptsInv'
<1> PICK bill \in 0..MaxBill : attempt' = [attempt EXCEPT ![number].spent = @ + bill, ![number].checkpoint = "written"]
  BY DEF AgentTurn
<1> PICK gone : gone = IF watchdog = "watching" THEN unsaved ELSE unsaved \cup {number}
  OBVIOUS
<1>0. /\ pc = "agent" /\ pc' = "agent" /\ edits < MaxEdits /\ edits' = edits + 1 /\ asked' = TRUE
      /\ attempt[number].spent < attempt[number].allowed \/ (resumed = number /\ ~asked)
      /\ tree' = [tree EXCEPT ![attempt[number].place] = edits + 1]
      /\ attempt' = [attempt EXCEPT ![number].spent = @ + bill, ![number].checkpoint = "written"]
      /\ unsaved' = gone
      /\ UNCHANGED <<kind, limit, manifest, report, course, number, attempts, resumed, watchdog, reran, dirty, resumes>>
  BY DEF AgentTurn, Agent
<1>1. /\ AttemptTypes /\ AllSound(attempt, kind, resumes, attempts) /\ HeldSound(attempt, kind, resumes)
      /\ DirsInARow(attempt) /\ HeldPlaces(attempt) /\ AttemptGoing
  BY DEF AttemptsInv, AttemptsSound
<1>2. number \in Attempts /\ attempt[number].dir /\ dirty
  BY <1>0, <1>1 DEF AttemptGoing, InAttempt
<1>3. /\ attempts \in Seq(JudgedAttempts) /\ resumes \in Nat /\ attempt \in [Attempts -> AttemptRecords]
      /\ tree \in [Attempts \cup {Sandbox} -> 0..MaxEdits] /\ edits \in 0..MaxEdits /\ attempt[number] \in AttemptRecords
  BY <1>1, <1>2 DEF AttemptTypes
<1>4. /\ MaxAttempts \in Nat \ {0} /\ MaxEdits \in Nat /\ Budget \in Nat /\ SavedGood(attempt)
      /\ MaxBill \in Nat /\ Grace \in Nat /\ MaxBill <= Grace /\ Grace' = Grace /\ bill \in Nat /\ bill <= MaxBill
  <2>1. MaxBill \in Nat /\ Grace \in Nat /\ MaxBill <= Grace /\ Grace' = Grace
    BY <1>0, <1>3, GraceMore
  <2> QED
    BY <2>1, AttemptFacts
<1>5. /\ attempt[number].place \in {number, Sandbox}
      /\ attempt[number].spent \in Nat /\ attempt[number].allowed \in Nat
  BY <1>1, <1>2, <1>3, <1>4 DEF HeldPlaces, AttemptRecords
<1> PICK total : total = attempt[number].spent + bill
  OBVIOUS
<1> PICK record : record = [attempt[number] EXCEPT !.spent = total, !.checkpoint = "written"]
  OBVIOUS
<1>20. total \in Nat
  BY <1>4, <1>5
<1>21. attempt' = [attempt EXCEPT ![number] = record]
  BY <1>0, <1>2, <1>3
<1>22. /\ record.dir = attempt[number].dir /\ record.allowed = attempt[number].allowed
       /\ record.place = attempt[number].place /\ record.spent = total /\ record.saved = attempt[number].saved
  BY <1>3 DEF AttemptRecords
<1>6. attempt' \in [Attempts -> AttemptRecords]
  <2>1. record \in AttemptRecords
    BY <1>3, <1>20 DEF AttemptRecords
  <2> QED
    BY <1>2, <1>3, <1>21, <2>1
<1>7. \A i \in Attempts : i # number => attempt'[i] = attempt[i]
  BY <1>0, <1>3
<1>8. /\ attempt'[number].dir = attempt[number].dir /\ attempt'[number].allowed = attempt[number].allowed
      /\ attempt'[number].place = attempt[number].place /\ attempt'[number].spent = attempt[number].spent + bill
      /\ attempt'[number].saved = attempt[number].saved
  <2>1. attempt'[number] = record
    BY <1>2, <1>3, <1>21
  <2> QED
    BY <1>22, <2>1
<1>9. DirsAlike(attempt, attempt')
  BY <1>7, <1>8 DEF DirsAlike
<1>10. CountDirs(attempt') = CountDirs(attempt) /\ DirsGrow(attempt, attempt') /\ DirsInARow(attempt')
  BY <1>1, <1>9, AlikeDirs
<1>11. tree' \in [Attempts \cup {Sandbox} -> 0..MaxEdits] /\ WorksAt(tree, tree', number)
  <2>1. edits + 1 \in 0..MaxEdits
    BY <1>0, <1>3, <1>4
  <2>2. \A i \in Attempts : i # Sandbox
    BY DEF Attempts, Sandbox
  <2> QED
    BY <1>0, <1>2, <1>3, <1>5, <2>1, <2>2 DEF WorksAt
<1>12. ReportKept
  BY <1>0, <1>2, <1>10, ReportHoldsMeanwhile
<1>13. AttemptTypes'
  <2>1. ReportTyped(report')
    BY <1>12 DEF ReportKept
  <2>2. edits' \in 0..MaxEdits /\ unsaved' \subseteq Attempts
    BY <1>0, <1>1, <1>2, <1>3, <1>4 DEF AttemptTypes
  <2> QED
    BY <1>0, <1>1, <1>6, <1>11, <2>1, <2>2 DEF AttemptTypes
<1>14. AttemptGoing'
  BY <1>0, <1>1, <1>2, <1>8 DEF AttemptGoing, InAttempt
<1>15. HeldPlaces(attempt')
  BY <1>1, <1>2, <1>5, <1>7, <1>8 DEF HeldPlaces
<1>16. \A i \in Attempts : attempt'[i].saved = attempt[i].saved
  BY <1>7, <1>8
<1>17. AttemptsSound'
  <2>1. HeldSound(attempt', kind, resumes)
    <3>1. \A i \in Attempts : Readable(attempt'[i].saved) => attempt'[i].saved = attempt[i].saved
      BY <1>16
    <3>2. /\ resumes \in Nat /\ resumes <= resumes /\ attempt \in [Attempts -> AttemptRecords]
          /\ DirsGrow(attempt, attempt') /\ HeldSound(attempt, kind, resumes)
      BY <1>1, <1>3, <1>10
    <3> QED
      BY <3>1, <3>2, HeldSoundMore
  <2>2. AllSound(attempt', kind, resumes, attempts)
    BY <1>1, <1>3, <1>10, AllSoundMore
  <2> QED
    BY <1>0, <1>12, <2>1, <2>2 DEF AttemptsSound, ReportKept
<1>18. ASSUME ~reran' PROVE FirstRun'
  <2>0. FirstRun /\ ~reran
    BY <1>0, <1>18 DEF AttemptsInv
  <2>1. PrefixOf(attempt, number) /\ number \in 0..MaxAttempts /\ number - 1 \in 0..MaxAttempts
    BY <1>0, <1>2, <1>4, <2>0 DEF FirstRun, InARowOfAttempts, InAttempt, Attempts
  <2>2. InARowOfAttempts'
    <3>1. PrefixOf(attempt', number)
      BY <1>9, <2>1, AlikeDirs
    <3> QED
      BY <1>0, <3>1 DEF InARowOfAttempts, InAttempt
  <2>3. AttemptsOrdered'
    BY <1>0, <2>0 DEF FirstRun, AttemptsOrdered
  <2>4. AttemptsCurrent'
    <3>1. /\ AllCurrent(attempt, tree, unsaved, attempts) /\ HeldCurrent(attempt, tree, unsaved, resumed)
          /\ resumed # number /\ watchdog # "reporting" => ~Readable(attempt[number].saved)
      BY <1>0, <2>0 DEF FirstRun, AttemptsCurrent
    <3>6. CurrentKept(attempt, attempt, unsaved, gone) /\ DirsGrow(attempt, attempt)
      BY GrowCounts DEF CurrentKept, DirsGrow
    <3>7. AllCurrent(attempt, tree, gone, attempts) /\ HeldCurrent(attempt, tree, gone, resumed)
      <4>1. AllCurrent(attempt, tree, gone, attempts)
        BY <1>3, <3>1, <3>6, AllCurrentMore
      <4>2. \A i \in Attempts : Readable(attempt[i].saved) => attempt[i].saved = attempt[i].saved
        OBVIOUS
      <4>3. HeldCurrent(attempt, tree, gone, resumed)
        BY <1>1, <1>3, <3>1, <3>6, <4>2, HeldCurrentMore
      <4> QED
        BY <4>1, <4>3
    <3>2. CountDirs(attempt) = number /\ CountDirs(attempt') = number /\ number \in Nat /\ number <= number
      BY <1>4, <1>10, <2>1, PrefixCounts
    <3>3. Before(attempts, number)
      BY <1>0, <2>0 DEF FirstRun, AttemptsOrdered
    <3>4. AllCurrent(attempt', tree', gone, attempts)
      BY <1>1, <1>2, <1>3, <1>11, <3>2, <3>3, <3>7, AllCurrentElsewhere
    <3>5. HeldCurrent(attempt', tree', gone, resumed)
      <4>1. NoneBeyond(attempt, number)
        BY <2>1, NothingBeyond
      <4>2. \A i \in Attempts : i # number => (Readable(attempt[i].saved) => i < number)
        BY <1>2, <1>4, <4>1 DEF NoneBeyond, Attempts
      <4>3. Readable(attempt'[number].saved) => resumed = number \/ (number \in gone /\ attempt'[number].saved.number = number)
        BY <1>1, <1>2, <1>8, <3>1 DEF HeldSound
      <4>4. /\ attempt \in [Attempts -> AttemptRecords] /\ number \in Attempts /\ WorksAt(tree, tree', number)
            /\ CountDirs(attempt) \in Nat /\ CountDirs(attempt) <= number /\ CountDirs(attempt') = number
            /\ SavedHere(attempt', gone, resumed, number)
        BY <1>1, <1>2, <1>3, <1>11, <3>2, <4>3 DEF SavedHere
      <4>5. SavedElsewhere(attempt, attempt', number)
        BY <1>16, <4>2 DEF SavedElsewhere
      <4>6. HeldSound(attempt, kind, resumes)
        BY <1>1, <1>3
      <4>7. HeldCurrent(attempt, tree, gone, resumed)
        BY <3>7
      <4> QED
        BY <4>4, <4>5, <4>6, <4>7, HeldCurrentElsewhere
    <3> QED
      BY <1>0, <1>8, <3>1, <3>4, <3>5 DEF AttemptsCurrent
  <2>5. \A n \in 0..MaxAttempts : SavedTokens(attempt', n) = SavedTokens(attempt, n)
    <3> SUFFICES ASSUME NEW n \in 0..MaxAttempts PROVE SavedTokens(attempt', n) = SavedTokens(attempt, n)
      OBVIOUS
    <3>1. \A i \in 1..n : i \in Attempts
      BY <1>4 DEF Attempts
    <3>2. SavedAlike(attempt, attempt', n)
      BY <1>16, <3>1 DEF SavedAlike
    <3> QED
      BY <3>2, SavedTokensSame
  <2>6. AttemptsInBudget'
    <3>1. AttemptsInBudget
      BY <2>0 DEF FirstRun
    <3>2. IsFresh => attempt[number].spent + bill <= attempt[number].allowed + MaxBill
      <4>1. IsFresh => attempt[number].spent < attempt[number].allowed
        BY <1>0 DEF IsFresh
      <4> QED
        BY <1>4, <1>5, <4>1
    <3> QED
      BY <1>0, <1>4, <1>8, <2>1, <2>5, <3>1, <3>2 DEF AttemptsInBudget, IsResumed, IsFresh
  <2>7. HeldInBudget(attempt', Grace)
    <3>1. HeldInBudget(attempt, Grace) /\ AttemptsInBudget
      BY <2>0 DEF FirstRun
    <3>2. attempt[number].spent + bill <= attempt[number].allowed + Grace
      <4>1. CASE attempt[number].spent < attempt[number].allowed
        BY <1>4, <1>5, <4>1
      <4>2. CASE resumed = number /\ ~asked
        <5>1. attempt[number].spent + MaxBill <= attempt[number].allowed + Grace
          BY <1>0, <3>1, <4>2 DEF AttemptsInBudget, IsResumed
        <5> QED
          BY <1>4, <1>5, <5>1
      <4> QED
        BY <1>0, <4>1, <4>2
    <3> SUFFICES ASSUME NEW i \in Attempts
                 PROVE  /\ attempt'[i].spent <= attempt'[i].allowed + Grace
                        /\ attempt'[i].dir => attempt'[i].allowed + SavedTokens(attempt', i - 1) <= Budget
                        /\ Readable(attempt'[i].saved) => attempt'[i].saved.tokens <= attempt'[i].spent
      BY DEF HeldInBudget
    <3>3. /\ attempt[i].spent <= attempt[i].allowed + Grace
          /\ attempt[i].dir => attempt[i].allowed + SavedTokens(attempt, i - 1) <= Budget
          /\ Readable(attempt[i].saved) => attempt[i].saved.tokens <= attempt[i].spent
      BY <3>1 DEF HeldInBudget
    <3>4. SavedTokens(attempt', i - 1) = SavedTokens(attempt, i - 1)
      <4>1. i - 1 \in 0..MaxAttempts
        BY <1>4 DEF Attempts
      <4> QED
        BY <2>5, <4>1
    <3>5. CASE i # number
      BY <1>7, <3>3, <3>4, <3>5
    <3>6. CASE i = number
      <4>1. Readable(attempt[number].saved) => attempt[number].saved.tokens \in Nat
        <5>1. Readable(attempt[number].saved) => attempt[number].saved \in JudgedAttempts
          BY <1>2, <1>3, SavedIsJudged
        <5>2. \A b \in JudgedAttempts : b.tokens \in Nat
          BY AttemptsAssumption DEF JudgedAttempts
        <5> QED
          BY <5>1, <5>2
      <4>2. Readable(attempt[number].saved) => attempt[number].saved.tokens <= attempt[number].spent + bill
        BY <1>4, <1>5, <3>3, <3>6, <4>1
      <4> QED
        BY <1>8, <3>2, <3>3, <3>4, <3>6, <4>2
    <3> QED
      BY <3>5, <3>6
  <2>8. HeldInBudget(attempt', Grace') /\ ReportFirst'
    BY <1>4, <1>12, <1>18, <2>7 DEF ReportKept
  <2> QED
    BY <2>2, <2>3, <2>4, <2>6, <2>8 DEF FirstRun
<1> QED
  BY <1>0, <1>10, <1>13, <1>14, <1>15, <1>17, <1>18 DEF AttemptsInv

LEMMA BeginAttemptKeeps == ASSUME AttemptsInv, BeginAttempt PROVE AttemptsInv'
<1> PICK allowed : allowed = Budget - Tokens(attempts)
  OBVIOUS
<1> PICK place : place = IF course = "challenge" THEN Sandbox ELSE number
  OBVIOUS
<1>0. /\ pc = "next" /\ pc' = "agent" /\ number \in Attempts /\ ~Exhausted /\ dirty' = TRUE /\ asked' = FALSE
      /\ attempt' = [attempt EXCEPT ![number] = [@ EXCEPT !.dir = TRUE, !.allowed = allowed, !.spent = 0, !.place = place]]
      /\ tree' = Workspace
      /\ UNCHANGED <<kind, limit, manifest, report, course, number, attempts, resumed, watchdog, edits, reran, unsaved, resumes>>
  BY DEF BeginAttempt, Another
<1>1. /\ AttemptTypes /\ AllSound(attempt, kind, resumes, attempts) /\ HeldSound(attempt, kind, resumes)
      /\ DirsInARow(attempt) /\ HeldPlaces(attempt) /\ AllBefore(attempt, number) /\ resumed < number /\ resumed <= number
      /\ watchdog = "watching"
  BY <1>0 DEF AttemptsInv, AttemptsSound, AttemptGoing
<1>2. /\ attempts \in Seq(JudgedAttempts) /\ resumes \in Nat /\ attempt \in [Attempts -> AttemptRecords]
      /\ tree \in [Attempts \cup {Sandbox} -> 0..MaxEdits] /\ edits \in 0..MaxEdits /\ attempt[number] \in AttemptRecords
      /\ resumed \in 0..MaxAttempts
  BY <1>0, <1>1 DEF AttemptTypes
<1>3. MaxAttempts \in Nat \ {0} /\ MaxEdits \in Nat /\ Budget \in Nat /\ SavedGood(attempt) /\ Tokens(attempts) \in Nat
      /\ MaxBill \in Nat /\ Grace \in Nat /\ Grace' = Grace
  <2>1. MaxBill \in Nat /\ Grace \in Nat /\ Grace' = Grace
    BY <1>0, <1>2, GraceMore
  <2> QED
    BY <2>1, AttemptFacts
<1>4. allowed \in 0..Budget /\ place \in {number, Sandbox} /\ place \in Attempts \cup {Sandbox} /\ resumed # number
  BY <1>0, <1>1, <1>2, <1>3 DEF Exhausted, Attempts
<1>5. attempt' \in [Attempts -> AttemptRecords]
  <2> PICK record : record = [attempt[number] EXCEPT !.dir = TRUE, !.allowed = allowed, !.spent = 0, !.place = place]
    OBVIOUS
  <2>1. record \in AttemptRecords
    <3>1. 0 \in Nat /\ TRUE \in BOOLEAN
      OBVIOUS
    <3>2. \A r \in AttemptRecords : [r EXCEPT !.dir = TRUE, !.allowed = allowed, !.spent = 0, !.place = place] \in AttemptRecords
      BY <1>4, <3>1 DEF AttemptRecords
    <3> QED
      BY <1>2, <3>2
  <2>2. attempt' = [attempt EXCEPT ![number] = record]
    BY <1>0, <1>2
  <2> QED
    BY <1>0, <1>2, <2>1, <2>2
<1>6. \A i \in Attempts : i # number => attempt'[i] = attempt[i]
  BY <1>0, <1>2
<1>7. /\ attempt'[number].dir /\ attempt'[number].allowed = allowed /\ attempt'[number].spent = 0
      /\ attempt'[number].place = place /\ attempt'[number].saved = attempt[number].saved
  BY <1>0, <1>2 DEF AttemptRecords
<1>8. DirsGrow(attempt, attempt')
  BY <1>6, <1>7 DEF DirsGrow
<1>9. DirsInARow(attempt')
  <2> SUFFICES ASSUME NEW i \in Attempts, NEW k \in Attempts, attempt'[i].dir, k < i PROVE attempt'[k].dir
    BY DEF DirsInARow
  <2>1. CASE i = number
    BY <1>1, <1>6, <1>7, <2>1 DEF AllBefore
  <2>2. CASE i # number
    BY <1>1, <1>6, <1>7, <2>2 DEF DirsInARow
  <2> QED
    BY <2>1, <2>2
<1>10. tree' \in [Attempts \cup {Sandbox} -> 0..MaxEdits] /\ WorksAt(tree, tree', number)
  <2>1. \A i \in Attempts : i # Sandbox /\ i \in Attempts \cup {Sandbox}
    BY DEF Attempts, Sandbox
  <2>2. Sandbox \in Attempts \cup {Sandbox} /\ tree[Sandbox] \in 0..MaxEdits /\ 0 \in 0..MaxEdits
    BY <1>2, <1>3
  <2>3. PICK w \in {Sandbox, number}, value \in 0..MaxEdits : tree' = [tree EXCEPT ![w] = value]
    <3>1. CASE course = "challenge"
      <4> PICK value \in 0..MaxEdits : value = IF number = 1 THEN tree[Sandbox] ELSE 0
        BY <2>2
      <4>1. CASE number = 1
        <5>1. value = tree[Sandbox]
          BY <4>1
        <5>2. tree' = [tree EXCEPT ![Sandbox] = tree[Sandbox]]
          BY <1>0, <1>2, <3>1, <4>1 DEF Workspace
        <5> QED
          BY <5>1, <5>2
      <4>2. CASE number # 1
        <5>1. value = 0
          BY <4>2
        <5>2. tree' = [tree EXCEPT ![Sandbox] = 0]
          BY <1>0, <1>2, <3>1, <4>2 DEF Workspace
        <5> QED
          BY <5>1, <5>2
      <4> QED
        BY <4>1, <4>2
    <3>2. CASE course # "challenge" /\ kind # "challenge"
      <4>1. tree' = [tree EXCEPT ![number] = 0]
        BY <1>0, <3>2 DEF Workspace, Fresh
      <4> QED
        BY <2>2, <4>1
    <3>3. CASE course # "challenge" /\ kind = "challenge"
      <4>1. tree' = [tree EXCEPT ![number] = tree[Sandbox]]
        BY <1>0, <3>3 DEF Workspace, Fresh
      <4> QED
        BY <2>2, <4>1
    <3> QED
      BY <3>1, <3>2, <3>3
  <2>4. tree' \in [Attempts \cup {Sandbox} -> 0..MaxEdits]
    BY <1>0, <1>2, <2>3
  <2>5. WorksAt(tree, tree', number)
    BY <1>2, <2>1, <2>3 DEF WorksAt
  <2> QED
    BY <2>4, <2>5
<1>11. ReportKept
  BY <1>0, <1>8, ReportHoldsMeanwhile
<1>12. AttemptTypes'
  <2>1. ReportTyped(report')
    BY <1>11 DEF ReportKept
  <2> QED
    BY <1>0, <1>1, <1>5, <1>10, <2>1 DEF AttemptTypes
<1>13. AttemptGoing'
  <2>1. course # "challenge" => place # Sandbox
    BY <1>0 DEF Attempts, Sandbox
  <2> QED
    BY <1>0, <1>1, <1>7, <2>1 DEF AttemptGoing, InAttempt
<1>14. HeldPlaces(attempt')
  BY <1>0, <1>1, <1>4, <1>6, <1>7 DEF HeldPlaces
<1>15. \A i \in Attempts : attempt'[i].saved = attempt[i].saved
  BY <1>6, <1>7
<1>16. AttemptsSound'
  <2>1. HeldSound(attempt', kind, resumes)
    <3>1. \A i \in Attempts : Readable(attempt'[i].saved) => attempt'[i].saved = attempt[i].saved
      BY <1>15
    <3>2. /\ resumes \in Nat /\ resumes <= resumes /\ attempt \in [Attempts -> AttemptRecords]
          /\ DirsGrow(attempt, attempt') /\ HeldSound(attempt, kind, resumes)
      BY <1>1, <1>2, <1>8
    <3> QED
      BY <3>1, <3>2, HeldSoundMore
  <2>2. AllSound(attempt', kind, resumes, attempts)
    BY <1>1, <1>2, <1>8, AllSoundMore
  <2> QED
    BY <1>0, <1>11, <2>1, <2>2 DEF AttemptsSound, ReportKept
<1>17. ASSUME ~reran' PROVE FirstRun'
  <2>0. FirstRun /\ ~reran
    BY <1>0, <1>17 DEF AttemptsInv
  <2>1. PrefixOf(attempt, number - 1) /\ number \in 0..MaxAttempts /\ number - 1 \in 0..MaxAttempts
    BY <1>0, <1>3, <2>0 DEF FirstRun, InARowOfAttempts, Attempts
  <2>2. PrefixOf(attempt', number)
    <3> SUFFICES ASSUME NEW i \in Attempts PROVE attempt'[i].dir <=> i <= number
      BY DEF PrefixOf
    <3>1. CASE i = number
      BY <1>3, <1>7, <3>1 DEF Attempts
    <3>2. CASE i # number
      <4>1. i <= number - 1 <=> i <= number
        BY <1>0, <1>3, <3>2 DEF Attempts
      <4> QED
        BY <1>6, <2>1, <3>2, <4>1 DEF PrefixOf
    <3> QED
      BY <3>1, <3>2
  <2>3. InARowOfAttempts'
    BY <1>0, <2>2 DEF InARowOfAttempts, InAttempt
  <2>4. Before(attempts, number) /\ AttemptsOrdered'
    BY <1>0, <2>0 DEF FirstRun, AttemptsOrdered
  <2>5. ~Readable(attempt[number].saved) /\ \A i \in Attempts : i # number => (Readable(attempt[i].saved) => i < number)
    <3>1. NoneBeyond(attempt, number - 1)
      BY <2>1, NothingBeyond
    <3> QED
      BY <1>0, <1>3, <3>1 DEF NoneBeyond, Attempts
  <2>6. AttemptsCurrent'
    <3>1. AllCurrent(attempt, tree, unsaved, attempts) /\ HeldCurrent(attempt, tree, unsaved, resumed)
      BY <2>0 DEF FirstRun, AttemptsCurrent
    <3>2. CountDirs(attempt) \in Nat /\ CountDirs(attempt) <= number /\ CountDirs(attempt') = number
      <4>1. CountDirs(attempt) = number - 1 /\ CountDirs(attempt') = number
        BY <2>1, <2>2, PrefixCounts
      <4> QED
        BY <1>3, <2>1, <4>1
    <3>3. AllCurrent(attempt', tree', unsaved, attempts)
      BY <1>0, <1>1, <1>2, <1>10, <2>4, <3>1, <3>2, AllCurrentElsewhere
    <3>4. ~Readable(attempt'[number].saved)
      BY <1>7, <2>5
    <3>5. HeldCurrent(attempt', tree', unsaved, resumed)
      <4>1. SavedElsewhere(attempt, attempt', number) /\ SavedHere(attempt', unsaved, resumed, number)
        BY <1>15, <2>5, <3>4 DEF SavedElsewhere, SavedHere
      <4>2. /\ attempt \in [Attempts -> AttemptRecords] /\ number \in Attempts /\ WorksAt(tree, tree', number)
            /\ HeldSound(attempt, kind, resumes) /\ HeldCurrent(attempt, tree, unsaved, resumed)
        BY <1>0, <1>1, <1>2, <1>10, <3>1
      <4> QED
        BY <3>2, <4>1, <4>2, HeldCurrentElsewhere
    <3>6. tree'[place] = IF place = Sandbox \/ kind # "challenge" THEN 0 ELSE tree'[Sandbox]
      <4>1. number # Sandbox /\ Sandbox \in Attempts \cup {Sandbox} /\ number \in Attempts \cup {Sandbox}
        BY <1>0 DEF Attempts, Sandbox
      <4>2. CASE course = "challenge"
        <5>1. place = Sandbox
          BY <4>2
        <5>2. CASE number = 1
          <6>1. tree[Sandbox] = 0
            BY <1>0, <2>0, <4>2, <5>2 DEF FirstRun, AttemptsCurrent
          <6>2. tree' = [tree EXCEPT ![Sandbox] = tree[Sandbox]]
            BY <1>0, <1>2, <4>2, <5>2 DEF Workspace
          <6> QED
            BY <1>2, <4>1, <5>1, <6>1, <6>2
        <5>3. CASE number # 1
          <6>1. tree' = [tree EXCEPT ![Sandbox] = 0]
            BY <1>0, <1>2, <4>2, <5>3 DEF Workspace
          <6> QED
            BY <1>2, <4>1, <5>1, <6>1
        <5> QED
          BY <5>2, <5>3
      <4>3. CASE course # "challenge"
        <5>1. place = number
          BY <4>3
        <5>2. tree' = [tree EXCEPT ![number] = IF kind = "challenge" THEN tree[Sandbox] ELSE 0]
          BY <1>0, <4>3 DEF Workspace, Fresh
        <5> QED
          BY <1>2, <4>1, <5>1, <5>2
      <4> QED
        BY <4>2, <4>3
    <3>7. tree'[attempt'[number].place] = Beginning(attempt, tree, number)'
      BY <1>0, <1>7, <3>6 DEF Beginning
    <3> QED
      BY <1>0, <1>1, <3>3, <3>4, <3>5, <3>7 DEF AttemptsCurrent
  <2>7. \A n \in 0..MaxAttempts : SavedTokens(attempt', n) = SavedTokens(attempt, n)
    <3> SUFFICES ASSUME NEW n \in 0..MaxAttempts PROVE SavedTokens(attempt', n) = SavedTokens(attempt, n)
      OBVIOUS
    <3>1. \A i \in 1..n : i \in Attempts
      BY <1>3 DEF Attempts
    <3>2. SavedAlike(attempt, attempt', n)
      BY <1>15, <3>1 DEF SavedAlike
    <3> QED
      BY <3>2, SavedTokensSame
  <2>8. /\ Tokens(attempts) <= Budget + Grace /\ SavedTokens(attempt, number - 1) <= Tokens(attempts)
    BY <1>0, <2>0 DEF FirstRun, AttemptsInBudget
  <2>9. SavedTokens(attempt', number - 1) = SavedTokens(attempt, number - 1) /\ SavedTokens(attempt, number - 1) \in Nat
    BY <1>3, <2>1, <2>7, SavedTokensType
  <2>10. 0 <= allowed /\ allowed + Tokens(attempts) <= Budget /\ allowed + SavedTokens(attempt, number - 1) <= Budget /\ allowed \in Nat
    BY <1>3, <1>4, <2>8, <2>9
  <2>11. AttemptsInBudget'
    <3>1. 0 <= allowed + MaxBill
      BY <1>3, <2>10
    <3> QED
      BY <1>0, <1>3, <1>4, <1>7, <2>8, <2>9, <2>10, <3>1 DEF AttemptsInBudget, IsResumed, IsFresh
  <2>12. HeldInBudget(attempt', Grace)
    <3>1. HeldInBudget(attempt, Grace)
      BY <2>0 DEF FirstRun
    <3> SUFFICES ASSUME NEW i \in Attempts
                 PROVE  /\ attempt'[i].spent <= attempt'[i].allowed + Grace
                        /\ attempt'[i].dir => attempt'[i].allowed + SavedTokens(attempt', i - 1) <= Budget
                        /\ Readable(attempt'[i].saved) => attempt'[i].saved.tokens <= attempt'[i].spent
      BY DEF HeldInBudget
    <3>2. /\ attempt[i].spent <= attempt[i].allowed + Grace
          /\ attempt[i].dir => attempt[i].allowed + SavedTokens(attempt, i - 1) <= Budget
          /\ Readable(attempt[i].saved) => attempt[i].saved.tokens <= attempt[i].spent
      BY <3>1 DEF HeldInBudget
    <3>3. SavedTokens(attempt', i - 1) = SavedTokens(attempt, i - 1)
      <4>1. i - 1 \in 0..MaxAttempts
        BY <1>3 DEF Attempts
      <4> QED
        BY <2>7, <4>1
    <3>4. CASE i # number
      BY <1>6, <3>2, <3>3, <3>4
    <3>5. CASE i = number
      <4>1. 0 <= allowed + Grace
        BY <1>3, <2>10
      <4> QED
        BY <1>7, <2>5, <2>9, <2>10, <3>3, <3>5, <4>1
    <3> QED
      BY <3>4, <3>5
  <2>13. HeldInBudget(attempt', Grace') /\ ReportFirst'
    BY <1>3, <1>11, <1>17, <2>12 DEF ReportKept
  <2> QED
    BY <2>3, <2>4, <2>6, <2>11, <2>13 DEF FirstRun
<1> QED
  BY <1>0, <1>9, <1>12, <1>13, <1>14, <1>16, <1>17 DEF AttemptsInv

\* The invariant holds at first, ...
LEMMA AttemptsStart == AttemptsInit => AttemptsInv
<1> SUFFICES ASSUME AttemptsInit PROVE AttemptsInv
  OBVIOUS
<1>0. /\ kind \in Kinds /\ watchdog = "watching" /\ limit \in {0, MaxAttempts} /\ manifest = NoFile /\ report = NoFile
      /\ attempt = [i \in Attempts |-> NoAttempt] /\ tree = [w \in Attempts \cup {Sandbox} |-> 0]
      /\ pc = "off" /\ number = 1 /\ attempts = <<>> /\ resumed = 0 /\ asked = FALSE /\ edits = 0
      /\ reran = FALSE /\ unsaved = {} /\ dirty = FALSE /\ resumes = 0
  BY DEF AttemptsInit
<1>1. MaxAttempts \in Nat \ {0} /\ MaxEdits \in Nat /\ Budget \in Nat /\ MaxBill \in Nat /\ Grace \in Nat
  <2>1. resumes \in Nat
    BY <1>0
  <2>2. Grace \in Nat
    BY <2>1, GraceMore
  <2> QED
    BY <2>2, AttemptsAssumption
<1>2. ~Readable(report) /\ ~Readable(NoFile)
  BY <1>0 DEF Readable
<1>3. NoAttempt \in AttemptRecords
  BY <1>1 DEF NoAttempt, AttemptRecords
<1>4. attempt \in [Attempts -> AttemptRecords] /\ \A i \in Attempts : attempt[i] = NoAttempt
  BY <1>0, <1>3
<1>5. AttemptTypes
  <2>1. tree \in [Attempts \cup {Sandbox} -> 0..MaxEdits]
    BY <1>0, <1>1
  <2>2. attempts \in Seq(JudgedAttempts)
    BY <1>0, NothingJudged
  <2>3. /\ kind \in Kinds /\ limit \in {0, MaxAttempts} /\ manifest \in {NoFile, Torn, "written"}
        /\ number \in 1..(MaxAttempts + 1) /\ resumed \in 0..MaxAttempts /\ edits \in 0..MaxEdits /\ resumes \in Nat
    BY <1>0, <1>1
  <2>4. /\ unsaved \subseteq Attempts /\ asked \in BOOLEAN /\ reran \in BOOLEAN /\ dirty \in BOOLEAN
        /\ pc \in {"off", "preparing", "next", "agent", "waiting", "judging", "saving", "reporting", "final"}
        /\ watchdog \in {"watching", "saving", "reporting"}
    BY <1>0
  <2>5. ReportTyped(report)
    BY <1>2 DEF ReportTyped
  <2> QED
    BY <1>4, <2>1, <2>2, <2>3, <2>4, <2>5 DEF AttemptTypes
<1>6. AttemptGoing
  BY <1>0 DEF AttemptGoing, InAttempt
<1>7. /\ NoAttempt.dir = FALSE /\ NoAttempt.allowed = 0 /\ NoAttempt.place = Sandbox /\ NoAttempt.spent = 0
      /\ NoAttempt.saved = NoFile
  BY DEF NoAttempt
<1>8. HeldPlaces(attempt) /\ DirsInARow(attempt)
  BY <1>0, <1>4, <1>7 DEF HeldPlaces, DirsInARow
<1>9. AttemptsSound
  <2>1. HeldSound(attempt, kind, resumes)
    BY <1>2, <1>4, <1>7 DEF HeldSound
  <2> QED
    BY <1>0, <1>2, <2>1, NothingJudged DEF AttemptsSound
<1>10. FirstRun
  <2>1. InARowOfAttempts
    BY <1>0 DEF InARowOfAttempts, InAttempt
  <2>2. AttemptsOrdered
    BY <1>0, NothingJudged DEF AttemptsOrdered
  <2>3. AttemptsCurrent
    <3>1. HeldCurrent(attempt, tree, unsaved, resumed)
      BY <1>2, <1>4, <1>7 DEF HeldCurrent
    <3> QED
      BY <1>0, <3>1, NothingJudged DEF AttemptsCurrent
  <2>4. AttemptsInBudget
    BY <1>0, <1>1, TotalEmpty DEF AttemptsInBudget, IsResumed, IsFresh
  <2>5. HeldInBudget(attempt, Grace)
    <3>1. 0 <= 0 + Grace
      BY <1>1
    <3> QED
      BY <1>0, <1>2, <1>4, <1>7, <3>1 DEF HeldInBudget
  <2>6. ReportFirst
    BY <1>2 DEF ReportFirst
  <2> QED
    BY <2>1, <2>2, <2>3, <2>4, <2>5, <2>6 DEF FirstRun
<1> QED
  BY <1>0, <1>5, <1>6, <1>8, <1>9, <1>10 DEF AttemptsInv

\* ... and through every step.
LEMMA AttemptsInvStep == AttemptsInv /\ [AttemptsNext]_attemptVars => AttemptsInv'
<1> SUFFICES ASSUME AttemptsInv, [AttemptsNext]_attemptVars PROVE AttemptsInv'
  OBVIOUS
<1>1. CASE RunBegins
  BY <1>1, RunBeginsKeeps
<1>2. CASE RunFails
  BY <1>2, RunFailsKeeps
<1>3. CASE RunStarts
  BY <1>3, RunStartsKeeps
<1>4. CASE ResumeIsDone
  BY <1>4, ResumeIsDoneKeeps
<1>5. CASE ResumeAgent
  BY <1>5, ResumeAgentKeeps
<1>6. CASE ResumeStarts
  BY <1>6, ResumeStartsKeeps
<1>7. CASE NoMoreAttempts
  BY <1>7, NoMoreAttemptsKeeps
<1>8. CASE BeginAttempt
  BY <1>8, BeginAttemptKeeps
<1>9. CASE AttemptFails
  BY <1>9, AttemptFailsKeeps
<1>10. CASE AgentTurn
  BY <1>10, AgentTurnKeeps
<1>11. CASE \E stop \in {"success", "failed"} : AgentEnds(stop)
  BY <1>11, AgentEndsKeeps
<1>12. CASE AgentErrs
  BY <1>12, AgentErrsKeeps
<1>13. CASE Stalls
  BY <1>13, StallsKeeps
<1>14. CASE \E verdict \in Verdicts : Judge(verdict)
  <2>1. PICK verdict \in Verdicts : Judge(verdict)
    BY <1>14
  <2> QED
    BY <2>1, JudgeFreshKeeps, JudgeResumedKeeps
<1>15. CASE JudgeFails
  BY <1>15, JudgeFailsKeeps
<1>16. CASE SaveAttempt
  BY <1>16, SaveAttemptKeeps
<1>17. CASE WriteReport
  BY <1>17, WriteReportKeeps
<1>18. CASE WriteFinalReport
  BY <1>18, WriteFinalReportKeeps
<1>19. CASE Kill
  BY <1>19, KillKeeps
<1>20. CASE WatchdogSaves
  BY <1>20, WatchdogSavesKeeps
<1>21. CASE WatchdogExits
  BY <1>21, WatchdogExitsKeeps
<1>22. CASE AgentErrsLate
  BY <1>22, AgentErrsLateKeeps
<1>23. CASE UNCHANGED attemptVars
  <2>1. /\ UNCHANGED <<kind, limit, manifest, attempt, tree, report, pc, course, number, attempts, resumed, asked>>
        /\ UNCHANGED <<watchdog, edits, reran, unsaved, dirty, resumes>>
    BY <1>23 DEF attemptVars, diskVariables, processVariables
  <2> QED
    BY <2>1, SameKeeps
<1> QED
  BY <1>1, <1>2, <1>3, <1>4, <1>5, <1>6, <1>7, <1>8, <1>9, <1>10, <1>11, <1>12, <1>13, <1>14, <1>15, <1>16, <1>17,
     <1>18, <1>19, <1>20, <1>21, <1>22, <1>23 DEF AttemptsNext

\* What the invariant says of the types, and of the reports.
LEMMA AttemptsTyped == AttemptsInv => AttemptsTypeOK
<1> SUFFICES ASSUME AttemptTypes PROVE AttemptsTypeOK
  BY DEF AttemptsInv
<1>1. ASSUME NEW i \in Attempts
      PROVE  /\ attempt[i].dir \in BOOLEAN /\ attempt[i].allowed \in 0..Budget
             /\ attempt[i].place \in Attempts \cup {Sandbox} /\ attempt[i].spent \in Nat
             /\ attempt[i].checkpoint \in {NoFile, Torn, "written"}
             /\ attempt[i].summary \in {NoFile, Torn, "success", "failed"}
             /\ attempt[i].saved \in {NoFile, Torn} \/ attempt[i].saved \in JudgedAttempts
  <2>1. attempt[i] \in AttemptRecords
    BY DEF AttemptTypes
  <2> QED
    BY <2>1 DEF AttemptRecords
<1> QED
  BY <1>1 DEF AttemptTypes, AttemptsTypeOK, ReportTyped

LEMMA AttemptsTruthful == AttemptsInv => AttemptReportsTruthful
<1> SUFFICES ASSUME AttemptsInv PROVE AttemptReportsTruthful
  OBVIOUS
<1>1. ASSUME Readable(report) PROVE report.attempts \in Seq(JudgedAttempts) /\ AllSound(attempt, kind, resumes, report.attempts)
  BY <1>1 DEF AttemptsInv, AttemptTypes, ReportTyped, AttemptsSound
<1>2. ASSUME Readable(report), ~reran
      PROVE  Ordered(report.attempts) /\ Tokens(report.attempts) <= Budget + Grace
             /\ (~dirty => AllCurrent(attempt, tree, unsaved, report.attempts))
  BY <1>2 DEF AttemptsInv, FirstRun, ReportFirst
<1>3. ReportIsCurrent
  <2> SUFFICES ASSUME Readable(report), ~dirty, ~reran, NEW j \in DOMAIN report.attempts
               PROVE  LET a == report.attempts[j] IN
                      a.edit = tree[a.place] \/ a.number \in unsaved \/ (a.place = Sandbox /\ a.number < Directories)
    BY DEF ReportIsCurrent
  <2>1. j \in 1..Len(report.attempts)
    BY <1>1, LenProperties
  <2>2. IsCurrent(attempt, tree, unsaved, report.attempts[j])
    BY <1>2, <2>1 DEF AllCurrent
  <2> QED
    BY <2>2 DEF IsCurrent, CountDirs, Directories
<1>4. ReportIsHonest
  <2> SUFFICES ASSUME Readable(report)
               PROVE  /\ Success(report) => \/ Last(report.attempts).verdict = "passed"
                                            \/ kind = "unscored" /\ Last(report.attempts).stop = "success"
                                            \/ kind = "challenge" /\ Last(report.attempts).place # Sandbox
                                            \/ kind = "challenge" /\ resumes > 0
                      /\ ~reran => \A j \in 2..Len(report.attempts) :
                                      report.attempts[j - 1].number < report.attempts[j].number
    BY DEF ReportIsHonest
  <2>1. ASSUME Success(report)
        PROVE  \/ Last(report.attempts).verdict = "passed"
               \/ kind = "unscored" /\ Last(report.attempts).stop = "success"
               \/ kind = "challenge" /\ Last(report.attempts).place # Sandbox
               \/ kind = "challenge" /\ resumes > 0
    <3>1. report.attempts # <<>> /\ AttemptPassed(Last(report.attempts))
      BY <2>1 DEF Success
    <3>2. Len(report.attempts) \in 1..Len(report.attempts) /\ Last(report.attempts) = report.attempts[Len(report.attempts)]
      BY <1>1, <3>1, LastJudged
    <3>3. Sound(attempt, kind, resumes, Last(report.attempts))
      BY <1>1, <3>2 DEF AllSound
    <3> QED
      BY <3>1, <3>3 DEF Sound
  <2>2. ~reran => \A j \in 2..Len(report.attempts) : report.attempts[j - 1].number < report.attempts[j].number
    BY <1>2 DEF Ordered
  <2> QED
    BY <2>1, <2>2
<1>5. BudgetKept
  BY <1>2 DEF BudgetKept, Grace
<1> QED
  BY <1>3, <1>4, <1>5 DEF AttemptReportsTruthful

\* The reports of a benchmark tell the truth, for any numbers of attempts, tokens, edits and
\* processes: what they list as it is in the workspaces, successes that have passed where there
\* are evaluators, no attempt twice or out of order, and tokens within the budget and one
\* completion, and one more for each resume; with the exceptions that the properties name.
THEOREM AttemptReports == AttemptsSpec => [](AttemptsTypeOK /\ AttemptReportsTruthful)
<1>1. AttemptsInit => AttemptsInv
  BY AttemptsStart
<1>2. AttemptsInv /\ [AttemptsNext]_attemptVars => AttemptsInv'
  BY AttemptsInvStep
<1>3. AttemptsInv => AttemptsTypeOK /\ AttemptReportsTruthful
  BY AttemptsTyped, AttemptsTruthful
<1> QED
  BY <1>1, <1>2, <1>3, PTL DEF AttemptsSpec
=============================================================================

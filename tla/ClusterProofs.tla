----------------------------- MODULE ClusterProofs -----------------------------
(***************************************************************************)
(* What holds of Cluster for any number of workers, mailboxes, crashes and *)
(* stops.                                                                  *)
(***************************************************************************)
EXTENDS Cluster, TLAPS

USE WorkerAssumption, SwitchAssumption, BoundAssumption
USE DEF dbVars, readVars, lifeVars

-------------------------------------------------------------------------------
(* Types *)

\* Init has the types, and every step keeps them.
LEMMA TypeInit == Init => TypeOK
BY DEF Init, TypeOK, Life, Alive, Lease, Free, Status, Final, Place, Active,
       Claiming, Monitored, Sight, Nothing, Budget

\* One mailbox of one worker moves on.
LEMMA GoType ==
  ASSUME TypeOK, NEW w \in Worker, NEW m \in Mailbox, NEW p \in Place,
         proc[w] \in Alive, proc' = proc, Go(w, m, p)
  PROVE  /\ at' \in [Worker -> [Mailbox -> Place]]
         /\ \A v \in Worker, n \in Mailbox : at'[v][n] # "off" => proc'[v] \in Alive
         /\ at'[w][m] = p
         /\ \A v \in Worker, n \in Mailbox : <<v, n>> # <<w, m>> => at'[v][n] = at[v][n]
BY DEF TypeOK, Go

\* The lease is written, or cleared.
LEMMA WriteLeaseType ==
  ASSUME TypeOK, NEW m \in Mailbox, NEW owner \in Worker \union {NoOne},
         WriteLease(m, owner)
  PROVE  lease' \in [Mailbox -> Lease] /\ readers' \in [Mailbox -> SUBSET Worker]
BY DEF TypeOK, WriteLease, Lease

LEMMA ClearLeaseType ==
  ASSUME TypeOK, NEW w \in Worker, NEW m \in Mailbox, ClearLease(w, m)
  PROVE  lease' \in [Mailbox -> Lease] /\ readers' \in [Mailbox -> SUBSET Worker]
BY WriteLeaseType DEF TypeOK, ClearLease

\* What a worker read of the lease comes and goes.
LEMMA LookType ==
  ASSUME TypeOK, NEW w \in Worker, NEW m \in Mailbox, Look(w, m)
  PROVE  saw' \in [Worker -> [Mailbox -> Sight]]
<1>1. lease[m].owner \in Worker \union {NoOne}
  BY DEF TypeOK, Lease
<1>2. [owner |-> lease[m].owner, old |-> lease[m].age # "fresh"] \in Sight
  BY <1>1 DEF Sight
<1> QED
  BY <1>2 DEF TypeOK, Look

LEMMA ForgetType ==
  ASSUME TypeOK, NEW w \in Worker, NEW m \in Mailbox, Forget(w, m)
  PROVE  saw' \in [Worker -> [Mailbox -> Sight]]
<1>1. Nothing \in Sight
  BY DEF Nothing, Sight
<1> QED
  BY <1>1 DEF TypeOK, Forget

LEMMA DiscardType ==
  ASSUME TypeOK, NEW w \in Worker, NEW m \in Mailbox, Discard(w, m)
  PROVE  saw' \in [Worker -> [Mailbox -> Sight]] /\ readers' \in [Mailbox -> SUBSET Worker]
BY ForgetType DEF TypeOK, Discard

LEMMA SpendType ==
  ASSUME TypeOK, NEW what \in {"crash", "stop", "suspend", "trouble"}, Spend(what)
  PROVE  budget' \in Budget
BY DEF TypeOK, Spend, Budget

LEMMA RunnerType ==
  ASSUME TypeOK, NEW w \in Worker, NEW m \in Mailbox, Runner(w, m)
  PROVE  TypeOK'
<1>1. Awake(w) /\ proc[w] \in Alive /\ proc' = proc
  BY DEF Runner, TryLease, Claim, Refused, JudgeOwner, ReadLease, Reclaim, Begin, OpenPair,
     Retry, Finish, Cancel, Release, LeaveDisplaced, Watch, Skip, From, Awake
<1>2. CASE TryLease(w, m)
  <2>1. \/ Go(w, m, "claim") /\ UNCHANGED <<lease, readers>>
        \/ Go(w, m, "start") /\ WriteLease(m, w)
    BY <1>2 DEF TryLease
  <2> QED
    BY <1>1, <1>2, <2>1, GoType, WriteLeaseType
    DEF TryLease, TypeOK, Place, Active, Claiming
<1>3. CASE Claim(w, m)
  BY <1>1, <1>3, GoType, WriteLeaseType DEF Claim, TypeOK, Place, Active
<1>4. CASE Refused(w, m)
  BY <1>1, <1>4, GoType, LookType DEF Refused, TypeOK, Place, Claiming
<1>5. CASE JudgeOwner(w, m)
  BY <1>1, <1>5, GoType, DiscardType DEF JudgeOwner, TypeOK, Place, Claiming
<1>6. CASE ReadLease(w, m)
  <2>1. CASE lease[m].owner = saw[w][m].owner
    <3>1. readers' = [readers EXCEPT ![m] = @ \union {w}] /\ UNCHANGED saw
      BY <1>6, <2>1 DEF ReadLease
    <3>2. readers' \in [Mailbox -> SUBSET Worker]
      BY <3>1 DEF TypeOK
    <3> QED
      BY <1>1, <1>6, <2>1, <3>1, <3>2, GoType DEF ReadLease, TypeOK, Place, Claiming
  <2>2. CASE lease[m].owner # saw[w][m].owner
    BY <1>1, <1>6, <2>2, GoType, DiscardType DEF ReadLease, TypeOK, Place, Claiming
  <2> QED
    BY <2>1, <2>2
<1>7. CASE Reclaim(w, m)
  BY <1>1, <1>7, GoType, DiscardType, WriteLeaseType, ForgetType
  DEF Reclaim, TypeOK, Place, Claiming, Active
<1>8. CASE Begin(w, m)
  BY <1>1, <1>8, GoType DEF Begin, TypeOK, Place, Active, Status
<1>9. CASE OpenPair(w, m)
  BY <1>1, <1>9, GoType DEF OpenPair, TypeOK, Place, Active
<1>10. CASE Retry(w, m)
  BY <1>1, <1>10, GoType DEF Retry, TypeOK, Place, Active
<1>11. CASE Finish(w, m)
  BY <1>1, <1>11, GoType DEF Finish, TypeOK, Place, Active, Status, Final
<1>12. CASE Cancel(w, m)
  BY <1>1, <1>12, GoType DEF Cancel, TypeOK, Place, Active, Status, Final
<1>13. CASE Release(w, m)
  BY <1>1, <1>13, GoType, ClearLeaseType DEF Release, TypeOK, Place
<1>14. CASE LeaveDisplaced(w, m)
  BY <1>1, <1>14, GoType, ClearLeaseType
  DEF LeaveDisplaced, ReturnRemote, TypeOK, Place, Claiming
<1>15. CASE Watch(w, m)
  BY <1>1, <1>15, GoType DEF Watch, TypeOK, Place, Monitored
<1>16. CASE Skip(w, m)
  BY <1>1, <1>16, GoType DEF Skip, TypeOK, Place
<1> QED
  BY <1>2, <1>3, <1>4, <1>5, <1>6, <1>7, <1>8, <1>9, <1>10, <1>11, <1>12, <1>13,
     <1>14, <1>15, <1>16 DEF Runner

LEMMA RefresherType ==
  ASSUME TypeOK, NEW w \in Worker, NEW m \in Mailbox, Refresher(w, m)
  PROVE  TypeOK'
<1>1. CASE RefreshLease(w, m)
  BY <1>1, WriteLeaseType DEF RefreshLease, TypeOK
<1>2. CASE LoseLease(w, m)
  <2>1. proc[w] \in Alive /\ proc' = proc
    BY <1>2 DEF LoseLease, Awake
  <2>2. lost' \in [Worker -> [Mailbox -> BOOLEAN]]
    BY <1>2 DEF LoseLease, TypeOK
  <2>3. /\ at' \in [Worker -> [Mailbox -> Place]]
        /\ \A v \in Worker, n \in Mailbox : at'[v][n] # "off" => proc'[v] \in Alive
    <3>1. UNCHANGED at \/ Go(w, m, "kicked") \/ Go(w, m, "backoff")
      BY <1>2 DEF LoseLease
    <3>2. {"kicked", "backoff"} \subseteq Place
      BY DEF Place, Active
    <3> QED
      BY <2>1, <3>1, <3>2, GoType DEF TypeOK
  <2> QED
    BY <1>2, <2>2, <2>3 DEF LoseLease, TypeOK
<1> QED
  BY <1>1, <1>2 DEF Refresher

LEMMA MonitorType ==
  ASSUME TypeOK, NEW w \in Worker, NEW m \in Mailbox, Monitor(w, m)
  PROVE  TypeOK'
<1>1. proc[w] \in Alive /\ proc' = proc
  BY DEF Monitor, MonitorLook, MonitorFinished, MonitorReleased, MonitorJudge,
     MonitorReclaim, Respawn, From, Awake
<1>2. CASE MonitorLook(w, m)
  <2>1. readers' \in [Mailbox -> SUBSET Worker]
    BY <1>2 DEF MonitorLook, TypeOK
  <2> QED
    BY <1>1, <1>2, <2>1, GoType, LookType DEF MonitorLook, TypeOK, Place, Monitored
<1>3. CASE MonitorFinished(w, m)
  BY <1>1, <1>3, GoType, DiscardType DEF MonitorFinished, TypeOK, Place
<1>4. CASE MonitorReleased(w, m)
  BY <1>1, <1>4, GoType, DiscardType DEF MonitorReleased, TypeOK, Place, Monitored
<1>5. CASE MonitorJudge(w, m)
  BY <1>1, <1>5, GoType, DiscardType DEF MonitorJudge, TypeOK, Place, Monitored
<1>6. CASE MonitorReclaim(w, m)
  BY <1>1, <1>6, GoType, DiscardType, WriteLeaseType, ForgetType
  DEF MonitorReclaim, TypeOK, Place, Monitored
<1>7. CASE Respawn(w, m)
  BY <1>1, <1>7, GoType DEF Respawn, TypeOK, Place
<1> QED
  BY <1>2, <1>3, <1>4, <1>5, <1>6, <1>7 DEF Monitor

LEMMA TroubleType ==
  ASSUME TypeOK, NEW w \in Worker, NEW m \in Mailbox, FailAttempt(w, m) \/ Trouble(w, m)
  PROVE  TypeOK'
<1>1. proc[w] \in Alive /\ proc' = proc /\ budget' \in Budget
  BY SpendType DEF FailAttempt, Trouble, From, Awake
<1>2. CASE FailAttempt(w, m)
  <2>1. status' \in [Mailbox -> Status]
    BY <1>2 DEF FailAttempt, TypeOK, Status, Final
  <2>2. Go(w, m, "backoff") \/ Go(w, m, "release")
    BY <1>2 DEF FailAttempt
  <2> QED
    BY <1>1, <1>2, <2>1, <2>2, GoType DEF FailAttempt, TypeOK, Place, Active
<1>3. CASE Trouble(w, m)
  <2>1. CASE lost[w][m]
    <3>1. ReturnRemote(w, m)
      BY <1>3, <2>1 DEF Trouble
    <3>2. lost' \in [Worker -> [Mailbox -> BOOLEAN]]
      BY <3>1 DEF ReturnRemote, TypeOK
    <3>3. /\ lease' \in [Mailbox -> Lease] /\ readers' \in [Mailbox -> SUBSET Worker]
          /\ at' \in [Worker -> [Mailbox -> Place]]
          /\ \A v \in Worker, n \in Mailbox : at'[v][n] # "off" => proc'[v] \in Alive
      BY <1>1, <3>1, GoType, ClearLeaseType DEF ReturnRemote, Place, Claiming
    <3> QED
      BY <1>1, <1>3, <3>2, <3>3 DEF Trouble, TypeOK
  <2>2. CASE ~lost[w][m]
    BY <1>1, <1>3, <2>2, GoType DEF Trouble, TypeOK, Place, Active
  <2> QED
    BY <2>1, <2>2
<1> QED
  BY <1>2, <1>3

\* What happens to a worker as a whole
LEMMA WorkerType ==
  ASSUME TypeOK, NEW w \in Worker, Process(w) \/ Environment(w)
  PROVE  TypeOK'
<1>1. CASE Join(w)
  <2>1. at' \in [Worker -> [Mailbox -> Place]]
    BY <1>1 DEF Join, TypeOK, Place
  <2>2. proc' \in [Worker -> Life] /\ proc'[w] \in Alive
        /\ \A v \in Worker : proc[v] \in Alive => proc'[v] \in Alive
    BY <1>1 DEF Join, TypeOK, Life, Alive
  <2>3. heart' \in [Worker -> {"none", "fresh", "late"}]
    BY <1>1 DEF Join, TypeOK
  <2>4. \A v \in Worker, n \in Mailbox : at'[v][n] # "off" => proc'[v] \in Alive
    BY <1>1, <2>2 DEF Join, TypeOK
  <2> QED
    BY <1>1, <2>1, <2>2, <2>3, <2>4 DEF Join, TypeOK
<1>2. CASE Heartbeat(w) \/ GoLate(w)
  BY <1>2 DEF Heartbeat, GoLate, TypeOK
<1>3. CASE Leave(w)
  <2>1. at' \in [Worker -> [Mailbox -> Place]]
    BY <1>3 DEF Leave, TypeOK, Place
  <2>2. \A v \in Worker, n \in Mailbox : at'[v][n] # "off" => proc'[v] \in Alive
    BY <1>3 DEF Leave, TypeOK
  <2>3. lease' \in [Mailbox -> Lease] /\ readers' \in [Mailbox -> SUBSET Worker]
    BY <1>3 DEF Leave, TypeOK, Lease, Free
  <2>4. saw' \in [Worker -> [Mailbox -> Sight]]
    BY <1>3 DEF Leave, TypeOK, Sight, Nothing
  <2>5. proc' \in [Worker -> Life] /\ heart' \in [Worker -> {"none", "fresh", "late"}]
    BY <1>3 DEF Leave, TypeOK, Life
  <2> QED
    BY <1>3, <2>1, <2>2, <2>3, <2>4, <2>5 DEF Leave, TypeOK
<1>4. CASE RunsDone(w) \/ EndWait(w)
  <2>1. proc' \in [Worker -> Life] /\ \A v \in Worker : proc[v] \in Alive => proc'[v] \in Alive
    BY <1>4 DEF RunsDone, EndWait, TypeOK, Life, Alive
  <2> QED
    BY <1>4, <2>1 DEF RunsDone, EndWait, TypeOK
<1>7. CASE Stop(w)
  BY <1>7, SpendType DEF Stop, TypeOK
<1>5. CASE Crash(w)
  <2>1. at' \in [Worker -> [Mailbox -> Place]]
    BY <1>5 DEF Crash, TypeOK, Place
  <2>2. \A v \in Worker, n \in Mailbox : at'[v][n] # "off" => proc'[v] \in Alive
    BY <1>5 DEF Crash, TypeOK
  <2>3. /\ saw' \in [Worker -> [Mailbox -> Sight]]
        /\ readers' \in [Mailbox -> SUBSET Worker]
        /\ lost' \in [Worker -> [Mailbox -> BOOLEAN]]
    BY <1>5 DEF Crash, TypeOK, Sight, Nothing
  <2>4. proc' \in [Worker -> Life] /\ asleep' \subseteq Worker
    BY <1>5 DEF Crash, TypeOK, Life
  <2> QED
    BY <1>5, <2>1, <2>2, <2>3, <2>4, SpendType DEF Crash, TypeOK
<1>6. CASE Suspend(w) \/ Resume(w)
  BY <1>6, SpendType DEF Suspend, Resume, TypeOK
<1> QED
  BY <1>1, <1>2, <1>3, <1>4, <1>5, <1>6, <1>7 DEF Process, Environment

LEMMA TypeStep == TypeOK /\ [Next]_vars => TypeOK'
<1> SUFFICES ASSUME TypeOK, [Next]_vars PROVE TypeOK'
  OBVIOUS
<1>1. ASSUME NEW m \in Mailbox, AgeLease(m) PROVE TypeOK'
  <2>1. Older(lease[m].age) \in {"fresh", "old", "expired"}
    BY DEF Older
  <2>2. [lease[m] EXCEPT !.age = Older(lease[m].age)] \in Lease
    <3>1. lease[m] \in Lease
      BY DEF TypeOK
    <3> QED
      BY <2>1, <3>1, Zenon DEF Lease
  <2>3. lease' \in [Mailbox -> Lease]
    BY <1>1, <2>2 DEF AgeLease, TypeOK
  <2> QED
    BY <1>1, <2>3 DEF AgeLease, TypeOK
<1>2. CASE UNCHANGED vars
  BY <1>2 DEF vars, TypeOK
<1> QED
  BY <1>1, <1>2, RunnerType, RefresherType, MonitorType, TroubleType, WorkerType DEF Next

\* Every variable of Cluster has its type, and only a process that is alive has
\* a mailbox in hand, for any set of workers and mailboxes.
THEOREM ClusterTypes == Spec => []TypeOK
BY TypeInit, TypeStep, PTL DEF Spec

-------------------------------------------------------------------------------
(* At most one worker works on a mailbox *)

Gone == {"left", "crashed"}
Verdicts == {"condemned", "reclaim", "doomed"}

\* What the timeouts are for: a process may sleep, but one that is alive is not silent for
\* longer than --worker-timeout, nor is a mailbox it works on for longer than LeaseFresh.
Timely ==
  \A w \in Worker : proc[w] \in Alive =>
    /\ heart[w] # "late"
    /\ \A m \in Mailbox :
         at[w][m] \in Active /\ lease[m].owner = w => lease[m].age # "expired"

\* The UPDATE of TryLease finds what its SELECT has read: a mailbox that may be claimed.
Unraced == \A w \in Worker, m \in Mailbox : Claim(w, m) => Claimable(w, m)

\* Whoever works on a mailbox owns it ...
OwnersWork ==
  \A w \in Worker, m \in Mailbox : at[w][m] \in Active => lease[m].owner = w

\* ... so that nobody is ever displaced.
NothingLost == \A w \in Worker, m \in Mailbox : ~lost[w][m] /\ at[w][m] # "kicked"

\* Whoever is alive has a row in table workers.
HeartsBeat == \A w \in Worker : proc[w] \in Alive => heart[w] # "none"

\* An owner on record has been alive ...
OwnersJoined ==
  /\ \A m \in Mailbox : lease[m].owner \in Worker => proc[lease[m].owner] # "new"
  /\ \A w \in Worker, m \in Mailbox :
       saw[w][m].owner \in Worker => proc[saw[w][m].owner] # "new"

\* ... and one found dead is gone.
CondemnedAreGone ==
  \A w \in Worker, m \in Mailbox : at[w][m] \in Verdicts =>
    saw[w][m].owner \in Worker /\ proc[saw[w][m].owner] \in Gone

IInv ==
  /\ TypeOK
  /\ OwnersWork
  /\ NothingLost
  /\ HeartsBeat
  /\ OwnersJoined
  /\ CondemnedAreGone

\* A step of one worker on one mailbox that keeps the invariant
Harmless(w, m) ==
  /\ UNCHANGED <<proc, heart>>
  /\ \A v \in Worker, n \in Mailbox : v # w \/ n # m =>
       at'[v][n] = at[v][n] /\ saw'[v][n] = saw[v][n] /\ lost'[v][n] = lost[v][n]
  /\ \A n \in Mailbox \ {m} : lease'[n] = lease[n]
  /\ ~lost'[w][m] /\ at'[w][m] # "kicked"
  /\ at'[w][m] \in Active => lease'[m].owner = w
  /\ \/ lease'[m] = lease[m]
     \/ /\ \A v \in Worker \ {w} : at[v][m] \notin Active
        /\ lease'[m].owner \in {w, NoOne}
  /\ saw'[w][m].owner \in {saw[w][m].owner, lease[m].owner, NoOne}
  /\ at'[w][m] \in Verdicts =>
       saw'[w][m].owner \in Worker /\ proc[saw'[w][m].owner] \in Gone

LEMMA HarmlessKeepsIInv ==
  ASSUME IInv, TypeOK', NEW w \in Worker, NEW m \in Mailbox,
         proc[w] \in Alive, Harmless(w, m)
  PROVE  IInv'
<1>1. HeartsBeat'
  BY DEF IInv, HeartsBeat, Harmless
<1>2. OwnersWork'
  <2> SUFFICES ASSUME NEW v \in Worker, NEW n \in Mailbox, at'[v][n] \in Active
               PROVE  lease'[n].owner = v
    BY DEF OwnersWork
  <2>1. CASE v = w /\ n = m
    BY <2>1 DEF Harmless
  <2>2. CASE n # m
    BY <2>2 DEF IInv, OwnersWork, Harmless
  <2>3. CASE v # w /\ n = m
    BY <2>3 DEF IInv, OwnersWork, Harmless
  <2> QED
    BY <2>1, <2>2, <2>3
<1>3. NothingLost'
  BY DEF IInv, NothingLost, Harmless
<1>4. OwnersJoined'
  <2>1. \A n \in Mailbox : lease'[n].owner \in Worker => proc[lease'[n].owner] # "new"
    BY DEF IInv, OwnersJoined, Harmless, Alive
  <2>2. \A v \in Worker, n \in Mailbox :
          saw'[v][n].owner \in Worker => proc[saw'[v][n].owner] # "new"
    BY DEF IInv, OwnersJoined, Harmless
  <2> QED
    BY <2>1, <2>2 DEF OwnersJoined, Harmless
<1>5. CondemnedAreGone'
  BY DEF IInv, CondemnedAreGone, Harmless
<1> QED
  BY <1>1, <1>2, <1>3, <1>4, <1>5 DEF IInv

\* A dead owner is gone.
LEMMA DeadIsGone ==
  ASSUME IInv, Timely, NEW w \in Worker, NEW m \in Mailbox, Dead(w, m)
  PROVE  saw[w][m].owner \in Worker /\ proc[saw[w][m].owner] \in Gone
<1>1. saw[w][m].owner \in Worker /\ heart[saw[w][m].owner] \in {"late", "none"}
  BY DEF Dead
<1>2. proc[saw[w][m].owner] # "new" /\ proc[saw[w][m].owner] \notin Alive
  BY <1>1 DEF IInv, OwnersJoined, HeartsBeat, Timely
<1> QED
  BY <1>1, <1>2 DEF IInv, TypeOK, Life, Gone

\* A mailbox TryLease may claim is in no other worker's hands.
LEMMA ClaimableIsIdle ==
  ASSUME IInv, Timely, NEW w \in Worker, NEW m \in Mailbox, Claimable(w, m)
  PROVE  \A v \in Worker \ {w} : at[v][m] \notin Active
<1> SUFFICES ASSUME NEW v \in Worker \ {w}, at[v][m] \in Active
             PROVE  FALSE
  OBVIOUS
<1>1. lease[m].owner = v
  BY DEF IInv, OwnersWork
<1>2. proc[v] \in Alive
  BY DEF IInv, TypeOK, Active
<1>3. lease[m].age # "expired"
  BY <1>1, <1>2 DEF Timely
<1> QED
  BY <1>1, <1>3 DEF Claimable

\* Neither is one taken over.
LEMMA ForcedIsIdle ==
  ASSUME IInv, NEW w \in Worker, NEW m \in Mailbox,
         at[w][m] \in Verdicts, CanForce(w, m)
  PROVE  \A v \in Worker : at[v][m] \notin Active
<1> SUFFICES ASSUME NEW v \in Worker, at[v][m] \in Active
             PROVE  FALSE
  OBVIOUS
<1>1. lease[m].owner = v
  BY DEF IInv, OwnersWork
<1>2. proc[v] \in Gone
  BY <1>1 DEF CanForce, IInv, CondemnedAreGone
<1>3. at[v][m] = "off"
  BY <1>2 DEF IInv, TypeOK, Gone, Alive
<1> QED
  BY <1>3 DEF Active

LEMMA GoMoves ==
  ASSUME TypeOK, NEW w \in Worker, NEW m \in Mailbox, NEW p, Go(w, m, p)
  PROVE  /\ at'[w][m] = p
         /\ \A v \in Worker, n \in Mailbox : v # w \/ n # m => at'[v][n] = at[v][n]
BY DEF TypeOK, Go

LEMMA WriteLeaseMoves ==
  ASSUME TypeOK, NEW m \in Mailbox, NEW owner, WriteLease(m, owner)
  PROVE  lease'[m].owner = owner /\ \A n \in Mailbox \ {m} : lease'[n] = lease[n]
<1>1. lease'[m] = [owner |-> owner, age |-> "fresh"]
  BY DEF TypeOK, WriteLease
<1> QED
  BY <1>1 DEF TypeOK, WriteLease

LEMMA ReadsMove ==
  ASSUME TypeOK, NEW w \in Worker, NEW m \in Mailbox,
         Look(w, m) \/ Forget(w, m) \/ Discard(w, m) \/ UNCHANGED saw
  PROVE  /\ saw'[w][m].owner \in {saw[w][m].owner, lease[m].owner, NoOne}
         /\ \A v \in Worker, n \in Mailbox : v # w \/ n # m => saw'[v][n] = saw[v][n]
BY DEF TypeOK, Look, Forget, Discard, Nothing

LEMMA RunnerIsHarmless ==
  ASSUME IInv, Timely, Unraced, NEW w \in Worker, NEW m \in Mailbox, Runner(w, m)
  PROVE  Harmless(w, m)
<1>1. TypeOK /\ ~lost[w][m] /\ at[w][m] # "kicked"
  BY DEF IInv, NothingLost
<1>2. at[w][m] \in Active => lease[m].owner = w
  BY DEF IInv, OwnersWork
<1>3. CASE TryLease(w, m)
  <2>1. UNCHANGED <<lifeVars, saw, lost>>
    BY <1>3 DEF TryLease
  <2>2. \A v \in Worker \ {w} : at[v][m] \notin Active
    BY <1>3, ClaimableIsIdle DEF TryLease
  <2>3. CASE RacyClaim
    <3>1. Go(w, m, "claim") /\ UNCHANGED lease
      BY <1>3, <2>3 DEF TryLease
    <3> QED
      BY <1>1, <2>1, <3>1, GoMoves, ReadsMove DEF Harmless, Active, Verdicts
  <2>4. CASE ~RacyClaim
    <3>1. Go(w, m, "start") /\ WriteLease(m, w)
      BY <1>3, <2>4 DEF TryLease
    <3> QED
      BY <1>1, <2>1, <2>2, <3>1, GoMoves, WriteLeaseMoves, ReadsMove
      DEF Harmless, Verdicts
  <2> QED
    BY <2>3, <2>4
<1>4. CASE Claim(w, m)
  <2>1. Go(w, m, "start") /\ WriteLease(m, w) /\ UNCHANGED <<lifeVars, saw, lost>>
    BY <1>4 DEF Claim
  <2>2. \A v \in Worker \ {w} : at[v][m] \notin Active
    BY <1>4, ClaimableIsIdle DEF Unraced
  <2> QED
    BY <1>1, <2>1, <2>2, GoMoves, WriteLeaseMoves, ReadsMove DEF Harmless, Verdicts
<1>5. CASE Refused(w, m)
  BY <1>1, <1>5, GoMoves, ReadsMove DEF Refused, Harmless, Active, Verdicts
<1>6. CASE JudgeOwner(w, m)
  <2>1. CASE Dead(w, m)
    BY <1>1, <1>6, <2>1, DeadIsGone, GoMoves, ReadsMove DEF JudgeOwner, Harmless, Active
  <2>2. CASE ~Dead(w, m)
    BY <1>1, <1>6, <2>2, GoMoves, ReadsMove DEF JudgeOwner, Harmless, Active, Verdicts
  <2> QED
    BY <2>1, <2>2
<1>7. CASE ReadLease(w, m)
  <2>1. saw[w][m].owner \in Worker /\ proc[saw[w][m].owner] \in Gone
    BY <1>7 DEF ReadLease, From, IInv, CondemnedAreGone, Verdicts
  <2>2. CASE lease[m].owner = saw[w][m].owner
    BY <1>1, <1>7, <2>1, <2>2, GoMoves, ReadsMove DEF ReadLease, Harmless, Active
  <2>3. CASE lease[m].owner # saw[w][m].owner
    BY <1>1, <1>7, <2>3, GoMoves, ReadsMove DEF ReadLease, Harmless, Active, Verdicts
  <2> QED
    BY <2>2, <2>3
<1>8. CASE Reclaim(w, m)
  <2>1. CASE CanForce(w, m)
    <3>1. Go(w, m, "start") /\ WriteLease(m, w) /\ Forget(w, m) /\ UNCHANGED <<lifeVars, lost>>
      BY <1>8, <2>1 DEF Reclaim
    <3>2. \A v \in Worker : at[v][m] \notin Active
      BY <1>8, <2>1, ForcedIsIdle DEF Reclaim, From, Verdicts
    <3> QED
      BY <1>1, <3>1, <3>2, GoMoves, WriteLeaseMoves, ReadsMove DEF Harmless, Verdicts
  <2>2. CASE ~CanForce(w, m)
    BY <1>1, <1>8, <2>2, GoMoves, ReadsMove DEF Reclaim, Harmless, Active, Verdicts
  <2> QED
    BY <2>1, <2>2
<1>9. CASE Begin(w, m)
  BY <1>1, <1>2, <1>9, GoMoves, ReadsMove DEF Begin, From, Harmless, Active, Verdicts
<1>10. CASE OpenPair(w, m)
  BY <1>1, <1>2, <1>10, GoMoves, ReadsMove DEF OpenPair, From, Harmless, Active, Verdicts
<1>11. CASE Retry(w, m)
  BY <1>1, <1>2, <1>11, GoMoves, ReadsMove DEF Retry, From, Harmless, Active, Verdicts
<1>12. CASE Finish(w, m)
  BY <1>1, <1>2, <1>12, GoMoves, ReadsMove DEF Finish, Harmless, Active, Verdicts
<1>13. CASE Cancel(w, m)
  BY <1>1, <1>2, <1>13, GoMoves, ReadsMove DEF Cancel, Harmless, Active, Verdicts
<1>14. CASE Release(w, m)
  <2>1. Go(w, m, "off") /\ WriteLease(m, NoOne) /\ UNCHANGED <<lifeVars, saw>>
    BY <1>2, <1>14 DEF Release, From, Active, ClearLease
  <2>2. lost' = [lost EXCEPT ![w][m] = FALSE]
    BY <1>14 DEF Release
  <2>3. \A v \in Worker \ {w} : at[v][m] \notin Active
    BY <1>2, <1>14, ClaimableIsIdle DEF Release, From, Active, Claimable
  <2>4. /\ ~lost'[w][m]
        /\ \A v \in Worker, n \in Mailbox : v # w \/ n # m => lost'[v][n] = lost[v][n]
    BY <1>1, <2>2 DEF TypeOK
  <2>5. lease'[m].owner = NoOne /\ \A n \in Mailbox \ {m} : lease'[n] = lease[n]
    BY <1>1, <2>1, WriteLeaseMoves
  <2>6. /\ at'[w][m] = "off"
        /\ \A v \in Worker, n \in Mailbox : v # w \/ n # m => at'[v][n] = at[v][n]
    BY <1>1, <2>1, GoMoves
  <2> QED
    BY <1>1, <2>1, <2>3, <2>4, <2>5, <2>6 DEF Harmless, Active, Verdicts
<1>15. CASE LeaveDisplaced(w, m)
  BY <1>1, <1>15 DEF LeaveDisplaced, From
<1>16. CASE Watch(w, m)
  BY <1>1, <1>16, GoMoves, ReadsMove DEF Watch, Harmless, Active, Verdicts
<1>17. CASE Skip(w, m)
  BY <1>1, <1>17, GoMoves, ReadsMove DEF Skip, Harmless, Active, Verdicts
<1> QED
  BY <1>3, <1>4, <1>5, <1>6, <1>7, <1>8, <1>9, <1>10, <1>11, <1>12, <1>13, <1>14,
     <1>15, <1>16, <1>17 DEF Runner

LEMMA RefresherIsHarmless ==
  ASSUME IInv, NEW w \in Worker, NEW m \in Mailbox, Refresher(w, m)
  PROVE  Harmless(w, m)
<1>1. TypeOK /\ ~lost[w][m] /\ at[w][m] # "kicked"
  BY DEF IInv, NothingLost
<1>2. at[w][m] \in Active /\ lease[m].owner = w
  BY DEF Refresher, RefreshLease, LoseLease, Refreshing, IInv, OwnersWork
<1>3. CASE RefreshLease(w, m)
  <2>1. lease'[m].owner = w /\ \A n \in Mailbox \ {m} : lease'[n] = lease[n]
    BY <1>1, <1>2, <1>3, WriteLeaseMoves DEF RefreshLease
  <2>2. at[w][m] \notin Verdicts
    BY <1>2 DEF Active, Verdicts
  <2>3. \A v \in Worker \ {w} : at[v][m] \notin Active
    BY <1>2 DEF IInv, OwnersWork
  <2> QED
    BY <1>1, <1>2, <1>3, <2>1, <2>2, <2>3 DEF RefreshLease, Harmless
<1>4. CASE LoseLease(w, m)
  BY <1>2, <1>4 DEF LoseLease
<1> QED
  BY <1>3, <1>4 DEF Refresher

LEMMA MonitorIsHarmless ==
  ASSUME IInv, Timely, NEW w \in Worker, NEW m \in Mailbox, Monitor(w, m)
  PROVE  Harmless(w, m)
<1>1. TypeOK /\ ~lost[w][m]
  BY DEF IInv, NothingLost
<1>2. CASE MonitorLook(w, m)
  BY <1>1, <1>2, GoMoves, ReadsMove DEF MonitorLook, Harmless, Active, Verdicts
<1>3. CASE MonitorFinished(w, m)
  BY <1>1, <1>3, GoMoves, ReadsMove DEF MonitorFinished, Harmless, Active, Verdicts
<1>4. CASE MonitorReleased(w, m)
  BY <1>1, <1>4, GoMoves, ReadsMove DEF MonitorReleased, Harmless, Active, Verdicts
<1>5. CASE MonitorJudge(w, m)
  <2>1. CASE Dead(w, m)
    BY <1>1, <1>5, <2>1, DeadIsGone, GoMoves, ReadsMove DEF MonitorJudge, Harmless, Active
  <2>2. CASE ~Dead(w, m)
    BY <1>1, <1>5, <2>2, GoMoves, ReadsMove DEF MonitorJudge, Harmless, Active, Verdicts
  <2> QED
    BY <2>1, <2>2
<1>6. CASE MonitorReclaim(w, m)
  <2>1. CASE CanForce(w, m)
    <3>1. Go(w, m, "popped") /\ WriteLease(m, w) /\ Forget(w, m) /\ UNCHANGED <<lifeVars, lost>>
      BY <1>6, <2>1 DEF MonitorReclaim
    <3>2. \A v \in Worker : at[v][m] \notin Active
      BY <1>6, <2>1, ForcedIsIdle DEF MonitorReclaim, From, Verdicts
    <3> QED
      BY <1>1, <3>1, <3>2, GoMoves, WriteLeaseMoves, ReadsMove
      DEF Harmless, Active, Verdicts
  <2>2. CASE ~CanForce(w, m)
    BY <1>1, <1>6, <2>2, GoMoves, ReadsMove DEF MonitorReclaim, Harmless, Active, Verdicts
  <2> QED
    BY <2>1, <2>2
<1>7. CASE Respawn(w, m)
  BY <1>1, <1>7, GoMoves, ReadsMove DEF Respawn, Harmless, Active, Verdicts
<1> QED
  BY <1>2, <1>3, <1>4, <1>5, <1>6, <1>7 DEF Monitor

LEMMA TroubleIsHarmless ==
  ASSUME IInv, NEW w \in Worker, NEW m \in Mailbox, FailAttempt(w, m) \/ Trouble(w, m)
  PROVE  Harmless(w, m)
<1>1. TypeOK /\ ~lost[w][m]
  BY DEF IInv, NothingLost
<1>2. at[w][m] \in Active => lease[m].owner = w
  BY DEF IInv, OwnersWork
<1>4. CASE FailAttempt(w, m)
  BY <1>1, <1>2, <1>4, GoMoves, ReadsMove
  DEF FailAttempt, From, Harmless, Active, Verdicts
<1>5. CASE Trouble(w, m)
  BY <1>1, <1>2, <1>5, GoMoves, ReadsMove
  DEF Trouble, From, Harmless, Active, Verdicts
<1> QED
  BY <1>4, <1>5

\* What happens to a worker as a whole keeps the invariant.
LEMMA WorkerKeepsIInv ==
  ASSUME IInv, Timely, TypeOK', NEW w \in Worker, Process(w) \/ Environment(w)
  PROVE  IInv'
<1>1. TypeOK
  BY DEF IInv
<1>2. CASE Join(w)
  <2>1. /\ proc[w] = "new" /\ proc'[w] = "running" /\ heart'[w] = "fresh"
        /\ \A v \in Worker \ {w} : proc'[v] = proc[v]
        /\ \A v \in Worker \ {w} : heart[v] # "late" => heart'[v] = heart[v]
    BY <1>1, <1>2 DEF Join, TypeOK
  <2>2. \A m \in Mailbox : at'[w][m] \in {"off", "queued"}
    BY <1>1, <1>2 DEF Join, TypeOK
  <2>3. \A v \in Worker \ {w}, m \in Mailbox : at'[v][m] = at[v][m]
    BY <1>1, <1>2 DEF Join, TypeOK
  <2>4. HeartsBeat'
    BY <2>1 DEF IInv, HeartsBeat, Timely
  <2>5. OwnersWork' /\ NothingLost'
    BY <1>2, <2>2, <2>3 DEF Join, IInv, OwnersWork, NothingLost, Active
  <2>6. OwnersJoined'
    BY <1>2, <2>1 DEF Join, IInv, OwnersJoined
  <2>7. CondemnedAreGone'
    BY <1>2, <2>1, <2>2, <2>3 DEF Join, IInv, CondemnedAreGone, Verdicts, Gone
  <2> QED
    BY <2>4, <2>5, <2>6, <2>7 DEF IInv
<1>3. CASE Heartbeat(w)
  <2>1. HeartsBeat'
    BY <1>1, <1>3 DEF Heartbeat, IInv, HeartsBeat, TypeOK
  <2> QED
    BY <1>3, <2>1 DEF Heartbeat, IInv, OwnersWork, NothingLost, OwnersJoined, CondemnedAreGone
<1>4. CASE GoLate(w)
  <2>1. HeartsBeat'
    BY <1>1, <1>4 DEF GoLate, IInv, HeartsBeat, TypeOK
  <2> QED
    BY <1>4, <2>1
    DEF GoLate, IInv, OwnersWork, NothingLost, OwnersJoined, CondemnedAreGone
<1>5. CASE Leave(w)
  <2>1. /\ proc'[w] = "left" /\ \A v \in Worker \ {w} : proc'[v] = proc[v]
        /\ \A v \in Worker \ {w} : heart'[v] = heart[v]
    BY <1>1, <1>5 DEF Leave, TypeOK
  <2>2. /\ \A m \in Mailbox : at'[w][m] = "off" /\ saw'[w][m] = Nothing
        /\ \A v \in Worker \ {w}, m \in Mailbox : at'[v][m] = at[v][m] /\ saw'[v][m] = saw[v][m]
    BY <1>1, <1>5 DEF Leave, TypeOK
  <2>3. \A m \in Mailbox : lease'[m] = IF lease[m].owner = w THEN Free ELSE lease[m]
    BY <1>5 DEF Leave
  <2>4. HeartsBeat' /\ NothingLost'
    BY <1>5, <2>1, <2>2 DEF Leave, IInv, HeartsBeat, NothingLost, Alive
  <2>5. OwnersWork'
    BY <2>2, <2>3 DEF IInv, OwnersWork, Active
  <2>6. OwnersJoined'
    BY <2>1, <2>2, <2>3 DEF IInv, OwnersJoined, Free, Nothing
  <2>7. CondemnedAreGone'
    BY <2>1, <2>2 DEF IInv, CondemnedAreGone, Verdicts, Gone
  <2> QED
    BY <2>4, <2>5, <2>6, <2>7 DEF IInv
<1>6. CASE RunsDone(w) \/ EndWait(w)
  <2>1. /\ proc[w] \in Alive /\ proc'[w] \in Alive
        /\ \A v \in Worker \ {w} : proc'[v] = proc[v]
    BY <1>1, <1>6 DEF RunsDone, EndWait, TypeOK, Alive
  <2>2. HeartsBeat'
    BY <1>6, <2>1 DEF RunsDone, EndWait, IInv, HeartsBeat
  <2>3. OwnersJoined' /\ CondemnedAreGone'
    BY <1>6, <2>1 DEF RunsDone, EndWait, IInv, OwnersJoined, CondemnedAreGone, Gone, Alive
  <2> QED
    BY <1>6, <2>2, <2>3 DEF RunsDone, EndWait, IInv, OwnersWork, NothingLost
<1>10. CASE Stop(w)
  BY <1>10 DEF Stop, IInv, HeartsBeat, OwnersJoined, CondemnedAreGone, OwnersWork, NothingLost
<1>7. CASE Crash(w)
  <2>1. /\ proc'[w] = "crashed" /\ \A v \in Worker \ {w} : proc'[v] = proc[v]
    BY <1>1, <1>7 DEF Crash, TypeOK
  <2>2. /\ \A m \in Mailbox : at'[w][m] = "off" /\ saw'[w][m] = Nothing /\ ~lost'[w][m]
        /\ \A v \in Worker \ {w}, m \in Mailbox :
             at'[v][m] = at[v][m] /\ saw'[v][m] = saw[v][m] /\ lost'[v][m] = lost[v][m]
    BY <1>1, <1>7 DEF Crash, TypeOK
  <2>3. HeartsBeat'
    BY <1>7, <2>1 DEF Crash, IInv, HeartsBeat, Alive
  <2>4. OwnersWork' /\ NothingLost'
    BY <1>7, <2>2 DEF Crash, IInv, OwnersWork, NothingLost, Active
  <2>5. OwnersJoined'
    BY <1>7, <2>1, <2>2 DEF Crash, IInv, OwnersJoined, Nothing
  <2>6. CondemnedAreGone'
    BY <2>1, <2>2 DEF IInv, CondemnedAreGone, Verdicts, Gone
  <2> QED
    BY <2>3, <2>4, <2>5, <2>6 DEF IInv
<1>8. CASE Suspend(w) \/ Resume(w)
  BY <1>8 DEF Suspend, Resume, IInv, HeartsBeat, OwnersJoined, CondemnedAreGone,
     OwnersWork, NothingLost
<1> QED
  BY <1>2, <1>3, <1>4, <1>5, <1>6, <1>7, <1>8, <1>10 DEF Process, Environment

LEMMA AgeLeaseKeepsIInv ==
  ASSUME IInv, TypeOK', NEW m \in Mailbox, AgeLease(m)
  PROVE  IInv'
<1>1. \A n \in Mailbox : lease'[n].owner = lease[n].owner
  BY DEF AgeLease, IInv, TypeOK, Lease
<1>2. OwnersWork' /\ OwnersJoined'
  BY <1>1 DEF AgeLease, IInv, OwnersWork, OwnersJoined
<1> QED
  BY <1>2 DEF AgeLease, IInv, NothingLost, HeartsBeat, CondemnedAreGone

LEMMA IInvInit == Init => IInv
<1> SUFFICES ASSUME Init PROVE IInv
  OBVIOUS
<1>1. TypeOK
  BY TypeInit
<1>2. HeartsBeat
  BY DEF Init, HeartsBeat, Alive
<1>3. OwnersWork /\ NothingLost /\ CondemnedAreGone
  BY DEF Init, OwnersWork, NothingLost, CondemnedAreGone, Active, Verdicts
<1>4. OwnersJoined
  BY DEF Init, OwnersJoined, Free, Nothing
<1> QED
  BY <1>1, <1>2, <1>3, <1>4 DEF IInv

LEMMA IInvStep == IInv /\ Timely /\ [Next]_vars /\ [Unraced]_vars => IInv'
<1> SUFFICES ASSUME IInv, Timely, [Next]_vars, [Unraced]_vars PROVE IInv'
  OBVIOUS
<1>1. TypeOK'
  BY TypeStep DEF IInv
<1>5. CASE UNCHANGED vars
  BY <1>1, <1>5 DEF vars, IInv, OwnersWork, NothingLost, HeartsBeat, OwnersJoined,
     CondemnedAreGone
<1>6. SUFFICES ASSUME Next, Unraced PROVE IInv'
  BY <1>5
<1>2. ASSUME NEW w \in Worker, NEW m \in Mailbox,
             \/ Runner(w, m) \/ Refresher(w, m) \/ Monitor(w, m)
             \/ FailAttempt(w, m) \/ Trouble(w, m)
      PROVE  IInv'
  <2>1. Harmless(w, m)
    BY <1>2, <1>6, RunnerIsHarmless, RefresherIsHarmless, MonitorIsHarmless, TroubleIsHarmless
  <2>2. Awake(w)
    BY <1>2 DEF Runner, TryLease, Claim, Refused, JudgeOwner, ReadLease, Reclaim, Begin,
       OpenPair, Retry, Finish, Cancel, Release, LeaveDisplaced, Watch, Skip,
       Refresher, RefreshLease, LoseLease, Monitor, MonitorLook, MonitorFinished,
       MonitorReleased, MonitorJudge, MonitorReclaim, Respawn, FailAttempt, Trouble, From
  <2> QED
    BY <1>1, <2>1, <2>2, HarmlessKeepsIInv DEF Awake
<1>3. ASSUME NEW w \in Worker, Process(w) \/ Environment(w)
      PROVE  IInv'
  BY <1>1, <1>3, WorkerKeepsIInv
<1>4. ASSUME NEW m \in Mailbox, AgeLease(m)
      PROVE  IInv'
  BY <1>1, <1>4, AgeLeaseKeepsIInv
<1> QED
  BY <1>2, <1>3, <1>4, <1>6 DEF Next

LEMMA IInvHolds == Spec /\ []Timely /\ [][Unraced]_vars => []IInv
<1>1. Init => IInv
  BY IInvInit
<1>2. IInv /\ Timely /\ [Next]_vars /\ [Unraced]_vars => IInv'
  BY IInvStep
<1> QED
  BY <1>1, <1>2, PTL DEF Spec

\* Two workers process the same mailbox only after one of two events: the UPDATE of a
\* TryLease has overwritten a lease that another process wrote after its SELECT, or a
\* living process has been silent for longer than a timeout.  Until then nobody does,
\* however many workers there are, sleep for less, crash, are stopped and take over from
\* each other: a verdict is passed only on an owner that is gone, and the compare-and-swap
\* of the takeover fails when anything else has been written since.
THEOREM OneWorkerPerMailbox ==
  Spec /\ []Timely /\ [][Unraced]_vars => []AtMostOneWorks
<1>1. IInv => AtMostOneWorks
  <2> SUFFICES ASSUME IInv, NEW m \in Mailbox, NEW v \in Worker, NEW w \in Worker,
                      at[v][m] \in Active, at[w][m] \in Active
               PROVE  v = w
    BY DEF AtMostOneWorks
  <2>1. lease[m].owner = v /\ lease[m].owner = w
    BY DEF IInv, OwnersWork
  <2> QED
    BY <2>1
<1> QED
  BY <1>1, IInvHolds, PTL

\* Until one of the two events, only the owner of the lease writes the status of a
\* mailbox, although no statement that writes it compares the lease.
THEOREM OnlyOwnersWrite ==
  Spec /\ []Timely /\ [][Unraced]_vars => OwnerWritesStatus
<1> DEFINE Writes(w, m) ==
      \/ Begin(w, m) \/ Finish(w, m) \/ Cancel(w, m)
      \/ FailAttempt(w, m) /\ Go(w, m, "release")
<1> DEFINE Guarded ==
      \A m \in Mailbox : status'[m] # status[m] =>
        \E w \in Worker : at'[w][m] # at[w][m] /\ lease[m].owner = w
<1>1. ASSUME IInv, [Next]_vars PROVE [Guarded]_vars
  <2>1. TypeOK
    BY <1>1 DEF IInv
  <2>2. ASSUME NEW w \in Worker, NEW m \in Mailbox, NEW st,
               status' = [status EXCEPT ![m] = st],
               at[w][m] \in Active, at'[w][m] # at[w][m]
        PROVE  Guarded
    <3>1. lease[m].owner = w
      BY <1>1, <2>2 DEF IInv, OwnersWork
    <3>2. \A n \in Mailbox \ {m} : status'[n] = status[n]
      BY <2>1, <2>2 DEF TypeOK
    <3> QED
      BY <2>2, <3>1, <3>2
  <2>3. ASSUME NEW w \in Worker, NEW m \in Mailbox,
               Writes(w, m)
        PROVE  Guarded
    <3>1. at[w][m] \in Active /\ at'[w][m] # at[w][m]
      <4>1. \/ at[w][m] = "start" /\ Go(w, m, "connect")
            \/ /\ at[w][m] \in {"connect", "backoff", "sync", "kicked"}
               /\ Go(w, m, "release")
        BY <2>3 DEF Begin, Finish, Cancel, FailAttempt, From
      <4> QED
        BY <2>1, <4>1, GoMoves DEF Active
    <3>2. \E st : status' = [status EXCEPT ![m] = st]
      BY <2>1, <2>3 DEF Begin, Finish, Cancel, FailAttempt, TypeOK
    <3> QED
      BY <2>2, <3>1, <3>2
  <2>4. ASSUME ~ (\E w \in Worker, m \in Mailbox :
                    Writes(w, m))
        PROVE  UNCHANGED status
    <3>1. ASSUME NEW w \in Worker, NEW m \in Mailbox, Runner(w, m) \/ Refresher(w, m)
          PROVE  UNCHANGED status
      BY <2>4, <3>1 DEF Runner, TryLease, Claim, Refused, JudgeOwner, ReadLease, Reclaim,
         OpenPair, Retry, Release, LeaveDisplaced, Watch, Skip,
         Refresher, RefreshLease, LoseLease
    <3>2. ASSUME NEW w \in Worker, NEW m \in Mailbox,
                 Monitor(w, m) \/ FailAttempt(w, m) \/ Trouble(w, m)
          PROVE  UNCHANGED status
      BY <2>4, <3>2 DEF Monitor, MonitorLook, MonitorFinished, MonitorReleased, MonitorJudge,
         MonitorReclaim, Respawn, FailAttempt, Trouble
    <3>3. ASSUME NEW w \in Worker, Process(w) \/ Environment(w)
          PROVE  UNCHANGED status
      BY <3>3 DEF Process, Join, Heartbeat, RunsDone, EndWait, Leave, Environment, Stop, Crash, Suspend,
         Resume, GoLate
    <3>4. ASSUME NEW m \in Mailbox, AgeLease(m)
          PROVE  UNCHANGED status
      BY <3>4 DEF AgeLease
    <3> QED
      BY <1>1, <3>1, <3>2, <3>3, <3>4 DEF Next, vars
  <2> QED
    BY <2>3, <2>4
<1> HIDE DEF Guarded
<1>2. Spec /\ []Timely /\ [][Unraced]_vars => [][Guarded]_vars
  BY <1>1, IInvHolds, PTL DEF Spec
<1> QED
  BY <1>2 DEF Guarded, OwnerWritesStatus

===============================================================================

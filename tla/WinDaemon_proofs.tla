--------------------------- MODULE WinDaemon_proofs ---------------------------
(***************************************************************************)
(* Proofs about WinDaemon, for any number of clients, jobs and kills, and  *)
(* that it implements JobLifecycle.                                        *)
(***************************************************************************)
EXTENDS WinDaemon, SequenceTheorems, FiniteSetTheorems, WellFoundedInduction, TLAPS

-----------------------------------------------------------------------------
(* The operators on job sequences.                                         *)

(* Changing one job's state leaves every id and every other state alone.   *)
LEMMA SetStateEffect ==
  ASSUME jobs \in Seq(Job), NEW i \in DOMAIN jobs, NEW s \in States, SetState(i, s)
  PROVE  /\ jobs' \in Seq(Job)
         /\ DOMAIN jobs' = DOMAIN jobs
         /\ \A k \in DOMAIN jobs :
              /\ jobs'[k].id = jobs[k].id
              /\ jobs'[k].state = IF k = i THEN s ELSE jobs[k].state
         /\ IdsIn(jobs') = IdsIn(jobs)
<1> DEFINE job == [jobs[i] EXCEPT !.state = s]
<1>1. jobs' = [jobs EXCEPT ![i] = job]
  BY DEF SetState
<1>2. jobs[i] \in Job
  OBVIOUS
<1>3. job \in Job /\ job.id = jobs[i].id /\ job.state = s
  BY <1>2 DEF Job
<1> HIDE DEF job
<1>4. jobs' \in Seq(Job) /\ DOMAIN jobs' = DOMAIN jobs
  BY <1>1, <1>3, ExceptSeq, DOMAIN jobs = 1 .. Len(jobs)
<1>5. \A k \in DOMAIN jobs : jobs'[k].id = jobs[k].id
                             /\ jobs'[k].state = IF k = i THEN s ELSE jobs[k].state
  BY <1>1, <1>3
<1>6. IdsIn(jobs') = IdsIn(jobs)
  BY <1>4, <1>5 DEF IdsIn
<1> QED
  BY <1>4, <1>5, <1>6

(* A submission adds one id.                                               *)
LEMMA AppendEffect ==
  ASSUME NEW js \in Seq(Job), NEW j \in Job
  PROVE  /\ Append(js, j) \in Seq(Job)
         /\ DOMAIN Append(js, j) = DOMAIN js \cup {Len(js) + 1}
         /\ \A k \in DOMAIN js : Append(js, j)[k] = js[k]
         /\ Append(js, j)[Len(js) + 1] = j
         /\ Len(js) \in Nat /\ DOMAIN js = 1 .. Len(js)
         /\ IdsIn(Append(js, j)) = IdsIn(js) \cup {j.id}
<1>1. /\ Append(js, j) \in Seq(Job)
      /\ DOMAIN Append(js, j) = 1 .. Len(js) + 1
      /\ Len(js) \in Nat /\ DOMAIN js = 1 .. Len(js)
      /\ \A k \in 1 .. Len(js) : Append(js, j)[k] = js[k]
      /\ Append(js, j)[Len(js) + 1] = j
  BY AppendProperties
<1>2. DOMAIN Append(js, j) = DOMAIN js \cup {Len(js) + 1}
  BY <1>1
<1>3. IdsIn(Append(js, j)) = IdsIn(js) \cup {j.id}
  BY <1>1, <1>2 DEF IdsIn
<1> QED
  BY <1>1, <1>2, <1>3

(* The least element of a set of numbers.                                  *)
LEMMA LeastElement ==
  ASSUME NEW T \in SUBSET Nat, T # {}
  PROVE  \E m \in T : \A n \in T : m <= n
<1>1. PICK m \in T : \A n \in T : ~(<<n, m>> \in OpToRel(<, Nat))
  BY NatLessThanWellFounded, WFMin
<1>2. \A n \in T : ~(n < m)
  BY <1>1 DEF OpToRel
<1> QED
  BY <1>2

(* The ids go on from the greatest that was loaded, or start with 1.       *)
LEMMA IdAfterBounds ==
  ASSUME NEW s \in Seq(Job)
  PROVE  /\ IdAfter(s) \in 1 .. MaxJobs + 1
         /\ \A i \in DOMAIN s : s[i].id < IdAfter(s)
         /\ IdAfter(s) = 1 \/ \E i \in DOMAIN s : s[i].id = IdAfter(s) - 1
<1> DEFINE T == {n \in 1 .. MaxJobs + 1 : \A i \in DOMAIN s : s[i].id < n}
<1> USE WinDaemonAssumption DEF WinDaemonAssumption
<1>1. \A i \in DOMAIN s : s[i].id \in 1 .. MaxJobs
  <2>1. \A i \in DOMAIN s : s[i] \in Job
    OBVIOUS
  <2> QED
    BY <2>1 DEF Job, Ids
<1>2. MaxJobs + 1 \in T
  BY <1>1
<1>3. PICK m \in T : \A n \in T : m <= n
  <2>1. T \subseteq Nat
    OBVIOUS
  <2>2. T # {}
    BY <1>2
  <2> QED
    BY <2>1, <2>2, LeastElement
<1>4. m = 1 \/ \E i \in DOMAIN s : s[i].id = m - 1
  <2> SUFFICES ASSUME m # 1
               PROVE  \E i \in DOMAIN s : s[i].id = m - 1
    OBVIOUS
  <2>1. m - 1 \in 1 .. MaxJobs + 1 /\ m - 1 \notin T
    BY <1>3
  <2>2. PICK i \in DOMAIN s : ~(s[i].id < m - 1)
    BY <2>1
  <2> QED
    BY <1>1, <2>2
<1>5. \E n \in 1 .. MaxJobs + 1 :
        /\ \A i \in DOMAIN s : s[i].id < n
        /\ n = 1 \/ \E i \in DOMAIN s : s[i].id = n - 1
  BY <1>4
<1> QED
  BY <1>5 DEF IdAfter

-----------------------------------------------------------------------------
(* The invariant holds at the start.                                       *)

LEMMA InvInit == Init => IInv
<1> SUFFICES ASSUME Init
             PROVE  IInv
  OBVIOUS
<1> USE WinDaemonAssumption DEF WinDaemonAssumption, Init
<1>1. jobs = <<>> /\ file = <<>> /\ <<>> \in Seq(Job) /\ DOMAIN jobs = {} /\ DOMAIN file = {}
  BY EmptySeq
<1>2. TypeOK
  <2>1. NoRequest \in Requests
    BY DEF Requests, NoRequest
  <2>2. /\ cpc \in [Clients -> {"ping", "send", "await", "done"}]
        /\ req \in [Clients -> Requests]
        /\ said \in [Clients -> {"none", "ok", "refused", "lost"}]
        /\ pushed \in [Clients -> 0 .. MaxJobs]
    BY <2>1
  <2>3. nextId \in 1 .. MaxJobs + 1 /\ crashes \in 0 .. MaxCrash /\ asked \in 0 .. MaxJobs
    OBVIOUS
  <2> QED
    BY <1>1, <2>2, <2>3 DEF TypeOK
<1>3. ClientInv
  BY DEF ClientInv
<1>4. BoundInv
  <2>1. Pending = {}
    BY DEF Pending
  <2> QED
    BY <1>1, <2>1, FS_EmptySet DEF BoundInv
<1>5. ThreadInv
  BY DEF ThreadInv, InMessage, InJob
<1>6. StoreInv
  BY <1>1 DEF StoreInv, Unique
<1>7. AckedSurvive
  BY DEF AckedSurvive
<1> QED
  BY <1>2, <1>3, <1>4, <1>5, <1>6, <1>7 DEF IInv

-----------------------------------------------------------------------------
(* Type correctness.                                                       *)

(* A submission that is served finds an id left.                           *)
LEMMA SubmitFits ==
  ASSUME IInv, NEW c \in Clients, cpc[c] = "send", req[c].op = "SUBMIT"
  PROVE  /\ c \in Pending
         /\ IsFiniteSet(Pending \ {c})
         /\ Cardinality(Pending \ {c}) = Cardinality(Pending) - 1
         /\ Cardinality(Pending) \in Nat \ {0}
         /\ nextId \in Ids
         /\ req[c].dep \in Deps
<1>1. c \in Pending /\ IsFiniteSet(Pending)
  BY DEF IInv, ClientInv, BoundInv, Pending
<1>2. /\ IsFiniteSet(Pending \ {c})
      /\ Cardinality(Pending \ {c}) = Cardinality(Pending) - 1
      /\ Cardinality(Pending) \in Nat /\ Cardinality(Pending \ {c}) \in Nat
  BY <1>1, FS_RemoveElement, FS_CardinalityType
<1>3. Cardinality(Pending) # 0
  BY <1>2
<1>4. nextId \in Ids
  <2>1. nextId + Cardinality(Pending) <= asked + 1 /\ asked \in 0 .. MaxJobs
        /\ nextId \in 1 .. MaxJobs + 1 /\ MaxJobs \in Nat
    BY WinDaemonAssumption DEF WinDaemonAssumption, IInv, BoundInv, TypeOK
  <2> QED
    BY <1>2, <1>3, <2>1 DEF Ids
<1>5. req[c].dep \in Deps
  <2>1. req[c] \in Requests
    BY DEF IInv, TypeOK
  <2> QED
    BY <2>1 DEF Requests
<1> QED
  BY <1>1, <1>2, <1>3, <1>4, <1>5

(* What a submission puts at the end of the vector.                        *)
LEMMA SubmitEffect ==
  ASSUME IInv, NEW c \in Clients, cpc[c] = "send", req[c].op = "SUBMIT", Submit(c)
  PROVE  /\ jobs' \in Seq(Job)
         /\ DOMAIN jobs' = DOMAIN jobs \cup {Len(jobs) + 1}
         /\ \A k \in DOMAIN jobs : jobs'[k] = jobs[k]
         /\ jobs'[Len(jobs) + 1].id = nextId
         /\ jobs'[Len(jobs) + 1].state = "Queued"
         /\ Len(jobs) \in Nat /\ DOMAIN jobs = 1 .. Len(jobs)
         /\ IdsIn(jobs') = IdsIn(jobs) \cup {nextId}
<1> DEFINE job == [id |-> nextId, state |-> "Queued", dep |-> req[c].dep]
<1>1. job \in Job
  BY SubmitFits DEF Job, States
<1>2. job.id = nextId /\ job.state = "Queued" /\ jobs' = Append(jobs, job) /\ jobs \in Seq(Job)
  BY DEF Submit, IInv, TypeOK
<1> HIDE DEF job
<1> QED
  BY <1>1, <1>2, AppendEffect

LEMMA TypeStep == IInv /\ [Next]_vars => TypeOK'
<1> SUFFICES ASSUME IInv, [Next]_vars
             PROVE  TypeOK'
  OBVIOUS
<1> USE DEF TypeOK, daemon, client
<1>0. TypeOK /\ MaxJobs \in Nat
  BY WinDaemonAssumption DEF WinDaemonAssumption, IInv
<1>1. ASSUME NEW c \in Clients, Ask(c)
      PROVE  TypeOK'
  <2>1. asked' \in 0 .. MaxJobs
    BY <1>0, <1>1 DEF Ask
  <2> QED
    BY <1>0, <1>1, <2>1 DEF Ask
<1>2. ASSUME NEW c \in Clients, Refused(c)
      PROVE  TypeOK'
  BY <1>0, <1>2 DEF Refused, NoRequest, Requests
<1>3. ASSUME NEW c \in Clients, Serve(c)
      PROVE  TypeOK'
  <2>1. UNCHANGED <<file, running, req, crashes, asked, acked, torn>>
        /\ after' = "reply" /\ serving' = c /\ cpc' = [cpc EXCEPT ![c] = "await"]
    BY <1>3 DEF Serve
  <2>2. CASE Ping(c) \/ Look(c) \/ SetPriority(c) \/ SetPaused(c)
    BY <1>0, <2>1, <2>2 DEF Ping, Look, SetPriority, SetPaused, Answered
  <2>3. CASE cpc[c] = "send" /\ req[c].op = "SUBMIT" /\ Submit(c)
    <3>1. jobs' \in Seq(Job) /\ nextId \in Ids
      BY <2>3, SubmitEffect, SubmitFits
    <3> QED
      BY <1>0, <2>1, <2>3, <3>1 DEF Submit, Answered, Ids
  <2>4. CASE Cancel(c)
    <3>1. jobs' \in Seq(Job)
      BY <1>0, <2>4, SetStateEffect DEF Cancel, States
    <3> QED
      BY <1>0, <2>1, <2>4, <3>1 DEF Cancel, Answered
  <2> QED
    BY <1>3, <2>2, <2>3, <2>4 DEF Serve
<1>4. CASE Reply
  <2>1. serving \in Clients
    BY <1>4 DEF Reply, IInv, ThreadInv, InMessage
  <2>2. acked' \subseteq Ids
    <3>1. pushed[serving] \in 0 .. MaxJobs
      BY <1>0, <2>1
    <3>2. acked' = acked \/ (pushed[serving] # 0 /\ acked' = acked \cup {pushed[serving]})
      BY <1>4 DEF Reply
    <3>3. pushed[serving] # 0 => pushed[serving] \in Ids
      BY <3>1 DEF Ids
    <3>4. acked \subseteq Ids
      BY <1>0
    <3> HIDE DEF TypeOK
    <3> QED
      BY <3>2, <3>3, <3>4
  <2>3. cpc' \in [Clients -> {"ping", "send", "await", "done"}] /\ req' \in [Clients -> Requests]
    <3>1. NoRequest \in Requests
      BY DEF NoRequest, Requests
    <3>2. /\ \E s \in {"send", "done"} : cpc' = [cpc EXCEPT ![serving] = s]
          /\ req' = req \/ req' = [req EXCEPT ![serving] = NoRequest]
      BY <1>4 DEF Reply
    <3> QED
      BY <1>0, <3>1, <3>2
  <2> QED
    BY <1>0, <1>4, <2>2, <2>3 DEF Reply
<1>5. CASE SaveOpen
  BY <1>0, <1>5, EmptySeq DEF SaveOpen
<1>6. CASE SaveFlush
  BY <1>0, <1>6 DEF SaveFlush
<1>7. CASE StartNext \/ JobEnds
  <2>1. jobs' \in Seq(Job)
    BY <1>0, <1>7, SetStateEffect DEF StartNext, JobEnds, States
  <2>2. running' \in 0 .. MaxJobs
    <3>1. \A i \in DOMAIN jobs : jobs[i] \in Job
      BY <1>0
    <3> QED
      BY <1>0, <1>7, <3>1 DEF StartNext, JobEnds, Job, Ids
  <2> QED
    BY <1>0, <1>7, <2>1, <2>2 DEF StartNext, JobEnds
<1>8. CASE NothingToStart
  BY <1>0, <1>8 DEF NothingToStart
<1>9. CASE Boot
  BY <1>0, <1>9, IdAfterBounds DEF Boot
<1>10. CASE Crash
  <2>1. torn' \in BOOLEAN
    BY <1>0, <1>10, Zenon DEF Crash
  <2>2. crashes' \in 0 .. MaxCrash
    BY <1>0, <1>10, WinDaemonAssumption DEF Crash, WinDaemonAssumption
  <2>3. /\ dpc' = "off" /\ after' = "listen" /\ serving' = "none" /\ running' = 0
        /\ jobs' = <<>> /\ nextId' = 1
        /\ UNCHANGED <<file, client, asked, acked>>
    BY <1>10 DEF Crash
  <2>4. paused' \in BOOLEAN
    BY <1>10 DEF Crash
  <2>5. jobs' \in Seq(Job) /\ nextId' \in 1 .. MaxJobs + 1 /\ running' \in 0 .. MaxJobs
    BY <1>0, <2>3, EmptySeq
  <2> QED
    BY <1>0, <2>1, <2>2, <2>3, <2>4, <2>5
<1>11. CASE UNCHANGED vars
  BY <1>0, <1>11 DEF vars
<1> QED
  BY <1>1, <1>2, <1>3, <1>4, <1>5, <1>6, <1>7, <1>8, <1>9, <1>10, <1>11 DEF Next, DaemonStep

-----------------------------------------------------------------------------
(* The clients and the ids that are left.                                  *)

LEMMA ClientStep == IInv /\ [Next]_vars => ClientInv'
<1> SUFFICES ASSUME IInv, [Next]_vars
             PROVE  ClientInv'
  OBVIOUS
<1> USE DEF ClientInv, daemon, client
<1>0. ClientInv /\ TypeOK
  BY DEF IInv
<1>1. ASSUME NEW c \in Clients, Ask(c)
      PROVE  ClientInv'
  BY <1>0, <1>1 DEF Ask, TypeOK
<1>2. ASSUME NEW c \in Clients, Refused(c)
      PROVE  ClientInv'
  BY <1>0, <1>2 DEF Refused, TypeOK
<1>3. ASSUME NEW c \in Clients, Serve(c)
      PROVE  ClientInv'
  <2>1. cpc' = [cpc EXCEPT ![c] = "await"] /\ cpc[c] \in {"ping", "send"}
    BY <1>3 DEF Serve
  <2>2. CASE Ping(c) \/ Look(c) \/ SetPriority(c) \/ SetPaused(c) \/ Cancel(c)
    BY <1>0, <2>1, <2>2 DEF Ping, Look, SetPriority, SetPaused, Cancel, Answered, TypeOK
  <2>3. CASE Submit(c)
    BY <1>0, <2>1, <2>3 DEF Submit, Answered, TypeOK
  <2> QED
    BY <1>3, <2>2, <2>3 DEF Serve
<1>4. CASE Reply
  <2>1. serving \in Clients /\ cpc[serving] = "await"
    BY <1>4 DEF Reply, IInv, ThreadInv, InMessage
  <2> QED
    BY <1>0, <1>4, <2>1 DEF Reply, TypeOK
<1>5. CASE UNCHANGED client
  BY <1>0, <1>5
<1>6. (DaemonStep /\ ~Reply) \/ Crash \/ UNCHANGED vars => UNCHANGED client
  BY DEF DaemonStep, SaveOpen, SaveFlush, StartNext, NothingToStart, JobEnds, Boot, Crash, vars
<1> QED
  BY <1>1, <1>2, <1>3, <1>4, <1>5, <1>6 DEF Next, DaemonStep

(* Fewer commands still to come never need more ids.                       *)
LEMMA PendingShrinks ==
  ASSUME IInv, Pending' \subseteq Pending, UNCHANGED <<nextId, file, asked>>
  PROVE  BoundInv'
<1>1. /\ IsFiniteSet(Pending') /\ Cardinality(Pending') <= Cardinality(Pending)
      /\ Cardinality(Pending') \in Nat /\ Cardinality(Pending) \in Nat
  BY FS_Subset, FS_CardinalityType DEF IInv, BoundInv
<1>2. nextId \in Nat /\ asked \in Nat /\ \A i \in DOMAIN file : file[i].id \in Nat
  <2>1. \A i \in DOMAIN file : file[i] \in Job
    BY DEF IInv, TypeOK
  <2> QED
    BY <2>1, WinDaemonAssumption DEF IInv, TypeOK, Job, Ids, WinDaemonAssumption
<1> QED
  BY <1>1, <1>2 DEF IInv, BoundInv

LEMMA BoundStep == IInv /\ [Next]_vars => BoundInv'
<1> SUFFICES ASSUME IInv, [Next]_vars
             PROVE  BoundInv'
  OBVIOUS
<1> DEFINE card == Cardinality(Pending)
<1>0. /\ BoundInv /\ TypeOK /\ MaxJobs \in Nat /\ IsFiniteSet(Pending) /\ card \in Nat
      /\ nextId \in Nat /\ asked \in Nat
      /\ \A i \in DOMAIN file : file[i].id \in Nat
      /\ \A i \in DOMAIN jobs : jobs[i].id \in Nat
  <2>1. \A i \in DOMAIN file : file[i] \in Job
    BY DEF IInv, TypeOK
  <2>2. \A i \in DOMAIN jobs : jobs[i] \in Job
    BY DEF IInv, TypeOK
  <2>3. BoundInv /\ TypeOK /\ MaxJobs \in Nat /\ IsFiniteSet(Pending) /\ card \in Nat
    BY FS_CardinalityType, WinDaemonAssumption DEF IInv, BoundInv, WinDaemonAssumption
  <2> QED
    BY <2>1, <2>2, <2>3 DEF TypeOK, Job, Ids
<1>1. ASSUME NEW c \in Clients, Ask(c)
      PROVE  BoundInv'
  <2>1. PICK r \in Requests :
          /\ asked' = IF r.op = "SUBMIT" THEN asked + 1 ELSE asked
          /\ req' = [req EXCEPT ![c] = r]
          /\ cpc' = [cpc EXCEPT ![c] = IF r.op = "SUBMIT" THEN "ping" ELSE "send"]
    BY <1>1 DEF Ask
  <2>2. cpc[c] = "done" /\ c \notin Pending /\ pushed' = [pushed EXCEPT ![c] = 0]
        /\ UNCHANGED <<nextId, file>>
    BY <1>1 DEF Ask, Pending
  <2>3. CASE r.op = "SUBMIT"
    <3>1. Pending' = Pending \cup {c}
      BY <1>0, <2>1, <2>2, <2>3 DEF Pending, TypeOK
    <3>2. IsFiniteSet(Pending') /\ Cardinality(Pending') = card + 1
      BY <1>0, <2>2, <3>1, FS_AddElement
    <3> QED
      BY <1>0, <2>1, <2>2, <2>3, <3>2 DEF BoundInv
  <2>4. CASE r.op # "SUBMIT"
    <3>1. Pending' \subseteq Pending
      BY <1>0, <2>1, <2>2, <2>4 DEF Pending, TypeOK
    <3> QED
      BY <2>1, <2>2, <2>4, <3>1, PendingShrinks
  <2> QED
    BY <2>3, <2>4
<1>2. ASSUME NEW c \in Clients, Refused(c)
      PROVE  BoundInv'
  <2>1. Pending' \subseteq Pending
    BY <1>0, <1>2 DEF Refused, Pending, TypeOK
  <2> QED
    BY <1>2, <2>1, PendingShrinks DEF Refused
<1>3. ASSUME NEW c \in Clients, Serve(c)
      PROVE  BoundInv'
  <2>1. /\ UNCHANGED <<file, req, asked>> /\ cpc' = [cpc EXCEPT ![c] = "await"]
        /\ cpc[c] \in {"ping", "send"}
    BY <1>3 DEF Serve
  <2>2. CASE Ping(c) \/ Look(c) \/ SetPriority(c) \/ SetPaused(c) \/ Cancel(c)
    <3>1. UNCHANGED <<nextId, pushed>>
      BY <2>2 DEF Ping, Look, SetPriority, SetPaused, Cancel
    <3>2. Pending' \subseteq Pending
      BY <1>0, <2>1, <3>1 DEF Pending, TypeOK
    <3> QED
      BY <2>1, <3>1, <3>2, PendingShrinks
  <2>3. CASE cpc[c] = "send" /\ req[c].op = "SUBMIT" /\ Submit(c)
    <3>1. nextId' = nextId + 1 /\ pushed' = [pushed EXCEPT ![c] = nextId] /\ nextId # 0
      BY <1>0, <2>3 DEF Submit, TypeOK
    <3>2. Pending' = Pending \ {c}
      BY <1>0, <2>1, <3>1 DEF Pending, TypeOK
    <3>3. IsFiniteSet(Pending') /\ Cardinality(Pending') = card - 1
      BY <2>3, <3>2, SubmitFits
    <3> QED
      BY <1>0, <2>1, <3>1, <3>3 DEF BoundInv
  <2> QED
    BY <1>3, <2>2, <2>3 DEF Serve
<1>4. CASE Reply
  <2>1. serving \in Clients /\ cpc[serving] = "await"
    BY <1>4 DEF Reply, IInv, ThreadInv, InMessage
  <2>2. Pending' \subseteq Pending
    BY <1>0, <1>4, <2>1 DEF Reply, Pending, TypeOK
  <2> QED
    BY <1>4, <2>2, PendingShrinks DEF Reply
<1>5. CASE SaveOpen
  <2>1. Pending' = Pending
    BY <1>5 DEF SaveOpen, client, Pending
  <2> QED
    BY <1>0, <1>5, <2>1 DEF SaveOpen, BoundInv
<1>6. CASE SaveFlush
  <2>1. Pending' = Pending
    BY <1>6 DEF SaveFlush, client, Pending
  <2>2. \A i \in DOMAIN jobs : jobs[i].id < nextId
    BY DEF IInv, StoreInv
  <2> QED
    BY <1>0, <1>6, <2>1, <2>2 DEF SaveFlush, BoundInv
<1>7. CASE StartNext \/ NothingToStart \/ JobEnds \/ UNCHANGED vars
  <2>1. UNCHANGED <<client, nextId, file, asked>>
    BY <1>7 DEF StartNext, NothingToStart, JobEnds, vars
  <2>2. Pending' = Pending
    BY <2>1 DEF client, Pending
  <2> QED
    BY <2>1, <2>2, PendingShrinks
<1>8. CASE Boot
  <2>1. Pending' = Pending /\ UNCHANGED <<file, asked>> /\ nextId' = IdAfter(file)
    BY <1>8 DEF Boot, client, Pending
  <2>2. nextId' = 1 \/ \E i \in DOMAIN file : file[i].id = nextId' - 1
    BY <1>0, <2>1, IdAfterBounds DEF TypeOK
  <2>3. nextId' \in Nat
    BY <1>0, <2>1, IdAfterBounds DEF TypeOK
  <2> QED
    BY <1>0, <2>1, <2>2, <2>3 DEF BoundInv
<1>9. CASE Crash
  <2>1. Pending' = Pending
    BY <1>9 DEF Crash, client, Pending
  <2> QED
    BY <1>0, <1>9, <2>1 DEF Crash, BoundInv
<1> QED
  BY <1>1, <1>2, <1>3, <1>4, <1>5, <1>6, <1>7, <1>8, <1>9 DEF Next, DaemonStep

-----------------------------------------------------------------------------
(* The daemon's thread.                                                    *)

(* A step of a client that is not being served does not concern it.        *)
LEMMA OtherClient ==
  ASSUME IInv, NEW c \in Clients, InMessage => serving # c, UNCHANGED <<jobs, daemon>>,
         \A d \in Clients \ {c} : cpc'[d] = cpc[d] /\ pushed'[d] = pushed[d]
  PROVE  ThreadInv'
<1>1. UNCHANGED <<jobs, dpc, after, serving, running>> /\ ThreadInv
  BY DEF daemon, IInv
<1>2. InMessage' => /\ serving' \in Clients
                    /\ cpc'[serving'] = "await"
                    /\ pushed'[serving'] \in IdsIn(jobs') \cup {0}
  <2> SUFFICES ASSUME InMessage'
               PROVE  /\ serving' \in Clients
                      /\ cpc'[serving'] = "await"
                      /\ pushed'[serving'] \in IdsIn(jobs') \cup {0}
    OBVIOUS
  <2>1. InMessage
    BY <1>1 DEF InMessage
  <2> QED
    BY <1>1, <2>1 DEF ThreadInv
<1>3. running' # 0 <=> InJob'
  BY <1>1 DEF ThreadInv, InJob
<1>4. running' # 0 =>
        \E i \in DOMAIN jobs' : jobs'[i].id = running' /\ jobs'[i].state = "Running"
  BY <1>1 DEF ThreadInv
<1> QED
  BY <1>2, <1>3, <1>4 DEF ThreadInv

LEMMA ThreadStep == IInv /\ [Next]_vars => ThreadInv'
<1> SUFFICES ASSUME IInv, [Next]_vars
             PROVE  ThreadInv'
  OBVIOUS
<1> USE DEF ThreadInv, InMessage, InJob
<1>0. /\ ThreadInv /\ jobs \in Seq(Job)
      /\ cpc \in [Clients -> {"ping", "send", "await", "done"}]
      /\ pushed \in [Clients -> 0 .. MaxJobs]
      /\ \A i \in DOMAIN jobs : jobs[i].id \in Ids
      /\ \A n \in Ids : n # 0
  <2>1. \A i \in DOMAIN jobs : jobs[i] \in Job
    BY DEF IInv, TypeOK
  <2> QED
    BY <2>1 DEF IInv, TypeOK, Job, Ids
<1>1. ASSUME NEW c \in Clients, Ask(c)
      PROVE  ThreadInv'
  <2>1. /\ UNCHANGED <<jobs, daemon>> /\ cpc[c] = "done"
        /\ \A d \in Clients \ {c} : cpc'[d] = cpc[d] /\ pushed'[d] = pushed[d]
    BY <1>0, <1>1 DEF Ask
  <2>2. InMessage => serving # c
    BY <1>0, <2>1
  <2> QED
    BY <2>1, <2>2, OtherClient
<1>2. ASSUME NEW c \in Clients, Refused(c)
      PROVE  ThreadInv'
  <2>1. /\ UNCHANGED <<jobs, daemon, pushed>>
        /\ \A d \in Clients \ {c} : cpc'[d] = cpc[d]
    BY <1>0, <1>2 DEF Refused
  <2>2. InMessage => serving # c
    BY <1>0, <1>2 DEF Refused
  <2> QED
    BY <2>1, <2>2, OtherClient
<1>3. ASSUME NEW c \in Clients, Serve(c)
      PROVE  ThreadInv'
  <2>1. /\ dpc = "listen" /\ running' = running /\ after' = "reply" /\ serving' = c
        /\ cpc' = [cpc EXCEPT ![c] = "await"] /\ cpc[c] \in {"ping", "send"}
    BY <1>3 DEF Serve
  <2>2. running = 0
    BY <1>0, <2>1
  <2>3. CASE Ping(c) \/ Look(c) \/ SetPriority(c) \/ SetPaused(c) \/ Cancel(c)
    <3>1. dpc' \in {"save", "reply"} /\ pushed' = pushed
      BY <2>3 DEF Ping, Look, SetPriority, SetPaused, Cancel
    <3>2. pushed[c] = 0
      BY <2>1 DEF IInv, ClientInv
    <3> QED
      BY <1>0, <2>1, <2>2, <3>1, <3>2
  <2>4. CASE cpc[c] = "send" /\ req[c].op = "SUBMIT" /\ Submit(c)
    <3>1. dpc' = "save" /\ pushed' = [pushed EXCEPT ![c] = nextId]
      BY <2>4 DEF Submit
    <3>2. nextId \in IdsIn(jobs')
      BY <2>4, SubmitEffect
    <3> QED
      BY <1>0, <2>1, <2>2, <3>1, <3>2
  <2> QED
    BY <1>3, <2>3, <2>4 DEF Serve
<1>4. CASE Reply
  BY <1>0, <1>4 DEF Reply
<1>5. CASE SaveOpen \/ SaveFlush
  <2>1. UNCHANGED <<jobs, after, serving, running, cpc, pushed>>
    BY <1>5 DEF SaveOpen, SaveFlush, client
  <2>2. /\ after \in {"reply", "exec", "listen"}
        /\ (dpc = "save" /\ dpc' = "flush") \/ (dpc = "flush" /\ dpc' = after)
    BY <1>5 DEF SaveOpen, SaveFlush, IInv, TypeOK
  <2> QED
    BY <1>0, <2>1, <2>2
<1>6. CASE StartNext
  <2>1. PICK i \in DOMAIN jobs : SetState(i, "Running") /\ running' = jobs[i].id
    BY <1>6 DEF StartNext
  <2>2. DOMAIN jobs' = DOMAIN jobs /\ jobs'[i].id = running' /\ jobs'[i].state = "Running"
    BY <1>0, <2>1, SetStateEffect DEF States
  <2>3. dpc' = "save" /\ after' = "exec" /\ running' # 0
    BY <1>0, <1>6, <2>1 DEF StartNext
  <2> QED
    BY <2>2, <2>3
<1>7. CASE JobEnds
  BY <1>7 DEF JobEnds
<1>8. CASE NothingToStart \/ Boot
  BY <1>0, <1>8 DEF NothingToStart, Boot
<1>9. CASE Crash
  BY <1>9 DEF Crash
<1>10. CASE UNCHANGED vars
  BY <1>0, <1>10 DEF vars, daemon, client
<1> QED
  BY <1>1, <1>2, <1>3, <1>4, <1>5, <1>6, <1>7, <1>8, <1>9, <1>10 DEF Next, DaemonStep

-----------------------------------------------------------------------------
(* The vector and the file.                                                *)

LEMMA StoreStep == IInv /\ [Next]_vars => StoreInv'
<1> SUFFICES ASSUME IInv, [Next]_vars
             PROVE  StoreInv'
  OBVIOUS
<1> USE DEF StoreInv
<1>0. /\ StoreInv /\ jobs \in Seq(Job) /\ file \in Seq(Job)
      /\ nextId \in Nat /\ \A i \in DOMAIN jobs : jobs[i].id \in Nat
  <2>1. \A i \in DOMAIN jobs : jobs[i] \in Job
    BY DEF IInv, TypeOK
  <2> QED
    BY <2>1, WinDaemonAssumption DEF IInv, TypeOK, Job, Ids, WinDaemonAssumption
<1>1. ASSUME NEW c \in Clients, Ask(c) \/ Refused(c)
      PROVE  StoreInv'
  <2>1. UNCHANGED <<jobs, nextId, file, dpc, acked, torn>>
    BY <1>1 DEF Ask, Refused, daemon
  <2> QED
    BY <1>0, <2>1 DEF Unique, IdsIn
<1>2. ASSUME NEW c \in Clients, Serve(c)
      PROVE  StoreInv'
  <2>1. UNCHANGED <<file, acked, torn>> /\ dpc = "listen" /\ file = jobs
    BY <1>0, <1>2 DEF Serve
  <2>2. CASE Ping(c) \/ Look(c) \/ SetPriority(c) \/ SetPaused(c)
    <3>1. UNCHANGED <<jobs, nextId>> /\ dpc' \in {"save", "reply"}
      BY <2>2 DEF Ping, Look, SetPriority, SetPaused
    <3> QED
      BY <1>0, <2>1, <3>1 DEF Unique, IdsIn
  <2>3. CASE cpc[c] = "send" /\ req[c].op = "SUBMIT" /\ Submit(c)
    <3>1. /\ DOMAIN jobs' = DOMAIN jobs \cup {Len(jobs) + 1}
          /\ \A k \in DOMAIN jobs : jobs'[k] = jobs[k]
          /\ jobs'[Len(jobs) + 1].id = nextId
          /\ IdsIn(jobs') = IdsIn(jobs) \cup {nextId}
      BY <2>3, SubmitEffect
    <3>2. nextId' = nextId + 1 /\ dpc' = "save"
      BY <2>3 DEF Submit
    <3>3. \A i \in DOMAIN jobs' : jobs'[i].id < nextId'
      BY <1>0, <3>1, <3>2
    <3>4. \A i \in DOMAIN jobs : jobs'[i].id < nextId
      BY <1>0, <3>1
    <3>5. Unique(jobs')
      BY <1>0, <3>1, <3>4 DEF Unique
    <3> QED
      BY <1>0, <2>1, <3>1, <3>2, <3>3, <3>5 DEF Unique, IdsIn
  <2>4. CASE Cancel(c)
    <3>1. CASE UNCHANGED jobs
      BY <1>0, <2>1, <2>4, <3>1 DEF Cancel, Unique, IdsIn
    <3>2. CASE dpc' = "save" /\ \E i \in DOMAIN jobs : SetState(i, "Cancelled")
      <4>1. /\ DOMAIN jobs' = DOMAIN jobs /\ IdsIn(jobs') = IdsIn(jobs)
            /\ \A k \in DOMAIN jobs : jobs'[k].id = jobs[k].id
        BY <1>0, <3>2, SetStateEffect DEF States
      <4>2. Unique(jobs') /\ \A i \in DOMAIN jobs' : jobs'[i].id < nextId
        BY <1>0, <4>1 DEF Unique
      <4> QED
        BY <1>0, <2>1, <2>4, <3>2, <4>1, <4>2 DEF Cancel, Unique
    <3> QED
      BY <2>4, <3>1, <3>2 DEF Cancel
  <2> QED
    BY <1>2, <2>2, <2>3, <2>4 DEF Serve
<1>3. CASE Reply
  <2>1. /\ UNCHANGED <<jobs, nextId, file, torn>> /\ dpc = "reply" /\ dpc' = "scan"
        /\ acked' = acked \/ (pushed[serving] # 0 /\ acked' = acked \cup {pushed[serving]})
    BY <1>3 DEF Reply
  <2>2. pushed[serving] \in IdsIn(jobs) \cup {0}
    BY <2>1 DEF IInv, ThreadInv, InMessage
  <2> QED
    BY <1>0, <2>1, <2>2 DEF Unique, IdsIn
<1>4. CASE SaveOpen
  <2>1. DOMAIN file' = {}
    BY <1>4 DEF SaveOpen
  <2> QED
    BY <1>0, <1>4, <2>1 DEF SaveOpen, Unique, IdsIn
<1>5. CASE SaveFlush
  <2>1. /\ UNCHANGED <<jobs, nextId, acked, torn>> /\ file' = jobs /\ dpc = "flush"
        /\ dpc' \in {"reply", "exec", "listen"}
    BY <1>5 DEF SaveFlush, IInv, TypeOK
  <2> QED
    BY <1>0, <2>1 DEF Unique, IdsIn
<1>6. CASE StartNext \/ JobEnds
  <2>1. /\ DOMAIN jobs' = DOMAIN jobs /\ IdsIn(jobs') = IdsIn(jobs)
        /\ \A k \in DOMAIN jobs : jobs'[k].id = jobs[k].id
    BY <1>0, <1>6, SetStateEffect DEF StartNext, JobEnds, States
  <2>2. UNCHANGED <<nextId, file, acked, torn>> /\ dpc' = "save" /\ dpc # "off"
    BY <1>6 DEF StartNext, JobEnds
  <2>3. Unique(jobs') /\ \A i \in DOMAIN jobs' : jobs'[i].id < nextId'
    BY <1>0, <2>1, <2>2 DEF Unique
  <2> QED
    BY <1>0, <2>1, <2>2, <2>3 DEF Unique
<1>7. CASE NothingToStart
  BY <1>0, <1>7 DEF NothingToStart, Unique, IdsIn
<1>8. CASE Boot
  <2>1. UNCHANGED <<file, acked, torn>> /\ jobs' = file /\ nextId' = IdAfter(file)
        /\ dpc = "off" /\ dpc' = "listen"
    BY <1>8 DEF Boot
  <2>2. \A i \in DOMAIN file : file[i].id < IdAfter(file)
    BY <1>0, IdAfterBounds
  <2>3. ~torn => acked \subseteq IdsIn(file)
    BY <2>1 DEF IInv, AckedSurvive
  <2> QED
    BY <1>0, <2>1, <2>2, <2>3 DEF Unique, IdsIn
<1>9. CASE Crash
  <2>1. DOMAIN jobs' = {} /\ UNCHANGED file /\ dpc' = "off"
    BY <1>9 DEF Crash
  <2> QED
    BY <1>0, <2>1 DEF Unique
<1>10. CASE UNCHANGED vars
  BY <1>0, <1>10 DEF vars, daemon, Unique, IdsIn
<1> QED
  BY <1>1, <1>2, <1>3, <1>4, <1>5, <1>6, <1>7, <1>8, <1>9, <1>10 DEF Next, DaemonStep

(* What was acknowledged is in the file, but for the moment of a save.     *)
LEMMA AckStep == IInv /\ [Next]_vars => AckedSurvive'
<1> SUFFICES ASSUME IInv, [Next]_vars, ~torn', dpc' # "flush"
             PROVE  acked' \subseteq IdsIn(file)'
  BY DEF AckedSurvive
<1>0. AckedSurvive /\ StoreInv
  BY DEF IInv
<1>1. CASE Reply
  <2>1. StoreInv'
    BY StoreStep
  <2>2. dpc' = "scan"
    BY <1>1 DEF Reply
  <2> QED
    BY <2>1, <2>2 DEF StoreInv, IdsIn
<1>2. CASE SaveFlush
  BY <1>0, <1>2 DEF SaveFlush, StoreInv, IdsIn
<1>3. CASE SaveOpen
  BY <1>3 DEF SaveOpen
<1>4. CASE Crash
  BY <1>0, <1>4 DEF Crash, AckedSurvive, IdsIn
<1>5. ASSUME UNCHANGED <<file, acked, torn>>, dpc # "flush"
      PROVE  acked' \subseteq IdsIn(file)'
  BY <1>0, <1>5 DEF AckedSurvive, IdsIn
<1>6. CASE dpc = "flush" /\ ~SaveFlush /\ ~Crash
  <2>1. UNCHANGED dpc
    BY <1>6 DEF Next, DaemonStep, Ask, Refused, Serve, Reply, SaveOpen, StartNext, NothingToStart,
                JobEnds, Boot, vars, daemon
  <2> QED
    BY <1>6, <2>1
<1>7. ~(Reply \/ SaveFlush \/ SaveOpen \/ Crash) => UNCHANGED <<file, acked, torn>>
  BY DEF Next, DaemonStep, Ask, Refused, Serve, StartNext, NothingToStart, JobEnds, Boot, vars
<1> QED
  BY <1>1, <1>2, <1>3, <1>4, <1>5, <1>6, <1>7

-----------------------------------------------------------------------------
(* The three invariants of the runs.                                       *)

LEMMA Invariance == Spec => []IInv
<1>1. Init => IInv
  BY InvInit
<1>2. IInv /\ [Next]_vars => IInv'
  BY TypeStep, ClientStep, BoundStep, ThreadStep, StoreStep, AckStep DEF IInv
<1> QED
  BY <1>1, <1>2, PTL DEF Spec

(* Every variable keeps its type; above all, no id beyond the last is ever *)
(* handed out: the vector and the client's ids stay in 1 .. MaxJobs, also  *)
(* when ids are reused after a restart from an empty file.                 *)
THEOREM TypeCorrect == Spec => []TypeOK
<1>1. IInv => TypeOK
  BY DEF IInv
<1> QED
  BY <1>1, Invariance, PTL

(* SUBMIT is saved before it is answered and every save writes every job,  *)
(* so an id a client was told is in jobs.json, unless a kill came between  *)
(* the truncation and the flush of a save.                                 *)
THEOREM AcknowledgedJobsSurvive == Spec => []AckedSurvive
<1>1. IInv => AckedSurvive
  BY DEF IInv
<1> QED
  BY <1>1, Invariance, PTL

(* A client that was refused, by the pipe or by a handler, has put no job  *)
(* into jobs_.                                                             *)
THEOREM RefusedCommandsLeaveNothing == Spec => []RefusedLeavesNothing
<1>1. IInv => RefusedLeavesNothing
  BY DEF IInv, ClientInv, RefusedLeavesNothing
<1> QED
  BY <1>1, Invariance, PTL

-----------------------------------------------------------------------------
(* The refinement: phases of jobs in a sequence.                           *)

(* Where ids are unique, a job's phase is that of its state.               *)
LEMMA PhaseInAt ==
  ASSUME NEW s \in Seq(Job), Unique(s), NEW k \in DOMAIN s, NEW b
  PROVE  PhaseIn(s, s[k].id, b) = PhaseOf(s[k].state, b)
<1> DEFINE j == CHOOSE m \in DOMAIN s : s[m].id = s[k].id
<1>1. j \in DOMAIN s /\ s[j].id = s[k].id
  OBVIOUS
<1>2. j = k
  BY <1>1 DEF Unique
<1>3. s[k].id \in IdsIn(s)
  BY DEF IdsIn
<1> QED
  BY <1>2, <1>3 DEF PhaseIn

(* The phase depends on who works on a begun job, and on nothing else.     *)
LEMMA PhaseInBegun ==
  ASSUME NEW s, NEW n
  PROVE  /\ \A b \in {"working", "adrift"} :
              PhaseIn(s, n, "working")
                = IF PhaseIn(s, n, b) = "adrift" THEN "working" ELSE PhaseIn(s, n, b)
         /\ PhaseIn(s, n, "adrift")
              = IF PhaseIn(s, n, "working") = "working" THEN "adrift"
                                                        ELSE PhaseIn(s, n, "working")
         /\ PhaseIn(s, n, "adrift") # "working"
<1>1. CASE n \notin IdsIn(s)
  BY <1>1 DEF PhaseIn
<1>2. CASE n \in IdsIn(s)
  <2> DEFINE t == s[CHOOSE k \in DOMAIN s : s[k].id = n].state
  <2>1. \A b : PhaseIn(s, n, b) = PhaseOf(t, b)
    BY <1>2 DEF PhaseIn
  <2> HIDE DEF t
  <2>2. \A b :
          \/ PhaseOf(t, b) = "waiting"
          \/ PhaseOf(t, b) = b /\ t = "Running"
          \/ PhaseOf(t, b) = "over"
    BY DEF PhaseOf
  <2>3. \A b, d : PhaseOf(t, b) = PhaseOf(t, d) \/ (PhaseOf(t, b) = b /\ PhaseOf(t, d) = d)
    BY DEF PhaseOf
  <2> QED
    BY <2>1, <2>2, <2>3
<1> QED
  BY <1>1, <1>2

(* Changing one job's state changes that id's phase and no other.          *)
LEMMA SetStatePhase ==
  ASSUME IInv, NEW i \in DOMAIN jobs, NEW s \in States, SetState(i, s), NEW b
  PROVE  /\ PhaseIn(jobs', jobs[i].id, b) = PhaseOf(s, b)
         /\ \A n : n # jobs[i].id => PhaseIn(jobs', n, b) = PhaseIn(jobs, n, b)
<1>1. /\ jobs \in Seq(Job) /\ Unique(jobs) /\ jobs' \in Seq(Job)
      /\ DOMAIN jobs' = DOMAIN jobs /\ IdsIn(jobs') = IdsIn(jobs)
      /\ \A k \in DOMAIN jobs : /\ jobs'[k].id = jobs[k].id
                                /\ jobs'[k].state = IF k = i THEN s ELSE jobs[k].state
  BY SetStateEffect DEF IInv, TypeOK, StoreInv
<1>2. Unique(jobs')
  BY <1>1 DEF Unique
<1>3. PhaseIn(jobs', jobs[i].id, b) = PhaseOf(s, b)
  <2>1. PhaseIn(jobs', jobs'[i].id, b) = PhaseOf(jobs'[i].state, b)
    BY <1>1, <1>2, PhaseInAt
  <2> QED
    BY <1>1, <2>1
<1>4. ASSUME NEW n, n # jobs[i].id
      PROVE  PhaseIn(jobs', n, b) = PhaseIn(jobs, n, b)
  <2>1. CASE n \notin IdsIn(jobs)
    BY <1>1, <2>1 DEF PhaseIn
  <2>2. CASE n \in IdsIn(jobs)
    <3>1. PICK k \in DOMAIN jobs : jobs[k].id = n
      BY <2>2 DEF IdsIn
    <3>2. PhaseIn(jobs, jobs[k].id, b) = PhaseOf(jobs[k].state, b)
      BY <1>1, PhaseInAt
    <3>3. PhaseIn(jobs', jobs'[k].id, b) = PhaseOf(jobs'[k].state, b)
      BY <1>1, <1>2, PhaseInAt
    <3> QED
      BY <1>1, <1>4, <3>1, <3>2, <3>3
  <2> QED
    BY <2>1, <2>2
<1> QED
  BY <1>3, <1>4

(* A submission makes its own id waiting and moves no other job.           *)
LEMMA SubmitPhase ==
  ASSUME IInv, IInv', NEW c \in Clients, cpc[c] = "send", req[c].op = "SUBMIT", Submit(c),
         NEW b
  PROVE  /\ PhaseIn(jobs, nextId, b) = "absent"
         /\ PhaseIn(jobs', nextId, b) = "waiting"
         /\ \A n : n # nextId => PhaseIn(jobs', n, b) = PhaseIn(jobs, n, b)
<1>1. /\ jobs \in Seq(Job) /\ Unique(jobs) /\ jobs' \in Seq(Job) /\ Unique(jobs')
      /\ \A k \in DOMAIN jobs : jobs[k].id < nextId
      /\ nextId \in Nat
  BY DEF IInv, TypeOK, StoreInv
<1>2. /\ DOMAIN jobs' = DOMAIN jobs \cup {Len(jobs) + 1}
      /\ \A k \in DOMAIN jobs : jobs'[k] = jobs[k]
      /\ jobs'[Len(jobs) + 1].id = nextId
      /\ jobs'[Len(jobs) + 1].state = "Queued"
      /\ IdsIn(jobs') = IdsIn(jobs) \cup {nextId}
  BY SubmitEffect
<1>3. nextId \notin IdsIn(jobs)
  BY <1>1 DEF IdsIn
<1>4. PhaseIn(jobs, nextId, b) = "absent"
  BY <1>3 DEF PhaseIn
<1>5. PhaseIn(jobs', nextId, b) = "waiting"
  <2>1. PhaseIn(jobs', jobs'[Len(jobs) + 1].id, b) = PhaseOf(jobs'[Len(jobs) + 1].state, b)
    BY <1>1, <1>2, PhaseInAt
  <2> QED
    BY <1>2, <2>1 DEF PhaseOf
<1>6. ASSUME NEW n, n # nextId
      PROVE  PhaseIn(jobs', n, b) = PhaseIn(jobs, n, b)
  <2>1. CASE n \notin IdsIn(jobs)
    BY <1>2, <1>6, <2>1 DEF PhaseIn
  <2>2. CASE n \in IdsIn(jobs)
    <3>1. PICK k \in DOMAIN jobs : jobs[k].id = n
      BY <2>2 DEF IdsIn
    <3>2. PhaseIn(jobs, jobs[k].id, b) = PhaseOf(jobs[k].state, b)
      BY <1>1, PhaseInAt
    <3>3. PhaseIn(jobs', jobs'[k].id, b) = PhaseOf(jobs'[k].state, b)
      BY <1>1, <1>2, PhaseInAt
    <3> QED
      BY <1>2, <3>1, <3>2, <3>3
  <2> QED
    BY <2>1, <2>2
<1> QED
  BY <1>4, <1>5, <1>6

-----------------------------------------------------------------------------
(* The refinement: every step is a step of the queue, or none.             *)

(* Between two saves the store holds what the queue holds.                 *)
LEMMA InStepHolds ==
  ASSUME dpc # "off"
  PROVE  /\ file = jobs => Queue!InStep
         /\ file' = jobs => Store' = Queue!Stored(Phase)
<1>1. \A n \in Ids : Queue!Stored(Phase)[n] = PhaseIn(jobs, n, "working")
  BY PhaseInBegun DEF Queue!Stored, Phase
<1>2. Queue!Stored(Phase) = [n \in Ids |-> PhaseIn(jobs, n, "working")]
  BY <1>1 DEF Queue!Stored
<1> QED
  BY <1>2 DEF Queue!InStep, Store

(* One job moves while the daemon lives and the store is left alone.       *)
LEMMA OneMoves ==
  ASSUME dpc # "off", file = jobs, UNCHANGED file, NEW n \in Ids, NEW from, NEW to,
         Phase[n] = from, Phase'[n] = to, \A m \in Ids \ {n} : Phase'[m] = Phase[m]
  PROVE  Queue!Moves(n, from, to)
<1>1. DOMAIN Phase = Ids /\ DOMAIN Phase' = Ids
  BY DEF Phase
<1>2. Phase' = [Phase EXCEPT ![n] = to]
  <2>1. Phase = [m \in Ids |-> Phase[m]] /\ Phase' = [m \in Ids |-> Phase'[m]]
    BY DEF Phase
  <2> HIDE DEF Phase
  <2> QED
    BY <1>1, <2>1
<1>3. UNCHANGED Store
  BY DEF Store
<1> QED
  BY <1>2, <1>3, InStepHolds DEF Queue!Moves

LEMMA RefinementInit == Init => Queue!Init
<1> SUFFICES ASSUME Init
             PROVE  Queue!Init
  OBVIOUS
<1>1. \A n, b : PhaseIn(file, n, b) = "absent"
  BY DEF Init, PhaseIn, IdsIn
<1> QED
  BY <1>1 DEF Init, Queue!Init, Queue!Nothing, Phase, Store

LEMMA RefinementStep ==
  IInv /\ IInv' /\ [Next]_vars => [Queue!Next]_<<Phase, Store>>
<1> SUFFICES ASSUME IInv, IInv', [Next]_vars
             PROVE  Queue!Next \/ UNCHANGED <<Phase, Store>>
  BY DEF Queue!vars
<1> DEFINE begun(n) == IF running = n THEN "working" ELSE "adrift"
<1>0. /\ jobs \in Seq(Job) /\ Unique(jobs) /\ ThreadInv /\ StoreInv
      /\ \A i \in DOMAIN jobs : jobs[i].id \in Ids
      /\ 0 \notin Ids
  <2>1. \A i \in DOMAIN jobs : jobs[i] \in Job
    BY DEF IInv, TypeOK
  <2>2. Unique(jobs)
    BY DEF IInv, StoreInv
  <2> QED
    BY <2>1, <2>2 DEF IInv, TypeOK, Job, Ids
<1>1. ASSUME UNCHANGED <<jobs, file, dpc, running>>
      PROVE  UNCHANGED <<Phase, Store>>
  BY <1>1 DEF Phase, Store
<1>2. ASSUME UNCHANGED <<jobs, file, running>>, dpc # "off", dpc' # "off"
      PROVE  UNCHANGED <<Phase, Store>>
  BY <1>2 DEF Phase, Store
<1>3. ASSUME NEW c \in Clients, Ask(c) \/ Refused(c)
      PROVE  UNCHANGED <<Phase, Store>>
  BY <1>1, <1>3 DEF Ask, Refused, daemon
<1>4. ASSUME NEW c \in Clients, Serve(c)
      PROVE  Queue!Next \/ UNCHANGED <<Phase, Store>>
  <2>1. /\ UNCHANGED <<file, running>> /\ dpc = "listen" /\ file = jobs /\ running = 0
        /\ dpc' \in {"save", "reply"}
    BY <1>0, <1>4 DEF Serve, StoreInv, ThreadInv, InJob, Ping, Submit, Cancel, SetPriority,
                      SetPaused, Look
  <2>2. CASE Ping(c) \/ Look(c) \/ SetPriority(c) \/ SetPaused(c) \/ (Cancel(c) /\ UNCHANGED jobs)
    BY <1>2, <2>1, <2>2 DEF Ping, Look, SetPriority, SetPaused
  <2>3. CASE cpc[c] = "send" /\ req[c].op = "SUBMIT" /\ Submit(c)
    <3>1. nextId \in Ids
      BY <2>3, SubmitFits
    <3>2. /\ Phase[nextId] = "absent" /\ Phase'[nextId] = "waiting"
          /\ \A m \in Ids \ {nextId} : Phase'[m] = Phase[m]
      BY <2>1, <2>3, <3>1, SubmitPhase DEF Phase
    <3>3. Queue!Submit(nextId)
      BY <2>1, <3>1, <3>2, OneMoves DEF Queue!Submit
    <3> QED
      BY <3>1, <3>3 DEF Queue!Next
  <2>4. ASSUME NEW i \in DOMAIN jobs, jobs[i].state = "Queued", SetState(i, "Cancelled")
        PROVE  Queue!Next
    <3> DEFINE n == jobs[i].id
    <3>1. n \in Ids
      BY <1>0
    <3>2. /\ Phase[n] = "waiting" /\ Phase'[n] = "over"
          /\ \A m \in Ids \ {n} : Phase'[m] = Phase[m]
      BY <1>0, <2>1, <2>4, <3>1, PhaseInAt, SetStatePhase DEF Phase, PhaseOf, States
    <3>3. Queue!Cancel(n)
      BY <2>1, <3>1, <3>2, OneMoves DEF Queue!Cancel
    <3> QED
      BY <3>1, <3>3 DEF Queue!Next
  <2> QED
    BY <1>4, <2>2, <2>3, <2>4 DEF Serve, Cancel
<1>5. CASE Reply \/ NothingToStart
  BY <1>2, <1>5 DEF Reply, NothingToStart
<1>6. CASE SaveOpen
  <2>1. UNCHANGED Phase
    BY <1>6 DEF SaveOpen, Phase
  <2>2. Store' = Queue!Nothing
    BY <1>6 DEF SaveOpen, Store, Queue!Nothing, PhaseIn, IdsIn
  <2> QED
    BY <2>1, <2>2 DEF Queue!Next, Queue!Empty
<1>7. CASE SaveFlush
  <2>1. UNCHANGED <<jobs, running>> /\ dpc # "off" /\ dpc' # "off" /\ file' = jobs
    BY <1>7 DEF SaveFlush, IInv, TypeOK
  <2>2. UNCHANGED Phase
    BY <2>1 DEF Phase
  <2>3. Store' = Queue!Stored(Phase)
    BY <2>1, InStepHolds
  <2> QED
    BY <2>2, <2>3 DEF Queue!Next, Queue!Write
<1>8. CASE StartNext
  <2>1. PICK i \in DOMAIN jobs :
          jobs[i].state = "Queued" /\ SetState(i, "Running") /\ running' = jobs[i].id
    BY <1>8 DEF StartNext, Ready
  <2>2. /\ UNCHANGED file /\ dpc = "scan" /\ dpc' = "save" /\ file = jobs /\ running = 0
    BY <1>0, <1>8 DEF StartNext, StoreInv, ThreadInv, InJob
  <2> DEFINE n == jobs[i].id
  <2>3. n \in Ids
    BY <1>0
  <2>4. /\ Phase[n] = "waiting" /\ Phase'[n] = "working"
        /\ \A m \in Ids \ {n} : Phase'[m] = Phase[m]
    BY <1>0, <2>1, <2>2, <2>3, PhaseInAt, SetStatePhase DEF Phase, PhaseOf, States
  <2>5. \A m \in Ids : Phase[m] # "working"
    BY <1>0, <2>2, PhaseInBegun DEF Phase
  <2>6. Queue!Start(n)
    BY <2>2, <2>3, <2>4, <2>5, OneMoves DEF Queue!Start
  <2> QED
    BY <2>3, <2>6 DEF Queue!Next
<1>9. CASE JobEnds
  <2>1. PICK i \in DOMAIN jobs, s \in {"Completed", "Failed"} :
          jobs[i].id = running /\ SetState(i, s)
    BY <1>9 DEF JobEnds
  <2>2. /\ UNCHANGED file /\ dpc = "exec" /\ dpc' = "save" /\ file = jobs /\ running' = 0
    BY <1>0, <1>9 DEF JobEnds, StoreInv
  <2>3. running \in Ids
    BY <1>0, <2>1
  <2>4. jobs[i].state = "Running"
    BY <1>0, <2>1, <2>3 DEF ThreadInv, Unique
  <2>5. /\ Phase[running] = "working" /\ Phase'[running] = "over"
        /\ \A m \in Ids \ {running} : Phase'[m] = Phase[m]
    BY <1>0, <2>1, <2>2, <2>3, <2>4, PhaseInAt, SetStatePhase DEF Phase, PhaseOf, States
  <2>6. Queue!Finish(running)
    BY <2>2, <2>3, <2>5, OneMoves DEF Queue!Finish
  <2> QED
    BY <2>3, <2>6 DEF Queue!Next
<1>10. CASE Boot
  <2>1. dpc = "off" /\ dpc' # "off" /\ jobs' = file /\ UNCHANGED <<file, running>>
    BY <1>10 DEF Boot
  <2>2. running = 0
    BY <1>0, <2>1 DEF ThreadInv, InJob
  <2> QED
    BY <1>0, <2>1, <2>2 DEF Phase, Store
<1>11. CASE Crash
  <2>1. dpc' = "off" /\ UNCHANGED file
    BY <1>11 DEF Crash
  <2>2. Phase' = Queue!Loaded(Store) /\ UNCHANGED Store
    BY <2>1, PhaseInBegun DEF Phase, Store, Queue!Loaded
  <2> QED
    BY <2>2 DEF Queue!Next, Queue!Restart
<1>12. CASE UNCHANGED vars
  BY <1>1, <1>12 DEF vars, daemon
<1> QED
  BY <1>3, <1>4, <1>5, <1>6, <1>7, <1>8, <1>9, <1>10, <1>11, <1>12 DEF Next, DaemonStep

(* The daemon implements the queue with a store: what is over stays over,  *)
(* one job at a time is worked on, every change is stored before the next  *)
(* one is made, and a restart goes on from the store.                      *)
THEOREM ImplementsLifecycle == Spec => Lifecycle
<1>1. Init => Queue!Init
  BY RefinementInit
<1>2. IInv /\ IInv' /\ [Next]_vars => [Queue!Next]_Queue!vars
  BY RefinementStep DEF Queue!vars
<1> QED
  BY <1>1, <1>2, Invariance, PTL DEF Spec, Lifecycle, Queue!Spec
=============================================================================

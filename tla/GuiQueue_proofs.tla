---------------------------- MODULE GuiQueue_proofs ----------------------------
(***************************************************************************)
(* Proofs about GuiQueue, for any number of submissions, with or without   *)
(* panics and edits.                                                       *)
(***************************************************************************)
EXTENDS GuiQueue, SequenceTheorems, FiniteSetTheorems, TLAPS

-----------------------------------------------------------------------------
(* The three changes of the queue, on any sequence.                        *)

LEMMA AppendEffect ==
  ASSUME NEW q \in Seq(Subs), NEW s \in Subs
  PROVE  /\ Append(q, s) \in Seq(Subs) /\ Append(q, s) # <<>>
         /\ Range(Append(q, s)) = Range(q) \cup {s}
         /\ IsInjective(q) /\ s \notin Range(q) => IsInjective(Append(q, s))
<1>1. /\ Append(q, s) \in Seq(Subs) /\ Append(q, s) # <<>>
      /\ DOMAIN Append(q, s) = 1 .. Len(q) + 1
      /\ DOMAIN q = 1 .. Len(q) /\ Len(q) \in Nat
      /\ \A k \in 1 .. Len(q) : Append(q, s)[k] = q[k]
      /\ Append(q, s)[Len(q) + 1] = s
  BY AppendProperties
<1>2. Range(Append(q, s)) = Range(q) \cup {s}
  BY <1>1 DEF Range
<1>3. ASSUME IsInjective(q), s \notin Range(q)
      PROVE  IsInjective(Append(q, s))
  <2>1. \A k \in 1 .. Len(q) : q[k] # s
    BY <1>1, <1>3 DEF Range
  <2> QED
    BY <1>1, <1>3, <2>1 DEF IsInjective
<1> QED
  BY <1>1, <1>2, <1>3

LEMMA TailEffect ==
  ASSUME NEW q \in Seq(Subs), q # <<>>
  PROVE  /\ Tail(q) \in Seq(Subs) /\ Head(q) \in Subs
         /\ Head(q) \in Range(q) /\ Range(Tail(q)) \subseteq Range(q)
         /\ IsInjective(q) => /\ IsInjective(Tail(q))
                              /\ Range(Tail(q)) = Range(q) \ {Head(q)}
<1>1. /\ Tail(q) \in Seq(Subs) /\ Head(q) = q[1] /\ Head(q) \in Subs
      /\ DOMAIN q = 1 .. Len(q) /\ Len(q) \in Nat \ {0}
      /\ DOMAIN Tail(q) = 1 .. Len(q) - 1
      /\ \A k \in 1 .. Len(q) - 1 : Tail(q)[k] = q[k + 1]
  BY HeadTailProperties, EmptySeq, LenProperties
<1>2. Head(q) \in Range(q) /\ Range(Tail(q)) \subseteq Range(q)
  BY <1>1 DEF Range
<1>3. ASSUME IsInjective(q)
      PROVE  IsInjective(Tail(q)) /\ Range(Tail(q)) = Range(q) \ {Head(q)}
  <2>1. IsInjective(Tail(q))
    BY <1>1, <1>3 DEF IsInjective
  <2>2. Head(q) \notin Range(Tail(q))
    BY <1>1, <1>3 DEF IsInjective, Range
  <2>3. ASSUME NEW k \in 1 .. Len(q), q[k] # Head(q)
        PROVE  q[k] \in Range(Tail(q))
    <3>1. k - 1 \in 1 .. Len(q) - 1 /\ Tail(q)[k - 1] = q[k]
      BY <1>1, <2>3
    <3> QED
      BY <1>1, <3>1 DEF Range
  <2> QED
    BY <1>1, <1>2, <2>1, <2>2, <2>3 DEF Range
<1> QED
  BY <1>1, <1>2, <1>3

LEMMA RemoveEffect ==
  ASSUME NEW q \in Seq(Subs), NEW i \in DOMAIN q
  PROVE  /\ RemoveAt(q, i) \in Seq(Subs)
         /\ IsInjective(q) => /\ IsInjective(RemoveAt(q, i))
                              /\ Range(RemoveAt(q, i)) = Range(q) \ {q[i]}
<1> DEFINE a == SubSeq(q, 1, i - 1)
           b == SubSeq(q, i + 1, Len(q))
           r == a \o b
<1>1. /\ DOMAIN q = 1 .. Len(q) /\ Len(q) \in Nat /\ i \in 1 .. Len(q)
      /\ \A k \in 1 .. Len(q) : q[k] \in Subs
  BY LenProperties
<1>2. /\ a \in Seq(Subs) /\ Len(a) = i - 1
      /\ \A k \in 1 .. i - 1 : a[k] = q[k]
  BY <1>1, SubSeqProperties
<1>3. /\ b \in Seq(Subs) /\ Len(b) = Len(q) - i
      /\ \A k \in 1 .. Len(q) - i : b[k] = q[i + k]
  <2>1. /\ b \in Seq(Subs)
        /\ Len(b) = IF i + 1 <= Len(q) THEN Len(q) - (i + 1) + 1 ELSE 0
        /\ \A k \in 1 .. Len(q) - (i + 1) + 1 : b[k] = q[(i + 1) + k - 1]
    BY <1>1, SubSeqProperties
  <2> HIDE DEF b
  <2>2. Len(b) = Len(q) - i
    BY <1>1, <2>1
  <2>3. ASSUME NEW k \in 1 .. Len(q) - i
        PROVE  b[k] = q[i + k]
    <3>1. k \in 1 .. Len(q) - (i + 1) + 1 /\ (i + 1) + k - 1 = i + k
      BY <1>1
    <3>2. b[k] = q[(i + 1) + k - 1]
      BY <2>1, <3>1
    <3> QED
      BY <3>1, <3>2
  <2> QED
    BY <2>1, <2>2, <2>3
<1> HIDE DEF a, b
<1>4. /\ r \in Seq(Subs) /\ Len(r) = Len(q) - 1 /\ DOMAIN r = 1 .. Len(q) - 1
      /\ \A k \in 1 .. Len(q) - 1 : r[k] = IF k < i THEN q[k] ELSE q[k + 1]
  <2>1. /\ r \in Seq(Subs) /\ Len(r) = Len(a) + Len(b)
        /\ \A k \in 1 .. Len(a) + Len(b) : r[k] = IF k <= Len(a) THEN a[k] ELSE b[k - Len(a)]
    BY <1>2, <1>3, ConcatProperties
  <2>2. ASSUME NEW k \in 1 .. Len(q) - 1
        PROVE  r[k] = IF k < i THEN q[k] ELSE q[k + 1]
    <3>0. k \in 1 .. Len(a) + Len(b)
      <4>1. Len(a) + Len(b) = Len(q) - 1
        BY <1>1, <1>2, <1>3
      <4> QED
        BY <4>1
    <3>1. CASE k < i
      <4>1. k \in 1 .. i - 1 /\ k <= Len(a)
        BY <1>1, <1>2, <3>1
      <4>2. r[k] = a[k]
        BY <2>1, <3>0, <4>1
      <4> QED
        BY <1>2, <3>1, <4>1, <4>2
    <3>2. CASE ~(k < i)
      <4>1. k - (i - 1) \in 1 .. Len(q) - i /\ i + (k - (i - 1)) = k + 1 /\ ~(k <= i - 1)
        BY <1>1, <3>2
      <4>2. b[k - (i - 1)] = q[i + (k - (i - 1))]
        BY <1>3, <4>1
      <4>3. r[k] = b[k - (i - 1)]
        <5>1. Len(a) = i - 1 /\ ~(k <= Len(a))
          BY <1>2, <4>1
        <5> QED
          BY <2>1, <3>0, <5>1
      <4> QED
        BY <3>2, <4>1, <4>2, <4>3
    <3> QED
      BY <3>1, <3>2
  <2>3. DOMAIN r = 1 .. Len(r)
    BY <2>1, LenProperties
  <2>4. Len(r) = Len(q) - 1
    BY <1>1, <1>2, <1>3, <2>1
  <2> QED
    BY <2>1, <2>2, <2>3, <2>4
<1> HIDE DEF r
<1>5. RemoveAt(q, i) = r
  BY DEF RemoveAt, r, a, b
<1>6. ASSUME IsInjective(q)
      PROVE  IsInjective(r) /\ Range(r) = Range(q) \ {q[i]}
  <2>1. IsInjective(r)
    BY <1>1, <1>4, <1>6 DEF IsInjective
  <2>2. ASSUME NEW k \in 1 .. Len(q) - 1
        PROVE  r[k] \in Range(q) \ {q[i]}
    <3>1. PICK l \in 1 .. Len(q) : l # i /\ r[k] = q[l]
      BY <1>1, <1>4
    <3> QED
      BY <1>1, <1>6, <3>1 DEF IsInjective, Range
  <2>3. ASSUME NEW k \in 1 .. Len(q), q[k] # q[i]
        PROVE  q[k] \in Range(r)
    <3>1. CASE k < i
      BY <1>1, <1>4, <3>1 DEF Range
    <3>2. CASE k > i
      <4>1. k - 1 \in 1 .. Len(q) - 1 /\ r[k - 1] = q[k]
        BY <1>1, <1>4, <3>2
      <4> QED
        BY <1>4, <4>1 DEF Range
    <3> QED
      BY <1>1, <2>3, <3>1, <3>2
  <2> QED
    BY <1>1, <1>4, <2>1, <2>2, <2>3 DEF Range
<1> QED
  BY <1>4, <1>5, <1>6

LEMMA InQueueIsRange == \A s : InQueue(s) <=> s \in Range(queue)
BY DEF InQueue, Range

-----------------------------------------------------------------------------
(* Types.                                                                  *)

(* The truth values, apart from the rest of the state.                     *)
Flags ==
  /\ cancel \in BOOLEAN /\ pause \in BOOLEAN /\ enabled \in BOOLEAN /\ pagePaused \in BOOLEAN
  /\ edited \in BOOLEAN /\ raced \in BOOLEAN /\ late \in BOOLEAN

Values ==
  /\ queue \in Seq(Subs)
  /\ current \in 0 .. MaxSubmits
  /\ submitted \in 0 .. MaxSubmits
  /\ cmd \in [Subs -> CommandPoints]
  /\ ccmd \in [pc : {"none", "store", "remove"}, id : 0 .. MaxSubmits]
  /\ wpc \in [Subs -> WorkerPoints]
  /\ wjob \in [Subs -> 0 .. MaxSubmits]
  /\ events \in Seq(Subs)
  /\ listening \subseteq Subs
  /\ pageJob \in 0 .. MaxSubmits
  /\ outcome \in [Subs -> Outcomes]
  /\ removed \subseteq Subs /\ missed \subseteq Subs
  /\ told \in [Subs -> {"none", "created", "failed"}]

LEMMA TypeOKIs == TypeOK <=> Flags /\ Values
BY Zenon DEF TypeOK, Flags, Values

LEMMA FlagsStep == Flags /\ [Next]_vars => Flags'
<1> SUFFICES ASSUME Flags, [Next]_vars PROVE Flags'
  OBVIOUS
<1> USE DEF Flags
<1>1. CASE Click
  BY <1>1, Zenon DEF Click, shared, page, history
<1>2. CASE Edit
  BY <1>2, Zenon DEF Edit, shared, page, history
<1>3. CASE EventArrives
  <2>1. enabled' \in BOOLEAN
    BY <1>3, Zenon DEF EventArrives
  <2> QED
    BY <1>3, <2>1, Zenon DEF EventArrives, shared
<1>4. CASE PauseClick
  BY <1>4, Zenon DEF PauseClick, history
<1>5. CASE CancelClick \/ CancelStore \/ CancelRemove
  BY <1>5, Zenon DEF CancelClick, CancelStore, CancelRemove, shared, page, history
<1>6. ASSUME NEW s \in Subs, CommandStep(s)
      PROVE  Flags'
  <2>1. CASE Listen(s) \/ Push(s) \/ ReplyArrives(s)
    BY <2>1, Zenon DEF Listen, Push, ReplyArrives, shared, page, history
  <2>2. CASE CheckCurrent(s)
    <3>1. raced' \in BOOLEAN /\ late' \in BOOLEAN
      BY <2>2, Zenon DEF CheckCurrent
    <3> QED
      BY <2>2, <3>1, Zenon DEF CheckCurrent, shared, page
  <2> QED
    BY <1>6, <2>1, <2>2 DEF CommandStep
<1>7. ASSUME NEW w \in Subs, WorkerStep(w) \/ SkipEncode(w) \/ RunFails(w) \/ RunPanics(w)
      PROVE  Flags'
  <2>1. CASE PopFront(w) \/ Drain(w) \/ Claim(w) \/ ResetFlags(w)
    BY <2>1, Zenon DEF PopFront, Drain, Claim, ResetFlags, page, history
  <2>2. CASE BeforePackaging(w) \/ Package(w) \/ RunFails(w)
    BY <2>2, Zenon DEF BeforePackaging, Package, RunFails, shared, page, history
  <2>3. CASE Finish(w) \/ RunPanics(w)
    BY <2>3, Zenon DEF Finish, RunPanics, shared, page
  <2> QED
    BY <1>7, <2>1, <2>2, <2>3 DEF WorkerStep, Encode, SkipEncode
<1>8. CASE UNCHANGED vars
  BY <1>8, Zenon DEF vars, shared, page, history
<1> QED
  BY <1>1, <1>2, <1>3, <1>4, <1>5, <1>6, <1>7, <1>8 DEF Next

(* A worker that has a job is between taking it and leaving it.            *)
LEMMA WorkerHasJob ==
  ASSUME Values, PlaceInv, NEW w \in Subs, wpc[w] \in WorkerPoints \ {"none", "pop", "drain", "gone"}
  PROVE  wjob[w] \in Subs
BY DEF Values, PlaceInv, Subs

LEMMA ValuesStep == Values /\ PlaceInv /\ [Next]_vars => Values'
<1> SUFFICES ASSUME Values, PlaceInv, [Next]_vars PROVE Values'
  OBVIOUS
<1>0. MaxSubmits \in Nat \ {0} /\ Subs = 1 .. MaxSubmits
  BY GuiQueueAssumption DEF GuiQueueAssumption, Subs
<1> USE DEF Values
<1>1. CASE Click
  BY <1>0, <1>1 DEF Click, shared, workers, page, history, CommandPoints
<1>2. CASE Edit
  BY <1>2 DEF Edit, shared, command, workers
<1>3. CASE EventArrives
  <2>1. events' \in Seq(Subs) /\ Head(events) \in Subs
    BY <1>3, TailEffect DEF EventArrives
  <2>2. told' \in [Subs -> {"none", "created", "failed"}]
    BY <1>3 DEF EventArrives
  <2>3. listening' \subseteq Subs /\ missed' \subseteq Subs
    BY <1>3, <2>1 DEF EventArrives
  <2> QED
    BY <1>3, <2>1, <2>2, <2>3 DEF EventArrives, shared, command, workers
<1>4. CASE PauseClick
  BY <1>4 DEF PauseClick, command, workers, history
<1>5. CASE CancelClick \/ CancelStore
  <2>1. ccmd' \in [pc : {"none", "store", "remove"}, id : 0 .. MaxSubmits]
    BY <1>0, <1>5 DEF CancelClick, CancelStore
  <2> QED
    BY <1>5, <2>1 DEF CancelClick, CancelStore, shared, workers, page, history
<1>6. CASE CancelRemove
  <2>1. queue' \in Seq(Subs) /\ removed' \subseteq Subs
    <3>1. CASE ~InQueue(ccmd.id) /\ UNCHANGED <<queue, removed>>
      BY <3>1
    <3>2. ASSUME NEW i \in DOMAIN queue, queue[i] = ccmd.id, queue' = RemoveAt(queue, i),
                 removed' = removed \cup {ccmd.id}
          PROVE  queue' \in Seq(Subs) /\ removed' \subseteq Subs
      BY <3>2, RemoveEffect, LenProperties
    <3> QED
      BY <1>6, <3>1, <3>2 DEF CancelRemove
  <2>2. ccmd' \in [pc : {"none", "store", "remove"}, id : 0 .. MaxSubmits]
    BY <1>0, <1>6 DEF CancelRemove
  <2>3. /\ current' = current /\ submitted' = submitted /\ cmd' = cmd /\ events' = events
        /\ outcome' = outcome /\ missed' = missed /\ told' = told
    BY <1>6 DEF CancelRemove
  <2>4. wpc' = wpc /\ wjob' = wjob /\ listening' = listening /\ pageJob' = pageJob
    BY <1>6 DEF CancelRemove, workers, page
  <2> QED
    BY <2>1, <2>2, <2>3, <2>4
<1>7. ASSUME NEW s \in Subs, CommandStep(s)
      PROVE  Values'
  <2>1. CASE Listen(s)
    BY <2>1 DEF Listen, shared, workers, page, history, CommandPoints
  <2>2. CASE Push(s)
    BY <2>2, AppendEffect DEF Push, workers, page, history, CommandPoints
  <2>3. CASE ReplyArrives(s)
    BY <1>0, <2>3 DEF ReplyArrives, ReplyId, shared, workers, history, CommandPoints
  <2>4. CASE CheckCurrent(s)
    BY <2>4 DEF CheckCurrent, shared, page, CommandPoints, WorkerPoints
  <2> QED
    BY <1>7, <2>1, <2>2, <2>3, <2>4 DEF CommandStep
<1>8. ASSUME NEW w \in Subs, WorkerStep(w) \/ SkipEncode(w) \/ RunFails(w) \/ RunPanics(w)
      PROVE  Values'
  <2>1. CASE PopFront(w)
    <3>1. wpc' \in [Subs -> WorkerPoints]
      BY <2>1 DEF PopFront, GoTo, WorkerPoints
    <3>2. queue' \in Seq(Subs) /\ wjob' \in [Subs -> 0 .. MaxSubmits]
      <4>1. CASE queue = <<>>
        BY <2>1, <4>1 DEF PopFront
      <4>2. CASE queue # <<>>
        <5>1. Tail(queue) \in Seq(Subs) /\ Head(queue) \in Subs
          BY <4>2, TailEffect
        <5>2. queue' = Tail(queue) /\ wjob' = [wjob EXCEPT ![w] = Head(queue)]
          BY <2>1, <4>2 DEF PopFront, Rest
        <5> QED
          BY <1>0, <5>1, <5>2
      <4> QED
        BY <4>1, <4>2
    <3> QED
      BY <2>1, <3>1, <3>2 DEF PopFront, command, page, history
  <2>2. CASE Drain(w)
    BY <1>0, <2>2 DEF Drain, GoTo, WorkerPoints, command, page, history
  <2>3. CASE Claim(w)
    BY <2>3 DEF Claim, GoTo, WorkerPoints, command, page, history
  <2>4. CASE ResetFlags(w)
    BY <2>4 DEF ResetFlags, GoTo, WorkerPoints, command, page, history
  <2>5. CASE BeforePackaging(w)
    <3>1. wpc' \in [Subs -> WorkerPoints]
      BY <2>5 DEF BeforePackaging, GoTo, WorkerPoints
    <3> QED
      BY <2>5, <3>1 DEF BeforePackaging, shared, command, page, history
  <2>6. CASE Package(w) \/ RunFails(w)
    BY <2>6 DEF Package, RunFails, GoTo, WorkerPoints, shared, command, page, history
  <2>7. CASE Finish(w)
    <3>1. wjob[w] \in Subs
      BY <2>7, WorkerHasJob DEF Finish, WorkerPoints
    <3>2. /\ wpc' \in [Subs -> WorkerPoints] /\ wjob' \in [Subs -> 0 .. MaxSubmits]
          /\ events' \in Seq(Subs)
      BY <1>0, <2>7, <3>1, AppendEffect DEF Finish, LeaveJob, GoTo, EmitEnd, WorkerPoints
    <3>3. outcome' \in [Subs -> Outcomes]
      <4>1. PICK how \in {"done", "cancelled", "failed"} : LeaveJob(w, how)
        BY <2>7 DEF Finish
      <4> QED
        BY <4>1 DEF LeaveJob, Outcomes
    <3> QED
      BY <2>7, <3>2, <3>3 DEF Finish, KeepsCurrent, command, page
  <2>8. CASE RunPanics(w)
    <3>0. LeaveJob(w, "panic")
      BY <2>8 DEF RunPanics
    <3>1. wpc' \in [Subs -> WorkerPoints]
      BY <3>0 DEF LeaveJob, GoTo, WorkerPoints
    <3>2. wjob' \in [Subs -> 0 .. MaxSubmits]
      BY <1>0, <3>0 DEF LeaveJob
    <3>3. outcome' \in [Subs -> Outcomes]
      BY <3>0 DEF LeaveJob, Outcomes
    <3> QED
      BY <2>8, <3>1, <3>2, <3>3 DEF RunPanics, shared, command, page
  <2> QED
    BY <1>8, <2>1, <2>2, <2>3, <2>4, <2>5, <2>6, <2>7, <2>8 DEF WorkerStep, Encode, SkipEncode
<1>9. CASE UNCHANGED vars
  <2>1. queue' = queue /\ current' = current
    BY <1>9 DEF vars, shared
  <2>2. submitted' = submitted /\ cmd' = cmd /\ ccmd' = ccmd
    BY <1>9 DEF vars, command
  <2>3. wpc' = wpc /\ wjob' = wjob /\ events' = events
    BY <1>9 DEF vars, workers
  <2>4. listening' = listening /\ pageJob' = pageJob
    BY <1>9 DEF vars, page
  <2>5. outcome' = outcome /\ removed' = removed /\ missed' = missed /\ told' = told
    BY <1>9 DEF vars, history
  <2> QED
    BY <2>1, <2>2, <2>3, <2>4, <2>5
<1> QED
  BY <1>1, <1>2, <1>3, <1>4, <1>5, <1>6, <1>7, <1>8, <1>9 DEF Next

LEMMA TypeStep == IInv /\ [Next]_vars => TypeOK'
<1>1. (Flags /\ Values)' <=> TypeOK'
  BY TypeOKIs, PTL
<1> QED
  BY <1>1, TypeOKIs, FlagsStep, ValuesStep DEF IInv

-----------------------------------------------------------------------------
(* Init.                                                                   *)

LEMMA InvInit == Init => IInv
<1> SUFFICES ASSUME Init PROVE IInv
  OBVIOUS
<1>0. MaxSubmits \in Nat \ {0} /\ Subs = 1 .. MaxSubmits
  BY GuiQueueAssumption DEF GuiQueueAssumption, Subs
<1>1. Flags
  BY Zenon DEF Init, Flags
<1>2. Values
  BY <1>0, EmptySeq DEF Init, Values, CommandPoints, WorkerPoints, Outcomes
<1>3. CommandInv
  BY <1>0 DEF Init, CommandInv
<1>4. DOMAIN queue = {} /\ Range(queue) = {}
  BY DEF Init, Range
<1>5. PlaceInv
  BY <1>0, <1>4 DEF Init, PlaceInv, IsInjective, InQueue, Held, Pushed
<1>6. PageInv /\ WorkerInv
  BY <1>0 DEF Init, PageInv, WorkerInv, Active
<1>7. QueueIsServed
  BY DEF Init, QueueIsServed
<1> QED
  BY <1>1, <1>2, <1>3, <1>5, <1>6, <1>7, TypeOKIs DEF IInv

-----------------------------------------------------------------------------
(* Submissions.                                                            *)

LEMMA CommandsKept == Values /\ CommandInv /\ [Next]_vars => CommandInv'
<1> SUFFICES ASSUME Values, CommandInv, [Next]_vars PROVE CommandInv'
  OBVIOUS
<1>0. MaxSubmits \in Nat \ {0} /\ Subs = 1 .. MaxSubmits
  BY GuiQueueAssumption DEF GuiQueueAssumption, Subs
<1>1. /\ submitted \in 0 .. MaxSubmits /\ pageJob \in 0 .. MaxSubmits
      /\ ccmd \in [pc : {"none", "store", "remove"}, id : 0 .. MaxSubmits]
      /\ cmd \in [Subs -> CommandPoints] /\ wpc \in [Subs -> WorkerPoints]
  BY DEF Values
<1>2. CASE Click
  <2>1. /\ submitted' = submitted + 1 /\ submitted < MaxSubmits
        /\ cmd' = [cmd EXCEPT ![submitted + 1] = "listen"]
        /\ wpc' = wpc /\ pageJob' = pageJob /\ ccmd' = ccmd
    BY <1>2 DEF Click, workers
  <2>2. submitted + 1 \in Subs /\ cmd[submitted + 1] = "none"
    BY <1>0, <1>1, <2>1 DEF CommandInv
  <2> QED
    BY <1>0, <1>1, <2>1, <2>2 DEF CommandInv
<1>4. ASSUME NEW s \in Subs, CommandStep(s)
      PROVE  CommandInv'
  <2>1. CASE Listen(s)
    <3>1. /\ cmd[s] = "listen" /\ cmd' = [cmd EXCEPT ![s] = "push"]
          /\ submitted' = submitted /\ ccmd' = ccmd /\ pageJob' = pageJob /\ wpc' = wpc
      BY <2>1 DEF Listen, workers
    <3> QED
      BY <1>0, <1>1, <3>1 DEF CommandInv
  <2>2. CASE Push(s)
    <3>1. /\ cmd[s] = "push" /\ cmd' = [cmd EXCEPT ![s] = "check"]
          /\ submitted' = submitted /\ ccmd' = ccmd /\ pageJob' = pageJob /\ wpc' = wpc
      BY <2>2 DEF Push, workers, page
    <3> QED
      BY <1>0, <1>1, <3>1 DEF CommandInv
  <2>3. CASE CheckCurrent(s)
    <3>1. /\ cmd[s] = "check" /\ cmd' = [cmd EXCEPT ![s] = "reply"]
          /\ submitted' = submitted /\ ccmd' = ccmd /\ pageJob' = pageJob
          /\ wpc' = wpc \/ wpc' = [wpc EXCEPT ![s] = "pop"]
      BY <2>3 DEF CheckCurrent, page
    <3> QED
      BY <1>0, <1>1, <3>1 DEF CommandInv
  <2>4. CASE ReplyArrives(s)
    <3>1. /\ cmd[s] = "reply" /\ cmd' = [cmd EXCEPT ![s] = "done"]
          /\ submitted' = submitted /\ ccmd' = ccmd /\ pageJob' = s /\ wpc' = wpc
      BY <2>4 DEF ReplyArrives, ReplyId, workers
    <3> QED
      BY <1>0, <1>1, <3>1 DEF CommandInv
  <2> QED
    BY <1>4, <2>1, <2>2, <2>3, <2>4 DEF CommandStep
<1>5. ASSUME cmd' = cmd, submitted' = submitted, pageJob' = pageJob,
             ccmd' = ccmd \/ ccmd'.id \in {0, pageJob},
             \A w \in Subs : wpc[w] = "none" => wpc'[w] = "none"
      PROVE  CommandInv'
  BY <1>0, <1>1, <1>5 DEF CommandInv
<1>6. CASE Edit \/ EventArrives \/ PauseClick
  BY <1>5, <1>6 DEF Edit, EventArrives, PauseClick, command, workers
<1>7. CASE CancelClick \/ CancelStore \/ CancelRemove
  <2>1. /\ cmd' = cmd /\ submitted' = submitted /\ pageJob' = pageJob /\ wpc' = wpc
        /\ ccmd'.id \in {0, pageJob}
    BY <1>7 DEF CancelClick, CancelStore, CancelRemove, workers, page
  <2> QED
    BY <1>5, <2>1
<1>8. ASSUME NEW w \in Subs, WorkerStep(w) \/ SkipEncode(w) \/ RunFails(w) \/ RunPanics(w)
      PROVE  CommandInv'
  <2>1. cmd' = cmd /\ submitted' = submitted /\ pageJob' = pageJob /\ ccmd' = ccmd
    BY <1>8, Zenon DEF WorkerStep, SkipEncode, RunFails, RunPanics, PopFront, Drain, Claim,
       ResetFlags, Encode, BeforePackaging, Package, Finish, command, page
  <2>2. wpc[w] # "none" /\ \E pc : GoTo(w, pc)
    BY <1>8, Zenon DEF WorkerStep, SkipEncode, RunFails, RunPanics, PopFront, Drain, Claim,
       ResetFlags, Encode, BeforePackaging, Package, Finish, LeaveJob
  <2>3. \A v \in Subs : wpc[v] = "none" => wpc'[v] = "none"
    BY <1>1, <2>2 DEF GoTo
  <2> QED
    BY <1>5, <2>1, <2>3
<1>9. CASE UNCHANGED vars
  BY <1>5, <1>9 DEF vars, command, workers, page
<1> QED
  BY <1>2, <1>4, <1>6, <1>7, <1>8, <1>9 DEF Next

-----------------------------------------------------------------------------
(* Places.                                                                 *)

(* No job moves when nothing but the flow of control of a command or of a  *)
(* worker changes.                                                         *)
LEMMA NothingMoves ==
  ASSUME Values, PlaceInv,
         queue' = queue, wjob' = wjob, outcome' = outcome, removed' = removed,
         \A s \in Subs : Pushed(s)' <=> Pushed(s),
         \A s \in Subs : cmd[s] = "done" => cmd'[s] = "done",
         \A w \in Subs :
           \/ wpc'[w] = wpc[w]
           \/ /\ wpc[w] \in WorkerPoints \ {"none", "pop", "drain", "gone"}
              /\ wpc'[w] \in WorkerPoints \ {"none", "pop", "drain", "gone"}
           \/ wpc[w] \in {"none", "pop", "drain", "gone"} /\ wpc'[w] \in {"none", "pop", "drain", "gone"}
  PROVE  PlaceInv'
<1>1. \A s : (InQueue(s)' <=> InQueue(s)) /\ (Held(s)' <=> Held(s))
  BY DEF InQueue, Held
<1>2. IsInjective(queue)'
  BY DEF PlaceInv
<1>3. \A w, v \in Subs : wjob'[w] # 0 /\ wjob'[w] = wjob'[v] => w = v
  BY DEF PlaceInv
<1>4. \A w \in Subs : wjob'[w] # 0 <=> wpc'[w] \in WorkerPoints \ {"none", "pop", "drain", "gone"}
  BY DEF PlaceInv
<1>5. ASSUME NEW s \in Subs
      PROVE  /\ Pushed(s)' <=> (InQueue(s) \/ Held(s) \/ outcome[s] # "none" \/ s \in removed)'
             /\ ~(InQueue(s) /\ Held(s))'
             /\ (outcome[s] # "none" => ~InQueue(s) /\ ~Held(s) /\ s \notin removed)'
             /\ (s \in removed => ~InQueue(s) /\ ~Held(s) /\ cmd[s] = "done")'
  BY <1>1 DEF PlaceInv
<1> QED
  BY <1>2, <1>3, <1>4, <1>5 DEF PlaceInv

(* The worker leaves its job, with its outcome.                            *)
LEMMA LeavingKeepsPlaces ==
  ASSUME Values, PlaceInv, CommandInv, NEW w \in Subs, NEW how \in Outcomes \ {"none"},
         wpc[w] \in WorkerPoints \ {"none", "pop", "drain", "gone"}, LeaveJob(w, how),
         queue' = queue, cmd' = cmd, removed' = removed
  PROVE  PlaceInv'
<1> DEFINE job == wjob[w]
<1>0. MaxSubmits \in Nat \ {0} /\ Subs = 1 .. MaxSubmits
  BY GuiQueueAssumption DEF GuiQueueAssumption, Subs
<1>1. job \in Subs
  BY WorkerHasJob
<1>2. /\ wpc' = [wpc EXCEPT ![w] = "pop"] /\ wjob' = [wjob EXCEPT ![w] = 0]
      /\ outcome' = [outcome EXCEPT ![job] = how]
  BY DEF LeaveJob, GoTo
<1>3. /\ wpc \in [Subs -> WorkerPoints] /\ wjob \in [Subs -> 0 .. MaxSubmits]
      /\ outcome \in [Subs -> Outcomes]
  BY DEF Values
<1>4. Held(job) /\ \A s : InQueue(s)' <=> InQueue(s)
  BY <1>3 DEF Held, InQueue
<1>5. \A s \in Subs : Held(s)' <=> Held(s) /\ s # job
  <2>1. \A v \in Subs : v # w => wjob[v] # job
    BY <1>0, <1>1 DEF PlaceInv
  <2>2. \A v \in Subs : wjob'[v] = IF v = w THEN 0 ELSE wjob[v]
    BY <1>2, <1>3
  <2> QED
    BY <1>0, <2>1, <2>2 DEF Held
<1> HIDE DEF job
<1>6. \A s \in Subs : Pushed(s)' <=> Pushed(s)
  BY DEF Pushed
<1>7. \A s \in Subs : outcome'[s] # "none" <=> outcome[s] # "none" \/ s = job
  BY <1>1, <1>2, <1>3
<1>8. ASSUME NEW s \in Subs
      PROVE  /\ Pushed(s)' <=> (InQueue(s) \/ Held(s) \/ outcome[s] # "none" \/ s \in removed)'
             /\ ~(InQueue(s) /\ Held(s))'
             /\ (outcome[s] # "none" => ~InQueue(s) /\ ~Held(s) /\ s \notin removed)'
             /\ (s \in removed => ~InQueue(s) /\ ~Held(s) /\ cmd[s] = "done")'
  BY <1>1, <1>4, <1>5, <1>6, <1>7 DEF PlaceInv
<1>9. \A v, u \in Subs : wjob'[v] # 0 /\ wjob'[v] = wjob'[u] => v = u
  BY <1>2, <1>3 DEF PlaceInv
<1>10. \A v \in Subs : wjob'[v] # 0 <=> wpc'[v] \in WorkerPoints \ {"none", "pop", "drain", "gone"}
  BY <1>2, <1>3 DEF PlaceInv
<1>11. IsInjective(queue)'
  BY DEF PlaceInv
<1> QED
  BY <1>8, <1>9, <1>10, <1>11 DEF PlaceInv

(* The worker takes the first job of the queue.                            *)
LEMMA TakingKeepsPlaces ==
  ASSUME Values, PlaceInv, NEW w \in Subs, PopFront(w), queue # <<>>
  PROVE  PlaceInv'
<1> DEFINE job == Head(queue)
<1>0. MaxSubmits \in Nat \ {0} /\ Subs = 1 .. MaxSubmits
  BY GuiQueueAssumption DEF GuiQueueAssumption, Subs
<1>1. /\ wpc[w] = "pop" /\ wpc' = [wpc EXCEPT ![w] = "claim"]
      /\ wjob' = [wjob EXCEPT ![w] = job] /\ queue' = Tail(queue)
      /\ cmd' = cmd /\ outcome' = outcome /\ removed' = removed
  BY DEF PopFront, GoTo, Rest, command, history
<1>2. /\ wpc \in [Subs -> WorkerPoints] /\ wjob \in [Subs -> 0 .. MaxSubmits]
      /\ queue \in Seq(Subs)
  BY DEF Values
<1>3. /\ IsInjective(queue') /\ job \in Subs /\ job \in Range(queue)
      /\ Range(queue') = Range(queue) \ {job}
  BY <1>1, <1>2, TailEffect DEF PlaceInv
<1> HIDE DEF job
<1>4. /\ \A s : InQueue(s) <=> s \in Range(queue)
      /\ \A s : InQueue(s)' <=> s \in Range(queue')
  BY DEF InQueue, Range
<1>5. wjob[w] = 0
  BY <1>1, <1>2 DEF PlaceInv
<1>6. \A s \in Subs : Held(s)' <=> Held(s) \/ s = job
  <2>1. \A v \in Subs : wjob'[v] = IF v = w THEN job ELSE wjob[v]
    BY <1>1, <1>2
  <2> QED
    BY <1>0, <1>5, <2>1 DEF Held
<1>7. \A s \in Subs : Pushed(s)' <=> Pushed(s)
  BY <1>1 DEF Pushed
<1>8. ASSUME NEW s \in Subs
      PROVE  /\ Pushed(s)' <=> (InQueue(s) \/ Held(s) \/ outcome[s] # "none" \/ s \in removed)'
             /\ ~(InQueue(s) /\ Held(s))'
             /\ (outcome[s] # "none" => ~InQueue(s) /\ ~Held(s) /\ s \notin removed)'
             /\ (s \in removed => ~InQueue(s) /\ ~Held(s) /\ cmd[s] = "done")'
  BY <1>1, <1>3, <1>4, <1>6, <1>7 DEF PlaceInv
<1>9. \A v, u \in Subs : wjob'[v] # 0 /\ wjob'[v] = wjob'[u] => v = u
  <2>1. ~Held(job)
    BY <1>3, <1>4 DEF PlaceInv
  <2> QED
    BY <1>1, <1>2, <2>1 DEF PlaceInv, Held
<1>10. \A v \in Subs : wjob'[v] # 0 <=> wpc'[v] \in WorkerPoints \ {"none", "pop", "drain", "gone"}
  BY <1>0, <1>1, <1>2, <1>3 DEF PlaceInv, WorkerPoints
<1> QED
  BY <1>3, <1>8, <1>9, <1>10 DEF PlaceInv

LEMMA PushingKeepsPlaces ==
  ASSUME Values, PlaceInv, NEW s \in Subs, Push(s)
  PROVE  PlaceInv'
<1>1. /\ cmd[s] = "push" /\ cmd' = [cmd EXCEPT ![s] = "check"] /\ queue' = Append(queue, s)
      /\ wpc' = wpc /\ wjob' = wjob /\ outcome' = outcome /\ removed' = removed
  BY DEF Push, workers, history
<1>2. cmd \in [Subs -> CommandPoints] /\ queue \in Seq(Subs)
  BY DEF Values
<1>3. /\ \A t : InQueue(t) <=> t \in Range(queue)
      /\ \A t : InQueue(t)' <=> t \in Range(queue')
  BY DEF InQueue, Range
<1>4. ~Pushed(s) /\ \A t \in Subs : Pushed(t)' <=> Pushed(t) \/ t = s
  BY <1>1, <1>2 DEF Pushed
<1>5. s \notin Range(queue)
  BY <1>3, <1>4 DEF PlaceInv
<1>6. IsInjective(queue') /\ Range(queue') = Range(queue) \cup {s}
  BY <1>1, <1>2, <1>5, AppendEffect DEF PlaceInv
<1>7. \A t : Held(t)' <=> Held(t)
  BY <1>1 DEF Held
<1>8. ASSUME NEW t \in Subs
      PROVE  /\ Pushed(t)' <=> (InQueue(t) \/ Held(t) \/ outcome[t] # "none" \/ t \in removed)'
             /\ ~(InQueue(t) /\ Held(t))'
             /\ (outcome[t] # "none" => ~InQueue(t) /\ ~Held(t) /\ t \notin removed)'
             /\ (t \in removed => ~InQueue(t) /\ ~Held(t) /\ cmd[t] = "done")'
  <2>1. cmd[t] = "done" => cmd'[t] = "done"
    BY <1>1, <1>2
  <2> QED
    BY <1>1, <1>3, <1>4, <1>6, <1>7, <2>1 DEF PlaceInv
<1>9. /\ \A v, u \in Subs : wjob'[v] # 0 /\ wjob'[v] = wjob'[u] => v = u
      /\ \A v \in Subs : wjob'[v] # 0 <=> wpc'[v] \in WorkerPoints \ {"none", "pop", "drain", "gone"}
  BY <1>1 DEF PlaceInv
<1> QED
  BY <1>6, <1>8, <1>9 DEF PlaceInv

LEMMA RemovingKeepsPlaces ==
  ASSUME Values, PlaceInv, CommandInv, CancelRemove, InQueue(ccmd.id)
  PROVE  PlaceInv'
<1> DEFINE job == ccmd.id
<1>1. PICK i \in DOMAIN queue :
        queue[i] = job /\ queue' = RemoveAt(queue, i) /\ removed' = removed \cup {job}
  BY DEF CancelRemove
<1>2. queue \in Seq(Subs) /\ job \in Subs
  BY <1>1, LenProperties DEF Values
<1>3. IsInjective(queue') /\ Range(queue') = Range(queue) \ {job}
  BY <1>1, <1>2, RemoveEffect DEF PlaceInv
<1>4. cmd[job] = "done"
  BY <1>2, GuiQueueAssumption DEF CommandInv, GuiQueueAssumption, Subs
<1> HIDE DEF job
<1>5. /\ wpc' = wpc /\ wjob' = wjob /\ outcome' = outcome /\ cmd' = cmd
  BY DEF CancelRemove, workers
<1>6. /\ \A s : InQueue(s) <=> s \in Range(queue)
      /\ \A s : InQueue(s)' <=> s \in Range(queue')
      /\ \A s : Held(s)' <=> Held(s)
      /\ \A s : Pushed(s)' <=> Pushed(s)
  BY <1>5 DEF InQueue, Range, Held, Pushed
<1>7. job \in Range(queue)
  BY <1>1 DEF Range
<1>8. ASSUME NEW s \in Subs
      PROVE  /\ Pushed(s)' <=> (InQueue(s) \/ Held(s) \/ outcome[s] # "none" \/ s \in removed)'
             /\ ~(InQueue(s) /\ Held(s))'
             /\ (outcome[s] # "none" => ~InQueue(s) /\ ~Held(s) /\ s \notin removed)'
             /\ (s \in removed => ~InQueue(s) /\ ~Held(s) /\ cmd[s] = "done")'
  BY <1>1, <1>3, <1>4, <1>5, <1>6, <1>7 DEF PlaceInv
<1>9. /\ \A v, u \in Subs : wjob'[v] # 0 /\ wjob'[v] = wjob'[u] => v = u
      /\ \A v \in Subs : wjob'[v] # 0 <=> wpc'[v] \in WorkerPoints \ {"none", "pop", "drain", "gone"}
  BY <1>5 DEF PlaceInv
<1> QED
  BY <1>3, <1>8, <1>9 DEF PlaceInv

LEMMA PlacesKept == Values /\ CommandInv /\ PlaceInv /\ [Next]_vars => PlaceInv'
<1> SUFFICES ASSUME Values, CommandInv, PlaceInv, [Next]_vars PROVE PlaceInv'
  OBVIOUS
<1>0. /\ MaxSubmits \in Nat \ {0} /\ Subs = 1 .. MaxSubmits
      /\ submitted \in 0 .. MaxSubmits
      /\ cmd \in [Subs -> CommandPoints] /\ wpc \in [Subs -> WorkerPoints]
  BY GuiQueueAssumption DEF GuiQueueAssumption, Subs, Values
<1>1. CASE Click
  <2>1. /\ submitted < MaxSubmits /\ cmd' = [cmd EXCEPT ![submitted + 1] = "listen"]
        /\ queue' = queue /\ wpc' = wpc /\ wjob' = wjob /\ outcome' = outcome /\ removed' = removed
    BY <1>1 DEF Click, shared, workers, history
  <2>2. submitted + 1 \in Subs /\ cmd[submitted + 1] = "none"
    BY <1>0, <2>1 DEF CommandInv
  <2>3. \A s \in Subs : /\ Pushed(s)' <=> Pushed(s)
                        /\ cmd[s] = "done" => cmd'[s] = "done"
    BY <1>0, <2>1, <2>2 DEF Pushed
  <2> QED
    BY <2>1, <2>3, NothingMoves
<1>2. CASE Edit \/ EventArrives \/ PauseClick \/ CancelClick \/ CancelStore
  <2>1. /\ queue' = queue /\ wpc' = wpc /\ wjob' = wjob /\ outcome' = outcome
        /\ removed' = removed /\ cmd' = cmd
    BY <1>2, Zenon DEF Edit, EventArrives, PauseClick, CancelClick, CancelStore,
       shared, command, workers, history
  <2> QED
    BY <2>1, NothingMoves DEF Pushed
<1>3. CASE CancelRemove
  <2>1. CASE InQueue(ccmd.id)
    BY <1>3, <2>1, RemovingKeepsPlaces
  <2>2. CASE ~InQueue(ccmd.id)
    <3>1. queue' = queue /\ removed' = removed
      BY <1>3, <2>2 DEF CancelRemove, InQueue
    <3>2. wpc' = wpc /\ wjob' = wjob /\ outcome' = outcome /\ cmd' = cmd
      BY <1>3 DEF CancelRemove, workers
    <3> QED
      BY <3>1, <3>2, NothingMoves DEF Pushed
  <2> QED
    BY <2>1, <2>2
<1>4. ASSUME NEW s \in Subs, CommandStep(s)
      PROVE  PlaceInv'
  <2>1. CASE Push(s)
    BY <2>1, PushingKeepsPlaces
  <2>2. CASE Listen(s) \/ ReplyArrives(s)
    <3>1. /\ \/ cmd[s] = "listen" /\ cmd' = [cmd EXCEPT ![s] = "push"]
             \/ cmd[s] = "reply" /\ cmd' = [cmd EXCEPT ![s] = "done"]
          /\ queue' = queue /\ wpc' = wpc /\ wjob' = wjob /\ outcome' = outcome /\ removed' = removed
      BY <2>2 DEF Listen, ReplyArrives, shared, workers, history
    <3>2. \A t \in Subs : /\ Pushed(t)' <=> Pushed(t)
                          /\ cmd[t] = "done" => cmd'[t] = "done"
      BY <1>0, <3>1 DEF Pushed
    <3> QED
      BY <3>1, <3>2, NothingMoves
  <2>3. CASE CheckCurrent(s)
    <3>1. /\ cmd[s] = "check" /\ cmd' = [cmd EXCEPT ![s] = "reply"]
          /\ wpc' = wpc \/ wpc' = [wpc EXCEPT ![s] = "pop"]
          /\ queue' = queue /\ wjob' = wjob /\ outcome' = outcome /\ removed' = removed
      BY <2>3 DEF CheckCurrent, shared
    <3>2. \A t \in Subs : /\ Pushed(t)' <=> Pushed(t)
                          /\ cmd[t] = "done" => cmd'[t] = "done"
      BY <1>0, <3>1 DEF Pushed
    <3>3. wpc[s] = "none"
      BY <3>1 DEF CommandInv
    <3>4. \A w \in Subs :
            \/ wpc'[w] = wpc[w]
            \/ wpc[w] \in {"none", "pop", "drain", "gone"} /\ wpc'[w] \in {"none", "pop", "drain", "gone"}
      BY <1>0, <3>1, <3>3
    <3> QED
      BY <3>1, <3>2, <3>4, NothingMoves
  <2> QED
    BY <1>4, <2>1, <2>2, <2>3 DEF CommandStep
<1>5. ASSUME NEW w \in Subs, NEW at \in WorkerPoints, NEW to \in WorkerPoints, wpc[w] = at, GoTo(w, to),
             at \in {"none", "pop", "drain", "gone"} <=> to \in {"none", "pop", "drain", "gone"},
             queue' = queue, wjob' = wjob, outcome' = outcome, removed' = removed, cmd' = cmd
      PROVE  PlaceInv'
  <2>1. \A v \in Subs :
          \/ wpc'[v] = wpc[v]
          \/ /\ wpc[v] \in WorkerPoints \ {"none", "pop", "drain", "gone"}
             /\ wpc'[v] \in WorkerPoints \ {"none", "pop", "drain", "gone"}
          \/ wpc[v] \in {"none", "pop", "drain", "gone"} /\ wpc'[v] \in {"none", "pop", "drain", "gone"}
    BY <1>0, <1>5 DEF GoTo
  <2> QED
    BY <1>5, <2>1, NothingMoves DEF Pushed
<1>6. ASSUME NEW w \in Subs, WorkerStep(w) \/ SkipEncode(w) \/ RunFails(w) \/ RunPanics(w)
      PROVE  PlaceInv'
  <2>1. CASE PopFront(w)
    <3>1. CASE queue # <<>>
      BY <2>1, <3>1, TakingKeepsPlaces
    <3>2. CASE queue = <<>>
      <4>1. /\ wpc[w] = "pop" /\ GoTo(w, "drain") /\ queue' = queue /\ wjob' = wjob
            /\ outcome' = outcome /\ removed' = removed /\ cmd' = cmd
        BY <2>1, <3>2 DEF PopFront, command, history
      <4> QED
        BY <1>5, <4>1 DEF WorkerPoints
    <3> QED
      BY <3>1, <3>2
  <2>2. CASE Drain(w) \/ Claim(w) \/ ResetFlags(w) \/ Package(w)
    <3>1. /\ queue' = queue /\ wjob' = wjob /\ outcome' = outcome /\ removed' = removed /\ cmd' = cmd
      BY <2>2, Zenon DEF Drain, Claim, ResetFlags, Package, shared, command, history
    <3>2. \/ wpc[w] = "drain" /\ GoTo(w, "gone")
          \/ wpc[w] = "claim" /\ GoTo(w, "reset")
          \/ wpc[w] = "reset" /\ GoTo(w, "run")
          \/ wpc[w] = "package" /\ GoTo(w, "ok")
      BY <2>2, Zenon DEF Drain, Claim, ResetFlags, Package
    <3> QED
      BY <1>5, <3>1, <3>2 DEF WorkerPoints
  <2>3. CASE BeforePackaging(w) \/ RunFails(w)
    <3>1. /\ queue' = queue /\ wjob' = wjob /\ outcome' = outcome /\ removed' = removed /\ cmd' = cmd
      BY <2>3, Zenon DEF BeforePackaging, RunFails, shared, command, history
    <3>2. wpc[w] \in {"run", "package"} /\ (GoTo(w, "err") \/ GoTo(w, "package"))
      BY <2>3 DEF BeforePackaging, RunFails, GoTo
    <3> QED
      BY <1>5, <3>1, <3>2 DEF WorkerPoints
  <2>4. CASE Finish(w) \/ RunPanics(w)
    <3>1. PICK how \in Outcomes \ {"none"} : LeaveJob(w, how)
      BY <2>4 DEF Finish, RunPanics, Outcomes
    <3>2. wpc[w] \in WorkerPoints \ {"none", "pop", "drain", "gone"}
      BY <2>4 DEF Finish, RunPanics, WorkerPoints
    <3>3. queue' = queue /\ removed' = removed /\ cmd' = cmd
      BY <2>4, Zenon DEF Finish, RunPanics, shared, command
    <3> QED
      BY <3>1, <3>2, <3>3, LeavingKeepsPlaces
  <2> QED
    BY <1>6, <2>1, <2>2, <2>3, <2>4 DEF WorkerStep, Encode, SkipEncode
<1>7. CASE UNCHANGED vars
  <2>1. /\ queue' = queue /\ wpc' = wpc /\ wjob' = wjob /\ outcome' = outcome
        /\ removed' = removed /\ cmd' = cmd
    BY <1>7, Zenon DEF vars, shared, command, workers, history
  <2> QED
    BY <2>1, NothingMoves DEF Pushed
<1> QED
  BY <1>1, <1>2, <1>3, <1>4, <1>6, <1>7 DEF Next

-----------------------------------------------------------------------------
(* The page and the workers, while the form is left alone.                 *)

(* A job at work is one that was submitted and has not ended.              *)
LEMMA HeldIsUnderWay ==
  ASSUME Values, CommandInv, PlaceInv, NEW w \in Subs,
         wpc[w] \in WorkerPoints \ {"none", "pop", "drain", "gone"}
  PROVE  wjob[w] \in 1 .. submitted /\ outcome[wjob[w]] = "none"
<1>0. MaxSubmits \in Nat \ {0} /\ Subs = 1 .. MaxSubmits /\ submitted \in 0 .. MaxSubmits
  BY GuiQueueAssumption DEF GuiQueueAssumption, Subs, Values
<1>1. wjob[w] \in Subs /\ Held(wjob[w])
  BY WorkerHasJob DEF Held
<1>2. outcome[wjob[w]] = "none" /\ Pushed(wjob[w])
  BY <1>1 DEF PlaceInv
<1>3. ~(wjob[w] > submitted)
  BY <1>1, <1>2 DEF CommandInv, Pushed
<1> QED
  BY <1>0, <1>1, <1>2, <1>3

LEMMA PageKept == Values /\ CommandInv /\ PlaceInv /\ PageInv /\ [Next]_vars => PageInv'
<1> SUFFICES ASSUME Values, CommandInv, PlaceInv, PageInv, [Next]_vars, ~edited'
             PROVE  PageInv'
  BY DEF PageInv
<1>0. /\ MaxSubmits \in Nat \ {0} /\ Subs = 1 .. MaxSubmits
      /\ submitted \in 0 .. MaxSubmits /\ events \in Seq(Subs)
      /\ outcome \in [Subs -> Outcomes]
  BY GuiQueueAssumption DEF GuiQueueAssumption, Subs, Values
<1>1. CASE Click
  <2>1. enabled /\ ~enabled' /\ edited' = edited
    BY <1>1, Zenon DEF Click, history
  <2>2. submitted' = submitted + 1 /\ outcome' = outcome /\ events' = events
    BY <1>1, Zenon DEF Click, history
  <2>3. \A s \in 1 .. submitted : outcome[s] # "none"
    BY <2>1 DEF PageInv
  <2>4. events = <<>>
    BY <2>1 DEF PageInv
  <2> QED
    BY <1>0, <2>1, <2>2, <2>3, <2>4 DEF PageInv
<1>2. CASE Edit
  BY <1>2, Zenon DEF Edit
<1>3. CASE EventArrives
  <2>1. events # <<>> /\ edited' = edited
    BY <1>3, Zenon DEF EventArrives
  <2>2. submitted' = submitted /\ outcome' = outcome /\ events' = Tail(events)
    BY <1>3, Zenon DEF EventArrives, command
  <2>3. submitted > 0 /\ events = <<submitted>> /\ outcome[submitted] # "none"
    BY <2>1 DEF PageInv
  <2>4. Tail(events) = <<>>
    BY <1>0, <2>3
  <2>5. \A s \in 1 .. submitted : outcome[s] # "none"
    BY <1>0, <2>1, <2>3 DEF PageInv
  <2> QED
    BY <2>2, <2>4, <2>5 DEF PageInv
<1>4. ASSUME edited' = edited, enabled' = enabled, submitted' = submitted,
             outcome' = outcome, events' = events
      PROVE  PageInv'
  BY <1>4, Zenon DEF PageInv
<1>5. CASE PauseClick \/ CancelClick \/ CancelStore \/ CancelRemove
  BY <1>4, <1>5, Zenon DEF PauseClick, CancelClick, CancelStore, CancelRemove,
     command, page, history
<1>6. ASSUME NEW s \in Subs, CommandStep(s)
      PROVE  PageInv'
  BY <1>4, <1>6, Zenon DEF CommandStep, Listen, Push, CheckCurrent, ReplyArrives, page, history
<1>7. ASSUME NEW w \in Subs, WorkerStep(w) \/ SkipEncode(w) \/ RunFails(w) \/ RunPanics(w)
      PROVE  PageInv'
  <2>1. CASE PopFront(w) \/ Drain(w) \/ Claim(w) \/ ResetFlags(w)
    BY <1>4, <2>1, Zenon DEF PopFront, Drain, Claim, ResetFlags, command, page, history
  <2>2. CASE BeforePackaging(w) \/ Package(w) \/ RunFails(w)
    BY <1>4, <2>2, Zenon DEF BeforePackaging, Package, RunFails, command, page, history
  <2>3. CASE Finish(w) \/ RunPanics(w)
    <3>1. edited' = edited /\ enabled' = enabled
      BY <2>3, Zenon DEF Finish, RunPanics, page
    <3>2. /\ submitted' = submitted
          /\ wpc[w] \in WorkerPoints \ {"none", "pop", "drain", "gone"}
      BY <2>3 DEF Finish, RunPanics, command, WorkerPoints
    <3>3. PICK how \in Outcomes \ {"none"} : LeaveJob(w, how)
      BY <2>3 DEF Finish, RunPanics, Outcomes
    <3> DEFINE job == wjob[w]
    <3>4. job \in 1 .. submitted /\ outcome[job] = "none"
      BY <3>2, HeldIsUnderWay
    <3>5. outcome' = [outcome EXCEPT ![job] = how]
      BY <3>3 DEF LeaveJob
    <3>6. events' = events \/ events' = Append(events, job)
      BY <2>3, Zenon DEF Finish, RunPanics, EmitEnd
    <3> HIDE DEF job
    <3>7. job = submitted /\ ~enabled /\ events = <<>>
      BY <1>0, <3>1, <3>4 DEF PageInv
    <3>8. \A s \in 1 .. submitted : outcome'[s] # "none"
      BY <1>0, <3>1, <3>5, <3>7 DEF PageInv
    <3>9. events' = <<>> \/ events' = <<submitted>>
      BY <3>6, <3>7
    <3> QED
      BY <1>0, <3>1, <3>2, <3>4, <3>7, <3>8, <3>9 DEF PageInv
  <2> QED
    BY <1>7, <2>1, <2>2, <2>3 DEF WorkerStep, Encode, SkipEncode
<1>8. CASE UNCHANGED vars
  BY <1>4, <1>8, Zenon DEF vars, command, page, history
<1> QED
  BY <1>1, <1>2, <1>3, <1>5, <1>6, <1>7, <1>8 DEF Next

LEMMA WorkersKept ==
  Values /\ CommandInv /\ PlaceInv /\ PageInv /\ WorkerInv /\ [Next]_vars => WorkerInv'
<1> SUFFICES ASSUME Values, CommandInv, PlaceInv, PageInv, WorkerInv, [Next]_vars,
                    ~edited', ~late'
             PROVE  WorkerInv'
  BY DEF WorkerInv
<1>0. /\ MaxSubmits \in Nat \ {0} /\ Subs = 1 .. MaxSubmits
      /\ submitted \in 0 .. MaxSubmits
      /\ cmd \in [Subs -> CommandPoints] /\ wpc \in [Subs -> WorkerPoints]
      /\ wjob \in [Subs -> 0 .. MaxSubmits]
  BY GuiQueueAssumption DEF GuiQueueAssumption, Subs, Values
<1> DEFINE Alone == \A w, v \in Subs : Active(w) /\ Active(v) => w = v
           Fresh == \A w \in Subs : Active(w) /\ current = 0 =>
                      /\ w = submitted /\ outcome[w] = "none"
                      /\ wpc[w] \in {"pop", "drain", "claim"}
<1>1. ~edited /\ ~late => Alone /\ Fresh
  BY Zenon DEF WorkerInv
<1>2. ASSUME Alone', Fresh' PROVE WorkerInv'
  BY <1>2, Zenon DEF WorkerInv
<1> HIDE DEF Alone, Fresh
(* No worker starts, and current_id stays as it is.                        *)
<1>3. ASSUME Alone, Fresh, current' = current, submitted' = submitted,
             NEW w \in Subs, NEW to \in WorkerPoints, GoTo(w, to), Active(w),
             \/ wpc[w] = "pop" /\ to \in {"drain", "claim"} /\ outcome' = outcome
             \/ wpc[w] \notin {"pop", "drain", "claim"}
      PROVE  WorkerInv'
  <2>1. \A v \in Subs : wpc'[v] = IF v = w THEN to ELSE wpc[v]
    BY <1>0, <1>3 DEF GoTo
  <2>2. \A v \in Subs : Active(v)' => Active(v)
    BY <1>3, <2>1 DEF Active
  <2>3. Alone'
    BY <1>3, <2>2 DEF Alone
  <2>4. Fresh'
    <3>1. CASE current # 0
      BY <1>3, <3>1 DEF Fresh
    <3>2. CASE current = 0
      <4>1. wpc[w] = "pop" /\ to \in {"drain", "claim"} /\ outcome' = outcome
        BY <1>3, <3>2 DEF Fresh
      <4> QED
        BY <1>3, <2>1, <2>2, <4>1 DEF Fresh
    <3> QED
      BY <3>1, <3>2
  <2> QED
    BY <1>2, <2>3, <2>4
<1>4. CASE Click
  <2>1. enabled /\ edited' = edited /\ late' = late
    BY <1>4, Zenon DEF Click, history
  <2>2. submitted' = submitted + 1 /\ outcome' = outcome /\ wpc' = wpc /\ current' = current
    BY <1>4, Zenon DEF Click, shared, workers, history
  <2>3. ~edited /\ ~late
    BY <2>1
  <2>4. \A s \in 1 .. submitted : outcome[s] # "none"
    BY <2>1, <2>3 DEF PageInv
  <2>5. \A w \in Subs : ~(Active(w) /\ current = 0)
    BY <1>0, <1>1, <2>3, <2>4 DEF Fresh
  <2>6. Alone' /\ Fresh'
    BY <1>1, <2>2, <2>3, <2>5 DEF Alone, Fresh, Active
  <2> QED
    BY <1>2, <2>6
<1>5. ASSUME edited' = edited, late' = late, wpc' = wpc, submitted' = submitted,
             outcome' = outcome, current' = current
      PROVE  WorkerInv'
  <2>1. ~edited /\ ~late
    BY <1>5
  <2>2. Alone' /\ Fresh'
    BY <1>1, <1>5, <2>1 DEF Alone, Fresh, Active
  <2> QED
    BY <1>2, <2>2
<1>6. CASE Edit
  BY <1>6, Zenon DEF Edit
<1>7. CASE EventArrives \/ PauseClick \/ CancelClick \/ CancelStore \/ CancelRemove
  BY <1>5, <1>7, Zenon DEF EventArrives, PauseClick, CancelClick, CancelStore, CancelRemove,
     shared, command, workers, history
<1>8. ASSUME NEW s \in Subs, CommandStep(s)
      PROVE  WorkerInv'
  <2>1. CASE Listen(s) \/ Push(s) \/ ReplyArrives(s)
    BY <1>5, <2>1, Zenon DEF Listen, Push, ReplyArrives, shared, workers, history
  <2>2. CASE CheckCurrent(s)
    <3>1. edited' = edited /\ (late' <=> late \/ outcome[s] # "none")
      BY <2>2, Zenon DEF CheckCurrent
    <3>2. /\ cmd[s] = "check" /\ submitted' = submitted
          /\ outcome' = outcome /\ current' = current
          /\ wpc' = IF current = 0 THEN [wpc EXCEPT ![s] = "pop"] ELSE wpc
      BY <2>2, Zenon DEF CheckCurrent, SpawnsWorker, shared
    <3>3. ~edited /\ ~late /\ outcome[s] = "none"
      BY <3>1
    <3>4. wpc[s] = "none" /\ ~(s > submitted)
      BY <3>2 DEF CommandInv
    <3>5. s = submitted
      BY <1>0, <3>3, <3>4 DEF PageInv
    <3>6. CASE current # 0
      <4>1. Alone' /\ Fresh'
        BY <1>1, <3>2, <3>3, <3>6 DEF Alone, Fresh, Active
      <4> QED
        BY <1>2, <4>1
    <3>7. CASE current = 0
      <4>1. \A w \in Subs : ~Active(w)
        BY <1>1, <3>3, <3>4, <3>5, <3>7 DEF Fresh, Active
      <4>2. \A w \in Subs : wpc'[w] = IF w = s THEN "pop" ELSE wpc[w]
        BY <1>0, <3>2, <3>7
      <4>3. \A w \in Subs : Active(w)' => w = s
        BY <4>1, <4>2 DEF Active
      <4>4. Alone'
        BY <4>3 DEF Alone
      <4>5. Fresh'
        BY <3>2, <3>3, <3>5, <4>2, <4>3 DEF Fresh
      <4> QED
        BY <1>2, <4>4, <4>5
    <3> QED
      BY <3>6, <3>7
  <2> QED
    BY <1>8, <2>1, <2>2 DEF CommandStep
<1>9. ASSUME NEW w \in Subs, WorkerStep(w) \/ SkipEncode(w) \/ RunFails(w) \/ RunPanics(w)
      PROVE  WorkerInv'
  <2>1. edited' = edited /\ late' = late
    BY <1>9, Zenon DEF WorkerStep, SkipEncode, RunFails, RunPanics, PopFront, Drain, Claim,
       ResetFlags, Encode, BeforePackaging, Package, Finish, history
  <2>2. Alone /\ Fresh
    BY <1>1, <2>1
  <2>3. submitted' = submitted
    BY <1>9, Zenon DEF WorkerStep, SkipEncode, RunFails, RunPanics, PopFront, Drain, Claim,
       ResetFlags, Encode, BeforePackaging, Package, Finish, command
  <2>4. CASE PopFront(w)
    <3>1. /\ wpc[w] = "pop" /\ (GoTo(w, "drain") \/ GoTo(w, "claim"))
          /\ outcome' = outcome /\ current' = current
      BY <2>4, Zenon DEF PopFront, history
    <3> QED
      BY <1>3, <2>2, <2>3, <3>1 DEF Active, WorkerPoints
  <2>5. CASE Drain(w)
    <3>1. wpc[w] = "drain" /\ wpc' = [wpc EXCEPT ![w] = "gone"]
      BY <2>5, Zenon DEF Drain, GoTo
    <3>2. \A v \in Subs : Active(v)' => Active(v) /\ v # w
      BY <1>0, <3>1 DEF Active
    <3>3. \A v \in Subs : ~Active(v)'
      BY <2>2, <3>1, <3>2 DEF Alone, Active
    <3>4. Alone' /\ Fresh'
      BY <3>3 DEF Alone, Fresh
    <3> QED
      BY <1>2, <3>4
  <2>6. CASE Claim(w)
    <3>1. wpc[w] = "claim" /\ wpc' = [wpc EXCEPT ![w] = "reset"] /\ current' = wjob[w]
      BY <2>6, Zenon DEF Claim, GoTo
    <3>2. wjob[w] \in Subs
      BY <3>1, WorkerHasJob DEF WorkerPoints
    <3>3. \A v \in Subs : Active(v)' => Active(v)
      BY <1>0, <3>1 DEF Active
    <3>4. Alone'
      BY <2>2, <3>3 DEF Alone
    <3>5. Fresh'
      BY <1>0, <3>1, <3>2 DEF Fresh
    <3> QED
      BY <1>2, <3>4, <3>5
  <2>7. CASE ResetFlags(w) \/ Package(w)
    <3>1. /\ \/ wpc[w] = "reset" /\ GoTo(w, "run")
             \/ wpc[w] = "package" /\ GoTo(w, "ok")
          /\ current' = current
      BY <2>7, Zenon DEF ResetFlags, Package, shared
    <3> QED
      BY <1>3, <2>2, <2>3, <3>1 DEF Active, WorkerPoints
  <2>8. CASE BeforePackaging(w) \/ RunFails(w)
    <3>1. /\ wpc[w] \in {"run", "package"} /\ (GoTo(w, "err") \/ GoTo(w, "package"))
          /\ current' = current
      BY <2>8 DEF BeforePackaging, RunFails, GoTo, shared
    <3> QED
      BY <1>3, <2>2, <2>3, <3>1 DEF Active, WorkerPoints
  <2>9. CASE Finish(w) \/ RunPanics(w)
    <3>1. wpc[w] \in {"run", "package", "ok", "err"} /\ GoTo(w, "pop") /\ current' = current
      BY <2>9 DEF Finish, RunPanics, LeaveJob, KeepsCurrent, shared
    <3> QED
      BY <1>3, <2>2, <2>3, <3>1 DEF Active, WorkerPoints
  <2> QED
    BY <1>9, <2>4, <2>5, <2>6, <2>7, <2>8, <2>9 DEF WorkerStep, Encode, SkipEncode
<1>10. CASE UNCHANGED vars
  BY <1>5, <1>10, Zenon DEF vars, shared, command, workers, history
<1> QED
  BY <1>4, <1>6, <1>7, <1>8, <1>9, <1>10 DEF Next

-----------------------------------------------------------------------------
(* A job in the queue has somebody to serve it.                            *)

LEMMA ServiceKept == Values /\ CommandInv /\ PlaceInv /\ QueueIsServed /\ [Next]_vars => QueueIsServed'
<1> SUFFICES ASSUME Values, CommandInv, PlaceInv, QueueIsServed, [Next]_vars,
                    queue' # <<>>, ~raced'
             PROVE  \/ \E w \in Subs : Active(w)' /\ wpc'[w] # "drain"
                    \/ \E s \in Subs : cmd'[s] = "check"
  BY Zenon DEF QueueIsServed
<1>0. /\ MaxSubmits \in Nat \ {0} /\ Subs = 1 .. MaxSubmits
      /\ submitted \in 0 .. MaxSubmits /\ queue \in Seq(Subs)
      /\ cmd \in [Subs -> CommandPoints] /\ wpc \in [Subs -> WorkerPoints]
  BY GuiQueueAssumption DEF GuiQueueAssumption, Subs, Values
<1> DEFINE Served == \/ \E w \in Subs : Active(w) /\ wpc[w] # "drain"
                     \/ \E s \in Subs : cmd[s] = "check"
<1>1. queue # <<>> /\ ~raced => Served
  BY Zenon DEF QueueIsServed
<1>2. SUFFICES Served'
  BY Zenon
<1> HIDE DEF Served
<1>3. ASSUME queue' = queue \/ queue # <<>>, raced' = raced, wpc' = wpc,
             \A s \in Subs : cmd[s] = "check" => cmd'[s] = "check"
      PROVE  Served'
  <2>1. Served
    BY <1>1, <1>3, Zenon
  <2> QED
    BY <1>3, <2>1 DEF Served, Active
<1>4. CASE Click
  <2>1. queue' = queue /\ raced' = raced
    BY <1>4, Zenon DEF Click, shared, history
  <2>2. /\ submitted < MaxSubmits /\ cmd' = [cmd EXCEPT ![submitted + 1] = "listen"]
        /\ wpc' = wpc
    BY <1>4, Zenon DEF Click, workers
  <2>3. submitted + 1 \in Subs /\ cmd[submitted + 1] = "none"
    BY <1>0, <2>2 DEF CommandInv
  <2>4. \A s \in Subs : cmd[s] = "check" => cmd'[s] = "check"
    BY <1>0, <2>2, <2>3
  <2> QED
    BY <1>3, <2>1, <2>2, <2>4
<1>5. CASE Edit \/ EventArrives \/ PauseClick \/ CancelClick \/ CancelStore
  <2>1. queue' = queue /\ raced' = raced /\ wpc' = wpc /\ cmd' = cmd
    BY <1>5, Zenon DEF Edit, EventArrives, PauseClick, CancelClick, CancelStore,
       shared, command, workers, history
  <2> QED
    BY <1>3, <2>1
<1>6. CASE CancelRemove
  <2>1. raced' = raced /\ wpc' = wpc /\ cmd' = cmd
    BY <1>6, Zenon DEF CancelRemove, workers
  <2>2. queue' = queue \/ queue # <<>>
    <3>1. CASE InQueue(ccmd.id)
      BY <1>0, <3>1 DEF InQueue
    <3>2. CASE ~InQueue(ccmd.id)
      BY <1>6, <3>2 DEF CancelRemove, InQueue
    <3> QED
      BY <3>1, <3>2
  <2> QED
    BY <1>3, <2>1, <2>2
<1>7. ASSUME NEW s \in Subs, CommandStep(s)
      PROVE  Served'
  <2>1. CASE Listen(s) \/ ReplyArrives(s)
    <3>1. queue' = queue /\ raced' = raced
      BY <2>1, Zenon DEF Listen, ReplyArrives, shared, history
    <3>2. /\ wpc' = wpc
          /\ \/ cmd[s] = "listen" /\ cmd' = [cmd EXCEPT ![s] = "push"]
             \/ cmd[s] = "reply" /\ cmd' = [cmd EXCEPT ![s] = "done"]
      BY <2>1, Zenon DEF Listen, ReplyArrives, workers
    <3>3. \A t \in Subs : cmd[t] = "check" => cmd'[t] = "check"
      BY <1>0, <3>2
    <3> QED
      BY <1>3, <3>1, <3>2, <3>3
  <2>2. CASE Push(s)
    <3>1. cmd' = [cmd EXCEPT ![s] = "check"]
      BY <2>2, Zenon DEF Push
    <3>2. cmd'[s] = "check"
      BY <1>0, <3>1
    <3> QED
      BY <3>2 DEF Served
  <2>3. CASE CheckCurrent(s)
    <3>1. cmd[s] = "check" /\ wpc' = IF current = 0 THEN [wpc EXCEPT ![s] = "pop"] ELSE wpc
      BY <2>3, Zenon DEF CheckCurrent, SpawnsWorker
    <3>2. CASE current = 0
      <4>1. wpc'[s] = "pop"
        BY <1>0, <3>1, <3>2
      <4> QED
        BY <4>1 DEF Served, Active
    <3>3. CASE current # 0
      <4>1. ~(\A w \in Subs : Active(w) => wpc[w] = "drain")
        BY <2>3, <3>3, Zenon DEF CheckCurrent
      <4> QED
        BY <3>1, <3>3, <4>1 DEF Served, Active
    <3> QED
      BY <3>2, <3>3
  <2> QED
    BY <1>7, <2>1, <2>2, <2>3 DEF CommandStep
<1>8. ASSUME NEW w \in Subs, WorkerStep(w) \/ SkipEncode(w) \/ RunFails(w) \/ RunPanics(w)
      PROVE  Served'
  (* A worker that goes on after its step serves the queue.                *)
  <2>1. ASSUME NEW to \in WorkerPoints \ {"none", "drain", "gone"}, GoTo(w, to)
        PROVE  Served'
    <3>1. wpc'[w] = to
      BY <1>0, <2>1 DEF GoTo
    <3> QED
      BY <2>1, <3>1 DEF Served, Active
  <2>2. CASE PopFront(w)
    <3>1. queue # <<>>
      BY <2>2 DEF PopFront
    <3> QED
      BY <2>1, <2>2, <3>1 DEF PopFront, WorkerPoints
  <2>3. CASE Drain(w)
    <3>1. queue' = queue /\ raced' = raced
      BY <2>3, Zenon DEF Drain, history
    <3>2. Served
      BY <1>1, <3>1, Zenon
    <3>3. wpc[w] = "drain" /\ wpc' = [wpc EXCEPT ![w] = "gone"] /\ cmd' = cmd
      BY <2>3, Zenon DEF Drain, GoTo, command
    <3> QED
      BY <1>0, <3>2, <3>3 DEF Served, Active
  <2>4. CASE Claim(w) \/ ResetFlags(w) \/ Package(w)
    <3>1. GoTo(w, "reset") \/ GoTo(w, "run") \/ GoTo(w, "ok")
      BY <2>4, Zenon DEF Claim, ResetFlags, Package
    <3> QED
      BY <2>1, <3>1 DEF WorkerPoints
  <2>5. CASE BeforePackaging(w) \/ RunFails(w) \/ Finish(w) \/ RunPanics(w)
    <3>1. GoTo(w, "err") \/ GoTo(w, "package") \/ GoTo(w, "pop")
      BY <2>5 DEF BeforePackaging, RunFails, Finish, RunPanics, LeaveJob, GoTo
    <3> QED
      BY <2>1, <3>1 DEF WorkerPoints
  <2> QED
    BY <1>8, <2>2, <2>3, <2>4, <2>5 DEF WorkerStep, Encode, SkipEncode
<1>9. CASE UNCHANGED vars
  <2>1. queue' = queue /\ raced' = raced /\ wpc' = wpc /\ cmd' = cmd
    BY <1>9, Zenon DEF vars, shared, command, workers, history
  <2> QED
    BY <1>3, <2>1
<1> QED
  BY <1>4, <1>5, <1>6, <1>7, <1>8, <1>9 DEF Next

-----------------------------------------------------------------------------
(* The theorems.                                                           *)

LEMMA Invariance == Spec => []IInv
<1>1. IInv /\ [Next]_vars => IInv'
  <2>1. IInv => Values
    BY TypeOKIs DEF IInv
  <2> QED
    BY <2>1, TypeStep, CommandsKept, PlacesKept, PageKept, WorkersKept, ServiceKept DEF IInv
<1> QED
  BY InvInit, <1>1, PTL DEF Spec

(* Types: whatever order the commands, the page and the workers act in,    *)
(* queue, ids and points of control keep their types.                      *)
THEOREM TypeCorrect == Spec => []TypeOK
<1>1. IInv => TypeOK
  BY DEF IInv
<1> QED
  BY <1>1, Invariance, PTL

(* A job in the queue has a worker that will pop again or a submit that    *)
(* has yet to look at current_id, unless a submit raced with the end of    *)
(* the worker: run_queue_worker looks at the queue and clears current_id   *)
(* in two steps.                                                           *)
THEOREM QueuedJobsAreServed == Spec => []QueueIsServed
<1>1. IInv => QueueIsServed
  BY DEF IInv
<1> QED
  BY <1>1, Invariance, PTL

(* A submitted job is in one place only: no job is lost or run twice, even *)
(* with several workers on the one queue.                                  *)
THEOREM JobsAreInOnePlace == Spec => []JobInOnePlace
<1>1. ASSUME IInv, NEW s \in Subs
      PROVE  Places(s) = IF cmd[s] \in {"none", "listen", "push"} THEN 0 ELSE 1
  <2> DEFINE inQueue == {i \in DOMAIN queue : queue[i] = s}
             holders == {w \in Subs : wjob[w] = s}
  <2>0. /\ Values /\ PlaceInv
        /\ (outcome[s] # "none") \in BOOLEAN
    BY <1>1, TypeOKIs DEF IInv
  <2>1. Cardinality(inQueue) = IF InQueue(s) THEN 1 ELSE 0
    <3>1. CASE InQueue(s)
      <4>1. PICK i \in DOMAIN queue : queue[i] = s
        BY <3>1 DEF InQueue
      <4>2. inQueue = {i}
        BY <2>0, <4>1 DEF PlaceInv, IsInjective
      <4> QED
        BY <3>1, <4>2, FS_Singleton
    <3>2. CASE ~InQueue(s)
      <4>1. inQueue = {}
        BY <3>2 DEF InQueue
      <4> QED
        BY <3>2, <4>1, FS_EmptySet
    <3> QED
      BY <3>1, <3>2
  <2>2. Cardinality(holders) = IF Held(s) THEN 1 ELSE 0
    <3>1. CASE Held(s)
      <4>1. PICK w \in Subs : wjob[w] = s
        BY <3>1 DEF Held
      <4>2. holders = {w}
        BY <2>0, <4>1, GuiQueueAssumption DEF PlaceInv, Subs, GuiQueueAssumption
      <4> QED
        BY <3>1, <4>2, FS_Singleton
    <3>2. CASE ~Held(s)
      <4>1. holders = {}
        BY <3>2 DEF Held
      <4> QED
        BY <3>2, <4>1, FS_EmptySet
    <3> QED
      BY <3>1, <3>2
  <2> HIDE DEF inQueue, holders
  <2>3. Places(s) = (IF InQueue(s) THEN 1 ELSE 0) + (IF Held(s) THEN 1 ELSE 0)
                      + (IF outcome[s] # "none" THEN 1 ELSE 0) + (IF s \in removed THEN 1 ELSE 0)
    BY <2>1, <2>2 DEF Places, Holders, inQueue, holders
  <2> QED
    BY <2>0, <2>3 DEF PlaceInv, Pushed
<1>2. IInv => JobInOnePlace
  BY <1>1 DEF JobInOnePlace
<1> QED
  BY <1>2, Invariance, PTL

(* There is one worker task at a time, as long as the form is left alone   *)
(* and no submit_job looks at current_id after its job has ended: the page *)
(* keeps submissions apart, the backend does not.                          *)
THEOREM AtMostOneWorker == Spec => []OneWorker
<1>1. ASSUME IInv, ~edited, ~late
      PROVE  ~(Cardinality({w \in Subs : Active(w)}) > 1)
  <2> DEFINE active == {w \in Subs : Active(w)}
  <2>1. \A w, v \in active : w = v
    BY <1>1 DEF IInv, WorkerInv
  <2>2. active = {} \/ \E w \in Subs : active = {w}
    BY <2>1
  <2> HIDE DEF active
  <2>3. Cardinality(active) \in {0, 1}
    BY <2>2, FS_EmptySet, FS_Singleton
  <2> QED
    BY <2>3 DEF active
<1>2. IInv => OneWorker
  BY <1>1, Zenon DEF OneWorker
<1> QED
  BY <1>2, Invariance, PTL
=============================================================================

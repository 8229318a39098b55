-------------------------- MODULE WatchFolder_proofs --------------------------
(***************************************************************************)
(* Proofs about WatchFolder, for any finite set of folders, any list of    *)
(* actions and any number of deliveries, removals and restarts.            *)
(***************************************************************************)
EXTENDS WatchFolder, SequenceTheorems, FiniteSetTheorems, TLAPS

(* A listing of some of the folders is a sequence of folders.              *)
LEMMA ListingType ==
  ASSUME NEW S \in SUBSET Folders, NEW q \in SetToSeqs(S)
  PROVE  q \in Seq(Folders)
<1>1. Cardinality(S) \in Nat
  BY FS_Subset, FS_CardinalityType, WatchFolderAssumption DEF WatchFolderAssumption
<1>2. q \in [1 .. Cardinality(S) -> S]
  BY DEF SetToSeqs
<1>3. q \in [1 .. Cardinality(S) -> Folders]
  BY <1>2
<1> QED
  BY <1>1, <1>3, SeqDef

(* The name at hand is a folder, and passing on leaves a shorter list.     *)
LEMMA TodoProperties ==
  ASSUME TypeOK, todo # <<>>
  PROVE  Now \in Folders /\ Tail(todo) \in Seq(Folders)
BY HeadTailProperties DEF TypeOK, Now

LEMMA InitType == Init => TypeOK
BY WatchFolderAssumption, EmptySeq DEF Init, TypeOK, WatchFolderAssumption, Gone

LEMMA TypeStep == TypeOK /\ [Next]_vars => TypeOK'
<1> SUFFICES ASSUME TypeOK, [Next]_vars PROVE TypeOK'
  OBVIOUS
<1>0. /\ Pieces \in Nat \ {0} /\ Gone = Pieces + 1 /\ MaxMoves \in Nat /\ MaxStarts \in Nat
      /\ <<>> \in Seq(Folders) /\ <<>> \in Seq(BOOLEAN)
  BY WatchFolderAssumption, EmptySeq DEF WatchFolderAssumption, Gone
<1> USE DEF TypeOK
<1>1. ASSUME NEW f \in Folders, MakeDir(f) \/ MoveIn(f)
      PROVE  TypeOK'
  <2>1. events' \in Seq(Folders)
    <3>1. events' = events \/ events' = Append(events, f)
      BY <1>1 DEF MakeDir, MoveIn, Raise
    <3>2. Append(events, f) \in Seq(Folders)
      BY AppendProperties
    <3> QED
      BY <3>1, <3>2
  <2>2. have' \in [Folders -> 0 .. Gone]
    <3>1. PICK n \in {0, Pieces} : have' = [have EXCEPT ![f] = n]
      BY <1>1 DEF MakeDir, MoveIn
    <3>2. n \in 0 .. Gone
      BY <1>0
    <3> QED
      BY <3>1, <3>2
  <2> QED
    BY <1>1, <2>1, <2>2 DEF MakeDir, MoveIn, watcher, ghost
<1>2. ASSUME NEW f \in Folders, Arrive(f) \/ TakeAway(f)
      PROVE  TypeOK'
  <2>1. have' \in [Folders -> 0 .. Gone] /\ moves' \in 0 .. MaxMoves
    <3>1. CASE Arrive(f)
      <4>1. have[f] + 1 \in 0 .. Gone /\ have' = [have EXCEPT ![f] = have[f] + 1] /\ moves' = moves
        BY <1>0, <3>1 DEF Arrive
      <4> QED
        BY <4>1
    <3>2. CASE TakeAway(f)
      <4>1. Gone \in 0 .. Gone /\ have' = [have EXCEPT ![f] = Gone]
        BY <1>0, <3>2 DEF TakeAway
      <4>2. moves' \in 0 .. MaxMoves
        BY <1>0, <3>2 DEF TakeAway
      <4> QED
        BY <4>1, <4>2
    <3> QED
      BY <1>2, <3>1, <3>2
  <2> QED
    BY <1>2, <2>1 DEF Arrive, TakeAway, watcher, ghost
<1>3. CASE Start
  BY <1>0, <1>3 DEF Start, folder
<1>4. CASE Kill \/ Throws
  BY <1>0, <1>4 DEF Kill, Throws, Ends, folder, ghost
<1>5. CASE ReadEvents
  BY <1>0, <1>5 DEF ReadEvents, folder, ghost
<1>6. CASE Poll
  <2>1. todo' \in Seq(Folders)
    BY <1>6, ListingType DEF Poll
  <2> QED
    BY <1>6, <2>1 DEF Poll, folder, ghost
<1>7. CASE RoundEnds
  BY <1>7 DEF RoundEnds, folder, ghost
<1>8. CASE Look
  <2>1. Now \in Folders /\ Tail(todo) \in Seq(Folders)
    BY <1>8, TodoProperties DEF Look
  <2>2. have[Now] # Gone => have[Now] \in 0 .. Pieces
    BY <1>0, <2>1
  <2> QED
    BY <1>8, <2>1, <2>2 DEF Look, Skip, Present, folder
<1>9. CASE Rescan
  <2>1. Now \in Folders /\ Tail(todo) \in Seq(Folders)
    BY <1>9, TodoProperties DEF Rescan
  <2> QED
    BY <1>9, <2>1 DEF Rescan, Skip, folder
<1>10. CASE HasMedia
  <2>1. Now \in Folders /\ Tail(todo) \in Seq(Folders)
    BY <1>10, TodoProperties DEF HasMedia
  <2> QED
    BY <1>10, <2>1 DEF HasMedia, Skip, folder, ghost
<1>11. CASE Act
  <2>1. Now \in Folders
    BY <1>11, TodoProperties DEF Act
  <2>2. PICK ok \in BOOLEAN : ran' = [ran EXCEPT ![Now] = Append(@, ok)]
    BY <1>11 DEF Act
  <2>3. Append(ran[Now], ok) \in Seq(BOOLEAN)
    BY <2>1, AppendProperties
  <2>4. ran' \in [Folders -> Seq(BOOLEAN)]
    BY <2>1, <2>2, <2>3
  <2> QED
    BY <1>11, <2>4 DEF Act, folder, watcher
<1>12. CASE PipelineEnds
  <2>1. Tail(todo) \in Seq(Folders)
    BY <1>12, TodoProperties DEF PipelineEnds
  <2> QED
    BY <1>12, <2>1 DEF PipelineEnds, Skip, folder, ghost
<1>13. CASE UNCHANGED vars
  BY <1>13 DEF vars, folder, watcher, ghost
<1> QED
  BY <1>1, <1>2, <1>3, <1>4, <1>5, <1>6, <1>7, <1>8, <1>9, <1>10, <1>11, <1>12, <1>13
  DEF Next, Watch

(* Types: the watcher's position, its list of names and its marks keep     *)
(* their types, and it looks at a folder only while it has a name at hand. *)
THEOREM TypeCorrect == Spec => []TypeOK
BY InitType, TypeStep, PTL DEF Spec

(* A step keeps the account of a folder marked as processed: it is dropped *)
(* only by a start, and its actions go on only while it is at hand.        *)
LEMMA ActionsStep == TypeOK /\ EveryActionRuns /\ [Next]_vars => EveryActionRuns'
<1> SUFFICES ASSUME TypeOK, EveryActionRuns, [Next]_vars,
                    NEW f \in processed', mode' # "off"
             PROVE  (wpc' = "act" /\ Now' = f) \/ Len(ran'[f]) = Len(Actions)
  BY DEF EveryActionRuns
<1>1. CASE Start
  BY <1>1 DEF Start
<1>2. CASE Kill \/ Throws
  BY <1>2 DEF Kill, Throws, Ends
<1>3. ASSUME mode' = mode, f \in processed, ran' = ran,
             wpc = "act" /\ Now = f => wpc' = "act" /\ Now' = f
      PROVE  (wpc' = "act" /\ Now' = f) \/ Len(ran'[f]) = Len(Actions)
  BY <1>3 DEF EveryActionRuns
<1>4. ASSUME NEW g \in Folders, MakeDir(g) \/ MoveIn(g) \/ Arrive(g) \/ TakeAway(g)
      PROVE  (wpc' = "act" /\ Now' = f) \/ Len(ran'[f]) = Len(Actions)
  BY <1>3, <1>4 DEF MakeDir, MoveIn, Arrive, TakeAway, watcher, ghost, Now
<1>5. CASE ReadEvents \/ Poll \/ RoundEnds \/ Look \/ Rescan
  <2>1. mode' = mode /\ f \in processed /\ ran' = ran /\ wpc # "act"
    BY <1>5 DEF ReadEvents, Poll, RoundEnds, Look, Rescan, ghost
  <2> QED
    BY <1>3, <2>1
<1>6. CASE HasMedia
  <2>1. mode' = mode /\ ran' = ran /\ wpc = "media"
    BY <1>6 DEF HasMedia, ghost
  <2>2. CASE f \in processed
    BY <1>3, <2>1, <2>2
  <2>3. CASE f \notin processed
    BY <1>6, <2>3 DEF HasMedia, Now
  <2> QED
    BY <2>2, <2>3
<1>7. CASE Act
  <2>1. /\ mode' = mode /\ processed' = processed /\ wpc = "act" /\ wpc' = "act" /\ todo' = todo
        /\ \E ok \in BOOLEAN : ran' = [ran EXCEPT ![Now] = Append(@, ok)]
    BY <1>7 DEF Act, watcher
  <2>2. CASE Now = f
    BY <2>1, <2>2 DEF Now
  <2>3. CASE Now # f
    <3>1. ran'[f] = ran[f]
      BY <2>1, <2>3 DEF TypeOK
    <3> QED
      BY <2>1, <2>3, <3>1 DEF EveryActionRuns
  <2> QED
    BY <2>2, <2>3
<1>8. CASE PipelineEnds
  <2>1. /\ mode' = mode /\ processed' = processed /\ ran' = ran
        /\ Len(ran[Now]) = Len(Actions)
    BY <1>8 DEF PipelineEnds, ghost
  <2> QED
    BY <2>1 DEF EveryActionRuns
<1>9. CASE UNCHANGED vars
  BY <1>3, <1>9 DEF vars, watcher, ghost, Now
<1> QED
  BY <1>1, <1>2, <1>4, <1>5, <1>6, <1>7, <1>8, <1>9 DEF Next, Watch

(* Every action of the list is tried on a folder marked as processed, what *)
(* ever became of the ones before it, unless the process ended meanwhile:  *)
(* run_action_pipeline goes through the list without looking back.         *)
THEOREM ProcessedMeansTried == Spec => []EveryActionRuns
<1>1. Init => TypeOK /\ EveryActionRuns
  BY InitType DEF Init, EveryActionRuns
<1>2. TypeOK /\ EveryActionRuns /\ [Next]_vars => (TypeOK /\ EveryActionRuns)'
  BY TypeStep, ActionsStep
<1> QED
  BY <1>1, <1>2, PTL DEF Spec
=============================================================================

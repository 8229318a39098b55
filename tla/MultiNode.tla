------------------------------ MODULE MultiNode ------------------------------
(***************************************************************************)
(* `imfwizard multi-node` (src/src/multi_node.cpp): a coordinator divides  *)
(* the frames of a directory into chunks, hands them out in turn to the    *)
(* render workers that answered a ping, and asks each, one chunk after the *)
(* other, to encode its own; and the workers, which take one connection at *)
(* a time.                                                                 *)
(*                                                                         *)
(* A connection succeeds as soon as the worker's process listens: it waits *)
(* in the backlog until the worker accepts it.  Neither side has a time    *)
(* limit, so a client that connects and says nothing holds a worker, and   *)
(* through it the coordinator.  A worker acknowledges a command and does   *)
(* not act on it.  The arithmetic on frames is uint32_t; here it is modulo *)
(* Word.  Frame contents, codec and bitrate are left out.                  *)
(*                                                                         *)
(* A definition whose name ends in _Bug is a deliberate fault: it is used  *)
(* by no action, only to test that a property can fail.                    *)
(***************************************************************************)
EXTENDS Integers, Sequences, FiniteSets, FiniteSetsExt

CONSTANTS
  NumNodes,     \* addresses on the command line
  FrameCounts,  \* numbers of frames the input directory may have
  ChunkSizes,   \* values of --chunk-size
  Word,         \* 2^32 in the code
  MaxFaults,    \* bound: deaths of workers
  MaxSilent     \* bound: connections by others that say nothing

ASSUME MultiNodeAssumption ==
  /\ NumNodes \in Nat \ {0} /\ Word \in Nat \ {0}
  /\ FrameCounts \subseteq 0 .. Word - 1 /\ ChunkSizes \subseteq 0 .. Word - 1
  /\ MaxFaults \in Nat /\ MaxSilent \in Nat

Nodes == 1 .. NumNodes
Frame == 0 .. Word - 1
Chunk == [start : Frame, end : Frame, node : Nodes,
          status : {"pending", "encoding", "failed"}]

VARIABLES
  frames, size,  \* frame_count and chunk_size
  pc,            \* "count", "ping", "plan", "send", "wait", "done", "killed"
  at,            \* the node to ping next, then the chunk to send next
  avail,         \* nodes whose available flag is set
  chunks,        \* result.chunks
  encoded,       \* result.frames_encoded
  exit,          \* exit code, -1 until the command ends by itself
  up,            \* nodes whose worker listens
  backlog,       \* per node: connections accepted or waiting, oldest first
  faults, silent \* so far

coordinator == <<pc, at, avail, chunks, encoded, exit>>
workers     == <<up, backlog, faults, silent>>
vars        == <<frames, size, coordinator, workers>>

TypeOK ==
  /\ frames \in FrameCounts /\ size \in ChunkSizes
  /\ pc \in {"count", "ping", "plan", "send", "wait", "done", "killed"}
  /\ at \in Nat /\ encoded \in Frame /\ exit \in {-1, 0, 1}
  /\ avail \subseteq Nodes /\ up \subseteq Nodes
  /\ chunks \in Seq(Chunk)
  /\ backlog \in [Nodes -> Seq({"coordinator", "silent"})]
  /\ pc = "wait" => at \in DOMAIN chunks
  /\ faults \in 0 .. MaxFaults /\ silent \in 0 .. MaxSilent

-----------------------------------------------------------------------------
(* The division into chunks and their assignment.                          *)
ChunkCount_Bug(n, s) == n \div s

ChunkCount(n, s) == ((n + s - 1) % Word) \div s

First(i, s) == ((i - 1) * s) % Word
Last(i, n, s) == Min({(First(i, s) + s - 1) % Word, n - 1})

Turn_Bug(i, A) ==
  LET x == ((i - 1) % NumNodes) + 1
  IN  IF x \in A THEN x ELSE CHOOSE y \in A : \A z \in A : y <= z

(* The i-th available node from node_idx on, going round the list.         *)
Turn(i, A) ==
  LET k == ((i - 1) % Cardinality(A)) + 1
  IN  CHOOSE x \in A : Cardinality({y \in A : y <= x}) = k

Plan(n, s, A) ==
  [i \in 1 .. ChunkCount(n, s) |->
     [start |-> First(i, s), end |-> Last(i, n, s), node |-> Turn(i, A), status |-> "pending"]]

Length(c) == (c.end - c.start + 1) % Word

-----------------------------------------------------------------------------
(* The coordinator.                                                        *)
Fails == pc' = "done" /\ exit' = 1

CountFrames ==
  /\ pc = "count"
  /\ IF frames = 0 THEN Fails ELSE pc' = "ping" /\ UNCHANGED exit
  /\ UNCHANGED <<frames, size, at, avail, chunks, encoded, workers>>

(* ping_node: connect and close.  The worker finds nothing to read and     *)
(* goes on, so the ping leaves no trace in its backlog.                    *)
Ping ==
  /\ pc = "ping" /\ at <= NumNodes
  /\ avail' = IF at \in up THEN avail \cup {at} ELSE avail
  /\ at' = at + 1
  /\ UNCHANGED <<frames, size, pc, chunks, encoded, exit, workers>>

Discovered ==
  /\ pc = "ping" /\ at = NumNodes + 1
  /\ IF avail = {} THEN Fails ELSE pc' = "plan" /\ UNCHANGED exit
  /\ UNCHANGED <<frames, size, at, avail, chunks, encoded, workers>>

(* Division by a chunk size of zero ends the process.                      *)
Divide ==
  /\ pc = "plan"
  /\ IF size = 0
     THEN pc' = "killed" /\ UNCHANGED <<at, chunks>>
     ELSE pc' = "send" /\ at' = 1 /\ chunks' = Plan(frames, size, avail)
  /\ UNCHANGED <<frames, size, avail, encoded, exit, workers>>

Mark(s) == chunks' = [chunks EXCEPT ![at].status = s]

Unreachable_Bug ==
  /\ pc = "send" /\ at \in DOMAIN chunks /\ chunks[at].node \notin up
  /\ Mark("failed")
  /\ UNCHANGED <<frames, size, pc, at, avail, encoded, exit, workers>>

Connect_Bug ==
  /\ pc = "send" /\ at \in DOMAIN chunks /\ chunks[at].node \in up
  /\ backlog' = [backlog EXCEPT ![chunks[at].node] = Append(@, "coordinator")]
  /\ pc' = "wait" /\ at' = at + 1
  /\ UNCHANGED <<frames, size, avail, chunks, encoded, exit, up, faults, silent>>

(* send_encode_command: connect fails, or the connection is set up.        *)
Unreachable ==
  /\ pc = "send" /\ at \in DOMAIN chunks /\ chunks[at].node \notin up
  /\ Mark("failed") /\ at' = at + 1
  /\ UNCHANGED <<frames, size, pc, avail, encoded, exit, workers>>

Connect ==
  /\ pc = "send" /\ at \in DOMAIN chunks /\ chunks[at].node \in up
  /\ backlog' = [backlog EXCEPT ![chunks[at].node] = Append(@, "coordinator")]
  /\ pc' = "wait"
  /\ UNCHANGED <<frames, size, at, avail, chunks, encoded, exit, up, faults, silent>>

Asked == pc = "wait" /\ "coordinator" \in {backlog[chunks[at].node][k] : k \in DOMAIN backlog[chunks[at].node]}

(* The connection breaks: recv returns nothing, or send raises SIGPIPE.    *)
Broken ==
  /\ pc = "wait" /\ ~Asked
  /\ \/ pc' = "send" /\ at' = at + 1 /\ Mark("failed")
     \/ pc' = "killed" /\ UNCHANGED <<at, chunks>>
  /\ UNCHANGED <<frames, size, avail, encoded, exit, workers>>

Finish ==
  /\ pc = "send" /\ at \notin DOMAIN chunks
  /\ pc' = "done" /\ exit' = IF encoded > 0 THEN 0 ELSE 1
  /\ UNCHANGED <<frames, size, at, avail, chunks, encoded, workers>>

-----------------------------------------------------------------------------
(* The workers.                                                            *)
Acknowledge_Bug(n) ==
  /\ n \in up /\ backlog[n] # <<>> /\ Head(backlog[n]) = "coordinator"
  /\ backlog' = [backlog EXCEPT ![n] = Tail(@)]
  /\ Mark("encoding") /\ encoded' = (encoded + size) % Word
  /\ pc' = "send" /\ at' = at + 1
  /\ UNCHANGED <<frames, size, avail, exit, up, faults, silent>>

(* run_render_worker: the oldest connection carries ENCODE; it is answered *)
(* OK, and the coordinator takes the chunk for encoded.                    *)
Acknowledge(n) ==
  /\ n \in up /\ backlog[n] # <<>> /\ Head(backlog[n]) = "coordinator"
  /\ backlog' = [backlog EXCEPT ![n] = Tail(@)]
  /\ Mark("encoding") /\ encoded' = (encoded + Length(chunks[at])) % Word
  /\ pc' = "send" /\ at' = at + 1
  /\ UNCHANGED <<frames, size, avail, exit, up, faults, silent>>

(* Somebody connects, sends nothing, and leaves at last.                   *)
SilentArrives(n) ==
  /\ n \in up /\ silent < MaxSilent /\ silent' = silent + 1
  /\ backlog' = [backlog EXCEPT ![n] = Append(@, "silent")]
  /\ UNCHANGED <<frames, size, coordinator, up, faults>>

SilentLeaves(n) ==
  /\ backlog[n] # <<>> /\ Head(backlog[n]) = "silent"
  /\ backlog' = [backlog EXCEPT ![n] = Tail(@)]
  /\ UNCHANGED <<frames, size, coordinator, up, faults, silent>>

WorkerDies(n) ==
  /\ n \in up /\ faults < MaxFaults /\ faults' = faults + 1
  /\ up' = up \ {n} /\ backlog' = [backlog EXCEPT ![n] = <<>>]
  /\ UNCHANGED <<frames, size, coordinator, silent>>

WorkerStarts(n) ==
  /\ n \notin up /\ up' = up \cup {n}
  /\ UNCHANGED <<frames, size, coordinator, backlog, faults, silent>>

-----------------------------------------------------------------------------
Init ==
  /\ frames \in FrameCounts /\ size \in ChunkSizes
  /\ pc = "count" /\ at = 1 /\ avail = {} /\ chunks = <<>> /\ encoded = 0 /\ exit = -1
  /\ up \in SUBSET Nodes /\ backlog = [n \in Nodes |-> <<>>]
  /\ faults = 0 /\ silent = 0

Coordinate ==
  CountFrames \/ Ping \/ Discovered \/ Divide \/ Unreachable \/ Connect \/ Broken \/ Finish

Next ==
  \/ Coordinate
  \/ \E n \in Nodes :
       Acknowledge(n) \/ SilentArrives(n) \/ SilentLeaves(n) \/ WorkerDies(n) \/ WorkerStarts(n)

(* Processes run on; a silent client leaves at last, which nothing in the  *)
(* code makes it do.                                                       *)
Spec ==
  /\ Init /\ [][Next]_vars
  /\ WF_vars(Coordinate)
  /\ \A n \in Nodes : WF_vars(Acknowledge(n)) /\ WF_vars(SilentLeaves(n))

-----------------------------------------------------------------------------
Covers(i) == chunks[i].start .. chunks[i].end

(* Every frame is in exactly one chunk, if frame_count + chunk_size - 1    *)
(* fits the word.                                                          *)
ChunksPartition ==
  pc \in {"send", "wait"} /\ frames + size - 1 < Word =>
    /\ UNION {Covers(i) : i \in DOMAIN chunks} = 0 .. frames - 1
    /\ \A i, j \in DOMAIN chunks : i # j => Covers(i) \cap Covers(j) = {}

(* Only nodes that answered the ping are given work, and none two chunks   *)
(* more than another, wherever the silent ones stand in the list.          *)
WorkIsBalanced ==
  LET Load(n) == Cardinality({i \in DOMAIN chunks : chunks[i].node = n})
  IN  /\ \A i \in DOMAIN chunks : chunks[i].node \in avail
      /\ \A m, n \in avail : Load(m) <= Load(n) + 1

(* The frames reported are those of the chunks that were acknowledged, each*)
(* counted once, and a command that ends well had one.                     *)
FramesAreAcknowledged ==
  /\ frames + size - 1 < Word =>
       encoded = Cardinality(UNION {Covers(i) : i \in {k \in DOMAIN chunks : chunks[k].status = "encoding"}})
  /\ exit = 0 <=> pc = "done" /\ \E i \in DOMAIN chunks : chunks[i].status = "encoding"

-----------------------------------------------------------------------------
(* The inductive strengthening of the invariants above, used by the        *)
(* proofs.                                                                 *)

(* From the division on the chunks are those of Plan, but for their status.*)
Planned ==
  /\ frames # 0 /\ size # 0 /\ avail # {}
  /\ [i \in DOMAIN chunks |-> [chunks[i] EXCEPT !.status = "pending"]] = Plan(frames, size, avail)

PlanInv ==
  /\ pc \in {"count", "ping", "plan"} => chunks = <<>>
  /\ pc \in {"ping", "plan"} => frames # 0
  /\ pc = "plan" => avail # {}
  /\ pc \in {"send", "wait"} \/ chunks # <<>> => Planned

(* The chunks from `at` on have not been asked for yet.                    *)
ProgressInv ==
  /\ at # 0
  /\ pc \in {"send", "wait"} => \A i \in DOMAIN chunks : i >= at => chunks[i].status = "pending"

(* The coordinator has at most one connection, to the node it waits for.   *)
ConnectionInv ==
  \A n \in Nodes : \A k \in DOMAIN backlog[n] :
    backlog[n][k] = "coordinator" =>
      /\ pc = "wait" /\ chunks[at].node = n
      /\ \A l \in DOMAIN backlog[n] : backlog[n][l] = "coordinator" => l = k

(* frames_encoded tells whether any chunk was acknowledged.                *)
CountInv ==
  /\ encoded # 0 <=> \E i \in DOMAIN chunks : chunks[i].status = "encoding"
  /\ pc # "done" => exit = -1

IInv ==
  /\ TypeOK /\ PlanInv /\ ProgressInv /\ ConnectionInv /\ CountInv /\ FramesAreAcknowledged

-----------------------------------------------------------------------------
(* The coordinator comes to an end: no worker is waited for but one that   *)
(* will accept the connection, provided the silent clients leave.          *)
CoordinatorEnds == <>(pc \in {"done", "killed"})
=============================================================================

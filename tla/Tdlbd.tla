------------------------------- MODULE Tdlbd --------------------------------
(***************************************************************************)
(* The I/O path of the sample disk, code/tdlbd/tdlbd.c.                    *)
(*                                                                         *)
(* In the mode QUEUE the block layer gathers bios into requests, contiguous*)
(* bios of one direction into one, and runs vmem_disk_request on them with *)
(* dev->lock held, the lock of the queue.  In the mode NOQUEUE each task   *)
(* runs vmem_disk_make_request itself, and nothing is locked.              *)
(***************************************************************************)
EXTENDS BlockDisk

CONSTANTS
  Capacity,    \* sectors of the disk
  Modes,       \* the values of the parameter request_mode
  Commanders   \* the tasks that submit requests that are no reads or writes

ASSUME TdlbdAssumption ==
  /\ Capacity \in Nat \ {0}
  /\ Modes \subseteq {"QUEUE", "NOQUEUE"}
  /\ Commanders \subseteq Task

VARIABLES
  mode,        \* request_mode
  queue,       \* the queue: requests, each the tasks of its bios in their order
  running,     \* whether vmem_disk_request runs, dev->lock held
  req,         \* the request it has started, the bios still to be moved
  merged,      \* all bios of that request
  stray,       \* what was touched outside: "page", the segment, "store", the disk
  even         \* whether no bio so far had segments of different lengths

queueVars == <<mode, queue, running, req, merged>>
vars == <<blockVars, queueVars, stray, even>>

Init ==
  /\ mode \in Modes
  /\ capacity = Capacity
  /\ BlockInit(Capacity)
  /\ queue = {} /\ running = FALSE
  /\ req = <<>> /\ merged = <<>>
  /\ stray = {} /\ even = TRUE

-----------------------------------------------------------------------------
(***************************************************************************)
(* Faults.  No part of the driver: ways in which a step below could be     *)
(* wrong, each of which breaks a property.                                 *)
(***************************************************************************)

\* The sector stays where it is.
NextSegmentStays(t) ==
  cur' = [cur EXCEPT ![t] = [@ EXCEPT !.seg = @ + 1, !.word = 0]]

\* The test for the end of the disk looks at the first sector only.
BeyondEndFirst(t) == cur[t].sector >= capacity

\* Both modes register vmem_disk_make_request.
MakeRequestAlways(t) ==
  /\ pc[t] = "submitted"
  /\ pc' = [pc EXCEPT ![t] = "moving"]
  /\ UNCHANGED <<disk, bio, page, cur, status, ghosts, queueVars, stray, even>>

\* A command is skipped without being started, so it is peeked at again.
SkipCommandAgain ==
  /\ running /\ req = <<>> /\ merged = <<>>
  /\ \E r \in queue :
       /\ pc[r[1]] = "command"
       /\ status' = [status EXCEPT ![r[1]] = "error"]
  /\ UNCHANGED <<disk, pc, bio, page, cur, ghosts, queueVars, stray, even>>

-----------------------------------------------------------------------------
(***************************************************************************)
(* Moving one bio.                                                         *)
(***************************************************************************)
\* bio_cur_bytes(bio) >> 9 in the loop over the segments: what it reads is the
\* iterator of the bio, at its first segment, and not that of the loop.
CurSectors(t) == bio[t].segs[1]

\* vmem_disk_xfer_bio has segments left.
InLoop(t) == cur[t].seg <= Len(bio[t].segs)

NextSegment(t) ==
  cur' = [cur EXCEPT ![t] =
    [sector |-> cur[t].sector + CurSectors(t), seg |-> cur[t].seg + 1, word |-> 0]]

BeyondEnd(t) == cur[t].sector + CurSectors(t) > capacity

\* vmem_disk_transfer gives up on a segment, and says so to nobody.
GiveUp(t) ==
  /\ InLoop(t) /\ BeyondEnd(t)
  /\ NextSegment(t)
  /\ UNCHANGED <<data, page, stray>>

\* Its memcpy moves as many words as it is told, also such as are in no segment.
MoveWord(t) ==
  LET c == cur[t]  s == c.sector + c.word \div Words IN
  /\ InLoop(t) /\ ~BeyondEnd(t)
  /\ CASE s \notin DOMAIN data ->
            stray' = stray \cup {"store"} /\ UNCHANGED <<data, page>>
       [] s \in DOMAIN data /\ c.word < bio[t].segs[c.seg] * Words ->
            CopyWord(t, c.seg, c.word, s) /\ UNCHANGED stray
       [] OTHER ->
            /\ stray' = stray \cup {"page"}
            /\ data' = IF bio[t].write THEN [data EXCEPT ![s][c.word % Words] = Junk] ELSE data
            /\ UNCHANGED page
  /\ IF c.word + 1 < CurSectors(t) * Words
     THEN cur' = [cur EXCEPT ![t].word = @ + 1]
     ELSE NextSegment(t)

Xfer(t) == GiveUp(t) \/ MoveWord(t)

-----------------------------------------------------------------------------
(***************************************************************************)
(* The direct make request version.                                        *)
(***************************************************************************)
MakeRequest(t) ==
  /\ mode = "NOQUEUE" /\ pc[t] = "submitted"
  /\ pc' = [pc EXCEPT ![t] = "moving"]
  /\ UNCHANGED <<disk, bio, page, cur, status, ghosts, queueVars, stray, even>>

XferDirect(t) ==
  /\ pc[t] = "moving"
  /\ Xfer(t)
  /\ UNCHANGED <<capacity, pc, bio, status, ghosts, queueVars, even>>

EndDirect(t) ==
  /\ pc[t] = "moving" /\ ~InLoop(t)
  /\ EndBios({t})
  /\ UNCHANGED <<disk, bio, page, cur, queueVars, stray, even>>

-----------------------------------------------------------------------------
(***************************************************************************)
(* The block layer's queue, changed with its lock held only.               *)
(***************************************************************************)
EndOf(t) == bio[t].sector + Size(bio[t].segs)

\* The bio of t becomes a request, or is merged behind or before one.
Enqueue(t) ==
  /\ mode = "QUEUE" /\ pc[t] = "submitted" /\ ~running
  /\ \/ queue' = queue \cup {<<t>>}
     \/ \E r \in queue :
          /\ pc[r[1]] = "queued" /\ bio[r[1]].write = bio[t].write
          /\ \/ /\ EndOf(r[Len(r)]) = bio[t].sector
                /\ queue' = (queue \ {r}) \cup {Append(r, t)}
             \/ /\ EndOf(t) = bio[r[1]].sector
                /\ queue' = (queue \ {r}) \cup {<<t>> \o r}
  /\ pc' = [pc EXCEPT ![t] = "queued"]
  /\ UNCHANGED <<disk, bio, page, cur, status, ghosts, mode, running, req, merged, stray, even>>

\* A request of another kind than reads and writes.
Command(t) ==
  /\ mode = "QUEUE" /\ t \in Commanders /\ pc[t] = "idle" /\ ~running
  /\ queue' = queue \cup {<<t>>}
  /\ pc' = [pc EXCEPT ![t] = "command"]
  /\ UNCHANGED <<disk, bio, page, cur, status, ghosts, mode, running, req, merged, stray, even>>

RunQueue ==
  /\ ~running /\ queue # {}
  /\ running' = TRUE
  /\ UNCHANGED <<blockVars, mode, queue, req, merged, stray, even>>

-----------------------------------------------------------------------------
(***************************************************************************)
(* vmem_disk_request.                                                      *)
(***************************************************************************)
\* blk_peek_request gives whichever request the elevator puts first.
SkipCommand ==
  /\ running /\ req = <<>> /\ merged = <<>>
  /\ \E r \in queue :
       /\ pc[r[1]] = "command"
       /\ queue' = queue \ {r}
       /\ pc' = [pc EXCEPT ![r[1]] = "ended"]
       /\ status' = [status EXCEPT ![r[1]] = "error"]
  /\ UNCHANGED <<disk, bio, page, cur, ghosts, mode, running, req, merged, stray, even>>

StartRequest ==
  /\ running /\ req = <<>> /\ merged = <<>>
  /\ \E r \in queue :
       /\ pc[r[1]] = "queued"
       /\ queue' = queue \ {r}
       /\ req' = r /\ merged' = r
  /\ UNCHANGED <<blockVars, mode, running, stray, even>>

XferQueued ==
  /\ running /\ req # <<>>
  /\ Xfer(req[1])
  /\ UNCHANGED <<capacity, pc, bio, status, ghosts, queueVars, even>>

NextBio ==
  /\ running /\ req # <<>> /\ ~InLoop(req[1])
  /\ req' = Tail(req)
  /\ UNCHANGED <<blockVars, mode, queue, running, merged, stray, even>>

EndRequest ==
  /\ running /\ req = <<>> /\ merged # <<>>
  /\ merged' = <<>>
  /\ EndBios({merged[i] : i \in DOMAIN merged})
  /\ UNCHANGED <<disk, bio, page, cur, mode, queue, running, req, stray, even>>

RequestDone ==
  /\ running /\ req = <<>> /\ merged = <<>> /\ queue = {}
  /\ running' = FALSE
  /\ UNCHANGED <<blockVars, mode, queue, req, merged, stray, even>>

-----------------------------------------------------------------------------
Request == SkipCommand \/ StartRequest \/ XferQueued \/ NextBio \/ EndRequest \/ RequestDone
Direct(t) == MakeRequest(t) \/ XferDirect(t) \/ EndDirect(t)

Arrive(t) ==
  /\ Submit(t) \/ Reap(t)
  /\ even' = (even /\ Range(bio'[t].segs) = {bio'[t].segs[1]})
  /\ UNCHANGED <<queueVars, stray>>

Next ==
  \/ RunQueue \/ Request
  \/ \E t \in Task : Arrive(t) \/ Enqueue(t) \/ Command(t) \/ Direct(t)

Spec == Init /\ [][Next]_vars

\* Tasks in the block layer keep running, a queue that is not empty gets run;
\* whoever wants the lock of the queue while others take it, too, gets it at last.
FairSpec ==
  /\ Spec
  /\ WF_vars(RunQueue) /\ WF_vars(Request)
  /\ \A t \in Task : SF_vars(Enqueue(t)) /\ WF_vars(Direct(t))

-----------------------------------------------------------------------------
TypeOK ==
  /\ BlockTypeOK
  /\ \A t \in Task : pc[t] \in {"idle", "submitted", "moving", "queued", "command", "ended"}
  /\ \A r \in queue : r # <<>> /\ Range(r) \subseteq Task
  /\ mode \in Modes /\ running \in BOOLEAN /\ even \in BOOLEAN
  /\ stray \subseteq {"page", "store"}
  /\ Range(req) \subseteq Range(merged) /\ Range(merged) \subseteq Task

\* As long as the segments of a bio all have one length, data goes where it was
\* meant to go (lines 79-96).
EvenInPlace == even => InPlace

\* dev->lock, the lock of the queue, keeps the reads of the mode QUEUE whole
\* (lines 106-122, 188).
QueueReadsAreWhole == mode = "QUEUE" => ReadsAreWhole

\* vmem_disk_transfer never leaves the data store, whatever lengths it is called
\* with (line 65), and as long as the segments are even no page either (line 89).
StaysInBounds == stray \subseteq (IF even THEN {} ELSE {"page"})

\* Every bio and every command ends.
RequestsEnd ==
  \A t \in Task : pc[t] \in {"submitted", "command"} ~> pc[t] = "ended"
=============================================================================

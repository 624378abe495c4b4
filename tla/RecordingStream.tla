--------------------------- MODULE RecordingStream --------------------------
(***************************************************************************)
(* The recording stream, class Stream of src/local/vulkan-recording.cpp:   *)
(* chunks of packets that a producer fills and publishes, and the worker   *)
(* that replays them.  A packet is what a module that extends this one     *)
(* says it is; here it has a number, the place the producer gave it.       *)
(* Bytes are counted in packets: a chunk is full with Limit of them.       *)
(*                                                                         *)
(* sequence and published are one variable (they differ inside Publish     *)
(* and at the destruction of the stream only, which is not modelled).  The *)
(* producer waits for completed with atomic::wait, and every change of it  *)
(* is notified: such a wait is a guard here, HasRoom or Drained.           *)
(***************************************************************************)
EXTENDS Integers, Sequences

CONSTANTS ChunkCount,
          Limit       \* packets that fill a chunk

ASSUME RecordingStreamAssumption ==
  ChunkCount \in Nat \ {0} /\ Limit \in Nat \ {0}

VARIABLES
  chunks,     \* packets of each chunk that were not replayed
  published,  \* published, and the producer's sequence
  completed,  \* completed, and the worker's current
  dozing,     \* sleeping
  recorder,   \* where Run is
  producer    \* where the producer is

streamVars == <<chunks, published, completed, dozing, recorder, producer>>

Ring == INSTANCE Doorbell WITH
  raised <- published, reached <- completed, sleeping <- dozing, at <- recorder

StreamInit ==
  /\ chunks = [i \in 0..ChunkCount - 1 |-> <<>>]
  /\ published = 0 /\ completed = 0 /\ dozing = FALSE
  /\ recorder = "polling" /\ producer = "idle"

Open == published % ChunkCount
Replayed == completed % ChunkCount

(***************************************************************************)
(* The producer.  `next' is where it goes on.                              *)
(***************************************************************************)

\* Mutant: a chunk that is still being replayed is taken for free.
RoomAlways == TRUE

HasRoom == published - completed < ChunkCount

\* Drain's condition, once the chunk is published.
Drained == completed = published

\* Enqueue of a packet that fits; a full chunk is published, and so is the
\* chunk of a packet that others wait for (Flush).
Enqueue(packet, flush, next) ==
  /\ HasRoom
  /\ chunks' = [chunks EXCEPT ![Open] = Append(@, packet)]
  /\ IF flush \/ Len(chunks[Open]) + 1 >= Limit
       THEN published' = published + 1 /\ producer' = "ringing"
       ELSE published' = published /\ producer' = next
  /\ UNCHANGED <<completed, dozing, recorder>>

\* The chunk is published, if it has packets.
Publish(next) ==
  /\ HasRoom
  /\ IF chunks[Open] = <<>> THEN published' = published /\ producer' = next
                            ELSE published' = published + 1 /\ producer' = "ringing"
  /\ UNCHANGED <<chunks, completed, dozing, recorder>>

\* Mutant: the worker is not rung.
GoesOnly(next) ==
  /\ producer' = next /\ UNCHANGED <<chunks, published, completed, dozing, recorder>>

\* The end of Publish.
RingsAndGoes(next) ==
  /\ Ring!Rings /\ producer' = next
  /\ UNCHANGED <<chunks, published, completed>>

(***************************************************************************)
(* Run.                                                                    *)
(***************************************************************************)

RecorderRests ==
  Ring!Rests /\ UNCHANGED <<chunks, published, completed, producer>>

RecorderStarts ==
  /\ recorder = "polling" /\ published # completed
  /\ recorder' = "running"
  /\ UNCHANGED <<chunks, published, completed, dozing, producer>>

\* The packet that is replayed next, and its replay.
Packet == Head(chunks[Replayed])

Replay ==
  /\ chunks' = [chunks EXCEPT ![Replayed] = Tail(@)]
  /\ recorder' = "running"
  /\ UNCHANGED <<published, completed, dozing, producer>>

Completes ==
  /\ recorder = "running" /\ chunks[Replayed] = <<>>
  /\ completed' = completed + 1 /\ recorder' = "polling"
  /\ UNCHANGED <<chunks, published, dozing, producer>>
=============================================================================

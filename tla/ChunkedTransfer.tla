-------------------------- MODULE ChunkedTransfer --------------------------
(***************************************************************************)
(* Chunked transfers of core/chunking.py, and stream_send_chunks() and     *)
(* stream_receive_chunks() of aio/stream.py that carry each chunk in a     *)
(* package of its own.  A file is sent while a writer may change it: from  *)
(* memory, read at once, or as a stream that reads it twice, first for the *)
(* hash that every chunk carries and then for the chunks.  The packages    *)
(* arrive in any order, or never, or again, or damaged.                    *)
(*                                                                         *)
(* A file is a sequence of blocks, each as long as a chunk.  The hash of a *)
(* content is that content, the hash of a chunk its body.                  *)
(***************************************************************************)
EXTENDS Integers, Sequences, FiniteSets, SequencesExt

CONSTANTS
    Blocks,     \* the values of a block
    MaxBlocks,  \* bound of the model: the blocks of a file
    MaxChanges, \* bound of the model: how often the file changes
    Transfers   \* transfer ids

ASSUME ChunkAssumption == {MaxBlocks, MaxChanges} \subseteq Nat

VARIABLES
    content,    \* the file
    changes,    \* how often it has changed
    sending,    \* per transfer: the progress of the sender
    chunks,     \* the chunks that are sealed in packages
    opened,     \* the chunks whose package the receiver's guard has seen
    receiving,  \* whether a call of stream_receive_chunks() is open
    rawChunks,  \* raw_chunks of that call
    results     \* history: the content each transfer delivered, every time

chunkVars == <<content, changes, sending, chunks, opened, receiving, rawChunks, results>>

Files == UNION {[1..n -> Blocks] : n \in 0..MaxBlocks}

\* "held" is history: the contents of the file while it is sent, oldest first.
Progress == [step : {"idle", "hash", "emit", "done"},
             size : Nat, hash : Seq(Blocks), at : Nat, held : Seq(Seq(Blocks))]

Chunks == [transfer : Transfers, index : Nat, total : Nat \ {0},
           file_hash : Seq(Blocks), body : Seq(Blocks)]

ChunkTypeOK ==
    /\ content \in Seq(Blocks)
    /\ changes \in 0..MaxChanges
    /\ sending \in [Transfers -> Progress]
    /\ chunks \subseteq Chunks
    /\ \A c \in chunks : c.index \in 1..c.total
    /\ opened \subseteq chunks
    /\ receiving \in BOOLEAN
    /\ rawChunks \subseteq opened
    /\ results \in [Transfers -> Seq(Seq(Blocks))]

ChunkInit ==
    /\ content \in Files
    /\ changes = 0
    /\ sending = [t \in Transfers |->
                     [step |-> "idle", size |-> 0, hash |-> <<>>, at |-> 1, held |-> <<>>]]
    /\ chunks = {}
    /\ opened = {}
    /\ receiving = FALSE
    /\ rawChunks = {}
    /\ results = [t \in Transfers |-> <<>>]

----------------------------------------------------------------------------
(* The sender.  A chunk is counted from 1 here and from 0 in the code.     *)

\* What read(chunk_size) returns at the i-th block: nothing at the end.
Read(f, i) == IF i <= Len(f) THEN <<f[i]>> ELSE <<>>

\* An empty file is one chunk with an empty body.
Total(size) == IF size = 0 THEN 1 ELSE size

Chunk(t, i, total, hash, body) ==
    [transfer |-> t, index |-> i, total |-> total, file_hash |-> hash, body |-> body]

\* create_chunked_transfer() of what read_bytes() returned.
SendWhole(t) ==
    /\ sending[t].step = "idle"
    /\ chunks' = chunks \cup
           {Chunk(t, i, Total(Len(content)), content, Read(content, i)) :
               i \in 1..Total(Len(content))}
    /\ sending' = [sending EXCEPT ![t].step = "done", ![t].held = <<content>>]
    /\ UNCHANGED <<content, changes, opened, receiving, rawChunks, results>>

\* create_chunked_stream_transfer() takes the size of the file from stat().
StatFile(t) ==
    /\ sending[t].step = "idle"
    /\ sending' = [sending EXCEPT ![t].step = "hash", ![t].size = Len(content),
                                  ![t].held = <<content>>]
    /\ UNCHANGED <<content, changes, chunks, opened, receiving, rawChunks, results>>

\* Pass 1 reads to the end of the file.
HashBlock(t) ==
    /\ sending[t].step = "hash"
    /\ LET at == sending[t].at
       IN  IF at <= Len(content)
           THEN sending' = [sending EXCEPT ![t].hash = Append(@, content[at]), ![t].at = at + 1]
           ELSE sending' = [sending EXCEPT ![t].step = "emit", ![t].at = 1]
    /\ UNCHANGED <<content, changes, chunks, opened, receiving, rawChunks, results>>

\* Pass 2 yields a chunk for every block it finds, as many as stat() promised.
EmitChunk(t) ==
    /\ sending[t].step = "emit"
    /\ LET s == sending[t]
           body == IF s.size = 0 THEN <<>> ELSE Read(content, s.at)
       IN  IF s.at <= Total(s.size) /\ (s.size = 0 \/ body # <<>>)
           THEN /\ chunks' = chunks \cup {Chunk(t, s.at, Total(s.size), s.hash, body)}
                /\ sending' = [sending EXCEPT ![t].at = @ + 1]
           ELSE /\ sending' = [sending EXCEPT ![t].step = "done"]
                /\ UNCHANGED chunks
    /\ UNCHANGED <<content, changes, opened, receiving, rawChunks, results>>

\* Another program writes the file in place.
ChangeFile(f) ==
    /\ changes < MaxChanges
    /\ f # content
    /\ content' = f
    /\ changes' = changes + 1
    /\ sending' = [t \in Transfers |->
                      IF sending[t].step \in {"hash", "emit"}
                      THEN [sending[t] EXCEPT !.held = Append(@, f)]
                      ELSE sending[t]]
    /\ UNCHANGED <<chunks, opened, receiving, rawChunks, results>>

----------------------------------------------------------------------------
(* reassemble_chunked_transfer() of a sequence of chunks.                  *)

SameTransfer(given) ==
    \A i \in DOMAIN given :
        /\ given[i].transfer = given[1].transfer
        /\ given[i].total = given[1].total
        /\ given[i].file_hash = given[1].file_hash

\* sorted(): their indices are known to differ.
InOrder(given) ==
    CHOOSE s \in [DOMAIN given -> Range(given)] :
        /\ Range(s) = Range(given)
        /\ \A i, j \in DOMAIN s : i < j => s[i].index < s[j].index

Assembled(given) == FlattenSeq([i \in DOMAIN given |-> InOrder(given)[i].body])

\* Bug: the hash of the whole file is not compared.
BadReassembles(given) ==
    /\ given # <<>>
    /\ SameTransfer(given)
    /\ \A i, j \in DOMAIN given : given[i].index = given[j].index => i = j
    /\ Len(given) = given[1].total

Reassembles(given) ==
    /\ given # <<>>
    /\ SameTransfer(given)
    /\ \A i, j \in DOMAIN given : given[i].index = given[j].index => i = j
    /\ Len(given) = given[1].total
    /\ Assembled(given) = given[1].file_hash

----------------------------------------------------------------------------
(* stream_receive_chunks().                                                *)

OpenCall ==
    /\ ~receiving
    /\ receiving' = TRUE
    /\ rawChunks' = {}
    /\ UNCHANGED <<content, changes, sending, chunks, opened, results>>

\* A package the guard has seen raises, and ends the call.
OpenChunk(c) ==
    /\ receiving
    /\ IF c \in opened
       THEN /\ receiving' = FALSE
            /\ rawChunks' = {}
            /\ UNCHANGED opened
       ELSE /\ opened' = opened \cup {c}
            /\ rawChunks' = rawChunks \cup {c}
            /\ UNCHANGED receiving
    /\ UNCHANGED <<content, changes, sending, chunks, results>>

(* A damaged package raises, too: before the guard marks it, or after that *)
(* if it came in chunks of its own and one of those is damaged.            *)
DamagedChunk(c) ==
    /\ receiving
    /\ receiving' = FALSE
    /\ rawChunks' = {}
    /\ opened' \in {opened, opened \cup {c}}
    /\ UNCHANGED <<content, changes, sending, chunks, results>>

\* The packages have all been opened.
EndCall ==
    /\ receiving
    /\ receiving' = FALSE
    /\ rawChunks' = {}
    /\ LET given == SetToSeq(rawChunks)
       IN  IF Reassembles(given)
           THEN results' = [results EXCEPT ![given[1].transfer] = Append(@, Assembled(given))]
           ELSE UNCHANGED results
    /\ UNCHANGED <<content, changes, sending, chunks, opened>>

ChunkNext ==
    \/ \E t \in Transfers : SendWhole(t) \/ StatFile(t) \/ HashBlock(t) \/ EmitChunk(t)
    \/ \E f \in Files : ChangeFile(f)
    \/ OpenCall
    \/ \E c \in chunks : OpenChunk(c) \/ DamagedChunk(c)
    \/ EndCall

ChunkSpec == ChunkInit /\ [][ChunkNext]_chunkVars

----------------------------------------------------------------------------
(* What a transfer delivers is a content the file had at one moment while  *)
(* it was sent, never a mixture of two, if the file changed once at most   *)
(* in that time (the two passes of create_chunked_stream_transfer()); a    *)
(* file nobody changed can be reassembled; and however often its packages  *)
(* are received again, a transfer is delivered once.                       *)
TransferIsSource ==
    \A t \in Transfers :
        /\ Len(sending[t].held) <= 2 => Range(results[t]) \subseteq Range(sending[t].held)
        /\ sending[t].step = "done" /\ Len(sending[t].held) = 1 =>
               LET all == {c \in chunks : c.transfer = t}
               IN  Reassembles(SetToSeq(all))
        /\ Len(results[t]) <= 1
=============================================================================

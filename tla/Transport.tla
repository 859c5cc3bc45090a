----------------------------- MODULE Transport ------------------------------
(***************************************************************************)
(* One direction of a session in detail: the mpsc channel and the task of  *)
(* coalesce::spawn_write_task, the encoding of each frame (MessagePack,    *)
(* DEFLATE, AES-256-GCM), the TCP stream and the decoding on the other     *)
(* side.  The module Link sees all of it as one queue.                     *)
(*                                                                         *)
(* A frame is the bytes it carries, numbered in the order they were sent.  *)
(* A ciphertext records what decides whether it decodes: the key, the      *)
(* nonce and how many earlier frames its DEFLATE block may refer to.       *)
(***************************************************************************)
EXTENDS Integers, Sequences, SequencesExt

CONSTANTS
    ChanCap,    \* slots of the channel (256)
    WireCap,    \* frames the socket buffers hold
    Sizes,      \* lengths of a chunk (1..65536)
    MaxBytes    \* bound: bytes sent in a behaviour

ASSUME TransportAssumption ==
    /\ ChanCap \in Nat \ {0} /\ WireCap \in Nat \ {0} /\ MaxBytes \in Nat
    /\ Sizes \subseteq Nat \ {0}

VARIABLES
    sent,       \* bytes the channel has accepted
    senders,    \* some Sender of the channel is alive
    chan,       \* frames in the channel
    task,       \* write task: "recv", "send" or "done"
    hand,       \* ciphertext being written while task = "send"
    failed,     \* the task ended by a write error or was aborted
    counter,    \* cipher.nonce_counter
    window,     \* frames in the window of the reused Compress
    wire,       \* complete ciphertexts in the stream
    peerKey     \* key of the reader's cipher; ours is "k"

writeVars == <<sent, senders, chan, task, hand, failed, counter, window>>
transportVars == <<writeVars, wire, peerKey>>

NoHand == <<>>

TransportInit ==
    /\ sent = 0 /\ senders = TRUE /\ chan = <<>> /\ task = "recv" /\ hand = NoHand
    /\ failed = FALSE /\ counter = 0 /\ window = 0
    /\ wire = <<>> /\ peerKey \in {"k", "other"}

-----------------------------------------------------------------------------
(* Seeded fault: the counter is read but not advanced. *)
NextCounterStuck == counter

(* nonce_counter.fetch_add(1): a u64, so the bound is never met. *)
NextCounter == counter + 1

(* Seeded fault: the Compress object is reused without reset(). *)
ResetCompressNot == window

(* compress.reset() before each frame. *)
ResetCompress == 0

compress_into_bytes_mut(f) == [frame |-> f, window |-> ResetCompress]

encrypt_in_place_bytes_mut(block) == [block |-> block, nonce |-> counter, key |-> "k"]

(* The bytes the task will write for frame f. *)
encode_encrypted(f) == encrypt_in_place_bytes_mut(compress_into_bytes_mut(f))

(* Seeded fault: the tag is not checked. *)
DecryptsAny(ct) == TRUE

(* decrypt_in_place_bytes_mut returns Ok. *)
Decrypts(ct) == ct.key = peerKey

(* decode_encrypted_bytes_mut: the tag is checked first, then the block is *)
(* inflated by a Decompress that has just been reset.                      *)
Decodes(ct) == Decrypts(ct) /\ ct.block.window = 0

(* tx.send(frame).await returning Ok. *)
Send(n) ==
    /\ senders /\ task # "done"
    /\ Len(chan) < ChanCap /\ sent + n <= MaxBytes
    /\ chan' = Append(chan, [i \in 1..n |-> sent + i])
    /\ sent' = sent + n
    /\ UNCHANGED <<senders, task, hand, failed, counter, window, wire, peerKey>>

(* The last clone of the Sender is dropped. *)
DropSenders ==
    /\ senders
    /\ senders' = FALSE
    /\ UNCHANGED <<sent, chan, task, hand, failed, counter, window, wire, peerKey>>

(* rx.recv() yields a frame, which is encoded without another await. *)
Encode ==
    /\ task = "recv" /\ chan # <<>>
    /\ hand' = encode_encrypted(Head(chan))
    /\ counter' = NextCounter
    /\ window' = ResetCompress + 1
    /\ chan' = Tail(chan)
    /\ task' = "send"
    /\ UNCHANGED <<sent, senders, failed, wire, peerKey>>

(* writer.send(bytes).await: the whole frame is in the stream, flushed. *)
WriteFrame ==
    /\ task = "send"
    /\ Len(wire) < WireCap
    /\ wire' = Append(wire, hand)
    /\ hand' = NoHand
    /\ task' = "recv"
    /\ UNCHANGED <<sent, senders, chan, failed, counter, window, peerKey>>

(* Seeded fault: the task ends as soon as the senders are gone. *)
ChannelDrainedEarly == ~senders

(* rx.recv() yields None: no sender is left and the channel is empty. *)
ChannelDrained == ~senders /\ chan = <<>>

TaskEnds ==
    /\ task = "recv" /\ ChannelDrained
    /\ task' = "done"
    /\ UNCHANGED <<sent, senders, chan, hand, failed, counter, window, wire, peerKey>>

(* writer.send fails (peer reset, retransmission given up, frame above     *)
(* MAX_FRAME_LEN), or the session aborts the task at an await.  The        *)
(* channel and the frame in hand are lost, and with a reset also what the  *)
(* reader has not got yet.                                                 *)
TaskFails ==
    /\ task # "done"
    /\ task' = "done"
    /\ failed' = TRUE
    /\ chan' = <<>> /\ hand' = NoHand
    /\ \E n \in 0..Len(wire) : wire' = SubSeq(wire, 1, n)
    /\ UNCHANGED <<sent, senders, counter, window, peerKey>>

TaskStep == Encode \/ WriteFrame \/ TaskEnds

-----------------------------------------------------------------------------
(* reader.next() yields a frame (the codec never yields part of one) and   *)
(* it decodes.                                                             *)
NextDecodes ==
    /\ wire # <<>> /\ Decodes(Head(wire))
    /\ wire' = Tail(wire)
    /\ UNCHANGED <<writeVars, peerKey>>

(* It yields a frame that does not decode, or the end of the stream. *)
NextFails ==
    \/ wire # <<>> /\ ~Decodes(Head(wire))
    \/ wire = <<>> /\ task = "done"

(* What is on its way to the reader, oldest first: the frames in the       *)
(* stream, the one being written and those in the channel.                 *)
Travelling ==
    FlattenSeq([i \in DOMAIN wire |-> wire[i].block.frame])
        \o (IF task = "send" THEN hand.block.frame ELSE <<>>) \o FlattenSeq(chan)

(* No two ciphertexts that exist at the same time share a nonce, and each  *)
(* decodes on its own, whatever the compressor worked on before: the       *)
(* counter and the reused Compress of encode_encrypted.                    *)
SealedApart ==
    LET sealed == wire \o (IF task = "send" THEN <<hand>> ELSE <<>>)
    IN  \A i \in DOMAIN sealed :
            /\ sealed[i].block.window = 0
            /\ \A j \in DOMAIN sealed : i # j => sealed[i].nonce # sealed[j].nonce
=============================================================================

------------------------------ MODULE AudioRing ------------------------------
(***************************************************************************)
(* The audio path of eAVRender: the frames of the stream are gathered      *)
(* until there are enough of them, then go into a ring buffer that SDL's   *)
(* callback empties on a thread of its own; the film of the logo, played   *)
(* on the decoder thread, writes its frames into the same ring.  A write   *)
(* that does not fit moves everything into a larger ring.  Reads and       *)
(* writes hold _audio_cs from end to end and so are one step each.         *)
(*                                                                         *)
(* front and rear only ever grow and wrap as unsigned int does, here at    *)
(* Width.  A byte is the number it has among the bytes decoded so far of   *)
(* the stream, or, negated, of the film.                                   *)
(***************************************************************************)
EXTENDS Integers, Sequences

CONSTANTS
    Size,      \* AUDIO_BUF_SIZE, 384000
    Width,     \* the numbers an unsigned int has, 2^32
    Frame,     \* the lengths a decoded frame has, in bytes
    Want,      \* the bytes SDL asks for at a time
    Prebuffer, \* cache_samples, frames that are gathered before anything is written, 40
    MaxFrames, \* bound: how many frames of the stream are decoded
    MaxLogo,   \* bound: how many frames of the film are decoded
    MaxSize    \* bound: how large the ring may grow

ASSUME AudioRingAssumption ==
    /\ Size \in Nat \ {0} /\ MaxSize \in Nat /\ Width \in Nat
    /\ Size <= MaxSize /\ MaxSize < Width
    /\ Frame \subseteq Nat \ {0} /\ Want \in Nat \ {0}
    /\ Prebuffer \in Nat \ {0} /\ MaxFrames \in Nat /\ MaxLogo \in Nat

VARIABLES
    ring,    \* *_audio_ring_buf, with the bytes of _audio_buf
    frames,  \* where each of the stream's frames ends that were decoded (history)
    logo,    \* where each of the film's frames ends that were decoded (history)
    cache,   \* the first cache_size bytes of cache_buf
    written, \* the bytes given to writeAudioRingBuf so far (history)
    played   \* the bytes given to SDL so far (history)

vars == <<ring, frames, logo, cache, written, played>>

Smaller(m, n) == IF m < n THEN m ELSE n
Numbers(m, n) == [i \in 1 .. n - m |-> m + i]  \* m + 1 to n

NoByte == 0
ring_buf_create(size) ==
    [size |-> size, front |-> 0, rear |-> 0, buf |-> [p \in 0 .. size - 1 |-> NoByte]]

Init ==
    /\ ring = ring_buf_create(Size)
    /\ frames = <<>> /\ logo = <<>> /\ cache = <<>>
    /\ written = <<>> /\ played = <<>>

----------------------------------------------------------------------------
(* The ring *)

ring_buf_len(r)    == (r.rear - r.front) % Width
ring_buf_remain(r) == r.size - ring_buf_len(r)

\* As many of the bytes are put as there is space for: up to the end of the buffer, the
\* rest from its beginning.
ring_buf_put(r, bytes) ==
    LET n  == Smaller(Len(bytes), (r.size + r.front - r.rear) % Width)
        at == r.rear % r.size
        i  == Smaller(n, r.size - at)
    IN  [size |-> r.size, front |-> r.front, rear |-> (r.rear + n) % Width,
         buf |-> [p \in 0 .. r.size - 1 |->
                     IF p \in at .. at + i - 1 THEN bytes[p - at + 1]
                     ELSE IF p < n - i THEN bytes[i + p + 1]
                     ELSE r.buf[p]]]

\* Mutant: the rest is read from one cell behind the beginning.
CellBehindFirst(r, n, j) ==
    LET at == r.front % r.size
        i  == Smaller(n, r.size - at)
    IN  IF j <= i THEN at + j - 1 ELSE (j - i) % r.size

\* The cell of the j-th of n bytes to be read: the first are those up to the end of the
\* buffer, the rest are at its beginning.
Cell(r, n, j) ==
    LET at == r.front % r.size
        i  == Smaller(n, r.size - at)
    IN  IF j <= i THEN at + j - 1 ELSE j - i - 1

\* What is read of at most len bytes, and the ring without it.
Got(r, len) ==
    LET n == Smaller(len, ring_buf_len(r))
    IN  [j \in 1 .. n |-> r.buf[Cell(r, n, j)]]

ring_buf_get(r, len) ==
    [r EXCEPT !.front = (@ + Len(Got(r, len))) % Width]

\* A larger ring with what the old one has; the counters start again.
ring_buf_realloc(old, size) == ring_buf_put(ring_buf_create(size), Got(old, size))

\* Room for len more bytes, and for what remained before.
Grown(r, len) == ring_buf_realloc(r, r.size + ring_buf_remain(r) + len)

writeAudioRingBuf(bytes) ==
    LET enough == Len(bytes) <= ring_buf_remain(ring)
    IN  ring_buf_put(IF enough THEN ring ELSE Grown(ring, Len(bytes)), bytes)

----------------------------------------------------------------------------
(* The decoder and SDL *)

\* How many bytes the first k frames have, of which ends tells where each ends.
End(ends, k) == IF k = 0 THEN 0 ELSE ends[k]
Decoded      == End(frames, Len(frames))
Shown        == End(logo, Len(logo))
Negated(s)   == [i \in DOMAIN s |-> -s[i]]

\* Mutant: gathering ends a frame early.
GatheringShort == Len(frames) + 1 < Prebuffer

\* The frame being decoded is one of the first, n_cache_times < cache_samples.
Gathering == Len(frames) < Prebuffer

\* A frame of len bytes of the stream is decoded.  The first frames are gathered;
\* the next one writes what was gathered and is itself lost; every later one is
\* written.
audio_decode(len) ==
    LET bytes == Numbers(Decoded, Decoded + len)
        out   == IF cache # <<>> THEN cache ELSE bytes
    IN  /\ Len(frames) < MaxFrames
        /\ frames' = Append(frames, Decoded + len)
        /\ IF Gathering
           THEN cache' = cache \o bytes /\ UNCHANGED <<ring, written>>
           ELSE /\ ring' = writeAudioRingBuf(out)
                /\ written' = written \o out
                /\ cache' = <<>>
        /\ ring'.size <= MaxSize
        /\ UNCHANGED <<logo, played>>

\* A frame of the film, meanwhile, is written as it comes.
PlayFile(len) ==
    LET bytes == Negated(Numbers(Shown, Shown + len))
    IN  /\ Len(logo) < MaxLogo
        /\ logo' = Append(logo, Shown + len)
        /\ ring' = writeAudioRingBuf(bytes)
        /\ written' = written \o bytes
        /\ ring'.size <= MaxSize
        /\ UNCHANGED <<frames, cache, played>>

\* SDL's callback reads what there is, up to what it wants.  That it tries three
\* times more when there is nothing changes no state.
sdlAudioCallBackFunc ==
    /\ ring_buf_len(ring) > 0
    /\ played' = played \o Got(ring, Want)
    /\ ring' = ring_buf_get(ring, Want)
    /\ UNCHANGED <<frames, logo, cache, written>>

Next == \/ \E len \in Frame : audio_decode(len) \/ PlayFile(len)
        \/ sdlAudioCallBackFunc

Spec == Init /\ [][Next]_vars

----------------------------------------------------------------------------
(* Properties *)

\* What SDL was given and what the ring has, one after the other, is what was
\* written: however reads, writes, the end of the buffer and a larger ring come
\* together, no byte is lost, repeated, overtaken or made up.
NothingLost == written = played \o Got(ring, ring.size)

\* Of the whole stream one frame alone is never heard: the first that is not
\* gathered, on whose arrival the gathered ones are written in its place.  All other
\* bytes are written, or wait to be, each once and in their order.
OneFrameLost ==
    LET all      == written \o cache
        gathered == End(frames, Smaller(Prebuffer, Len(frames)))
        lost     == End(frames, Smaller(Prebuffer + 1, Len(frames)))
    IN  /\ {b \in {all[i] : i \in DOMAIN all} : b > 0} =
            (1 .. Decoded) \ (gathered + 1 .. lost)
        /\ \A i, j \in DOMAIN all : i < j /\ all[i] > 0 /\ all[j] > 0 => all[i] < all[j]
=============================================================================

------------------------------ MODULE VideoPath ------------------------------
(***************************************************************************)
(* The way of a picture in the player.  The callback of the streaming      *)
(* library posts each package to the decoding thread, which first plays    *)
(* the film of the logo from a file and then decodes the stream.  Each     *)
(* picture goes as a task to the GL thread, where eVideoRender keeps the   *)
(* last one and draws it every 33 milliseconds, whatever happens to its    *)
(* EGL context in between.                                                 *)
(*                                                                         *)
(* `dec' and `gl' are the queues of the two threads; a picture is its      *)
(* number, whether it is of the film or of the stream, and its shape: the  *)
(* size, which stands for width and height, and the pixel format.  EGL and *)
(* ffmpeg are external: an initialisation may fail, a context may be lost, *)
(* a package may give no picture.  No caller is left of rotate, and none   *)
(* asks the decoding thread to end (upon which it closes the renderer);    *)
(* both are public, and are modelled as calls that may come or not.        *)
(***************************************************************************)
EXTENDS Integers, Sequences

CONSTANTS
    FilmShapes, StreamShapes,   \* the shapes of the pictures
    MaxFilm, MaxStream,         \* bounds: pictures of the film, packages
    MaxTurns, MaxLosses         \* bounds: calls of rotate, contexts lost

Shape == [size : Nat \ {0}, fmt : {"yuv420p", "nv12"}]

ASSUME VideoAssumption ==
    /\ FilmShapes \subseteq Shape /\ StreamShapes \subseteq Shape
    /\ MaxFilm \in Nat /\ MaxStream \in Nat /\ MaxTurns \in Nat /\ MaxLosses \in Nat

Unsized == [size |-> 0, fmt |-> "yuv420p"]
None == [none |-> TRUE]
Stale == [stale |-> TRUE]
Freed == [freed |-> TRUE]

VARIABLES
    start,      \* steps of eAVRender::Init: VIDEO_OK, renderer, PlayFile posted
    dec,        \* the tasks of the decoding thread: "play" and "package"
    film,       \* PlayFile: "waits", "plays" or "over", which is b_play_done
    gl,         \* the tasks of the GL thread
    timers,     \* the delayed timerdraws of the GL thread
    ctx,        \* the EGL context: "none", "live", or "broken": without programs
    tex,        \* textureY_, U_ and V_: None, a shape, or Stale: of a context that is gone
    pic,        \* pic_w_, pic_h_ and _pix_fmt
    buf,        \* pix_buf_array_: None, its room and the picture in it, or Freed
    chain,      \* _b_timer_start
    done,       \* done_
    screen,     \* what OnFrame drew last: the picture and what it was read with
    handed, arrived, turns, losses,     \* how many there were
    failed      \* history: an initialisation failed

start_vars == <<start, film, dec, arrived>>
egl_vars == <<ctx, tex, pic, failed>>
vars == <<start_vars, gl, timers, egl_vars, buf, chain, done, screen, handed, turns, losses>>

Init ==
    /\ start = 0 /\ film = "waits" /\ dec = <<>> /\ arrived = 0
    /\ gl = <<>> /\ timers = 0
    /\ ctx = "none" /\ tex = None /\ pic = Unsized /\ failed = FALSE
    /\ buf = None /\ chain = FALSE /\ done = FALSE /\ screen = None
    /\ handed = 0 /\ turns = 0 /\ losses = 0

Post(task) == gl' = Append(gl, task)

Task(kind) == [kind |-> kind]

----------------------------------------------------------------------------
(* The decoding thread and the callback of the stream *)

\* eAVRender::Init, the first thing the decoding thread does: the state is set, the
\* renderer is created, whose Init is a task of the GL thread, and PlayFile is posted.
InitRender ==
    /\ start < 3
    /\ start' = start + 1
    /\ IF start' = 2 THEN Post(Task("init")) ELSE UNCHANGED gl
    /\ dec' = IF start' = 3 THEN Append(dec, "play") ELSE dec
    /\ UNCHANGED <<film, arrived, timers, egl_vars, buf, chain, done, screen,
                   handed, turns, losses>>

\* videoCB: dropped before the state is set.
videoCB ==
    /\ start > 0 /\ arrived < MaxStream
    /\ arrived' = arrived + 1
    /\ dec' = Append(dec, "package")
    /\ UNCHANGED <<start, film, gl, timers, egl_vars, buf, chain, done, screen,
                   handed, turns, losses>>

\* The decoding thread takes its next task; after Cleanup there is none.
Takes(task) ==
    /\ start = 3 /\ film # "plays" /\ ~done
    /\ dec # <<>> /\ Head(dec) = task
    /\ dec' = Tail(dec)

PlayFile ==
    /\ Takes("play")
    /\ film' = "plays"
    /\ UNCHANGED <<start, arrived, gl, timers, egl_vars, buf, chain, done, screen,
                   handed, turns, losses>>

\* filldata
HandOver(of, s) ==
    /\ handed' = handed + 1
    /\ Post([kind |-> "fill", n |-> handed', of |-> of, shape |-> s])

FilmPicture ==
    /\ film = "plays" /\ handed < MaxFilm
    /\ \E s \in FilmShapes : HandOver("film", s)
    /\ UNCHANGED <<start_vars, timers, egl_vars, buf, chain, done, screen, turns, losses>>

\* The file is at its end, or missing, or an error ends it.
FilmEnds ==
    /\ film = "plays"
    /\ film' = "over"
    /\ UNCHANGED <<start, dec, arrived, gl, timers, egl_vars, buf, chain, done, screen,
                   handed, turns, losses>>

\* Mutant: packages are decoded before the film has been played.
DecodeAtOnce == TRUE

Decodes == film = "over"

\* A package that is decoded gives a picture or none.
video_decode ==
    \/ \E s \in StreamShapes : HandOver("stream", s)
    \/ UNCHANGED <<gl, handed>>

DecodeVideo ==
    /\ Takes("package")
    /\ IF Decodes THEN video_decode ELSE UNCHANGED <<gl, handed>>
    /\ UNCHANGED <<start, film, arrived, timers, egl_vars, buf, chain, done, screen,
                   turns, losses>>

\* Cleanup, when the decoding thread ends.
Close ==
    /\ start = 3 /\ film # "plays" /\ ~done
    /\ done' = TRUE
    /\ UNCHANGED <<start_vars, gl, timers, egl_vars, buf, chain, screen, handed,
                   turns, losses>>

rotate ==
    /\ start > 1 /\ turns < MaxTurns
    /\ turns' = turns + 1
    /\ Post(Task("rotate"))
    /\ UNCHANGED <<start_vars, timers, egl_vars, buf, chain, done, screen, handed, losses>>

----------------------------------------------------------------------------
(* The GL thread *)

\* The textures that ResizeTexture makes: none without a context.
Textures(s) == IF ctx = "none" THEN None ELSE s

\* Mutant: a new pixel format alone makes no new textures.
DiffersInSize(s) == s.size # pic.size

Differs(s) == s # pic

CheckYUVTexture(s) ==
    IF Differs(s) \/ tex = None
      THEN pic' = s /\ tex' = Textures(s)
      ELSE UNCHANGED <<pic, tex>>

HasBuffer == buf \notin {None, Freed}

\* PutData: the buffer grows and never shrinks.
Room(n) == IF buf.room < n THEN n ELSE buf.room

\* Mutant: _b_timer_start is not set.
StartEachTime == UNCHANGED chain

SetTimerStart == chain' = TRUE

\* The task of filldata.
Fill ==
    /\ Head(gl).kind = "fill"
    /\ IF done
         THEN gl' = Tail(gl) /\ UNCHANGED <<tex, pic, buf, chain>>
         ELSE /\ buf' = IF HasBuffer
                          THEN [room |-> Room(Head(gl).shape.size), data |-> Head(gl)]
                          ELSE buf
              /\ CheckYUVTexture(Head(gl).shape)
              /\ gl' = IF chain THEN Tail(gl) ELSE Append(Tail(gl), Task("draw"))
              /\ SetTimerStart
    /\ UNCHANGED <<timers, ctx, failed, screen, losses>>

\* A display that is terminated takes the context along, not the names of its textures.
CleanContext ==
    /\ ctx' = "none"
    /\ tex' = IF tex = None THEN None ELSE Stale

\* InitSurface finds no surface: for one, when a context has the window already.
NoSurface == CleanContext /\ failed' = TRUE /\ UNCHANGED buf

\* The frame buffer and the programs; the first success makes the buffer.
CreatePrograms ==
    /\ ctx = "none"
    /\ UNCHANGED tex
    /\ \/ ctx' = "broken" /\ failed' = TRUE /\ UNCHANGED buf
       \/ /\ ctx' = "live" /\ UNCHANGED failed
          /\ buf' = IF buf = None THEN [room |-> 0, data |-> None] ELSE buf

\* The window is gone, and all stays as it is.
NoWindow == failed' = TRUE /\ UNCHANGED <<ctx, tex, buf>>

\* The task of Init
InitContext ==
    /\ Head(gl).kind = "init"
    /\ gl' = Tail(gl)
    /\ NoWindow \/ NoSurface \/ CreatePrograms
    /\ UNCHANGED <<timers, pic, chain, screen, losses>>

\* Mutant: Destroy leaves the names of the textures.
KeepTextures == tex' = IF tex = None THEN None ELSE Stale

ClearTextures == tex' = None

Destroy == ClearTextures /\ ctx' = "none"

\* The task of rotate: setrect.
Rotate ==
    /\ Head(gl).kind = "rotate"
    /\ Destroy
    /\ gl' = Append(Tail(gl), Task("init"))
    /\ UNCHANGED <<timers, pic, failed, buf, chain, screen, losses>>

\* Mutant: a context that is lost is destroyed and not made anew.
GiveUp(rest) == gl' = rest

MakeAnew(rest) == gl' = Append(rest, Task("init"))

\* eglMakeCurrent fails in OnFrame.
LoseContext(rest) ==
    /\ losses < MaxLosses
    /\ losses' = losses + 1
    /\ Destroy /\ MakeAnew(rest)
    /\ UNCHANGED <<pic, screen>>

\* The checks of the textures and OnFrame; `rest' is the queue without this draw.
OnFrame(rest) ==
    IF ctx = "none"
      THEN gl' = rest /\ CheckYUVTexture(pic) /\ UNCHANGED <<ctx, screen, losses>>
      ELSE \/ LoseContext(rest)
           \/ /\ CheckYUVTexture(pic)
              /\ gl' = rest
              /\ screen' = IF ctx = "live" /\ buf.data # None
                             THEN [n |-> buf.data.n, of |-> buf.data.of,
                                   data |-> buf.data.shape, room |-> buf.room,
                                   pic |-> pic', tex |-> tex']
                             ELSE screen
              /\ UNCHANGED <<ctx, losses>>

\* timerdraw, which sets itself anew until done_ is set.
Draw(rest, left) ==
    IF done
      THEN /\ Destroy /\ buf' = IF HasBuffer THEN Freed ELSE buf
           /\ gl' = rest /\ timers' = left
           /\ UNCHANGED <<pic, failed, chain, screen, losses>>
      ELSE /\ IF HasBuffer
                THEN OnFrame(rest)
                ELSE gl' = rest /\ UNCHANGED <<ctx, tex, pic, screen, losses>>
           /\ timers' = left + 1
           /\ UNCHANGED <<failed, buf, chain>>

FirstDraw == Head(gl).kind = "draw" /\ Draw(Tail(gl), timers)

\* The GL thread does its next task.
GLTask ==
    /\ gl # <<>>
    /\ \/ Fill \/ InitContext \/ Rotate \/ FirstDraw
    /\ UNCHANGED <<start_vars, done, handed, turns>>

TimerDraw ==
    /\ timers > 0
    /\ Draw(gl, timers - 1)
    /\ UNCHANGED <<start_vars, done, handed, turns>>

----------------------------------------------------------------------------
Next ==
    \/ InitRender \/ videoCB \/ PlayFile \/ FilmPicture \/ FilmEnds \/ DecodeVideo
    \/ Close \/ rotate
    \/ GLTask \/ TimerDraw

Spec == Init /\ [][Next]_vars

\* The GL thread does its tasks and its timers come due.
FairSpec == Spec /\ WF_vars(GLTask) /\ WF_vars(TimerDraw)

----------------------------------------------------------------------------
(* Properties *)

Picture == [kind : {"fill"}, n : Nat, of : {"film", "stream"},
            shape : FilmShapes \cup StreamShapes]

\* Every variable has a value of its type; the drawing has begun once a picture was
\* taken; and a context that is gone took its textures along unless something failed.
TypeOK ==
    /\ start \in 0 .. 3 /\ film \in {"waits", "plays", "over"}
    /\ dec \in Seq({"play", "package"})
    /\ gl \in Seq({Task(k) : k \in {"init", "rotate", "draw"}} \cup Picture)
    /\ timers \in Nat /\ handed \in Nat
    /\ arrived \in 0 .. MaxStream /\ turns \in 0 .. MaxTurns /\ losses \in 0 .. MaxLosses
    /\ ctx \in {"none", "live", "broken"}
    /\ tex \in {None, Stale} \cup FilmShapes \cup StreamShapes
    /\ pic \in {Unsized} \cup FilmShapes \cup StreamShapes
    /\ buf \in {None, Freed}
                 \cup [room : Nat, data : {None} \cup Picture]
    /\ {chain, done, failed} \subseteq BOOLEAN
    /\ ~failed /\ ctx = "none" => tex = None

\* What is on the screen was read by the size and format it has, from textures made
\* for these in the context in use, out of a buffer that holds it: also when film and
\* stream differ, and when the renderer was turned or lost its context in between.
DrawsWhatFits ==
    screen # None =>
        /\ screen.pic = screen.data
        /\ screen.room >= screen.data.size
        /\ ~failed => screen.tex = screen.data

\* From the first picture on there is one draw to come, in the queue or as a timer, and
\* never two; only the draw that finds the renderer closed has none after it.
Draws == {i \in DOMAIN gl : gl[i].kind = "draw"}

OneChain ==
    \/ chain /\ timers = 1 /\ Draws = {}
    \/ chain /\ timers = 0 /\ \E i \in DOMAIN gl : Draws = {i}
    \/ (chain => done) /\ timers = 0 /\ Draws = {}

\* The screen never goes back: not to an older picture, and not from the stream to
\* the film.
NeverBack ==
    [][screen # None => /\ screen'.n >= screen.n
                        /\ screen.of = "stream" => screen'.of = "stream"]_screen

\* The newest picture gets onto the screen, or a newer one does, also when the
\* context is turned or lost in between and no more pictures come, unless the
\* renderer is closed or an initialisation fails.
Shown(n) == screen # None /\ screen.n >= n

NewestIsShown ==
    \A n \in 1 .. MaxFilm + MaxStream : (handed = n) ~> (Shown(n) \/ done \/ failed)
=============================================================================

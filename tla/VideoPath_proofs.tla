-------------------------- MODULE VideoPath_proofs --------------------------
(***************************************************************************)
(* Theorems about VideoPath for any film, any stream and any number of     *)
(* turns and losses of the context: types, the one chain of draws, that a  *)
(* picture is drawn as what it is, and that the screen never goes back.    *)
(***************************************************************************)
EXTENDS VideoPath, TLAPS, SequenceTheorems

Shapes == FilmShapes \cup StreamShapes

Entry == {Task(k) : k \in {"init", "rotate", "draw"}} \cup Picture

Buffer == [room : Nat, data : {None} \cup Picture]

\* The marks are none of the values they stand beside.
LEMMA Marks ==
    /\ None # Stale /\ None # Freed
    /\ None \notin Shape /\ Stale \notin Shape /\ Unsized \notin Shape
    /\ None \notin Picture
    /\ None \notin Buffer /\ Freed \notin Buffer
  <1>1. DOMAIN None = {"none"} /\ DOMAIN Stale = {"stale"} /\ DOMAIN Freed = {"freed"}
    BY DEF None, Stale, Freed
  <1>2. \A s \in Shape : "size" \in DOMAIN s /\ s.size # 0
    BY DEF Shape
  <1>3. \A p \in Picture : "kind" \in DOMAIN p
    BY DEF Picture
  <1>4. \A b \in Buffer : "room" \in DOMAIN b
    BY DEF Buffer
  <1>. QED  BY <1>1, <1>2, <1>3, <1>4 DEF Unsized

LEMMA Sizes == \A s \in Shapes : s \in Shape /\ s.size \in Nat \ {0}
  BY VideoAssumption DEF Shape, Shapes

LEMMA Entries ==
    /\ \A k \in {"init", "rotate", "draw"} : Task(k) \in Entry /\ Task(k).kind = k
    /\ \A p \in Picture : p \in Entry /\ p.kind = "fill"
    /\ \A t \in Entry : t.kind = "fill" => t \in Picture
  BY DEF Entry, Task, Picture

----------------------------------------------------------------------------
(* Types *)

LEMMA TypesOf ==
    ASSUME TypeOK
    PROVE  /\ gl \in Seq(Entry) /\ tex \in {None, Stale} \cup Shapes
           /\ pic \in {Unsized} \cup Shapes /\ buf \in {None, Freed} \cup Buffer
           /\ timers \in Nat /\ handed \in Nat
           /\ chain \in BOOLEAN /\ done \in BOOLEAN /\ failed \in BOOLEAN
  BY DEF TypeOK, Entry, Shapes, Buffer

LEMMA ThreadsKeepTypes ==
    ASSUME TypeOK,
           InitRender \/ videoCB \/ PlayFile \/ FilmPicture \/ FilmEnds \/ DecodeVideo
             \/ Close \/ rotate
    PROVE  TypeOK'
  <1>. USE VideoAssumption
  <1>1. CASE InitRender
    <2>1. gl' \in Seq(Entry)
      BY <1>1, Entries, TypesOf DEF InitRender, Post
    <2>2. dec' \in Seq({"play", "package"})
      BY <1>1 DEF InitRender, TypeOK
    <2>3. start' \in 0 .. 3
      BY <1>1 DEF InitRender, TypeOK
    <2>. QED  BY <1>1, <2>1, <2>2, <2>3 DEF InitRender, TypeOK, egl_vars, Entry
  <1>2. CASE videoCB
    <2>1. dec' \in Seq({"play", "package"}) /\ arrived' \in 0 .. MaxStream
      BY <1>2 DEF videoCB, TypeOK
    <2>. QED  BY <1>2, <2>1 DEF videoCB, TypeOK, egl_vars
  <1>3. CASE PlayFile
    BY <1>3 DEF PlayFile, Takes, TypeOK, egl_vars
  <1>4. ASSUME NEW of \in {"film", "stream"}, NEW s \in Shapes, HandOver(of, s)
        PROVE  gl' \in Seq(Entry) /\ handed' \in Nat
    <2>1. handed' \in Nat
      BY <1>4, TypesOf DEF HandOver
    <2>2. [kind |-> "fill", n |-> handed', of |-> of, shape |-> s] \in Picture
      BY <2>1 DEF Picture, Shapes
    <2>. QED  BY <1>4, <2>1, <2>2, Entries, TypesOf DEF HandOver, Post
  <1>5. CASE FilmPicture
    <2>1. gl' \in Seq(Entry) /\ handed' \in Nat
      BY <1>4, <1>5 DEF FilmPicture, Shapes
    <2>. QED  BY <1>5, <2>1 DEF FilmPicture, TypeOK, start_vars, egl_vars, Entry
  <1>6. CASE FilmEnds
    BY <1>6 DEF FilmEnds, TypeOK, egl_vars
  <1>7. CASE DecodeVideo
    <2>1. gl' \in Seq(Entry) /\ handed' \in Nat
      BY <1>4, <1>7, TypesOf DEF DecodeVideo, video_decode, Shapes
    <2>2. dec' \in Seq({"play", "package"})
      BY <1>7 DEF DecodeVideo, Takes, TypeOK
    <2>. QED  BY <1>7, <2>1, <2>2 DEF DecodeVideo, TypeOK, egl_vars, Entry
  <1>8. CASE Close
    BY <1>8 DEF Close, TypeOK, start_vars, egl_vars
  <1>9. CASE rotate
    <2>1. gl' \in Seq(Entry)
      BY <1>9, Entries, TypesOf DEF rotate, Post
    <2>2. turns' \in 0 .. MaxTurns
      BY <1>9 DEF rotate, TypeOK
    <2>. QED  BY <1>9, <2>1, <2>2 DEF rotate, TypeOK, start_vars, egl_vars, Entry
  <1>. QED  BY <1>1, <1>2, <1>3, <1>5, <1>6, <1>7, <1>8, <1>9

\* A check for a shape: the textures are of this shape, or stale, or there are none.
LEMMA Checked ==
    ASSUME TypeOK, NEW s \in Shapes, CheckYUVTexture(s)
    PROVE  /\ pic' = s /\ tex' \in {None, Stale} \cup Shapes
           /\ ctx = "none" /\ tex = None => tex' = None
           /\ tex' = tex \/ tex' = Textures(s)
  BY TypesOf DEF CheckYUVTexture, Textures, Differs

LEMMA DrawKeepsTypes ==
    ASSUME TypeOK, pic \in Shapes, NEW rest \in Seq(Entry), NEW left \in Nat,
           Draw(rest, left), UNCHANGED <<start_vars, done, handed, turns>>
    PROVE  TypeOK' /\ pic' = pic
  <1>. USE VideoAssumption
  <1>1. gl' \in Seq(Entry) /\ timers' \in Nat /\ chain' = chain
    BY Entries DEF Draw, OnFrame, LoseContext, MakeAnew
  <1>2. pic' = pic
    BY Checked DEF Draw, OnFrame, LoseContext
  <1>3. tex' \in {None, Stale} \cup Shapes
    BY TypesOf, Checked DEF Draw, OnFrame, LoseContext, Destroy, ClearTextures
  <1>4. buf' \in {None, Freed} \cup Buffer
    BY TypesOf DEF Draw
  <1>5. /\ failed' = failed /\ ctx' \in {"none", "live", "broken"}
        /\ losses' \in 0 .. MaxLosses
        /\ ctx' = ctx \/ (ctx' = "none" /\ tex' = None)
    BY DEF Draw, OnFrame, LoseContext, Destroy, ClearTextures, TypeOK
  <1>6. ~failed' /\ ctx' = "none" => tex' = None
    <2>. SUFFICES ASSUME ~failed', ctx = "none", tex = None PROVE tex' = None
      BY <1>5 DEF TypeOK
    <2>. QED  BY Checked DEF Draw, OnFrame, Destroy, ClearTextures
  <1>. QED  BY <1>1, <1>2, <1>3, <1>4, <1>5, <1>6 DEF TypeOK, start_vars, Entry, Shapes, Buffer

LEMMA FillKeepsTypes ==
    ASSUME TypeOK, gl # <<>>, Fill, UNCHANGED <<start_vars, done, handed, turns>>
    PROVE  TypeOK' /\ (done \/ pic' \in Shapes)
  <1>1. Head(gl) \in Picture /\ Head(gl).shape \in Shapes /\ Tail(gl) \in Seq(Entry)
    BY TypesOf, Entries DEF Fill, Picture, Shapes
  <1>2. CASE done
    BY <1>1, <1>2 DEF Fill, TypeOK, start_vars, Entry
  <1>3. CASE ~done
    <2>1. gl' \in Seq(Entry) /\ chain' = TRUE
      BY <1>1, <1>3, Entries DEF Fill, SetTimerStart
    <2>2. buf' \in {None, Freed} \cup Buffer
      <3>1. HasBuffer => Room(Head(gl).shape.size) \in Nat
        BY <1>1, TypesOf, Sizes DEF HasBuffer, Room, Buffer
      <3>2. CASE HasBuffer
        <4>1. buf' = [room |-> Room(Head(gl).shape.size), data |-> Head(gl)]
          BY <1>3, <3>2 DEF Fill
        <4>. QED  BY <1>1, <3>1, <3>2, <4>1 DEF Buffer
      <3>3. CASE ~HasBuffer
        BY <1>3, <3>3, TypesOf DEF Fill
      <3>. QED  BY <3>2, <3>3
    <2>3. /\ pic' \in Shapes /\ tex' \in {None, Stale} \cup Shapes
          /\ ctx = "none" /\ tex = None => tex' = None
      BY <1>1, <1>3, Checked DEF Fill
    <2>. QED  BY <1>3, <2>1, <2>2, <2>3 DEF Fill, TypeOK, start_vars, Entry, Shapes, Buffer
  <1>. QED  BY <1>2, <1>3

LEMMA ContextKeepsTypes ==
    ASSUME TypeOK, gl # <<>>, InitContext \/ Rotate,
           UNCHANGED <<start_vars, done, handed, turns>>
    PROVE  TypeOK' /\ pic' = pic
  <1>1. Tail(gl) \in Seq(Entry)
    BY TypesOf
  <1>2. CASE InitContext
    <2>1. gl' \in Seq(Entry) /\ UNCHANGED <<timers, pic, chain, screen, losses>>
      BY <1>1, <1>2 DEF InitContext
    <2>2. /\ tex' \in {None, Stale} \cup Shapes /\ failed' \in BOOLEAN
          /\ ctx' \in {"none", "live", "broken"}
          /\ ~failed' /\ ctx' = "none" => tex' = None
      BY <1>2, TypesOf DEF InitContext, NoWindow, NoSurface, CleanContext, CreatePrograms, TypeOK
    <2>3. buf' \in {None, Freed} \cup Buffer
      BY <1>2, TypesOf DEF InitContext, NoWindow, NoSurface, CreatePrograms, Buffer
    <2>. QED  BY <2>1, <2>2, <2>3 DEF TypeOK, start_vars, Entry, Shapes, Buffer
  <1>3. CASE Rotate
    <2>1. gl' \in Seq(Entry)
      BY <1>1, <1>3, Entries DEF Rotate
    <2>. QED  BY <1>3, <2>1 DEF Rotate, Destroy, ClearTextures, TypeOK, start_vars, Entry
  <1>. QED  BY <1>2, <1>3

----------------------------------------------------------------------------
(* The chain of draws *)

DrawsIn(q) == {i \in DOMAIN q : q[i].kind = "draw"}

NoDraw(q) == DrawsIn(q) = {}

OneDraw(q) == \E i \in DOMAIN q : DrawsIn(q) = {i}

LEMMA Posted ==
    ASSUME NEW q \in Seq(Entry), NEW t \in Entry
    PROVE  /\ t.kind # "draw" => /\ NoDraw(q) => NoDraw(Append(q, t))
                                 /\ OneDraw(q) => OneDraw(Append(q, t))
           /\ t.kind = "draw" /\ NoDraw(q) => OneDraw(Append(q, t))
  <1>1. /\ DOMAIN q = 1 .. Len(q) /\ DOMAIN Append(q, t) = 1 .. Len(q) + 1 /\ Len(q) \in Nat
        /\ \A i \in 1 .. Len(q) : Append(q, t)[i] = q[i]
        /\ Append(q, t)[Len(q) + 1] = t
    OBVIOUS
  <1>2. ASSUME t.kind # "draw" PROVE DrawsIn(Append(q, t)) = DrawsIn(q)
    BY <1>1, <1>2 DEF DrawsIn
  <1>3. ASSUME t.kind = "draw", NoDraw(q) PROVE DrawsIn(Append(q, t)) = {Len(q) + 1}
    BY <1>1, <1>3 DEF DrawsIn, NoDraw
  <1>4. ASSUME t.kind # "draw", OneDraw(q) PROVE OneDraw(Append(q, t))
    <2>1. PICK j \in 1 .. Len(q) : DrawsIn(q) = {j}
      BY <1>1, <1>4 DEF OneDraw
    <2>. QED  BY <1>1, <1>2, <1>4, <2>1 DEF OneDraw
  <1>5. ASSUME t.kind = "draw", NoDraw(q) PROVE OneDraw(Append(q, t))
    <2>1. DrawsIn(Append(q, t)) = {Len(q) + 1}
      BY <1>3, <1>5
    <2>2. Len(q) + 1 \in DOMAIN Append(q, t)
      BY <1>1
    <2>. QED  BY <2>1, <2>2 DEF OneDraw
  <1>. QED  BY <1>2, <1>4, <1>5 DEF NoDraw

LEMMA Taken ==
    ASSUME NEW q \in Seq(Entry), q # <<>>
    PROVE  /\ Head(q).kind # "draw" => /\ NoDraw(q) => NoDraw(Tail(q))
                                       /\ OneDraw(q) => OneDraw(Tail(q))
           /\ Head(q).kind = "draw" => ~NoDraw(q) /\ (OneDraw(q) => NoDraw(Tail(q)))
  <1>1. /\ DOMAIN q = 1 .. Len(q) /\ DOMAIN Tail(q) = 1 .. Len(q) - 1 /\ Len(q) \in Nat \ {0}
        /\ \A i \in 1 .. Len(q) - 1 : Tail(q)[i] = q[i + 1]
        /\ Head(q) = q[1]
    OBVIOUS
  <1>2. \A i \in 1 .. Len(q) - 1 : i \in DrawsIn(Tail(q)) <=> i + 1 \in DrawsIn(q)
    BY <1>1 DEF DrawsIn
  <1>3. DrawsIn(Tail(q)) \subseteq 1 .. Len(q) - 1 /\ DrawsIn(q) \subseteq 1 .. Len(q)
    BY <1>1 DEF DrawsIn
  <1>4. 1 \in DrawsIn(q) <=> Head(q).kind = "draw"
    BY <1>1 DEF DrawsIn
  <1>5. ASSUME NoDraw(q) PROVE NoDraw(Tail(q))
    BY <1>1, <1>2, <1>3, <1>5 DEF NoDraw
  <1>6. ASSUME OneDraw(q), Head(q).kind = "draw" PROVE NoDraw(Tail(q))
    <2>1. DrawsIn(q) = {1}
      BY <1>4, <1>6 DEF OneDraw
    <2>. QED  BY <1>1, <1>2, <1>3, <2>1 DEF NoDraw
  <1>7. ASSUME OneDraw(q), Head(q).kind # "draw" PROVE OneDraw(Tail(q))
    <2>1. PICK j \in 1 .. Len(q) : DrawsIn(q) = {j}
      BY <1>1, <1>7 DEF OneDraw
    <2>2. j # 1 /\ j - 1 \in 1 .. Len(q) - 1
      BY <1>1, <1>4, <1>7, <2>1
    <2>3. DrawsIn(Tail(q)) = {j - 1}
      BY <1>1, <1>2, <1>3, <2>1, <2>2
    <2>. QED  BY <1>1, <2>2, <2>3 DEF OneDraw
  <1>. QED  BY <1>4, <1>5, <1>6, <1>7 DEF NoDraw

\* The draws are chained, and whoever draws has a shape to draw with.
Chained ==
    /\ \/ chain /\ timers = 1 /\ NoDraw(gl)
       \/ chain /\ timers = 0 /\ OneDraw(gl)
       \/ (chain => done) /\ timers = 0 /\ NoDraw(gl)
    /\ chain => pic \in Shapes

TypesAndChain == TypeOK /\ Chained

LEMMA ChainedIsOneChain == TypeOK => (Chained <=> OneChain /\ (chain => pic \in Shapes))
  BY DEF Chained, OneChain, Draws, NoDraw, OneDraw, DrawsIn

LEMMA ThreadsKeepChain ==
    ASSUME TypeOK, Chained,
           InitRender \/ videoCB \/ PlayFile \/ FilmPicture \/ FilmEnds \/ DecodeVideo
             \/ Close \/ rotate
    PROVE  Chained'
  <1>1. UNCHANGED <<timers, chain, pic>> /\ (done => done')
    BY DEF InitRender, videoCB, PlayFile, FilmPicture, FilmEnds, DecodeVideo, Close, rotate,
           egl_vars
  <1>2. \/ UNCHANGED gl
        \/ \E t \in Entry : t.kind # "draw" /\ gl' = Append(gl, t)
    <2>1. CASE InitRender \/ rotate
      BY <2>1, Entries DEF InitRender, rotate, Post
    <2>2. ASSUME NEW of \in {"film", "stream"}, NEW s \in Shapes, HandOver(of, s)
          PROVE  \E t \in Entry : t.kind # "draw" /\ gl' = Append(gl, t)
      <3>1. [kind |-> "fill", n |-> handed', of |-> of, shape |-> s] \in Picture
        BY <2>2, TypesOf DEF HandOver, Picture, Shapes
      <3>. QED  BY <2>2, <3>1, Entries DEF HandOver, Post
    <2>3. CASE FilmPicture \/ DecodeVideo
      BY <2>2, <2>3 DEF FilmPicture, DecodeVideo, video_decode, Shapes
    <2>. QED  BY <2>1, <2>3 DEF videoCB, PlayFile, FilmEnds, Close
  <1>3. (NoDraw(gl) => NoDraw(gl')) /\ (OneDraw(gl) => OneDraw(gl'))
    BY <1>2, Posted, TypesOf
  <1>. QED  BY <1>1, <1>3 DEF Chained

\* What Draw puts behind the rest of the queue is no draw, and it sets the next one
\* as a timer unless the renderer is closed.
LEMMA DrawChains ==
    ASSUME NEW rest \in Seq(Entry), NEW left \in Nat, Draw(rest, left), NoDraw(rest)
    PROVE  NoDraw(gl') /\ timers' = IF done THEN left ELSE left + 1
  <1>1. gl' = rest \/ gl' = Append(rest, Task("init"))
    BY DEF Draw, OnFrame, LoseContext, MakeAnew
  <1>2. timers' = IF done THEN left ELSE left + 1
    BY DEF Draw
  <1>. QED  BY <1>1, <1>2, Posted, Entries

LEMMA GLKeepsAll ==
    ASSUME TypeOK, Chained, GLTask \/ TimerDraw
    PROVE  TypeOK' /\ Chained'
  <1>. UNCHANGED <<start_vars, done, handed, turns>>
    BY DEF GLTask, TimerDraw
  <1>1. CASE gl # <<>> /\ Fill
    <2>1. TypeOK' /\ (done \/ pic' \in Shapes)
      BY <1>1, FillKeepsTypes
    <2>2. Tail(gl) \in Seq(Entry) /\ Head(gl).kind # "draw" /\ timers' = timers
      BY <1>1, TypesOf DEF Fill
    <2>. (NoDraw(gl) => NoDraw(Tail(gl))) /\ (OneDraw(gl) => OneDraw(Tail(gl)))
      BY <1>1, <2>2, TypesOf, Taken
    <2>3. CASE done
      <3>1. gl' = Tail(gl) /\ UNCHANGED <<pic, chain>>
        BY <1>1, <2>3 DEF Fill
      <3>. QED  BY <2>1, <2>2, <2>3, <3>1 DEF Chained
    <2>4. CASE ~done /\ chain
      <3>1. gl' = Tail(gl) /\ chain'
        BY <1>1, <2>4 DEF Fill, SetTimerStart
      <3>. QED  BY <2>1, <2>2, <2>4, <3>1 DEF Chained
    <2>5. CASE ~done /\ ~chain
      <3>1. gl' = Append(Tail(gl), Task("draw")) /\ chain' = TRUE /\ timers = 0 /\ NoDraw(gl)
        BY <1>1, <2>5 DEF Fill, Chained, SetTimerStart
      <3>2. OneDraw(gl')
        BY <1>1, <2>2, <3>1, TypesOf, Taken, Posted, Entries
      <3>. QED  BY <2>1, <2>2, <2>5, <3>1, <3>2 DEF Chained
    <2>. QED  BY <2>1, <2>3, <2>4, <2>5, TypesOf
  <1>2. CASE gl # <<>> /\ (InitContext \/ Rotate)
    <2>1. TypeOK' /\ pic' = pic
      BY <1>2, ContextKeepsTypes
    <2>2. /\ Tail(gl) \in Seq(Entry) /\ Head(gl).kind # "draw"
          /\ gl' = Tail(gl) \/ gl' = Append(Tail(gl), Task("init"))
          /\ UNCHANGED <<timers, chain>>
      BY <1>2, TypesOf DEF InitContext, Rotate
    <2>3. (NoDraw(gl) => NoDraw(gl')) /\ (OneDraw(gl) => OneDraw(gl'))
      <3>1. (NoDraw(gl) => NoDraw(Tail(gl))) /\ (OneDraw(gl) => OneDraw(Tail(gl)))
        BY <1>2, <2>2, TypesOf, Taken
      <3>2. CASE gl' = Tail(gl)
        BY <3>1, <3>2
      <3>3. CASE gl' = Append(Tail(gl), Task("init"))
        BY <2>2, <3>1, <3>3, Posted, Entries
      <3>. QED  BY <2>2, <3>2, <3>3
    <2>. QED  BY <2>1, <2>2, <2>3 DEF Chained
  <1>3. CASE gl # <<>> /\ FirstDraw
    <2>1. Head(gl).kind = "draw" /\ Draw(Tail(gl), timers) /\ Tail(gl) \in Seq(Entry)
      BY <1>3, TypesOf DEF FirstDraw
    <2>2. chain /\ timers = 0 /\ NoDraw(Tail(gl)) /\ pic \in Shapes
      BY <1>3, <2>1, TypesOf, Taken DEF Chained
    <2>3. TypeOK' /\ pic' = pic
      BY <2>1, <2>2, DrawKeepsTypes, TypesOf
    <2>4. NoDraw(gl') /\ chain' = chain /\ timers' = IF done THEN 0 ELSE 1
      <3>1. chain' = chain
        BY <2>1 DEF Draw
      <3>2. NoDraw(gl') /\ timers' = IF done THEN timers ELSE timers + 1
        BY <2>1, <2>2, DrawChains, TypesOf
      <3>. QED  BY <2>2, <3>1, <3>2
    <2>. QED  BY <2>2, <2>3, <2>4, TypesOf DEF Chained
  <1>4. CASE TimerDraw
    <2>1. Draw(gl, timers - 1) /\ timers = 1 /\ chain /\ NoDraw(gl) /\ pic \in Shapes
      BY <1>4 DEF TimerDraw, Chained
    <2>2. TypeOK' /\ pic' = pic
      BY <2>1, DrawKeepsTypes, TypesOf
    <2>3. NoDraw(gl') /\ chain' = chain /\ timers' = IF done THEN 0 ELSE 1
      <3>1. chain' = chain
        BY <2>1 DEF Draw
      <3>. QED  BY <2>1, <3>1, DrawChains, TypesOf
    <2>. QED  BY <2>1, <2>2, <2>3, TypesOf DEF Chained
  <1>. QED  BY <1>1, <1>2, <1>3, <1>4 DEF GLTask

LEMMA ChainInvariant == Spec => []TypesAndChain
  <1>1. Init => TypesAndChain
    <2>. SUFFICES ASSUME Init PROVE TypesAndChain
      OBVIOUS
    <2>1. TypeOK
      <3>1. <<>> \in Seq({"play", "package"}) /\ <<>> \in Seq(Entry)
        OBVIOUS
      <3>2. 0 \in 0 .. MaxStream /\ 0 \in 0 .. MaxTurns /\ 0 \in 0 .. MaxLosses /\ 0 \in 0 .. 3
        BY VideoAssumption
      <3>. QED  BY <3>1, <3>2 DEF Init, TypeOK, Entry
    <2>2. Chained
      BY DEF Init, Chained, NoDraw, DrawsIn
    <2>. QED  BY <2>1, <2>2 DEF TypesAndChain
  <1>2. TypesAndChain /\ [Next]_vars => TypesAndChain'
    <2>. SUFFICES ASSUME TypeOK, Chained, [Next]_vars PROVE TypeOK' /\ Chained'
      BY DEF TypesAndChain
    <2>1. CASE UNCHANGED vars
      BY <2>1 DEF vars, start_vars, egl_vars, TypeOK, Chained, NoDraw, OneDraw, DrawsIn
    <2>2. CASE Next
      BY <2>2, ThreadsKeepTypes, ThreadsKeepChain, GLKeepsAll DEF Next
    <2>. QED  BY <2>1, <2>2
  <1>. QED  BY <1>1, <1>2, PTL DEF Spec

\* Every variable keeps its type, and textures are left behind by a context only if an
\* initialisation failed.
THEOREM TypeCorrect == Spec => []TypeOK
  <1>1. TypesAndChain => TypeOK
    BY DEF TypesAndChain
  <1>. QED  BY <1>1, ChainInvariant, PTL

\* From the first picture to the end there is one draw to come, however the pictures,
\* the turns, the losses and the end fall together.
THEOREM DrawsAreChained == Spec => []OneChain
  <1>1. TypesAndChain => OneChain
    BY ChainedIsOneChain DEF TypesAndChain
  <1>. QED  BY <1>1, ChainInvariant, PTL

----------------------------------------------------------------------------
(* A picture is drawn as what it is *)

\* Textures have the shape that was noted last, and so has the picture in the buffer,
\* which has room for it.
Fitting ==
    /\ tex \in Shapes => tex = pic
    /\ ~failed => tex # Stale
    /\ HasBuffer /\ buf.data # None =>
         pic = buf.data.shape /\ buf.room >= buf.data.shape.size
    /\ DrawsWhatFits

LEMMA CheckFits ==
    ASSUME TypeOK, Fitting, NEW s \in Shapes, CheckYUVTexture(s), UNCHANGED failed
    PROVE  /\ tex' \in Shapes => tex' = pic'
           /\ ~failed' => tex' # Stale
           /\ ~failed' /\ ctx # "none" => tex' = s
  <1>1. s # Stale /\ None # Stale /\ None \notin Shapes
    BY Marks, Sizes
  <1>. QED
    BY <1>1, TypesOf DEF Fitting, CheckYUVTexture, Textures, Differs

LEMMA FillFits ==
    ASSUME TypeOK, Fitting, gl # <<>>, Fill
    PROVE  Fitting'
  <1>1. Head(gl) \in Picture /\ Head(gl).shape \in Shapes /\ Head(gl).shape.size \in Nat
    BY TypesOf, Entries, Sizes DEF Fill, Picture, Shapes
  <1>2. DrawsWhatFits'
    BY DEF Fill, Fitting, DrawsWhatFits
  <1>3. CASE done
    BY <1>2, <1>3 DEF Fill, Fitting, HasBuffer
  <1>4. CASE ~done
    <2>1. (tex' \in Shapes => tex' = pic') /\ (~failed' => tex' # Stale) /\ pic' = Head(gl).shape
      BY <1>1, <1>4, CheckFits, Checked DEF Fill
    <2>2. CASE HasBuffer
      <3>1. buf' = [room |-> Room(Head(gl).shape.size), data |-> Head(gl)]
        BY <1>4, <2>2 DEF Fill
      <3>2. Room(Head(gl).shape.size) >= Head(gl).shape.size
        BY <1>1, <2>2, TypesOf DEF Room, HasBuffer, Buffer
      <3>. QED  BY <1>2, <2>1, <3>1, <3>2 DEF Fitting
    <2>3. CASE ~HasBuffer
      BY <1>2, <1>4, <2>1, <2>3 DEF Fill, Fitting, HasBuffer
    <2>. QED  BY <2>2, <2>3
  <1>. QED  BY <1>3, <1>4

LEMMA ContextFits ==
    ASSUME TypeOK, Fitting, InitContext \/ Rotate
    PROVE  Fitting'
  <1>1. None \notin Shapes /\ Stale \notin Shapes /\ None # Stale
    BY Marks, Sizes
  <1>2. UNCHANGED <<pic, screen>> /\ (failed => failed')
    BY TypesOf DEF InitContext, Rotate, NoWindow, NoSurface, CreatePrograms
  <1>3. tex' = tex \/ tex' = None \/ (tex' = Stale /\ failed')
    BY DEF InitContext, Rotate, NoWindow, NoSurface, CleanContext, CreatePrograms, Destroy,
           ClearTextures
  <1>4. buf' = buf \/ buf' = [room |-> 0, data |-> None]
    BY DEF InitContext, Rotate, NoWindow, NoSurface, CreatePrograms
  <1>5. HasBuffer' /\ buf'.data # None =>
          pic' = buf'.data.shape /\ buf'.room >= buf'.data.shape.size
    BY <1>2, <1>4 DEF Fitting, HasBuffer
  <1>6. DrawsWhatFits'
    BY <1>2 DEF Fitting, DrawsWhatFits
  <1>. QED  BY <1>1, <1>2, <1>3, <1>5, <1>6 DEF Fitting

\* What is drawn is the picture in the buffer.
Drawn ==
    [n |-> buf.data.n, of |-> buf.data.of, data |-> buf.data.shape, room |-> buf.room,
     pic |-> pic', tex |-> tex']

LEMMA DrawScreens ==
    ASSUME NEW rest, NEW left, Draw(rest, left)
    PROVE  \/ screen' = screen
           \/ /\ ctx = "live" /\ HasBuffer /\ buf.data # None /\ UNCHANGED <<buf, failed>>
              /\ CheckYUVTexture(pic) /\ screen' = Drawn
  BY DEF Draw, OnFrame, LoseContext, Drawn

LEMMA DrawFits ==
    ASSUME TypeOK, Fitting, pic \in Shapes, NEW rest, NEW left, Draw(rest, left)
    PROVE  Fitting'
  <1>1. None \notin Shapes /\ Stale \notin Shapes /\ None # Stale
    BY Marks, Sizes
  <1>2. failed' = failed /\ (buf' = buf \/ buf' = Freed)
    BY DEF Draw
  <1>3. \/ tex' = None /\ pic' = pic
        \/ UNCHANGED <<tex, pic>>
        \/ CheckYUVTexture(pic)
    BY DEF Draw, OnFrame, LoseContext, Destroy, ClearTextures
  <1>4. /\ pic' = pic
        /\ tex' \in Shapes => tex' = pic'
        /\ ~failed' => tex' # Stale
    BY <1>1, <1>2, <1>3, CheckFits, Checked DEF Fitting
  <1>5. HasBuffer' /\ buf'.data # None =>
          pic' = buf'.data.shape /\ buf'.room >= buf'.data.shape.size
    BY <1>2, <1>4 DEF Fitting, HasBuffer
  <1>6. DrawsWhatFits'
    <2>1. CASE screen' = screen
      BY <1>2, <2>1 DEF Fitting, DrawsWhatFits
    <2>2. CASE /\ ctx = "live" /\ HasBuffer /\ buf.data # None /\ CheckYUVTexture(pic)
               /\ screen' = Drawn
      <3>1. pic = buf.data.shape /\ buf.room >= buf.data.shape.size
        BY <2>2 DEF Fitting
      <3>2. ~failed' => tex' = pic
        BY <1>2, <2>2, CheckFits
      <3>3. /\ screen'.pic = pic /\ screen'.data = pic /\ screen'.tex = tex'
            /\ screen'.room = buf.room
        BY <1>4, <2>2, <3>1 DEF Drawn
      <3>. QED  BY <3>1, <3>2, <3>3 DEF DrawsWhatFits
    <2>. QED  BY <2>1, <2>2, DrawScreens
  <1>. QED  BY <1>4, <1>5, <1>6 DEF Fitting

\* Whatever is drawn is drawn with its own size and format, out of a buffer that holds
\* it, and from textures of the context in use unless an initialisation failed.
THEOREM PicturesFit == Spec => []DrawsWhatFits
  <1>1. Init => Fitting
    <2>1. None \notin Shapes /\ None # Stale
      BY Marks, Sizes
    <2>. QED  BY <2>1 DEF Init, Fitting, HasBuffer, DrawsWhatFits
  <1>2. TypesAndChain /\ Fitting /\ [Next]_vars => Fitting'
    <2>. SUFFICES ASSUME TypeOK, Chained, Fitting, [Next]_vars PROVE Fitting'
      BY DEF TypesAndChain
    <2>1. CASE UNCHANGED <<egl_vars, buf, screen>>
      BY <2>1 DEF egl_vars, Fitting, HasBuffer, DrawsWhatFits
    <2>2. CASE GLTask \/ TimerDraw
      <3>1. (gl # <<>> /\ FirstDraw) \/ TimerDraw => pic \in Shapes
        <4>1. gl # <<>> /\ FirstDraw => ~NoDraw(gl)
          BY TypesOf, Taken DEF FirstDraw
        <4>2. timers \in Nat
          BY TypesOf
        <4>. QED  BY <4>1, <4>2 DEF Chained, TimerDraw
      <3>. QED
        BY <2>2, <3>1, FillFits, ContextFits, DrawFits DEF GLTask, FirstDraw, TimerDraw
    <2>. QED
      BY <2>1, <2>2 DEF Next, vars, InitRender, videoCB, PlayFile, FilmPicture, FilmEnds,
         DecodeVideo, Close, rotate
  <1>3. Fitting => DrawsWhatFits
    BY DEF Fitting
  <1>. QED  BY <1>1, <1>2, <1>3, ChainInvariant, PTL DEF Spec

----------------------------------------------------------------------------
(* The screen never goes back *)

\* The film is played once: its task is there only as long as it waits.
PlaysOnce ==
    /\ start < 3 => film = "waits"
    /\ \A i \in DOMAIN dec : dec[i] = "play" =>
         start = 3 /\ film = "waits" /\ \A j \in DOMAIN dec : dec[j] = "play" => j = i

LEMMA TakesOne ==
    ASSUME TypeOK, PlaysOnce, NEW task \in {"play", "package"}, Takes(task)
    PROVE  /\ start' = start /\ (film' = film \/ task = "play") => PlaysOnce'
           /\ task = "play" => film = "waits"
  <1>1. /\ dec \in Seq({"play", "package"}) /\ dec # <<>> /\ dec' = Tail(dec)
        /\ dec[1] = task /\ start = 3
    BY DEF Takes, TypeOK
  <1>2. /\ DOMAIN dec = 1 .. Len(dec) /\ DOMAIN dec' = 1 .. Len(dec) - 1 /\ Len(dec) \in Nat \ {0}
        /\ \A i \in DOMAIN dec' : i + 1 \in DOMAIN dec /\ dec'[i] = dec[i + 1]
    BY <1>1
  <1>3. task = "play" => film = "waits" /\ \A i \in DOMAIN dec' : dec'[i] # "play"
    BY <1>1, <1>2 DEF PlaysOnce
  <1>4. ASSUME film' = film, start' = start PROVE PlaysOnce'
    BY <1>1, <1>2, <1>4 DEF PlaysOnce
  <1>5. ASSUME task = "play", start' = start PROVE PlaysOnce'
    BY <1>1, <1>3, <1>5 DEF PlaysOnce
  <1>. QED  BY <1>3, <1>4, <1>5

LEMMA PlaysStaysOnce ==
    ASSUME TypeOK, PlaysOnce, [Next]_vars
    PROVE  PlaysOnce' /\ (film = "over" => film' = "over")
  <1>1. CASE UNCHANGED start_vars
    BY <1>1 DEF start_vars, PlaysOnce
  <1>2. CASE InitRender
    <2>1. CASE start' = 3
      <3>1. start < 3 /\ dec' = Append(dec, "play") /\ film' = film /\ dec \in Seq({"play", "package"})
        BY <1>2, <2>1 DEF InitRender, TypeOK
      <3>2. \A i \in 1 .. Len(dec) : dec'[i] # "play"
        BY <3>1 DEF PlaysOnce
      <3>. QED  BY <2>1, <3>1, <3>2 DEF PlaysOnce
    <2>2. CASE start' # 3
      <3>1. start < 3 /\ dec' = dec /\ film' = film /\ start \in 0 .. 3
        BY <1>2, <2>2 DEF InitRender, TypeOK
      <3>. QED  BY <3>1 DEF PlaysOnce
    <2>. QED  BY <2>1, <2>2
  <1>3. CASE videoCB
    <2>1. dec' = Append(dec, "package") /\ UNCHANGED <<start, film>> /\ dec \in Seq({"play", "package"})
      BY <1>3 DEF videoCB, TypeOK
    <2>2. \A i \in DOMAIN dec' : dec'[i] = "play" => i \in DOMAIN dec /\ dec[i] = "play"
      BY <2>1
    <2>. QED  BY <2>1, <2>2 DEF PlaysOnce
  <1>4. CASE PlayFile \/ DecodeVideo
    BY <1>4, TakesOne DEF PlayFile, DecodeVideo
  <1>5. CASE FilmEnds
    BY <1>5 DEF FilmEnds, PlaysOnce
  <1>. QED
    BY <1>1, <1>2, <1>3, <1>4, <1>5 DEF Next, vars, start_vars, FilmPicture, Close, rotate,
       GLTask, TimerDraw

\* `b' is not older than `a', and of the stream if `a' is.
NotBehind(a, b) == b.n >= a.n /\ (a.of = "stream" => b.of = "stream")

Fills(q) == {i \in DOMAIN q : q[i].kind = "fill"}

Sorted(q) == \A i, j \in Fills(q) : i < j => NotBehind(q[i], q[j])

Before(p, q) == \A i \in Fills(q) : NotBehind(p, q[i])

\* `p' was handed over, as far as the threads have come.
HandedOver(p) == p.n \in Nat /\ p.n <= handed /\ (p.of = "stream" => film = "over")

AllHandedOver(q) == \A i \in Fills(q) : HandedOver(q[i])

\* A new entry that no fill of the queue is ahead of.
LEMMA FillsPosted ==
    ASSUME NEW q \in Seq(Entry), NEW t \in Entry, Sorted(q),
           t.kind = "fill" => \A i \in Fills(q) : NotBehind(q[i], t)
    PROVE  /\ Sorted(Append(q, t))
           /\ \A p : Before(p, q) /\ (t.kind = "fill" => NotBehind(p, t)) => Before(p, Append(q, t))
           /\ AllHandedOver(q) /\ (t.kind = "fill" => HandedOver(t)) => AllHandedOver(Append(q, t))
  <1>1. /\ DOMAIN q = 1 .. Len(q) /\ DOMAIN Append(q, t) = 1 .. Len(q) + 1 /\ Len(q) \in Nat
        /\ \A i \in 1 .. Len(q) : Append(q, t)[i] = q[i]
        /\ Append(q, t)[Len(q) + 1] = t
    OBVIOUS
  <1>2. \A i \in Fills(Append(q, t)) :
          \/ i \in Fills(q) /\ i <= Len(q) /\ Append(q, t)[i] = q[i]
          \/ i = Len(q) + 1 /\ t.kind = "fill" /\ Append(q, t)[i] = t
    BY <1>1 DEF Fills
  <1>3. Fills(Append(q, t)) \subseteq Int
    BY <1>1 DEF Fills
  <1>4. Sorted(Append(q, t))
    <2>. SUFFICES ASSUME NEW i \in Fills(Append(q, t)), NEW j \in Fills(Append(q, t)), i < j
                  PROVE  NotBehind(Append(q, t)[i], Append(q, t)[j])
      BY DEF Sorted
    <2>1. i \in Int /\ j \in Int /\ j <= Len(q) + 1
      BY <1>1, <1>2, <1>3
    <2>2. i \in Fills(q) /\ Append(q, t)[i] = q[i]
      <3>1. i # Len(q) + 1
        BY <1>1, <2>1
      <3>. QED  BY <1>2, <3>1
    <2>3. CASE j \in Fills(q) /\ Append(q, t)[j] = q[j]
      BY <2>2, <2>3 DEF Sorted
    <2>4. CASE t.kind = "fill" /\ Append(q, t)[j] = t
      BY <2>2, <2>4
    <2>. QED  BY <1>2, <2>3, <2>4
  <1>5. \A p : Before(p, q) /\ (t.kind = "fill" => NotBehind(p, t)) => Before(p, Append(q, t))
    BY <1>2 DEF Before
  <1>. QED  BY <1>2, <1>4, <1>5 DEF AllHandedOver

LEMMA FillsTaken ==
    ASSUME NEW q \in Seq(Entry), q # <<>>, Sorted(q)
    PROVE  /\ Sorted(Tail(q))
           /\ \A p : Before(p, q) => Before(p, Tail(q))
           /\ AllHandedOver(q) => AllHandedOver(Tail(q))
           /\ Head(q).kind = "fill" => /\ Before(Head(q), Tail(q))
                                       /\ AllHandedOver(q) => HandedOver(Head(q))
                                       /\ \A p : Before(p, q) => NotBehind(p, Head(q))
  <1>1. /\ DOMAIN q = 1 .. Len(q) /\ DOMAIN Tail(q) = 1 .. Len(q) - 1 /\ Len(q) \in Nat \ {0}
        /\ \A i \in 1 .. Len(q) - 1 : Tail(q)[i] = q[i + 1]
        /\ Head(q) = q[1]
    OBVIOUS
  <1>2. \A i \in Fills(Tail(q)) :
          i \in 1 .. Len(q) - 1 /\ i + 1 \in Fills(q) /\ Tail(q)[i] = q[i + 1]
    BY <1>1 DEF Fills
  <1>3. Sorted(Tail(q))
    BY <1>2 DEF Sorted
  <1>4. \A p : Before(p, q) => Before(p, Tail(q))
    BY <1>2 DEF Before
  <1>5. AllHandedOver(q) => AllHandedOver(Tail(q))
    BY <1>2 DEF AllHandedOver
  <1>6. ASSUME Head(q).kind = "fill"
        PROVE  /\ Before(Head(q), Tail(q))
               /\ AllHandedOver(q) => HandedOver(Head(q))
               /\ \A p : Before(p, q) => NotBehind(p, Head(q))
    <2>1. 1 \in Fills(q) /\ q[1] = Head(q)
      BY <1>1, <1>6 DEF Fills
    <2>. QED  BY <1>2, <2>1 DEF Before, Sorted, AllHandedOver
  <1>. QED  BY <1>3, <1>4, <1>5, <1>6

\* The pictures on their way are in the order of their handing over: first what is drawn,
\* then what is in the buffer, then the tasks of the queue.
Orderly ==
    /\ PlaysOnce
    /\ Sorted(gl) /\ AllHandedOver(gl)
    /\ HasBuffer /\ buf.data # None => HandedOver(buf.data) /\ Before(buf.data, gl)
    /\ screen # None => /\ HandedOver(screen) /\ Before(screen, gl) /\ buf # None
                        /\ HasBuffer => buf.data # None /\ NotBehind(screen, buf.data)

\* What the decoding thread hands over is behind all that was handed over before.
LEMMA HandOverOrders ==
    ASSUME TypeOK, Orderly, NEW of \in {"film", "stream"}, NEW s \in Shapes, HandOver(of, s),
           IF of = "stream" THEN film = "over" ELSE film # "over",
           UNCHANGED <<buf, screen, film>>, PlaysOnce'
    PROVE  Orderly'
  <1>1. PICK t \in Picture : /\ t.n = handed' /\ t.of = of
                             /\ gl' = Append(gl, t) /\ handed' = handed + 1
    <2>1. [kind |-> "fill", n |-> handed', of |-> of, shape |-> s] \in Picture
      BY TypesOf DEF HandOver, Picture, Shapes
    <2>. QED  BY <2>1 DEF HandOver, Post
  <1>. t \in Entry /\ t.kind = "fill"
    BY Entries
  <1>2. \A p : HandedOver(p) => HandedOver(p)' /\ NotBehind(p, t)
    BY <1>1, TypesOf DEF HandedOver, NotBehind
  <1>3. HandedOver(t)'
    BY <1>1, TypesOf DEF HandedOver
  <1>4. \A i \in Fills(gl) : NotBehind(gl[i], t)
    BY <1>2 DEF Orderly, AllHandedOver
  <1>5. Sorted(gl') /\ \A p : Before(p, gl) /\ NotBehind(p, t) => Before(p, gl')
    BY <1>1, <1>4, FillsPosted, TypesOf DEF Orderly
  <1>6. AllHandedOver(gl)'
    <2>1. \A i \in Fills(gl') : \/ i \in Fills(gl) /\ gl'[i] = gl[i]
                               \/ gl'[i] = t
      BY <1>1, TypesOf DEF Fills
    <2>. QED  BY <1>2, <1>3, <2>1 DEF Orderly, AllHandedOver
  <1>. QED  BY <1>2, <1>5, <1>6 DEF Orderly, HasBuffer

\* No task of the GL thread but a fill that is posted, and none that is not the first is
\* lost: what was in order stays so.
LEMMA QueueStaysOrdered ==
    ASSUME TypeOK, Orderly, UNCHANGED <<handed, film>>, NEW q, NEW t \in Entry,
           q = gl \/ (gl # <<>> /\ q = Tail(gl)), t.kind # "fill",
           gl' = q \/ gl' = Append(q, t)
    PROVE  /\ Sorted(gl') /\ AllHandedOver(gl)'
           /\ \A p : Before(p, q) => Before(p, gl')
           /\ \A p : Before(p, gl) => Before(p, gl')
  <1>1. /\ q \in Seq(Entry) /\ Sorted(q) /\ AllHandedOver(q)
        /\ \A p : Before(p, gl) => Before(p, q)
    <2>1. gl \in Seq(Entry) /\ Sorted(gl) /\ AllHandedOver(gl)
      BY TypesOf DEF Orderly
    <2>2. CASE gl # <<>> /\ q = Tail(gl)
      BY <2>1, <2>2, FillsTaken
    <2>. QED  BY <2>1, <2>2
  <1>2. /\ Sorted(gl') /\ AllHandedOver(gl')
        /\ \A p : Before(p, q) => Before(p, gl')
    BY <1>1, FillsPosted
  <1>3. AllHandedOver(gl)'
    BY <1>2 DEF AllHandedOver, HandedOver
  <1>. QED  BY <1>1, <1>2, <1>3

\* A step of the GL thread but a fill: it draws what is in the buffer, or nothing; it
\* makes the buffer, frees it, or leaves it.
LEMMA StepOrders ==
    ASSUME TypeOK, Orderly, PlaysOnce', UNCHANGED <<handed, film>>,
           Sorted(gl'), AllHandedOver(gl)', \A p : Before(p, gl) => Before(p, gl'),
           \/ screen' = screen
           \/ HasBuffer /\ buf.data # None /\ screen' = Drawn /\ buf' = buf,
           buf' \in {buf, Freed} \/ (buf = None /\ buf' = [room |-> 0, data |-> None])
    PROVE  Orderly' /\ (screen # None => NotBehind(screen, screen'))
  <1>1. HasBuffer' /\ buf'.data # None => buf' = buf /\ HasBuffer
    BY DEF HasBuffer
  <1>2. HasBuffer' /\ buf'.data # None => HandedOver(buf.data)' /\ Before(buf'.data, gl')
    BY <1>1 DEF Orderly, HandedOver
  <1>3. Orderly' <=>
          (screen' # None => /\ HandedOver(screen)' /\ Before(screen', gl') /\ buf' # None
                             /\ HasBuffer' => buf'.data # None /\ NotBehind(screen', buf'.data))
    BY <1>2 DEF Orderly
  <1>4. CASE screen' = screen
    <2>1. screen # None => /\ HandedOver(screen)' /\ Before(screen', gl')
                           /\ NotBehind(screen, screen')
      BY <1>4 DEF Orderly, HandedOver, NotBehind
    <2>2. screen # None => buf' # None /\ (HasBuffer' => buf' = buf /\ HasBuffer)
      BY Marks DEF Orderly, HasBuffer
    <2>3. screen # None /\ HasBuffer' => buf'.data # None /\ NotBehind(screen, buf'.data)
      BY <2>2 DEF Orderly
    <2>. QED  BY <1>3, <1>4, <2>1, <2>2, <2>3
  <1>5. CASE HasBuffer /\ buf.data # None /\ screen' = Drawn /\ buf' = buf
    <2>1. screen'.n = buf.data.n /\ screen'.of = buf.data.of
      BY <1>5 DEF Drawn
    <2>2. HandedOver(buf.data) /\ Before(buf.data, gl)
      BY <1>5 DEF Orderly
    <2>3. HandedOver(screen)' /\ Before(screen', gl') /\ NotBehind(screen', buf.data)
      BY <2>1, <2>2 DEF HandedOver, Before, NotBehind
    <2>4. screen # None => NotBehind(screen, screen')
      BY <1>5, <2>1 DEF Orderly, NotBehind
    <2>5. buf' # None
      BY <1>5 DEF HasBuffer
    <2>. QED  BY <1>3, <1>5, <2>3, <2>4, <2>5
  <1>. QED  BY <1>4, <1>5

LEMMA FillOrders ==
    ASSUME TypeOK, Orderly, PlaysOnce', UNCHANGED <<handed, film>>, gl # <<>>, Fill
    PROVE  Orderly' /\ screen' = screen
  <1>1. /\ Head(gl).kind = "fill" /\ Tail(gl) \in Seq(Entry) /\ screen' = screen
        /\ Task("draw") \in Entry /\ Task("draw").kind # "fill"
        /\ gl' = Tail(gl) \/ gl' = Append(Tail(gl), Task("draw"))
    BY TypesOf, Entries DEF Fill
  <1>2. /\ Sorted(gl') /\ AllHandedOver(gl)'
        /\ \A p : Before(p, Tail(gl)) => Before(p, gl')
        /\ \A p : Before(p, gl) => Before(p, gl')
    BY <1>1, QueueStaysOrdered
  <1>3. /\ HandedOver(Head(gl)) /\ Before(Head(gl), gl')
        /\ screen # None => NotBehind(screen, Head(gl))
    BY <1>1, <1>2, FillsTaken, TypesOf DEF Orderly
  <1>4. buf' = buf \/ (HasBuffer /\ HasBuffer' /\ buf'.data = Head(gl))
    <2>1. ASSUME HasBuffer, buf' = [room |-> Room(Head(gl).shape.size), data |-> Head(gl)]
          PROVE  HasBuffer' /\ buf'.data = Head(gl)
      <3>1. "room" \in DOMAIN buf' /\ DOMAIN None = {"none"} /\ DOMAIN Freed = {"freed"}
        BY <2>1 DEF None, Freed
      <3>. QED  BY <2>1, <3>1 DEF HasBuffer
    <2>. QED  BY <2>1 DEF Fill
  <1>5. CASE buf' = buf
    BY <1>1, <1>2, <1>5, StepOrders
  <1>6. CASE HasBuffer /\ HasBuffer' /\ buf'.data = Head(gl)
    <2>1. HandedOver(buf.data)' /\ Before(buf'.data, gl')
      BY <1>3, <1>6 DEF HandedOver
    <2>2. screen # None =>
            /\ HandedOver(screen)' /\ Before(screen', gl')
            /\ buf' # None /\ NotBehind(screen', buf'.data)
      BY <1>1, <1>2, <1>3, <1>6 DEF Orderly, HandedOver, HasBuffer
    <2>3. Head(gl) # None
      <3>1. Head(gl) \in Picture
        BY <1>1, TypesOf, Entries
      <3>. QED  BY <3>1, Marks
    <2>. QED  BY <1>1, <1>2, <1>6, <2>1, <2>2, <2>3 DEF Orderly
  <1>. QED  BY <1>1, <1>4, <1>5, <1>6

LEMMA ContextOrders ==
    ASSUME TypeOK, Orderly, PlaysOnce', UNCHANGED <<handed, film>>, gl # <<>>,
           InitContext \/ Rotate
    PROVE  Orderly' /\ screen' = screen
  <1>1. /\ screen' = screen
        /\ Task("init") \in Entry /\ Task("init").kind # "fill"
        /\ gl' = Tail(gl) \/ gl' = Append(Tail(gl), Task("init"))
        /\ buf' = buf \/ (buf = None /\ buf' = [room |-> 0, data |-> None])
    BY Entries DEF InitContext, Rotate, NoWindow, NoSurface, CreatePrograms
  <1>2. /\ Sorted(gl') /\ AllHandedOver(gl)'
        /\ \A p : Before(p, gl) => Before(p, gl')
    BY <1>1, QueueStaysOrdered
  <1>. QED  BY <1>1, <1>2, StepOrders

LEMMA DrawOrders ==
    ASSUME TypeOK, Orderly, PlaysOnce', UNCHANGED <<handed, film>>,
           NEW rest, rest = gl \/ (gl # <<>> /\ rest = Tail(gl)), NEW left, Draw(rest, left)
    PROVE  Orderly' /\ (screen # None => NotBehind(screen, screen'))
  <1>1. /\ Task("init") \in Entry /\ Task("init").kind # "fill"
        /\ gl' = rest \/ gl' = Append(rest, Task("init"))
        /\ buf' \in {buf, Freed}
    BY Entries DEF Draw, OnFrame, LoseContext, MakeAnew
  <1>2. /\ Sorted(gl') /\ AllHandedOver(gl)'
        /\ \A p : Before(p, gl) => Before(p, gl')
    BY <1>1, QueueStaysOrdered
  <1>3. \/ screen' = screen
        \/ HasBuffer /\ buf.data # None /\ screen' = Drawn /\ buf' = buf
    BY DrawScreens
  <1>. QED  BY <1>1, <1>2, <1>3, StepOrders

\* A step of another thread that hands no picture over.
LEMMA OthersKeepOrder ==
    ASSUME TypeOK, Orderly, PlaysOnce', film = "over" => film' = "over",
           UNCHANGED <<handed, buf, screen>>,
           \/ UNCHANGED gl
           \/ \E k \in {"init", "rotate"} : gl' = Append(gl, Task(k))
    PROVE  Orderly'
  <1>1. PICK t \in Entry : t.kind # "fill" /\ (gl' = gl \/ gl' = Append(gl, t))
    BY Entries
  <1>2. \A p : HandedOver(p) => HandedOver(p)'
    BY DEF HandedOver
  <1>3. /\ Sorted(gl') /\ AllHandedOver(gl')
        /\ \A p : Before(p, gl) => Before(p, gl')
    BY <1>1, FillsPosted, TypesOf DEF Orderly
  <1>4. AllHandedOver(gl)'
    BY <1>2, <1>3 DEF AllHandedOver
  <1>5. HasBuffer' /\ buf'.data # None => HandedOver(buf.data)' /\ Before(buf'.data, gl')
    BY <1>3 DEF Orderly, HasBuffer, HandedOver
  <1>6. screen' # None =>
          /\ HandedOver(screen)' /\ Before(screen', gl') /\ buf' # None
          /\ HasBuffer' => buf'.data # None /\ NotBehind(screen', buf'.data)
    BY <1>3 DEF Orderly, HasBuffer, HandedOver
  <1>. QED  BY <1>3, <1>4, <1>5, <1>6 DEF Orderly

LEMMA NextOrders ==
    ASSUME TypesAndChain, Orderly, [Next]_vars
    PROVE  Orderly' /\ (screen' = screen \/ (screen # None => NotBehind(screen, screen')))
  <1>1. TypeOK /\ PlaysOnce' /\ (film = "over" => film' = "over")
    BY PlaysStaysOnce DEF TypesAndChain, Orderly
  <1>2. CASE UNCHANGED vars \/ InitRender \/ videoCB \/ PlayFile \/ FilmEnds \/ Close \/ rotate
    BY <1>1, <1>2, OthersKeepOrder
       DEF vars, InitRender, videoCB, PlayFile, FilmEnds, Close, rotate, Post
  <1>3. CASE FilmPicture
    BY <1>1, <1>3, HandOverOrders DEF FilmPicture, start_vars, Shapes
  <1>4. CASE DecodeVideo
    <2>1. CASE UNCHANGED <<gl, handed>>
      BY <1>1, <1>4, <2>1, OthersKeepOrder DEF DecodeVideo
    <2>2. CASE ~UNCHANGED <<gl, handed>>
      BY <1>1, <1>4, <2>2, HandOverOrders DEF DecodeVideo, video_decode, Decodes, Shapes
    <2>. QED  BY <2>1, <2>2
  <1>5. CASE GLTask
    <2>1. gl # <<>> /\ UNCHANGED <<handed, film>>
      BY <1>5 DEF GLTask, start_vars
    <2>. QED
      BY <1>1, <1>5, <2>1, FillOrders, ContextOrders, DrawOrders DEF GLTask, FirstDraw
  <1>6. CASE TimerDraw
    BY <1>1, <1>6, DrawOrders DEF TimerDraw, start_vars
  <1>. QED  BY <1>2, <1>3, <1>4, <1>5, <1>6 DEF Next

\* The screen never goes back to an older picture, nor from the stream to the film,
\* though film, stream, timer and queue go their own ways.
THEOREM ScreenNeverGoesBack == Spec => NeverBack
  <1>1. Init => Orderly
    <2>1. ASSUME Init PROVE DOMAIN gl = {} /\ DOMAIN dec = {}
      BY <2>1 DEF Init
    <2>. QED
      BY <2>1 DEF Init, Orderly, PlaysOnce, Sorted, AllHandedOver, Fills, HasBuffer
  <1>2. TypesAndChain /\ Orderly /\ [Next]_vars
          => /\ Orderly'
             /\ [screen # None => /\ screen'.n >= screen.n
                                  /\ screen.of = "stream" => screen'.of = "stream"]_screen
    BY NextOrders DEF NotBehind
  <1>. QED  BY <1>1, <1>2, ChainInvariant, PTL DEF Spec, NeverBack
=============================================================================

--------------------------- MODULE Launcher_proofs ---------------------------
(***************************************************************************)
(* Theorems about WsClient for any number of logins: types, that no loop   *)
(* has its endpoint taken away, and that what Stop leaves is at rest.      *)
(* Then about Launcher for any number of requests: its window uses the     *)
(* WebSocket as WsClient lets any user do, so what is proved there holds   *)
(* here; the first page has no WebSocket; and the latest login wins.       *)
(***************************************************************************)
EXTENDS Launcher, SequenceTheorems, TLAPS

----------------------------------------------------------------------------
(* The WebSocket client *)

\* The loop of e has still to clear _bRun.
Alive(e) == place[e] \in {"new", "run", "left"}

NoneAlive == \A e \in Endpoint : ~Alive(e)

\* The timers belong to the endpoint in use, which has no connection before its loop
\* makes one, and m_hdl names the connection of the loop that runs.
Connections ==
    /\ \A e \in Endpoint : timers[e] # {} => e = cli
    /\ \A e \in Endpoint : e > cli \/ place[e] = "new" => con[e] = "none"
    /\ \A e \in Endpoint : place[e] = "run" /\ cli = e => hdl = e

\* While no Stop was woken too soon, _bRun tells of a loop that is alive, and
\* _bStopDone of one that Stop waits for or that is gone.
Loops ==
    /\ \A e \in Endpoint : Alive(e) => cli = e /\ run
    /\ ui = "returns" => NoneAlive
    /\ stopDone => ui \in {"stops", "waits"} \/ NoneAlive

WsInv == TypeOK /\ Connections /\ (~early => Loops)

Base == TypeOK /\ Connections

----------------------------------------------------------------------------
(* Types and connections *)

\* The connection is lost when the timer of ReConnect is due, so close throws.
LEMMA TimerThrows ==
    ASSUME Base, NEW e \in Endpoint, "reconnect" \in timers[e]
    PROVE  CloseThrows
  BY DEF Base, TypeOK, CloseThrows

LEMMA InterfaceKeepsBase == ASSUME Base, Interface PROVE Base'
  <1>. USE WsAssumption DEF Endpoint
  <1>1. ASSUME NEW next \in {"run", "nothing"}, Stop(next) PROVE Base'
    BY <1>1 DEF Base, TypeOK, Connections, Stop, loop_vars
  <1>2. CASE Mark
    BY <1>2 DEF Base, TypeOK, Connections, Mark, loop_vars
  <1>3. CASE StopEndpoint
    BY <1>3 DEF Base, TypeOK, Connections, StopEndpoint
  <1>4. CASE TimeLimit
    BY <1>4 DEF Base, TypeOK, Connections, TimeLimit, ByItself, Wake, Gone, loop_vars
  <1>5. CASE Login
    <2>1. PICK good \in BOOLEAN : Run(good)
      BY <1>5 DEF Login
    <2>2. TypeOK'
      <3>1. cli' \in 0 .. MaxRuns /\ hdl' \in 0 .. cli' /\ cli' \in Endpoint
        BY <2>1 DEF Base, TypeOK, Run
      <3>2. place' \in [Endpoint -> {"none", "new", "run", "left", "told", "ended"}]
        BY <2>1 DEF Base, TypeOK, Run
      <3>3. timers' = [e \in Endpoint |-> {}] /\ run' /\ ~done' /\ ~stopDone' /\ con' = con
        BY <2>1 DEF Run, Revive
      <3>. HIDE DEF Endpoint
      <3>4. UNCHANGED <<then, early, stopped>> /\ ui' = "idle"
        BY <1>5 DEF Login
      <3>. QED  BY <3>1, <3>2, <3>3, <3>4, <2>1 DEF Base, TypeOK, Run, Revive
    <2>3. Connections'
      BY <1>5, <2>1 DEF Base, TypeOK, Connections, Login, Run, Revive
    <2>. QED  BY <2>2, <2>3 DEF Base
  <1>6. CASE Back
    BY <1>6 DEF Base, TypeOK, Connections, Back, loop_vars
  <1>7. CASE SafeSend
    BY <1>7 DEF Base, TypeOK, Connections, SafeSend, ui_vars
  <1>. QED  BY <1>1, <1>2, <1>3, <1>4, <1>5, <1>6, <1>7 DEF Interface

LEMMA LoopKeepsBase == ASSUME Base, NEW e \in Endpoint, Loop(e) PROVE Base'
  <1>. USE DEF Goto
  <1>1. CASE Connect(e)
    <2>1. TypeOK'
      BY <1>1 DEF Base, TypeOK, Connections, Connect, ui_vars, Endpoint
    <2>2. Connections'
      BY <1>1 DEF Base, TypeOK, Connections, Connect, ui_vars
    <2>. QED  BY <2>1, <2>2 DEF Base
  <1>2. CASE Open(e)
    BY <1>2 DEF Base, TypeOK, Connections, Open, Runs, SetByOpen, ui_vars, Endpoint
  <1>3. CASE Lose(e)
    BY <1>3 DEF Base, TypeOK, Connections, Lose, Runs, ReConnect, ui_vars, Endpoint
  <1>4. CASE Heart(e)
    BY <1>4 DEF Base, TypeOK, Connections, Heart, Runs, ui_vars
  <1>5. CASE Send(e)
    BY <1>5 DEF Base, TypeOK, Connections, Send, Runs, ui_vars
  <1>6. CASE ReConnectTimer(e)
    <2>1. CloseThrows
      BY <1>6, TimerThrows DEF ReConnectTimer
    <2>. QED  BY <1>6, <2>1 DEF Base, TypeOK, Connections, ReConnectTimer, Runs
  <1>7. CASE Leave(e)
    BY <1>7 DEF Base, TypeOK, Connections, Leave, ui_vars
  <1>8. CASE ClearRun(e)
    BY <1>8 DEF Base, TypeOK, Connections, ClearRun
  <1>9. CASE Notify(e)
    BY <1>9 DEF Base, TypeOK, Connections, Notify, Gone
  <1>. QED  BY <1>1, <1>2, <1>3, <1>4, <1>5, <1>6, <1>7, <1>8, <1>9 DEF Loop

----------------------------------------------------------------------------
(* The loops *)

LEMMA InterfaceKeepsLoops ==
    ASSUME Base, ~early => Loops, Interface, ~early'
    PROVE  Loops'
  <1>. USE DEF Alive, NoneAlive, Gone
  <1>1. ASSUME NEW next \in {"run", "nothing"}, Stop(next) PROVE Loops'
    <2>1. Loops /\ UNCHANGED <<place, cli, run, stopDone>>
      BY <1>1 DEF Stop, loop_vars
    <2>2. ~(run /\ cli # 0) => NoneAlive
      BY <2>1 DEF Loops, Endpoint
    <2>. QED  BY <1>1, <2>1, <2>2 DEF Stop, Loops
  <1>2. CASE Mark
    BY <1>2 DEF Mark, Loops, loop_vars
  <1>3. CASE StopEndpoint
    BY <1>3 DEF StopEndpoint, Loops
  <1>4. CASE TimeLimit
    <2>1. Loops /\ Gone(cli) /\ ui' = "returns" /\ UNCHANGED <<place, cli, run, stopDone>>
      BY <1>4 DEF TimeLimit, Wake, loop_vars
    <2>. QED  BY <2>1 DEF Loops
  <1>5. CASE Login
    <2>1. Loops /\ NoneAlive /\ ui' = "idle"
      BY <1>5 DEF Login, Loops
    <2>2. PICK good \in BOOLEAN : Run(good)
      BY <1>5 DEF Login
    <2>3. /\ place' = [place EXCEPT ![cli'] = IF good THEN "new" ELSE "none"]
          /\ run' /\ ~stopDone'
      BY <2>2 DEF Run, Revive
    <2>. QED  BY <2>1, <2>3 DEF Loops, Base, TypeOK
  <1>6. CASE Back
    BY <1>6 DEF Back, Loops, loop_vars
  <1>7. CASE SafeSend
    BY <1>7 DEF SafeSend, Loops, ui_vars
  <1>. QED  BY <1>1, <1>2, <1>3, <1>4, <1>5, <1>6, <1>7 DEF Interface

LEMMA LoopKeepsLoops ==
    ASSUME Base, ~early => Loops, NEW e \in Endpoint, Loop(e), ~early'
    PROVE  Loops'
  <1>. USE DEF Alive, NoneAlive, Goto
  <1>1. place \in [Endpoint -> {"none", "new", "run", "left", "told", "ended"}]
    BY DEF Base, TypeOK
  <1>2. CASE Connect(e)
    BY <1>1, <1>2 DEF Connect, Loops, ui_vars
  <1>3. CASE Open(e) \/ Lose(e) \/ Heart(e) \/ Send(e)
    BY <1>3 DEF Open, Lose, Heart, Send, Loops, ui_vars
  <1>4. CASE ReConnectTimer(e)
    <2>1. CloseThrows
      BY <1>4, TimerThrows DEF ReConnectTimer
    <2>. QED  BY <1>1, <1>4, <2>1 DEF ReConnectTimer, Runs, Loops
  <1>5. CASE Leave(e)
    BY <1>1, <1>5 DEF Leave, Loops, ui_vars
  <1>6. CASE ClearRun(e)
    BY <1>1, <1>6 DEF ClearRun, Loops
  <1>7. CASE Notify(e)
    <2>1. Loops /\ UNCHANGED <<cli, run, stopDone>>
      BY <1>7 DEF Notify
    <2>2. place' = [place EXCEPT ![e] = "ended"] /\ ~Alive(e)
      BY <1>7 DEF Notify
    <2>3. CASE done /\ ui = "waits"
      <3>1. cli = e \/ Gone(cli)
        BY <1>7, <2>3 DEF Notify
      <3>2. NoneAlive
        BY <2>1, <2>2, <3>1 DEF Loops, Gone
      <3>. QED  BY <1>1, <2>1, <2>2, <3>2 DEF Loops
    <2>4. CASE ~(done /\ ui = "waits")
      BY <1>1, <1>7, <2>1, <2>2, <2>4 DEF Notify, Loops
    <2>. QED  BY <2>3, <2>4
  <1>. QED  BY <1>2, <1>3, <1>4, <1>5, <1>6, <1>7 DEF Loop

----------------------------------------------------------------------------
LEMMA WsInvariant == Spec => []WsInv
  <1>1. Init => WsInv
    <2>. SUFFICES ASSUME Init PROVE WsInv
      OBVIOUS
    <2>1. TypeOK
      <3>1. 0 \in 0 .. MaxRuns /\ 0 \in 0 .. 0
        BY WsAssumption
      <3>. QED  BY <3>1 DEF Init, TypeOK
    <2>2. Connections
      BY DEF Init, Connections
    <2>3. Loops
      BY DEF Init, Loops, Alive, NoneAlive
    <2>. QED  BY <2>1, <2>2, <2>3 DEF WsInv
  <1>2. WsInv /\ [Next]_vars => WsInv'
    <2>. SUFFICES ASSUME WsInv, [Next]_vars PROVE WsInv'
      OBVIOUS
    <2>1. CASE UNCHANGED vars
      BY <2>1 DEF vars, ui_vars, loop_vars, WsInv, TypeOK, Connections, Loops, Alive,
                  NoneAlive
    <2>2. CASE Next
      <3>1. Base /\ (~early => Loops)
        BY DEF WsInv, Base
      <3>2. Base'
        BY <2>2, <3>1, InterfaceKeepsBase, LoopKeepsBase DEF Next
      <3>3. ASSUME ~early' PROVE Loops'
        BY <2>2, <3>1, <3>3, InterfaceKeepsLoops, LoopKeepsLoops DEF Next
      <3>. QED  BY <3>2, <3>3 DEF WsInv, Base
    <2>. QED  BY <2>1, <2>2
  <1>. QED  BY <1>1, <1>2, PTL DEF Spec

\* Every variable keeps its type, and ReConnect's timer waits only for a lost connection.
THEOREM TypeCorrect == Spec => []TypeOK
  <1>1. WsInv => TypeOK
    BY DEF WsInv
  <1>. QED  BY <1>1, WsInvariant, PTL

\* However often the user logs in, no Run takes the endpoint from a loop that has still
\* to use it, unless a Stop was woken too soon.
THEOREM EndpointIsOwned == Spec => []LoopOwnsEndpoint
  <1>1. WsInv => LoopOwnsEndpoint
    BY DEF WsInv, Loops, Alive, LoopOwnsEndpoint
  <1>. QED  BY <1>1, WsInvariant, PTL

\* When Stop returns no loop is at work, though it may return without having waited.
THEOREM StopLeavesNoLoop == Spec => []StoppedIsStopped
  <1>1. WsInv => StoppedIsStopped
    BY DEF WsInv, Loops, Alive, NoneAlive, StoppedIsStopped
  <1>. QED  BY <1>1, WsInvariant, PTL

----------------------------------------------------------------------------
(* The launcher *)

LEMMA StepsOfWsClient == [LNext]_all_vars => [Next]_vars
  <1>. SUFFICES ASSUME [LNext]_all_vars, ~UNCHANGED vars PROVE Next
    OBVIOUS
  <1>. USE DEF Next, Interface
  <1>1. CASE UNCHANGED all_vars
    BY <1>1 DEF all_vars
  <1>2. CASE Web
    BY <1>2 DEF Web, action_Login, TakeRequest, Respond
  <1>3. CASE Refused \/ RunPlayer
    BY <1>3 DEF Refused, RunPlayer
  <1>4. CASE Granted \/ on_btn_back_clicked
    BY <1>4 DEF Granted, on_btn_back_clicked, StopForBack
  <1>5. CASE LogIn \/ ShowFirstPage \/ SwitchDevice
    BY <1>5 DEF LogIn, ShowFirstPage, SwitchDevice
  <1>6. CASE Socket
    BY <1>6 DEF Socket, Inside
  <1>. QED  BY <1>1, <1>2, <1>3, <1>4, <1>5, <1>6 DEF LNext, Window

\* The window, the answers and the user, in whatever order they come, make no use of
\* the WebSocket that WsClient does not allow for.
THEOREM LauncherImplementsWsClient == LSpec => Spec
  <1>1. LInit => Init
    BY DEF LInit
  <1>. QED  BY <1>1, StepsOfWsClient, PTL DEF LSpec, Spec

LEMMA Owned == LSpec => []WsInv
  BY LauncherImplementsWsClient, WsInvariant, PTL

\* No login of the launcher takes the endpoint from a loop that still uses it.
THEOREM LauncherOwnsEndpoint == LSpec => []LoopOwnsEndpoint
  BY LauncherImplementsWsClient, EndpointIsOwned, PTL

\* When Stop returns, for a login or for the back button, no loop is at work.
THEOREM LauncherStops == LSpec => []StoppedIsStopped
  BY LauncherImplementsWsClient, StopLeavesNoLoop, PTL

----------------------------------------------------------------------------
(* What the WebSocket does meanwhile *)

AtWork(e) == place[e] \in {"new", "run"}

\* No step of Stop or of a loop starts a loop, ends a call of Stop or begins one.
LEMMA SocketKeeps ==
    ASSUME Base, Socket
    PROVE  /\ UNCHANGED <<web_vars, win_vars>> /\ UNCHANGED <<then, cli>>
           /\ ui' = "idle" <=> ui = "idle"
           /\ early => early'
           /\ \A e \in Endpoint : AtWork(e)' => AtWork(e)
  <1>. USE DEF AtWork, Inside, Goto
  <1>1. CASE Inside(Mark \/ StopEndpoint \/ TimeLimit)
    <2>1. CASE Mark \/ StopEndpoint
      BY <1>1, <2>1 DEF Mark, StopEndpoint, loop_vars
    <2>2. CASE TimeLimit
      <3>1. UNCHANGED <<then, cli, place>> /\ ui = "waits" /\ ui' = "returns"
        BY <2>2 DEF TimeLimit, Wake, ByItself, loop_vars
      <3>2. early => early'
        BY <2>2 DEF TimeLimit, Wake
      <3>. QED  BY <1>1, <3>1, <3>2
    <2>. QED  BY <1>1, <2>1, <2>2
  <1>2. CASE Inside(\E e \in Endpoint : Loop(e))
    <2>1. PICK e \in Endpoint : Loop(e)
      BY <1>2
    <2>2. UNCHANGED <<web_vars, win_vars>>
      BY <1>2
    <2>3. place \in [Endpoint -> {"none", "new", "run", "left", "told", "ended"}]
      BY DEF Base, TypeOK
    <2>4. CASE Connect(e)
      BY <2>2, <2>3, <2>4 DEF Connect, ui_vars
    <2>5. CASE Open(e) \/ Lose(e) \/ Heart(e) \/ Send(e)
      BY <2>2, <2>5 DEF Open, Lose, Heart, Send, ui_vars
    <2>6. CASE ReConnectTimer(e)
      <3>1. CloseThrows
        BY <2>6, TimerThrows DEF ReConnectTimer
      <3>. QED  BY <2>2, <2>3, <2>6, <3>1 DEF ReConnectTimer
    <2>7. CASE Leave(e) \/ ClearRun(e)
      BY <2>2, <2>3, <2>7 DEF Leave, ClearRun, ui_vars
    <2>8. CASE Notify(e)
      BY <2>2, <2>3, <2>8 DEF Notify
    <2>. QED  BY <2>1, <2>4, <2>5, <2>6, <2>7, <2>8 DEF Loop
  <1>. QED  BY <1>1, <1>2 DEF Socket

----------------------------------------------------------------------------
(* The first page *)

LEMMA PageStep ==
    ASSUME WsInv, NoSocketOnFirstPage, [LNext]_all_vars
    PROVE  NoSocketOnFirstPage'
  <1>. USE DEF NoSocketOnFirstPage, AtWork
  <1>1. CASE UNCHANGED <<place, page, early>>
    BY <1>1
  <1>2. CASE LogIn
    BY <1>2 DEF LogIn
  <1>3. CASE ShowFirstPage
    <2>1. ~early => \A e \in Endpoint : ~AtWork(e)
      BY <1>3 DEF ShowFirstPage, Back, WsInv, Loops, Alive, NoneAlive
    <2>. QED  BY <1>3, <2>1 DEF ShowFirstPage, Back, loop_vars
  <1>4. CASE Socket
    BY <1>4, SocketKeeps DEF WsInv, Base, win_vars
  <1>5. CASE Web \/ Refused \/ RunPlayer \/ UNCHANGED all_vars
    BY <1>1, <1>5 DEF Web, action_Login, TakeRequest, Respond, Refused, RunPlayer,
                      all_vars, vars, ui_vars, loop_vars, win_vars
  <1>6. CASE Granted \/ on_btn_back_clicked \/ SwitchDevice
    BY <1>1, <1>6 DEF Granted, on_btn_back_clicked, StopForBack, Stop, SwitchDevice,
                      SafeSend, ui_vars, loop_vars, win_vars
  <1>. QED  BY <1>2, <1>3, <1>4, <1>5, <1>6 DEF LNext, Window

\* In whatever order answers and clicks come, a WebSocket is never left at work behind
\* the first page, unless a Stop was woken too soon.
THEOREM FirstPageIsQuiet == LSpec => []NoSocketOnFirstPage
  <1>1. LInit => NoSocketOnFirstPage
    BY DEF LInit, Init, NoSocketOnFirstPage
  <1>2. WsInv /\ NoSocketOnFirstPage /\ [LNext]_all_vars => NoSocketOnFirstPage'
    BY PageStep
  <1>. QED  BY <1>1, <1>2, Owned, PTL DEF LSpec

----------------------------------------------------------------------------
(* The order of the requests *)

\* The requests up to this one have had their answer taken.
Through == sent - Len(jobs) - (IF busy = 0 THEN 0 ELSE 1) - Len(answers)

\* The requests are in the pool, with its worker or in the event queue by their number,
\* and those before them were handled.
Order ==
    /\ sent \in Nat /\ busy \in Nat /\ serving \in Nat
    /\ jobs \in Seq(Nat) /\ answers \in Seq(Nat \X BOOLEAN)
    /\ \A i \in 1 .. Len(jobs) : jobs[i] = sent - Len(jobs) + i
    /\ busy # 0 => busy = sent - Len(jobs)
    /\ \A i \in 1 .. Len(answers) : answers[i][1] = Through + i
    /\ Through \in Nat
    /\ handled \subseteq 1 .. Through /\ granted \subseteq handled

\* The request that is served is the last one whose answer was taken, and the user
\* interface is inside Stop for it.
Served ==
    /\ serving # 0 => serving = Through
    /\ (serving # 0) <=> (ui # "idle" /\ then = "run")

OrderInv == Order /\ Served /\ LatestLoginWins

LEMMA SocketKeepsOrder ==
    ASSUME Base, OrderInv, Socket PROVE OrderInv'
  <1>1. /\ UNCHANGED <<web_vars, win_vars>> /\ UNCHANGED then
        /\ ui' = "idle" <=> ui = "idle"
    BY SocketKeeps
  <1>2. Order' /\ LatestLoginWins'
    BY <1>1 DEF web_vars, win_vars, OrderInv, Order, Through, LatestLoginWins
  <1>3. Served'
    BY <1>1 DEF web_vars, win_vars, OrderInv, Served, Through
  <1>. QED  BY <1>2, <1>3 DEF OrderInv

LEMMA WebKeepsOrder == ASSUME OrderInv, Web PROVE OrderInv'
  <1>. USE DEF OrderInv, Order, Through
  <1>1. UNCHANGED <<vars, win_vars>>
    BY DEF Web, action_Login, TakeRequest, Respond
  <1>2. Through' = Through
    <2>1. CASE action_Login
      BY <2>1 DEF action_Login, Commit
    <2>2. CASE TakeRequest
      <3>1. /\ busy = 0 /\ jobs # <<>>
            /\ busy' = Head(jobs) /\ jobs' = Tail(jobs) /\ UNCHANGED <<sent, answers>>
        BY <2>2 DEF TakeRequest
      <3>2. Len(jobs) >= 1 /\ Len(jobs') = Len(jobs) - 1 /\ Head(jobs) = jobs[1]
        BY <3>1
      <3>3. Len(jobs) <= sent /\ jobs[1] = sent - Len(jobs) + 1
        BY <3>1, <3>2
      <3>4. busy' # 0
        BY <3>1, <3>2, <3>3
      <3>. QED  BY <3>1, <3>2, <3>4
    <2>3. CASE Respond
      BY <2>3 DEF Respond, EmitResponse
    <2>. QED  BY <2>1, <2>2, <2>3 DEF Web
  <1>3. Served' /\ LatestLoginWins'
    BY <1>1, <1>2 DEF vars, ui_vars, win_vars, Served, LatestLoginWins
  <1>4. Order'
    <2>. UNCHANGED <<serving, handled, granted>>
      BY <1>1 DEF win_vars
    <2>. HIDE DEF Through
    <2>1. CASE action_Login
      <3>1. sent' = sent + 1 /\ jobs' = Append(jobs, sent + 1) /\ UNCHANGED <<busy, answers>>
        BY <2>1 DEF action_Login, Commit
      <3>2. jobs' \in Seq(Nat) /\ Len(jobs') = Len(jobs) + 1
        BY <3>1
      <3>3. \A i \in 1 .. Len(jobs') : jobs'[i] = sent' - Len(jobs') + i
        BY <3>1, <3>2
      <3>4. sent' \in Nat /\ (busy' # 0 => busy' = sent' - Len(jobs'))
        BY <3>1, <3>2
      <3>5. \A i \in 1 .. Len(answers') : answers'[i][1] = Through' + i
        BY <1>2, <3>1
      <3>6. Through' \in Nat /\ handled' \subseteq 1 .. Through'
        BY <1>2
      <3>. QED  BY <3>1, <3>2, <3>3, <3>4, <3>5, <3>6
    <2>2. CASE TakeRequest
      <3>1. /\ busy = 0 /\ jobs # <<>>
            /\ busy' = Head(jobs) /\ jobs' = Tail(jobs) /\ UNCHANGED <<sent, answers>>
        BY <2>2 DEF TakeRequest
      <3>2. jobs' \in Seq(Nat) /\ Len(jobs') = Len(jobs) - 1 /\ busy' = jobs[1] /\ Len(jobs) >= 1
        BY <3>1
      <3>3. \A i \in 1 .. Len(jobs') : jobs'[i] = sent' - Len(jobs') + i
        BY <3>1, <3>2
      <3>4. busy' \in Nat /\ busy' = sent' - Len(jobs')
        BY <3>1, <3>2
      <3>. QED  BY <1>2, <3>1, <3>2, <3>3, <3>4
    <2>3. CASE Respond
      <3>1. PICK good \in BOOLEAN : answers' = Append(answers, <<busy, good>>)
        BY <2>3 DEF Respond, EmitResponse
      <3>2. busy # 0 /\ busy' = 0 /\ UNCHANGED <<sent, jobs>>
        BY <2>3 DEF Respond
      <3>3. answers' \in Seq(Nat \X BOOLEAN) /\ Len(answers') = Len(answers) + 1
        BY <3>1
      <3>4. busy = Through + Len(answers) + 1
        BY <3>2 DEF Through
      <3>5. \A i \in 1 .. Len(answers) : answers'[i] = answers[i]
        BY <3>1
      <3>6. answers'[Len(answers) + 1][1] = busy
        BY <3>1
      <3>7. \A i \in 1 .. Len(answers') : answers'[i][1] = Through + i
        <4>. SUFFICES ASSUME NEW i \in 1 .. Len(answers') PROVE answers'[i][1] = Through + i
          OBVIOUS
        <4>1. CASE i \in 1 .. Len(answers)
          BY <3>5, <4>1
        <4>2. CASE i = Len(answers) + 1
          BY <3>4, <3>6, <4>2
        <4>. QED  BY <3>3, <4>1, <4>2
      <3>. QED  BY <1>2, <3>2, <3>3, <3>7
    <2>. QED  BY <2>1, <2>2, <2>3 DEF Web
  <1>. QED  BY <1>3, <1>4

\* An answer is taken: it is of the next request.
LEMMA AnswerTaken ==
    ASSUME Order, answers # <<>>, answers' = Tail(answers), UNCHANGED <<sent, jobs, busy>>
    PROVE  /\ Through' = Through + 1 /\ Through' \in Nat
           /\ Head(answers)[1] = Through'
           /\ answers' \in Seq(Nat \X BOOLEAN)
           /\ \A i \in 1 .. Len(answers') : answers'[i][1] = Through' + i
  <1>. USE DEF Order
  <1>1. /\ Len(answers) >= 1 /\ Len(answers') = Len(answers) - 1
        /\ answers' \in Seq(Nat \X BOOLEAN)
        /\ \A i \in 1 .. Len(answers') : answers'[i] = answers[i + 1]
    OBVIOUS
  <1>2. Through' = Through + 1 /\ Through \in Int
    BY <1>1 DEF Through
  <1>3. Head(answers) = answers[1]
    OBVIOUS
  <1>. HIDE DEF Through
  <1>. QED  BY <1>1, <1>2, <1>3

LEMMA WindowKeepsOrder == ASSUME OrderInv, Window PROVE OrderInv'
  <1>. USE DEF OrderInv
  <1>1. CASE Refused
    <2>1. /\ answers # <<>> /\ answers' = Tail(answers) /\ UNCHANGED <<sent, jobs, busy>>
          /\ handled' = handled \cup {Head(answers)[1]}
          /\ UNCHANGED <<vars, granted, serving, device>> /\ ui = "idle"
      BY <1>1 DEF Refused
    <2>2. serving = 0 /\ serving' = 0
      BY <2>1 DEF Served
    <2>3. /\ Through' = Through + 1 /\ Through' \in Nat /\ handled' = handled \cup {Through'}
          /\ answers' \in Seq(Nat \X BOOLEAN)
          /\ \A i \in 1 .. Len(answers') : answers'[i][1] = Through' + i
      BY <2>1, AnswerTaken
    <2>4. handled' \subseteq 1 .. Through'
      BY <2>3 DEF Order
    <2>5. Order'
      BY <2>1, <2>2, <2>3, <2>4 DEF Order
    <2>. QED  BY <2>1, <2>2, <2>5 DEF Served, LatestLoginWins, vars, ui_vars
  <1>2. CASE Granted
    <2>1. /\ answers # <<>> /\ answers' = Tail(answers) /\ UNCHANGED <<sent, jobs, busy>>
          /\ serving' = Head(answers)[1] /\ UNCHANGED <<handled, granted, device>>
          /\ ui' # "idle" /\ then' = "run"
      BY <1>2 DEF Granted, Stop
    <2>2. /\ Through' = Through + 1 /\ Through' \in Nat /\ serving' = Through'
          /\ answers' \in Seq(Nat \X BOOLEAN)
          /\ \A i \in 1 .. Len(answers') : answers'[i][1] = Through' + i
      BY <2>1, AnswerTaken
    <2>3. handled' \subseteq 1 .. Through' /\ serving' # 0
      BY <2>1, <2>2 DEF Order
    <2>4. Order'
      BY <2>1, <2>2, <2>3 DEF Order
    <2>. QED  BY <2>1, <2>2, <2>3, <2>4 DEF Served, LatestLoginWins
  <1>3. CASE LogIn
    <2>1. /\ device' = serving /\ serving' = 0 /\ ui' = "idle"
          /\ handled' = handled \cup {serving} /\ granted' = granted \cup {serving}
          /\ UNCHANGED <<sent, jobs, busy, answers>>
          /\ ui = "returns" /\ then = "run"
      BY <1>3 DEF LogIn, Login, web_vars
    <2>2. serving # 0 /\ serving = Through /\ Through' = Through
      BY <2>1 DEF Served, Through
    <2>. HIDE DEF Through
    <2>. QED  BY <2>1, <2>2 DEF Order, Served, LatestLoginWins
  <1>4. CASE on_btn_back_clicked \/ ShowFirstPage \/ RunPlayer \/ SwitchDevice
    <2>1. UNCHANGED <<web_vars, handled, granted, serving, device>>
      BY <1>4 DEF on_btn_back_clicked, ShowFirstPage, RunPlayer, SwitchDevice, win_vars, web_vars
    <2>2. Order' /\ LatestLoginWins' /\ Through' = Through
      BY <2>1 DEF Order, LatestLoginWins, Through, web_vars
    <2>3. (ui' # "idle" /\ then' = "run") <=> (ui # "idle" /\ then = "run")
      BY <1>4 DEF on_btn_back_clicked, StopForBack, Stop, ShowFirstPage, Back, RunPlayer,
                  SwitchDevice, SafeSend, vars, ui_vars
    <2>. QED  BY <2>1, <2>2, <2>3 DEF Served
  <1>. QED  BY <1>1, <1>2, <1>3, <1>4 DEF Window

LEMMA OrderHolds == LSpec => []OrderInv
  <1>1. LInit => OrderInv
    BY DEF LInit, Init, OrderInv, Order, Served, LatestLoginWins, Through
  <1>2. WsInv /\ OrderInv /\ [LNext]_all_vars => OrderInv'
    <2>. SUFFICES ASSUME WsInv, OrderInv, [LNext]_all_vars PROVE OrderInv'
      OBVIOUS
    <2>1. CASE UNCHANGED all_vars
      BY <2>1 DEF all_vars, vars, ui_vars, web_vars, win_vars, OrderInv, Order, Served,
                  LatestLoginWins, Through
    <2>2. CASE LNext
      BY <2>2, WebKeepsOrder, WindowKeepsOrder, SocketKeepsOrder DEF LNext, WsInv, Base
    <2>. QED  BY <2>1, <2>2
  <1>. QED  BY <1>1, <1>2, Owned, PTL DEF LSpec

\* The device in use is of the login asked for last among those granted, for any number
\* of requests made by presses, clicks and keys.
THEOREM LatestWins == LSpec => []LatestLoginWins
  <1>1. OrderInv => LatestLoginWins
    BY DEF OrderInv
  <1>. QED  BY <1>1, OrderHolds, PTL

----------------------------------------------------------------------------
(* Types *)

\* There is a WebSocket behind the second page and behind every player.
Pages ==
    /\ sent \in 0 .. MaxRuns
    /\ page \in {0, 1} /\ players \in 0 .. MaxPlayers
    /\ page = 1 \/ players > 0 => cli # 0

LEMMA PagesStep ==
    ASSUME WsInv, OrderInv, Pages, [LNext]_all_vars PROVE Pages'
  <1>. USE WsAssumption, LauncherAssumption DEF Pages
  <1>1. CASE UNCHANGED <<sent, page, players, cli>>
    BY <1>1
  <1>2. CASE action_Login
    BY <1>2 DEF action_Login, vars, ui_vars, win_vars, OrderInv, Order
  <1>3. CASE TakeRequest \/ Respond \/ Refused \/ UNCHANGED all_vars
    BY <1>1, <1>3 DEF TakeRequest, Respond, Refused, all_vars, vars, ui_vars, web_vars, win_vars
  <1>4. CASE LogIn
    <2>1. UNCHANGED <<sent, players>> /\ page' = 1 /\ \E good \in BOOLEAN : Run(good)
      BY <1>4 DEF LogIn, Login, web_vars
    <2>2. cli' = cli + 1 /\ cli \in Nat
      BY <2>1 DEF Run, WsInv, TypeOK
    <2>. QED  BY <2>1, <2>2
  <1>5. CASE Granted \/ on_btn_back_clicked \/ SwitchDevice
    BY <1>1, <1>5 DEF Granted, on_btn_back_clicked, StopForBack, Stop, SwitchDevice,
                      SafeSend, ui_vars, web_vars, win_vars
  <1>6. CASE ShowFirstPage
    BY <1>6 DEF ShowFirstPage, Back, web_vars
  <1>7. CASE RunPlayer
    BY <1>7 DEF RunPlayer, vars, ui_vars, web_vars
  <1>8. CASE Socket
    BY <1>1, <1>8, SocketKeeps DEF WsInv, Base, web_vars, win_vars
  <1>. QED  BY <1>2, <1>3, <1>4, <1>5, <1>6, <1>7, <1>8 DEF LNext, Web, Window

LEMMA TypesFollow == WsInv /\ OrderInv /\ Pages => LTypeOK
  <1>. SUFFICES ASSUME WsInv, OrderInv, Pages PROVE LTypeOK
    OBVIOUS
  <1>1. Through \in 0 .. sent /\ Through + Len(answers) <= sent /\ Len(jobs) <= sent
    BY DEF OrderInv, Order, Through
  <1>2. jobs \in Seq(1 .. sent)
    <2>1. \A i \in 1 .. Len(jobs) : jobs[i] \in 1 .. sent
      BY <1>1 DEF OrderInv, Order
    <2>2. Len(jobs) \in Nat /\ jobs \in [1 .. Len(jobs) -> Nat]
      BY DEF OrderInv, Order
    <2>3. jobs \in [1 .. Len(jobs) -> 1 .. sent]
      BY <2>1, <2>2
    <2>. QED  BY <2>2, <2>3, SeqDef
  <1>3. answers \in Seq((1 .. sent) \X BOOLEAN)
    <2>1. \A i \in 1 .. Len(answers) : answers[i] \in Nat \X BOOLEAN
      BY DEF OrderInv, Order
    <2>2. \A i \in 1 .. Len(answers) : answers[i][1] \in 1 .. sent
      <3>. HIDE DEF Through
      <3>. QED  BY <1>1 DEF OrderInv, Order
    <2>3. \A i \in 1 .. Len(answers) : answers[i] \in (1 .. sent) \X BOOLEAN
      BY <2>1, <2>2
    <2>4. Len(answers) \in Nat /\ answers \in [1 .. Len(answers) -> Nat \X BOOLEAN]
      BY DEF OrderInv, Order
    <2>5. answers \in [1 .. Len(answers) -> (1 .. sent) \X BOOLEAN]
      BY <2>3, <2>4
    <2>. QED  BY <2>4, <2>5, SeqDef
  <1>4. /\ busy \in 0 .. sent /\ serving \in 0 .. sent
        /\ handled \subseteq 1 .. sent /\ device \in 0 .. sent
    BY <1>1 DEF OrderInv, Order, Served, LatestLoginWins
  <1>. QED  BY <1>2, <1>3, <1>4 DEF LTypeOK, Pages, WsInv, OrderInv, Order

\* Every variable of the launcher keeps its type, and no player is started, and no
\* device switched, without a WebSocket having been run.
THEOREM LauncherTypeCorrect == LSpec => []LTypeOK
  <1>1. LInit => Pages
    BY WsAssumption, LauncherAssumption DEF LInit, Init, Pages
  <1>2. WsInv /\ OrderInv /\ Pages /\ [LNext]_all_vars => Pages'
    BY PagesStep
  <1>. QED  BY <1>1, <1>2, TypesFollow, Owned, OrderHolds, PTL DEF LSpec
==============================================================================

------------------------------ MODULE Launcher ------------------------------
(***************************************************************************)
(* The launcher: its window, its HTTP requests and the WebSocket they      *)
(* start.  Each press of the button of the login, and each click, commits  *)
(* a request to the one worker of eWebRequest's pool; the worker answers   *)
(* by a signal that waits in the event queue of the user interface; and    *)
(* the answer of a login that succeeded stops the WebSocket of the last    *)
(* one, keeps the addresses of its device, shows the second page and runs  *)
(* a WebSocket for the new one.                                            *)
(*                                                                         *)
(* The module adds the window and the requests to WsClient: what the user  *)
(* interface does there when it pleases, it does here when an answer or    *)
(* the user tells it to.  A login is known by the number of its request.   *)
(* While it is inside Stop the user interface handles no event.            *)
(***************************************************************************)
EXTENDS WsClient, Sequences

CONSTANT MaxPlayers     \* bound: how many players are started

ASSUME LauncherAssumption == MaxPlayers \in Nat

Request == 1 .. MaxRuns     \* bound: no more requests than calls of Run

VARIABLES
    sent,       \* how many requests were committed
    jobs,       \* the tasks of the pool
    busy,       \* the request its worker has in hand, 0 if none
    answers,    \* the answers in the event queue of the user interface
    handled,    \* history: the requests whose answer was handled
    granted,    \* history: those of them that were logged in
    serving,    \* the request whose answer is being handled, 0 if none
    page,       \* the current index of rh_group
    device,     \* the login whose device _avport, _ip, ... are of, 0 if none
    players     \* _id: the players started

web_vars == <<sent, jobs, busy, answers>>
win_vars == <<handled, granted, serving, page, device, players>>
all_vars == <<vars, web_vars, win_vars>>

LInit ==
    /\ Init
    /\ sent = 0 /\ jobs = <<>> /\ busy = 0 /\ answers = <<>>
    /\ handled = {} /\ granted = {} /\ serving = 0
    /\ page = 0 /\ device = 0 /\ players = 0

----------------------------------------------------------------------------
(* The requests *)

\* Mutant: the newest request is the first the worker takes.
CommitNewest(n) == jobs' = <<n>> \o jobs

Commit(n) == jobs' = Append(jobs, n)

\* action_Login: for the button when it is pressed and when it is clicked, and for
\* the return key; RHLogin commits the request.
action_Login ==
    /\ ui = "idle" /\ page = 0
    /\ sent < MaxRuns
    /\ sent' = sent + 1
    /\ Commit(sent')
    /\ UNCHANGED <<vars, busy, answers, win_vars>>

TakeRequest ==
    /\ busy = 0 /\ jobs # <<>>
    /\ busy' = Head(jobs) /\ jobs' = Tail(jobs)
    /\ UNCHANGED <<vars, sent, answers, win_vars>>

\* Mutant: a request without a reply answers nothing.
AnswerSuccess(n, good) == answers' = IF good THEN Append(answers, <<n, good>>) ELSE answers

EmitResponse(n, good) == answers' = Append(answers, <<n, good>>)

\* briage_HttpsPostContent: the request ends by its answer or its time limit, and
\* either way a signal is emitted.
Respond ==
    /\ busy # 0
    /\ \E good \in BOOLEAN : EmitResponse(busy, good)
    /\ busy' = 0
    /\ UNCHANGED <<vars, sent, jobs, win_vars>>

----------------------------------------------------------------------------
(* The window *)

\* webResponse_handler: an answer that is no success shows a message.
Refused ==
    /\ ui = "idle" /\ answers # <<>>
    /\ ~Head(answers)[2]
    /\ answers' = Tail(answers)
    /\ handled' = handled \cup {Head(answers)[1]}
    /\ UNCHANGED <<vars, sent, jobs, busy, granted, serving, page, device, players>>

\* The answer of a login that succeeded begins with Stop ...
Granted ==
    /\ answers # <<>>
    /\ Head(answers)[2]
    /\ Stop("run")
    /\ answers' = Tail(answers)
    /\ serving' = Head(answers)[1]
    /\ UNCHANGED <<sent, jobs, busy, handled, granted, page, device, players>>

\* ... and goes on when Stop has returned.
LogIn ==
    /\ Login
    /\ device' = serving
    /\ page' = 1
    /\ handled' = handled \cup {serving}
    /\ granted' = granted \cup {serving}
    /\ serving' = 0
    /\ UNCHANGED <<web_vars, players>>

\* Mutant: the back button leaves the WebSocket alone.
PageOnly == ui = "idle" /\ ui' = "returns" /\ then' = "nothing"
            /\ UNCHANGED <<run, done, stopDone, cli, early, loop_vars>>

StopForBack == Stop("nothing")

on_btn_back_clicked ==
    /\ page = 1
    /\ StopForBack
    /\ UNCHANGED <<web_vars, win_vars>>

ShowFirstPage ==
    /\ Back
    /\ page' = 0
    /\ UNCHANGED <<web_vars, handled, granted, serving, device, players>>

\* on_btn_launch_clicked
RunPlayer ==
    /\ ui = "idle" /\ page = 1 /\ players < MaxPlayers
    /\ players' = players + 1
    /\ UNCHANGED <<vars, web_vars, handled, granted, serving, page, device>>

\* A player asks for another device.
SwitchDevice ==
    /\ players > 0
    /\ SafeSend
    /\ UNCHANGED <<web_vars, win_vars>>

----------------------------------------------------------------------------
Web == action_Login \/ TakeRequest \/ Respond

Window ==
    \/ Refused \/ Granted \/ LogIn
    \/ on_btn_back_clicked \/ ShowFirstPage \/ RunPlayer \/ SwitchDevice

\* Stop and the loops go on as in WsClient.
Inside(step) == step /\ UNCHANGED <<web_vars, win_vars>>

Socket == Inside(Mark \/ StopEndpoint \/ TimeLimit \/ \E e \in Endpoint : Loop(e))

LNext == Web \/ Window \/ Socket

LSpec == LInit /\ [][LNext]_all_vars

\* The worker works and its requests have a time limit; the user interface handles its
\* events; a call of Stop goes on, its time passes and its caller goes on; the thread
\* of a loop is scheduled and its timers come due.  Nobody is obliged to press or
\* click, nor the server of the WebSocket to answer.
LFairSpec ==
    /\ LSpec
    /\ WF_all_vars(TakeRequest) /\ WF_all_vars(Respond)
    /\ WF_all_vars(Refused) /\ WF_all_vars(Granted)
    /\ WF_all_vars(LogIn) /\ WF_all_vars(ShowFirstPage)
    /\ WF_all_vars(Inside(Mark)) /\ WF_all_vars(Inside(StopEndpoint))
    /\ WF_all_vars(Inside(TimeLimit))
    /\ \A e \in Endpoint :
         /\ WF_all_vars(Inside(Connect(e))) /\ WF_all_vars(Inside(ReConnectTimer(e)))
         /\ WF_all_vars(Inside(Leave(e))) /\ WF_all_vars(Inside(ClearRun(e)))
         /\ WF_all_vars(Inside(Notify(e)))

----------------------------------------------------------------------------
(* Properties *)

\* Every variable has a value of its type, and there is a WebSocket, perhaps of a bad
\* address, wherever the window lets a player be started.
LTypeOK ==
    /\ TypeOK
    /\ sent \in 0 .. MaxRuns /\ busy \in 0 .. sent /\ serving \in 0 .. sent
    /\ jobs \in Seq(1 .. sent) /\ answers \in Seq((1 .. sent) \X BOOLEAN)
    /\ granted \subseteq handled /\ handled \subseteq 1 .. sent
    /\ page \in {0, 1} /\ device \in 0 .. sent /\ players \in 0 .. MaxPlayers
    /\ page = 1 \/ players > 0 => cli # 0

\* On the first page no loop is at work, whatever answers and clicks came in which
\* order, unless a wait of Stop was cut short.
NoSocketOnFirstPage ==
    page = 0 /\ ~early => \A e \in Endpoint : place[e] \notin {"new", "run"}

\* The device that is used is of the login that was asked for last among those
\* granted so far: two requests of one click, or a login after a slow one, cannot
\* leave the window with the older device.
LatestLoginWins ==
    /\ device \in granted \cup {0}
    /\ \A n \in granted : n <= device

\* Each request is answered and its answer handled.
RequestsHandled == \A n \in Request : (sent >= n) ~> (n \in handled)
=============================================================================

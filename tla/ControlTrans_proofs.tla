------------------------- MODULE ControlTrans_proofs -------------------------
(***************************************************************************)
(* Theorems about ControlTrans, for every period of the heartbeat, every   *)
(* time-out and any number of connections.                                 *)
(***************************************************************************)
EXTENDS ControlTrans, FiniteSetTheorems, SequenceTheorems, TLAPS

USE ControlTransAssumption

LEMMA LongestBounds ==
    /\ Longest \in Nat
    /\ HeartEvery \in 1 .. Longest /\ Timeout \in 1 .. Longest /\ TriggerAfter \in 1 .. Longest
  <1>. DEFINE S == {HeartEvery, Timeout, TriggerAfter}
  <1>1. \E x \in S : \A y \in S : x >= y
    OBVIOUS
  <1>2. Longest \in S /\ \A y \in S : Longest >= y
    BY <1>1 DEF Longest, Max
  <1>. QED  BY <1>2

\* What the request needs: counts of timers are no less than none, and a request whose
\* callbacks are kept has a time-out to come.
TimersCounted == timer \in [Kind -> [0 .. Longest -> Nat]]

TimeOutInv == TimersCounted /\ RequestTimesOut

LEMMA DelayedFacts ==
    ASSUME NEW tm \in [Kind -> [0 .. Longest -> Nat]], NEW k \in Kind, NEW n \in 0 .. Longest
    PROVE  /\ Delayed(tm, k, n) \in [Kind -> [0 .. Longest -> Nat]]
           /\ Delayed(tm, k, n)[k][n] > 0
           /\ \A j \in Kind : \A l \in 0 .. Longest : Delayed(tm, k, n)[j][l] >= tm[j][l]
  <1>1. tm[k] \in [0 .. Longest -> Nat] /\ tm[k][n] \in Nat
    OBVIOUS
  <1>2. PICK row : row = [tm[k] EXCEPT ![n] = @ + 1]
    OBVIOUS
  <1>3. /\ row \in [0 .. Longest -> Nat] /\ row[n] = tm[k][n] + 1
        /\ \A l \in 0 .. Longest : row[l] >= tm[k][l]
    BY <1>1, <1>2
  <1>4. Delayed(tm, k, n) = [tm EXCEPT ![k] = row]
    BY <1>2 DEF Delayed
  <1>5. ASSUME NEW j \in Kind, NEW l \in 0 .. Longest PROVE Delayed(tm, k, n)[j][l] >= tm[j][l]
    <2>1. tm[j][l] \in Nat
      OBVIOUS
    <2>2. Delayed(tm, k, n)[j] = IF j = k THEN row ELSE tm[j]
      BY <1>4
    <2>. QED  BY <1>3, <2>1, <2>2
  <1>. QED  BY <1>1, <1>3, <1>4, <1>5

LEMMA FiredFacts ==
    ASSUME NEW tm \in [Kind -> [0 .. Longest -> Nat]], NEW k \in Kind, tm[k][0] > 0
    PROVE  /\ Fired(tm, k) \in [Kind -> [0 .. Longest -> Nat]]
           /\ \A j \in Kind : j # k => Fired(tm, k)[j] = tm[j]
  <1>1. 0 \in 0 .. Longest
    BY LongestBounds
  <1>2. tm[k] \in [0 .. Longest -> Nat] /\ tm[k][0] \in Nat
    BY <1>1
  <1>3. PICK row : row = [tm[k] EXCEPT ![0] = @ - 1]
    OBVIOUS
  <1>4. row \in [0 .. Longest -> Nat]
    BY <1>1, <1>2, <1>3
  <1>5. Fired(tm, k) = [tm EXCEPT ![k] = row]
    BY <1>3 DEF Fired
  <1>. QED  BY <1>4, <1>5

\* The steps that take no time-out away
LEMMA TimeOutsStay ==
    ASSUME TimeOutInv, TimersCounted', UNCHANGED <<recvCB, failCB>>,
           \A l \in 0 .. Longest : timer'["RemoveCB"][l] >= timer["RemoveCB"][l]
    PROVE  TimeOutInv'
  <1>1. \A l \in 0 .. Timeout : l \in 0 .. Longest
    BY LongestBounds
  <1>2. \A l \in 0 .. Longest : timer["RemoveCB"][l] \in Nat /\ timer'["RemoveCB"][l] \in Nat
    BY DEF TimeOutInv, TimersCounted, Kind
  <1>. QED  BY <1>1, <1>2 DEF TimeOutInv, RequestTimesOut

LEMMA PlansKeepTimeOuts ==
    ASSUME TimeOutInv, NEW k \in Kind, NEW n \in 0 .. Longest,
           timer' = Delayed(timer, k, n), UNCHANGED <<recvCB, failCB>>
    PROVE  TimeOutInv'
  <1>1. "RemoveCB" \in Kind
    BY DEF Kind
  <1>. QED  BY <1>1, DelayedFacts, TimeOutsStay DEF TimeOutInv, TimersCounted

LEMMA SendTcpDataPlansTimeOut ==
    ASSUME NEW tm \in [Kind -> [0 .. Longest -> Nat]], SendTcpData(tm)
    PROVE  TimeOutInv'
  <1>1. "RemoveCB" \in Kind /\ Timeout \in 0 .. Longest /\ Timeout \in 0 .. Timeout
    BY LongestBounds DEF Kind
  <1>2. CASE ~recvCB /\ ~failCB /\ connected
    <2>1. recvCB' = TRUE /\ failCB' = TRUE /\ timer' = Delayed(tm, "RemoveCB", Timeout)
      BY <1>2 DEF SendTcpData
    <2>2. /\ timer' \in [Kind -> [0 .. Longest -> Nat]]
          /\ timer'["RemoveCB"][Timeout] > 0
      BY <1>1, <2>1, DelayedFacts
    <2>. QED  BY <1>1, <2>1, <2>2 DEF TimeOutInv, TimersCounted, RequestTimesOut
  <1>3. CASE ~(~recvCB /\ ~failCB /\ connected)
    <2>1. recvCB' = FALSE /\ failCB' = FALSE /\ timer' = tm
      BY <1>3 DEF SendTcpData
    <2>. QED  BY <2>1 DEF TimeOutInv, TimersCounted, RequestTimesOut
  <1>. QED  BY <1>2, <1>3

LEMMA TickKeepsTimeOuts == ASSUME TimeOutInv, Tick PROVE TimeOutInv'
  <1>0. Longest \in Nat /\ Longest > 0 /\ Timeout \in 1 .. Longest
    BY LongestBounds
  <1>1. PICK old : old = timer["RemoveCB"]
    OBVIOUS
  <1>2. /\ timer' = [k \in Kind |-> [l \in 0 .. Longest |->
                        IF l = 0 THEN timer[k][0] + timer[k][1]
                        ELSE IF l = Longest THEN 0 ELSE timer[k][l + 1]]]
        /\ UNCHANGED <<recvCB, failCB>>
    BY DEF Tick
  <1>3. TimersCounted'
    <2>1. ASSUME NEW k \in Kind, NEW l \in 0 .. Longest
          PROVE  (IF l = 0 THEN timer[k][0] + timer[k][1]
                  ELSE IF l = Longest THEN 0 ELSE timer[k][l + 1]) \in Nat
      <3>1. \A i \in 0 .. Longest : timer[k][i] \in Nat
        BY DEF TimeOutInv, TimersCounted
      <3>2. 0 \in 0 .. Longest /\ 1 \in 0 .. Longest
        BY <1>0
      <3>3. l # Longest => l + 1 \in 0 .. Longest
        BY <1>0
      <3>. QED  BY <3>1, <3>2, <3>3
    <2>. QED  BY <1>2, <2>1 DEF TimersCounted
  <1>4. CASE recvCB
    <2>1. PICK l \in 0 .. Timeout : timer["RemoveCB"][l] > 0
      BY <1>4 DEF TimeOutInv, RequestTimesOut
    <2>2. PICK i \in 0 .. Timeout : i = IF l = 0 THEN 0 ELSE l - 1
      BY <1>0
    <2>3. /\ i \in 0 .. Longest /\ 0 \in 0 .. Longest /\ 1 \in 0 .. Longest
          /\ l \in 0 .. Longest /\ (l # 0 => i + 1 = l /\ i # Longest)
      BY <1>0, <2>2
    <2>4. \A j \in 0 .. Longest : timer["RemoveCB"][j] \in Nat
      BY DEF TimeOutInv, TimersCounted, Kind
    <2>5. timer'["RemoveCB"][i] = IF i = 0 THEN timer["RemoveCB"][0] + timer["RemoveCB"][1]
                                  ELSE IF i = Longest THEN 0 ELSE timer["RemoveCB"][i + 1]
      BY <1>2, <2>3 DEF Kind
    <2>6. timer'["RemoveCB"][i] > 0
      <3>1. CASE l = 0
        BY <2>1, <2>2, <2>3, <2>4, <2>5, <3>1
      <3>2. CASE l = 1
        BY <2>1, <2>2, <2>3, <2>4, <2>5, <3>2
      <3>3. CASE l # 0 /\ l # 1
        <4>1. i # 0 /\ i # Longest /\ i + 1 = l
          BY <2>2, <2>3, <3>3
        <4>. QED  BY <2>1, <2>5, <4>1
      <3>. QED  BY <3>1, <3>2, <3>3
    <2>. QED  BY <1>2, <1>3, <2>6 DEF TimeOutInv, RequestTimesOut
  <1>5. CASE ~recvCB
    BY <1>2, <1>3, <1>5 DEF TimeOutInv, RequestTimesOut
  <1>. QED  BY <1>4, <1>5

LEMMA NextKeepsTimeOuts == ASSUME TimeOutInv, [Next]_vars PROVE TimeOutInv'
  <1>0. /\ HeartEvery \in 0 .. Longest /\ TriggerAfter \in 0 .. Longest
        /\ "SendHeart" \in Kind /\ "RemoveCB" \in Kind /\ "trigger" \in Kind
        /\ timer \in [Kind -> [0 .. Longest -> Nat]]
    BY LongestBounds DEF Kind, TimeOutInv, TimersCounted
  <1>1. ASSUME UNCHANGED <<timer, recvCB, failCB>> PROVE TimeOutInv'
    BY <1>1 DEF TimeOutInv, TimersCounted, RequestTimesOut
  <1>2. CASE UNCHANGED vars
    BY <1>1, <1>2 DEF vars
  <1>3. CASE BeginConnectCB \/ LoseConnection \/ RunSetConnState
    BY <1>1, <1>3 DEF BeginConnectCB, LoseConnection, RunSetConnState
  <1>4. CASE RemoteConnectCB
    <2>1. CASE CBSendHeart
      BY <1>0, <2>1, PlansKeepTimeOuts DEF CBSendHeart
    <2>2. CASE ~CBSendHeart
      BY <1>1, <1>4, <2>2 DEF RemoteConnectCB, CBPost, CBStatus
    <2>. QED  BY <2>1, <2>2
  <1>5. CASE RunSendClearApps
    <2>1. SendTcpData(Delayed(timer, "trigger", TriggerAfter))
      BY <1>5 DEF RunSendClearApps, SendClearApps
    <2>2. Delayed(timer, "trigger", TriggerAfter) \in [Kind -> [0 .. Longest -> Nat]]
      BY <1>0, DelayedFacts
    <2>. QED  BY <2>1, <2>2, SendTcpDataPlansTimeOut
  <1>6. CASE FireSendHeart
    <2>. DEFINE tm == Fired(timer, "SendHeart")
    <2>1. /\ tm \in [Kind -> [0 .. Longest -> Nat]] /\ tm["RemoveCB"] = timer["RemoveCB"]
      BY <1>0, <1>6, FiredFacts DEF FireSendHeart
    <2>2. timer' = Delayed(tm, "SendHeart", HeartEvery) /\ UNCHANGED <<recvCB, failCB>>
      BY <1>6 DEF FireSendHeart, SendHeart
    <2>. HIDE DEF tm
    <2>3. /\ timer' \in [Kind -> [0 .. Longest -> Nat]]
          /\ \A l \in 0 .. Longest : timer'["RemoveCB"][l] >= timer["RemoveCB"][l]
      BY <1>0, <2>1, <2>2, DelayedFacts
    <2>. QED  BY <2>2, <2>3, TimeOutsStay DEF TimersCounted
  <1>7. CASE FireRemoveCB
    <2>1. timer' \in [Kind -> [0 .. Longest -> Nat]] /\ recvCB' = FALSE /\ failCB' = FALSE
      BY <1>0, <1>7, FiredFacts DEF FireRemoveCB, RemoveCB
    <2>. QED  BY <2>1 DEF TimeOutInv, TimersCounted, RequestTimesOut
  <1>8. CASE triggerStraamThread
    <2>1. /\ timer' \in [Kind -> [0 .. Longest -> Nat]] /\ timer'["RemoveCB"] = timer["RemoveCB"]
          /\ UNCHANGED <<recvCB, failCB>>
      BY <1>0, <1>8, FiredFacts DEF triggerStraamThread
    <2>. QED  BY <2>1 DEF TimeOutInv, TimersCounted, RequestTimesOut
  <1>9. CASE Tick
    BY <1>9, TickKeepsTimeOuts
  <1>. QED  BY <1>2, <1>3, <1>4, <1>5, <1>6, <1>7, <1>8, <1>9 DEF Next, ControlStep

\* No request's callbacks are kept without a time-out to come, whatever connections come
\* and go and whatever calls are refused: both maps have the request or neither has, and
\* its name is not blocked for good.
THEOREM RequestsTimeOut == Spec => []RequestTimesOut
  <1>1. Init => TimeOutInv
    BY LongestBounds DEF Init, TimeOutInv, TimersCounted, RequestTimesOut
  <1>2. TimeOutInv /\ [Next]_vars => TimeOutInv'
    BY NextKeepsTimeOuts
  <1>3. TimeOutInv => RequestTimesOut
    BY DEF TimeOutInv
  <1>. QED  BY <1>1, <1>2, <1>3, PTL DEF Spec
----------------------------------------------------------------------------
(* Requests that end early *)

LEMMA DelayedRow ==
    ASSUME NEW tm \in [Kind -> [0 .. Longest -> Nat]], NEW k \in Kind, NEW n \in 0 .. Longest
    PROVE  \A l \in 0 .. Longest :
                Delayed(tm, k, n)[k][l] = IF l = n THEN tm[k][l] + 1 ELSE tm[k][l]
  <1>0. tm[k] \in [0 .. Longest -> Nat] /\ tm[k][n] \in Nat
    OBVIOUS
  <1>1. PICK row : row = [tm[k] EXCEPT ![n] = @ + 1]
    OBVIOUS
  <1>2. \A l \in 0 .. Longest : row[l] = IF l = n THEN tm[k][l] + 1 ELSE tm[k][l]
    BY <1>0, <1>1
  <1>3. Delayed(tm, k, n) = [tm EXCEPT ![k] = row]
    BY <1>1 DEF Delayed
  <1>. QED  BY <1>0, <1>2, <1>3

LEMMA DelayedTyped ==
    ASSUME NEW tm \in [Kind -> [0 .. Longest -> Nat]], NEW k \in Kind, NEW n \in 0 .. Longest
    PROVE  Delayed(tm, k, n) \in [Kind -> [0 .. Longest -> Nat]]
  BY DelayedFacts

LEMMA DelayedElsewhere ==
    ASSUME NEW tm \in [Kind -> [0 .. Longest -> Nat]], NEW k \in Kind, NEW n \in 0 .. Longest,
           NEW j \in Kind, j # k
    PROVE  Delayed(tm, k, n)[j] = tm[j]
  BY DEF Delayed

LEMMA FiredRow ==
    ASSUME NEW tm \in [Kind -> [0 .. Longest -> Nat]], NEW k \in Kind, tm[k][0] > 0
    PROVE  \A l \in 0 .. Longest :
                Fired(tm, k)[k][l] = IF l = 0 THEN tm[k][l] - 1 ELSE tm[k][l]
  <1>0. tm[k] \in [0 .. Longest -> Nat] /\ 0 \in 0 .. Longest
    BY LongestBounds
  <1>1. PICK row : row = [tm[k] EXCEPT ![0] = @ - 1]
    OBVIOUS
  <1>2. \A l \in 0 .. Longest : row[l] = IF l = 0 THEN tm[k][l] - 1 ELSE tm[k][l]
    BY <1>0, <1>1
  <1>3. Fired(tm, k) = [tm EXCEPT ![k] = row]
    BY <1>1 DEF Fired
  <1>. QED  BY <1>0, <1>2, <1>3

\* As long as no refused call erased a request that waited, the removals to come are those
\* of the requests that are kept: one, at the end of the kept request's time, or none.
OwnRemovalOnly ==
    ~erased => \A l \in 0 .. Longest :
                  timer["RemoveCB"][l] = IF recvCB /\ l = wait THEN 1 ELSE 0

RemovalInv ==
    /\ TimersCounted
    /\ wait \in 0 .. Timeout /\ recvCB \in BOOLEAN /\ erased \in BOOLEAN /\ recvCB = failCB
    /\ OwnRemovalOnly

LEMMA RemovalsUntouched ==
    ASSUME RemovalInv, TimersCounted', timer'["RemoveCB"] = timer["RemoveCB"],
           UNCHANGED <<recvCB, failCB, wait, erased>>
    PROVE  RemovalInv'
  BY DEF RemovalInv, OwnRemovalOnly

LEMMA SendKeepsRemovals ==
    ASSUME RemovalInv, RunSendClearApps
    PROVE  RemovalInv'
  <1>0. /\ "trigger" \in Kind /\ "RemoveCB" \in Kind /\ timer \in [Kind -> [0 .. Longest -> Nat]]
        /\ TriggerAfter \in 0 .. Longest /\ Timeout \in 0 .. Longest /\ Timeout \in 0 .. Timeout
    BY LongestBounds DEF Kind, RemovalInv, TimersCounted
  <1>1. PICK tm : tm = Delayed(timer, "trigger", TriggerAfter)
    OBVIOUS
  <1>2. /\ tm \in [Kind -> [0 .. Longest -> Nat]] /\ tm["RemoveCB"] = timer["RemoveCB"]
        /\ SendTcpData(tm)
    <2>1. tm \in [Kind -> [0 .. Longest -> Nat]] /\ tm["RemoveCB"] = timer["RemoveCB"]
      BY <1>0, <1>1, DelayedTyped, DelayedElsewhere
    <2>2. SendTcpData(tm)
      BY <1>1 DEF RunSendClearApps, SendClearApps
    <2>. QED  BY <2>1, <2>2
  <1>3. CASE ~recvCB /\ ~failCB /\ connected
    <2>1. /\ recvCB' = TRUE /\ failCB' = TRUE /\ wait' = Timeout /\ erased' = erased
          /\ timer' = Delayed(tm, "RemoveCB", Timeout)
      BY <1>2, <1>3 DEF SendTcpData, RemovalInv
    <2>2. /\ timer' \in [Kind -> [0 .. Longest -> Nat]]
          /\ \A l \in 0 .. Longest : timer'["RemoveCB"][l]
                = IF l = Timeout THEN timer["RemoveCB"][l] + 1 ELSE timer["RemoveCB"][l]
      <3>1. PICK tn : tn = Delayed(tm, "RemoveCB", Timeout)
        OBVIOUS
      <3>2. /\ tn \in [Kind -> [0 .. Longest -> Nat]]
            /\ \A l \in 0 .. Longest : tn["RemoveCB"][l]
                  = IF l = Timeout THEN tm["RemoveCB"][l] + 1 ELSE tm["RemoveCB"][l]
        <4>1. tn \in [Kind -> [0 .. Longest -> Nat]]
          BY <1>0, <1>2, <3>1, DelayedTyped
        <4>2. \A l \in 0 .. Longest : tn["RemoveCB"][l]
                 = IF l = Timeout THEN tm["RemoveCB"][l] + 1 ELSE tm["RemoveCB"][l]
          BY <1>0, <1>2, <3>1, DelayedRow
        <4>. QED  BY <4>1, <4>2
      <3>. QED  BY <1>2, <2>1, <3>1, <3>2
    <2>3. ~erased => \A l \in 0 .. Longest : timer["RemoveCB"][l] = 0
      BY <1>3 DEF RemovalInv, OwnRemovalOnly
    <2>4. OwnRemovalOnly'
      BY <2>1, <2>2, <2>3 DEF OwnRemovalOnly
    <2>. QED  BY <1>0, <2>1, <2>2, <2>4 DEF RemovalInv, TimersCounted
  <1>4. CASE ~(~recvCB /\ ~failCB /\ connected)
    <2>1. /\ recvCB' = FALSE /\ failCB' = FALSE /\ wait' = wait /\ erased' = (erased \/ recvCB)
          /\ timer' = tm
      BY <1>2, <1>4 DEF SendTcpData
    <2>2. OwnRemovalOnly'
      BY <1>2, <2>1 DEF RemovalInv, OwnRemovalOnly
    <2>. QED  BY <1>2, <2>1, <2>2 DEF RemovalInv, TimersCounted
  <1>. QED  BY <1>3, <1>4

LEMMA TickKeepsRemovals == ASSUME RemovalInv, Tick PROVE RemovalInv'
  <1>0. Longest \in Nat /\ Longest > 0 /\ Timeout \in 1 .. Longest /\ wait \in 0 .. Timeout
    BY LongestBounds DEF RemovalInv
  <1>1. PICK f \in [0 .. Longest -> Nat] : f = timer["RemoveCB"]
    BY DEF RemovalInv, TimersCounted, Kind
  <1>2. timer' = [k \in Kind |-> [l \in 0 .. Longest |->
                     IF l = 0 THEN timer[k][0] + timer[k][1]
                     ELSE IF l = Longest THEN 0 ELSE timer[k][l + 1]]]
    BY DEF Tick
  <1>w. /\ wait' = (IF wait > 0 THEN wait - 1 ELSE 0) /\ wait' \in 0 .. Timeout
        /\ UNCHANGED <<recvCB, failCB, erased>>
    BY <1>0 DEF Tick
  <1>3. TimersCounted'
    <2>1. ASSUME NEW k \in Kind, NEW l \in 0 .. Longest
          PROVE  (IF l = 0 THEN timer[k][0] + timer[k][1]
                  ELSE IF l = Longest THEN 0 ELSE timer[k][l + 1]) \in Nat
      <3>1. \A i \in 0 .. Longest : timer[k][i] \in Nat
        BY DEF RemovalInv, TimersCounted
      <3>2. 0 \in 0 .. Longest /\ 1 \in 0 .. Longest /\ (l # Longest => l + 1 \in 0 .. Longest)
        BY <1>0
      <3>. QED  BY <3>1, <3>2
    <2>. QED  BY <1>2, <2>1 DEF TimersCounted
  <1>4. ASSUME NEW l \in 0 .. Longest
        PROVE  timer'["RemoveCB"][l] = IF l = 0 THEN f[0] + f[1]
                                       ELSE IF l = Longest THEN 0 ELSE f[l + 1]
    BY <1>1, <1>2 DEF Kind
  <1>5. CASE erased
    <2>. QED  BY <1>w, <1>3, <1>5 DEF RemovalInv, OwnRemovalOnly
  <1>6. CASE ~erased
    <2>1. \A l \in 0 .. Longest : f[l] = IF recvCB /\ l = wait THEN 1 ELSE 0
      BY <1>1, <1>6 DEF RemovalInv, OwnRemovalOnly
    <2>2. ASSUME NEW l \in 0 .. Longest
          PROVE  timer'["RemoveCB"][l] = IF recvCB /\ l = wait' THEN 1 ELSE 0
      <3>1. CASE l = 0
        <4>1. /\ f[0] = IF recvCB /\ 0 = wait THEN 1 ELSE 0
              /\ f[1] = IF recvCB /\ 1 = wait THEN 1 ELSE 0
          BY <1>0, <2>1
        <4>. QED  BY <1>0, <1>w, <1>4, <3>1, <4>1
      <3>2. CASE l # 0 /\ l = Longest
        BY <1>0, <1>w, <1>4, <3>2
      <3>3. CASE l # 0 /\ l # Longest
        <4>1. f[l + 1] = IF recvCB /\ l + 1 = wait THEN 1 ELSE 0
          BY <1>0, <2>1, <3>3
        <4>. QED  BY <1>0, <1>w, <1>4, <3>3, <4>1
      <3>. QED  BY <3>1, <3>2, <3>3
    <2>. QED  BY <1>w, <1>3, <2>2 DEF RemovalInv, OwnRemovalOnly
  <1>. QED  BY <1>5, <1>6

LEMMA NextKeepsRemovals == ASSUME RemovalInv, [Next]_vars PROVE RemovalInv'
  <1>0. /\ HeartEvery \in 0 .. Longest /\ 0 \in 0 .. Longest
        /\ "SendHeart" \in Kind /\ "RemoveCB" \in Kind /\ "trigger" \in Kind
        /\ timer \in [Kind -> [0 .. Longest -> Nat]]
    BY LongestBounds DEF Kind, RemovalInv, TimersCounted
  <1>1. CASE \/ UNCHANGED vars \/ BeginConnectCB \/ LoseConnection \/ RunSetConnState
             \/ CBPost("SendClearApps", "SetConnState") \/ CBPost("SetConnState", "status")
             \/ CBStatus
    <2>1. UNCHANGED <<timer, recvCB, failCB, wait, erased>>
      BY <1>1 DEF vars, BeginConnectCB, LoseConnection, RunSetConnState, CBPost, CBStatus
    <2>. QED  BY <1>0, <2>1, RemovalsUntouched DEF TimersCounted
  <1>2. CASE CBSendHeart
    <2>1. /\ timer' = Delayed(timer, "SendHeart", HeartEvery)
          /\ UNCHANGED <<recvCB, failCB, wait, erased>>
      BY <1>2 DEF CBSendHeart
    <2>2. PICK tn : tn = Delayed(timer, "SendHeart", HeartEvery)
      OBVIOUS
    <2>3. tn \in [Kind -> [0 .. Longest -> Nat]] /\ tn["RemoveCB"] = timer["RemoveCB"]
      <3>1. tn \in [Kind -> [0 .. Longest -> Nat]]
        BY <1>0, <2>2, DelayedTyped
      <3>2. tn["RemoveCB"] = timer["RemoveCB"]
        BY <1>0, <2>2, DelayedElsewhere
      <3>. QED  BY <3>1, <3>2
    <2>. QED  BY <2>1, <2>2, <2>3, RemovalsUntouched DEF TimersCounted
  <1>3. CASE RunSendClearApps
    BY <1>3, SendKeepsRemovals
  <1>4. CASE FireSendHeart
    <2>1. PICK tm : tm = Fired(timer, "SendHeart")
      OBVIOUS
    <2>2. /\ tm \in [Kind -> [0 .. Longest -> Nat]] /\ tm["RemoveCB"] = timer["RemoveCB"]
          /\ timer' = Delayed(tm, "SendHeart", HeartEvery)
          /\ UNCHANGED <<recvCB, failCB, wait, erased>>
      BY <1>0, <1>4, <2>1, FiredFacts DEF FireSendHeart, SendHeart
    <2>3. PICK tn : tn = Delayed(tm, "SendHeart", HeartEvery)
      OBVIOUS
    <2>4. tn \in [Kind -> [0 .. Longest -> Nat]] /\ tn["RemoveCB"] = tm["RemoveCB"]
      <3>1. tn \in [Kind -> [0 .. Longest -> Nat]]
        BY <1>0, <2>2, <2>3, DelayedTyped
      <3>2. tn["RemoveCB"] = tm["RemoveCB"]
        BY <1>0, <2>2, <2>3, DelayedElsewhere
      <3>. QED  BY <3>1, <3>2
    <2>. QED  BY <2>2, <2>3, <2>4, RemovalsUntouched DEF TimersCounted
  <1>5. CASE triggerStraamThread
    <2>1. /\ timer' \in [Kind -> [0 .. Longest -> Nat]] /\ timer'["RemoveCB"] = timer["RemoveCB"]
          /\ UNCHANGED <<recvCB, failCB, wait, erased>>
      BY <1>0, <1>5, FiredFacts DEF triggerStraamThread
    <2>. QED  BY <2>1, RemovalsUntouched DEF TimersCounted
  <1>6. CASE FireRemoveCB
    <2>1. /\ timer' \in [Kind -> [0 .. Longest -> Nat]] /\ timer["RemoveCB"][0] > 0
          /\ \A l \in 0 .. Longest : timer'["RemoveCB"][l]
                = IF l = 0 THEN timer["RemoveCB"][l] - 1 ELSE timer["RemoveCB"][l]
          /\ recvCB' = FALSE /\ failCB' = FALSE /\ UNCHANGED <<wait, erased>>
      BY <1>0, <1>6, FiredFacts, FiredRow DEF FireRemoveCB, RemoveCB
    <2>2. OwnRemovalOnly'
      <3>1. SUFFICES ASSUME ~erased, NEW l \in 0 .. Longest PROVE timer'["RemoveCB"][l] = 0
        BY <2>1 DEF OwnRemovalOnly
      <3>2. \A i \in 0 .. Longest : timer["RemoveCB"][i] = IF recvCB /\ i = wait THEN 1 ELSE 0
        BY <3>1 DEF RemovalInv, OwnRemovalOnly
      <3>3. recvCB /\ wait = 0
        BY <1>0, <2>1, <3>2
      <3>. QED  BY <2>1, <3>2, <3>3
    <2>. QED  BY <2>1, <2>2 DEF RemovalInv, TimersCounted
  <1>7. CASE Tick
    BY <1>7, TickKeepsRemovals
  <1>. QED  BY <1>1, <1>2, <1>3, <1>4, <1>5, <1>6, <1>7 DEF Next, RemoteConnectCB, ControlStep

\* A request is ended before its time only by a call that is refused while it waits, or
\* after there was such a call: whatever connections come and go, its own removal alone
\* is to come otherwise, and at the end of its time.
THEOREM EarlyEndsNeedErasure == Spec => EarlyOnlyAfterErasure
  <1>1. Init => RemovalInv
    BY LongestBounds DEF Init, RemovalInv, OwnRemovalOnly, TimersCounted, Kind
  <1>2. RemovalInv /\ [Next]_vars => RemovalInv'
    BY NextKeepsRemovals
  <1>3. ASSUME RemovalInv, [Next]_vars
        PROVE  [recvCB /\ ~recvCB' /\ wait > 0 => erased']_vars
    <2>1. SUFFICES ASSUME recvCB, ~recvCB', wait > 0, ~erased' PROVE FALSE
      OBVIOUS
    <2>2. CASE RunSendClearApps
      <3>1. SendTcpData(Delayed(timer, "trigger", TriggerAfter))
        BY <2>2 DEF RunSendClearApps, SendClearApps
      <3>. QED  BY <2>1, <3>1 DEF SendTcpData
    <2>3. CASE FireRemoveCB
      <3>1. ~erased /\ timer["RemoveCB"][0] > 0 /\ 0 \in 0 .. Longest
        BY <2>1, <2>3, LongestBounds DEF FireRemoveCB
      <3>2. timer["RemoveCB"][0] = IF recvCB /\ 0 = wait THEN 1 ELSE 0
        BY <3>1, <1>3 DEF RemovalInv, OwnRemovalOnly
      <3>. QED  BY <2>1, <3>1, <3>2
    <2>4. CASE ~RunSendClearApps /\ ~FireRemoveCB
      <3>1. recvCB' = recvCB
        BY <1>3, <2>4 DEF Next, ControlStep, RemoteConnectCB, vars, BeginConnectCB, CBSendHeart,
           CBPost, CBStatus, LoseConnection, RunSetConnState, FireSendHeart,
           triggerStraamThread, Tick
      <3>. QED  BY <2>1, <3>1
    <2>. QED  BY <2>2, <2>3, <2>4
  <1>. QED  BY <1>1, <1>2, <1>3, PTL DEF Spec, EarlyOnlyAfterErasure
----------------------------------------------------------------------------
(* How many timers there are *)

LEMMA InWaiting ==
    ASSUME NEW f
    PROVE  /\ \A p : p \in Waiting(f) => \E l \in 0 .. Longest : \E i \in 1 .. f[l] : p = <<l, i>>
           /\ \A l \in 0 .. Longest : \A i \in 1 .. f[l] : <<l, i>> \in Waiting(f)
  BY DEF Waiting

LEMMA NoneWaiting ==
    ASSUME NEW f \in [0 .. Longest -> Nat], \A l \in 0 .. Longest : f[l] = 0
    PROVE  IsFiniteSet(Waiting(f)) /\ Cardinality(Waiting(f)) = 0
  <1>1. \A p : p \notin Waiting(f)
    <2>1. \A l \in 0 .. Longest : \A i \in 1 .. f[l] : FALSE
      OBVIOUS
    <2>. QED  BY <2>1, InWaiting
  <1>2. Waiting(f) = {}
    BY <1>1
  <1>. QED  BY <1>2, FS_EmptySet

LEMMA OneMoreWaits ==
    ASSUME NEW f \in [0 .. Longest -> Nat], IsFiniteSet(Waiting(f)), NEW n \in 0 .. Longest,
           NEW g \in [0 .. Longest -> Nat], g[n] = f[n] + 1,
           \A l \in 0 .. Longest : l # n => g[l] = f[l]
    PROVE  /\ IsFiniteSet(Waiting(g))
           /\ Cardinality(Waiting(g)) = Cardinality(Waiting(f)) + 1
  <1>a. /\ \A p : p \in Waiting(f) => \E l \in 0 .. Longest : \E i \in 1 .. f[l] : p = <<l, i>>
        /\ \A l \in 0 .. Longest : \A i \in 1 .. f[l] : <<l, i>> \in Waiting(f)
    BY InWaiting
  <1>b. /\ \A p : p \in Waiting(g) => \E l \in 0 .. Longest : \E i \in 1 .. g[l] : p = <<l, i>>
        /\ \A l \in 0 .. Longest : \A i \in 1 .. g[l] : <<l, i>> \in Waiting(g)
    BY InWaiting
  <1>1. PICK m \in Nat : m = f[n]
    OBVIOUS
  <1>2. g[n] = m + 1 /\ \A l \in 0 .. Longest : l # n => g[l] = f[l]
    BY <1>1
  <1>3. <<n, m + 1>> \notin Waiting(f)
    <2>1. ASSUME NEW l \in 0 .. Longest, NEW i \in 1 .. f[l], <<n, m + 1>> = <<l, i>> PROVE FALSE
      BY <1>1, <2>1
    <2>. QED  BY <2>1, <1>a, <1>b
  <1>4. Waiting(g) = Waiting(f) \cup {<<n, m + 1>>}
    <2>1. ASSUME NEW p, p \in Waiting(g) PROVE p \in Waiting(f) \cup {<<n, m + 1>>}
      <3>1. PICK l \in 0 .. Longest : \E i \in 1 .. g[l] : p = <<l, i>>
        BY <2>1, <1>a, <1>b
      <3>2. PICK i \in 1 .. g[l] : p = <<l, i>>
        BY <3>1
      <3>3. (l = n /\ i = m + 1) \/ i \in 1 .. f[l]
        BY <1>1, <1>2
      <3>. QED  BY <3>2, <3>3, <1>a, <1>b
    <2>2. ASSUME NEW p, p \in Waiting(f) PROVE p \in Waiting(g)
      <3>1. PICK l \in 0 .. Longest : \E i \in 1 .. f[l] : p = <<l, i>>
        BY <2>2, <1>a, <1>b
      <3>2. PICK i \in 1 .. f[l] : p = <<l, i>>
        BY <3>1
      <3>3. i \in 1 .. g[l]
        BY <1>1, <1>2
      <3>. QED  BY <3>2, <3>3, <1>a, <1>b
    <2>3. <<n, m + 1>> \in Waiting(g)
      <3>1. m + 1 \in 1 .. g[n]
        BY <1>2
      <3>. QED  BY <3>1, <1>a, <1>b
    <2>. QED  BY <2>1, <2>2, <2>3
  <1>5. PICK S : S = Waiting(f)
    OBVIOUS
  <1>6. /\ IsFiniteSet(S \cup {<<n, m + 1>>})
        /\ Cardinality(S \cup {<<n, m + 1>>}) = Cardinality(S) + 1
    BY <1>3, <1>5, FS_AddElement
  <1>. QED  BY <1>4, <1>5, <1>6

LEMMA OneLessWaits ==
    ASSUME NEW f \in [0 .. Longest -> Nat], IsFiniteSet(Waiting(f)), NEW n \in 0 .. Longest,
           f[n] > 0, NEW g \in [0 .. Longest -> Nat], g[n] = f[n] - 1,
           \A l \in 0 .. Longest : l # n => g[l] = f[l]
    PROVE  /\ IsFiniteSet(Waiting(g))
           /\ Cardinality(Waiting(g)) = Cardinality(Waiting(f)) - 1
  <1>a. /\ \A p : p \in Waiting(f) => \E l \in 0 .. Longest : \E i \in 1 .. f[l] : p = <<l, i>>
        /\ \A l \in 0 .. Longest : \A i \in 1 .. f[l] : <<l, i>> \in Waiting(f)
    BY InWaiting
  <1>b. /\ \A p : p \in Waiting(g) => \E l \in 0 .. Longest : \E i \in 1 .. g[l] : p = <<l, i>>
        /\ \A l \in 0 .. Longest : \A i \in 1 .. g[l] : <<l, i>> \in Waiting(g)
    BY InWaiting
  <1>1. PICK m \in Nat : m = f[n]
    OBVIOUS
  <1>2. m > 0 /\ g[n] = m - 1 /\ \A l \in 0 .. Longest : l # n => g[l] = f[l]
    BY <1>1
  <1>3. <<n, m>> \in Waiting(f)
    <2>1. m \in 1 .. f[n]
      BY <1>1, <1>2
    <2>. QED  BY <2>1, <1>a, <1>b
  <1>4. Waiting(g) = Waiting(f) \ {<<n, m>>}
    <2>1. ASSUME NEW p, p \in Waiting(g) PROVE p \in Waiting(f) /\ p # <<n, m>>
      <3>1. PICK l \in 0 .. Longest : \E i \in 1 .. g[l] : p = <<l, i>>
        BY <2>1, <1>a, <1>b
      <3>2. PICK i \in 1 .. g[l] : p = <<l, i>>
        BY <3>1
      <3>3. i \in 1 .. f[l] /\ ~(l = n /\ i = m)
        BY <1>1, <1>2
      <3>. QED  BY <3>2, <3>3, <1>a, <1>b
    <2>2. ASSUME NEW p, p \in Waiting(f), p # <<n, m>> PROVE p \in Waiting(g)
      <3>1. PICK l \in 0 .. Longest : \E i \in 1 .. f[l] : p = <<l, i>>
        BY <2>2, <1>a, <1>b
      <3>2. PICK i \in 1 .. f[l] : p = <<l, i>>
        BY <3>1
      <3>3. ~(l = n /\ i = m)
        BY <2>2, <3>2
      <3>4. i \in 1 .. g[l]
        BY <1>1, <1>2, <3>3
      <3>. QED  BY <3>2, <3>4, <1>a, <1>b
    <2>. QED  BY <2>1, <2>2
  <1>5. PICK S : S = Waiting(f)
    OBVIOUS
  <1>6. /\ IsFiniteSet(S \ {<<n, m>>})
        /\ Cardinality(S \ {<<n, m>>}) = Cardinality(S) - 1
    BY <1>3, <1>5, FS_RemoveElement
  <1>. QED  BY <1>4, <1>5, <1>6

\* A tick brings every timer one place nearer and loses none.
LEMMA AllWaitOn ==
    ASSUME NEW f \in [0 .. Longest -> Nat], IsFiniteSet(Waiting(f)),
           NEW g \in [0 .. Longest -> Nat],
           \A l \in 0 .. Longest : g[l] = IF l = 0 THEN f[0] + f[1]
                                          ELSE IF l = Longest THEN 0 ELSE f[l + 1]
    PROVE  IsFiniteSet(Waiting(g)) /\ Cardinality(Waiting(g)) = Cardinality(Waiting(f))
  <1>0. PICK L \in Nat : L = Longest /\ L > 0
    BY LongestBounds
  <1>1. 0 \in 0 .. Longest /\ 1 \in 0 .. Longest
    BY <1>0
  <1>2. PICK a \in Nat : a = f[0]
    BY <1>1
  <1>3. PICK b \in Nat : b = f[1]
    BY <1>1
  <1>4. g[0] = a + b
    BY <1>1, <1>2, <1>3
  <1>5. /\ \A p : p \in Waiting(f) => \E l \in 0 .. Longest : \E i \in 1 .. f[l] : p = <<l, i>>
        /\ \A l \in 0 .. Longest : \A i \in 1 .. f[l] : <<l, i>> \in Waiting(f)
    BY InWaiting
  <1>6. /\ \A p : p \in Waiting(g) => \E l \in 0 .. Longest : \E i \in 1 .. g[l] : p = <<l, i>>
        /\ \A l \in 0 .. Longest : \A i \in 1 .. g[l] : <<l, i>> \in Waiting(g)
    BY InWaiting
  <1>7. PICK S : S = Waiting(f)
    OBVIOUS
  <1>8. PICK T : T = Waiting(g)
    OBVIOUS
  <1>9. PICK bij : bij = [p \in S |-> IF p[1] = 0 THEN p
                                      ELSE IF p[1] = 1 THEN <<0, a + p[2]>>
                                      ELSE <<p[1] - 1, p[2]>>]
    OBVIOUS
  <1>10. /\ \A i : <<0, i>> \in S => bij[<<0, i>>] = <<0, i>>
         /\ \A i : <<1, i>> \in S => bij[<<1, i>>] = <<0, a + i>>
         /\ \A l, i : <<l, i>> \in S /\ l # 0 /\ l # 1 => bij[<<l, i>>] = <<l - 1, i>>
    BY <1>9
  <1>11. ASSUME NEW l \in 0 .. Longest, NEW i \in 1 .. f[l] PROVE bij[<<l, i>>] \in T
    <2>1. <<l, i>> \in S
      BY <1>5, <1>7
    <2>2. CASE l = 0
      <3>1. i \in 1 .. g[0]
        BY <1>2, <1>4, <2>2
      <3>2. bij[<<l, i>>] = <<0, i>>
        BY <1>10, <2>1, <2>2
      <3>. QED  BY <1>1, <1>6, <1>8, <3>1, <3>2
    <2>3. CASE l = 1
      <3>1. a + i \in 1 .. g[0]
        BY <1>3, <1>4, <2>3
      <3>2. bij[<<l, i>>] = <<0, a + i>>
        BY <1>10, <2>1, <2>3
      <3>. QED  BY <1>1, <1>6, <1>8, <3>1, <3>2
    <2>4. CASE l # 0 /\ l # 1
      <3>1. l - 1 \in 0 .. Longest /\ l - 1 # 0 /\ l - 1 # Longest /\ (l - 1) + 1 = l
        BY <1>0, <2>4
      <3>2. g[l - 1] = f[l]
        BY <3>1
      <3>3. bij[<<l, i>>] = <<l - 1, i>>
        BY <1>10, <2>1, <2>4
      <3>. QED  BY <1>6, <1>8, <3>1, <3>2, <3>3
    <2>. QED  BY <2>2, <2>3, <2>4
  <1>12. \A p \in S : bij[p] \in T
    BY <1>5, <1>7, <1>11
  <1>13. ASSUME NEW l \in 0 .. Longest, NEW i \in 1 .. f[l],
                NEW k \in 0 .. Longest, NEW j \in 1 .. f[k], bij[<<l, i>>] = bij[<<k, j>>]
         PROVE  l = k /\ i = j
    <2>. DEFINE At(n, m, x, y) == /\ x = (IF n = 0 \/ n = 1 THEN 0 ELSE n - 1)
                                  /\ y = (IF n = 1 THEN a + m ELSE m)
    <2>1. ASSUME NEW n \in 0 .. Longest, NEW m \in 1 .. f[n]
          PROVE  \E x, y : bij[<<n, m>>] = <<x, y>> /\ At(n, m, x, y)
      <3>1. <<n, m>> \in S
        BY <1>5, <1>7
      <3>2. CASE n = 0
        BY <1>10, <3>1, <3>2
      <3>3. CASE n = 1
        BY <1>10, <3>1, <3>3
      <3>4. CASE n # 0 /\ n # 1
        BY <1>10, <3>1, <3>4
      <3>. QED  BY <3>2, <3>3, <3>4
    <2>2. PICK x, y : bij[<<l, i>>] = <<x, y>> /\ At(l, i, x, y)
      BY <2>1
    <2>3. PICK v, w : bij[<<k, j>>] = <<v, w>> /\ At(k, j, v, w)
      BY <2>1
    <2>4. /\ i \in Nat /\ i >= 1 /\ j \in Nat /\ j >= 1 /\ l \in Nat /\ k \in Nat
          /\ (l = 0 => i <= a) /\ (k = 0 => j <= a)
      BY <1>0, <1>2
    <2>5. x = v /\ y = w
      <3>1. <<x, y>> = <<v, w>>
        BY <1>13, <2>2, <2>3
      <3>. QED  BY <3>1
    <2>. QED  BY <2>2, <2>3, <2>4, <2>5
  <1>14. \A p \in S : \A q \in S : bij[p] = bij[q] => p = q
    BY <1>5, <1>7, <1>13
  <1>15. ASSUME NEW l \in 0 .. Longest, NEW i \in 1 .. g[l]
         PROVE  \E p \in S : bij[p] = <<l, i>>
    <2>1. CASE l = 0 /\ i <= a
      <3>1. i \in 1 .. f[0]
        BY <1>2, <2>1
      <3>2. <<0, i>> \in S
        BY <1>1, <1>5, <1>7, <3>1
      <3>3. bij[<<0, i>>] = <<0, i>>
        BY <1>10, <3>2
      <3>. QED  BY <2>1, <3>2, <3>3
    <2>2. CASE l = 0 /\ i > a
      <3>1. PICK j \in 1 .. f[1] : a + j = i
        <4>1. i - a \in 1 .. f[1] /\ a + (i - a) = i
          BY <1>3, <1>4, <2>2
        <4>. QED  BY <4>1
      <3>2. <<1, j>> \in S
        BY <1>1, <1>5, <1>7, <3>1
      <3>3. bij[<<1, j>>] = <<0, a + j>>
        BY <1>10, <3>2
      <3>. QED  BY <2>2, <3>1, <3>2, <3>3
    <2>3. CASE l # 0
      <3>1. l # Longest
        BY <2>3
      <3>2. PICK m \in 0 .. Longest : m = l + 1 /\ m # 0 /\ m # 1 /\ m - 1 = l
        BY <1>0, <2>3, <3>1
      <3>3. i \in 1 .. f[m]
        BY <2>3, <3>1, <3>2
      <3>4. <<m, i>> \in S
        BY <1>5, <1>7, <3>3
      <3>5. bij[<<m, i>>] = <<m - 1, i>>
        BY <1>10, <3>2, <3>4
      <3>. QED  BY <3>2, <3>4, <3>5
    <2>. QED  BY <1>2, <2>1, <2>2, <2>3
  <1>16. \A q \in T : \E p \in S : bij[p] = q
    <2>1. ASSUME NEW q, q \in T PROVE \E p \in S : bij[p] = q
      <3>1. PICK l \in 0 .. Longest : \E i \in 1 .. g[l] : q = <<l, i>>
        BY <1>6, <1>8, <2>1
      <3>2. PICK i \in 1 .. g[l] : q = <<l, i>>
        BY <3>1
      <3>. QED  BY <1>15, <3>2
    <2>. QED  BY <2>1
  <1>17. bij \in Bijection(S, T)
    <2>1. bij \in [S -> T]
      BY <1>9, <1>12
    <2>. QED  BY <1>14, <1>16, <2>1 DEF Bijection, Injection, Surjection, IsInjective
  <1>18. ExistsBijection(S, T)
    BY <1>17 DEF ExistsBijection
  <1>. QED  BY <1>7, <1>8, <1>18, FS_Bijection

\* There are no more timers of one wait than of all.
LEMMA WaitsBounded ==
    ASSUME NEW f \in [0 .. Longest -> Nat], IsFiniteSet(Waiting(f)), NEW n \in 0 .. Longest
    PROVE  f[n] <= Cardinality(Waiting(f))
  <1>1. PICK m \in Nat : m = f[n]
    OBVIOUS
  <1>2. IsFiniteSet({n}) /\ Cardinality({n}) = 1
    BY FS_Singleton
  <1>3. IsFiniteSet(1 .. m) /\ Cardinality(1 .. m) = m
    BY FS_Interval
  <1>4. Cardinality({n} \X (1 .. m)) = m
    BY <1>2, <1>3, FS_Product
  <1>5. {n} \X (1 .. m) \subseteq Waiting(f)
    BY <1>1 DEF Waiting
  <1>. QED  BY <1>1, <1>4, <1>5, FS_Subset

\* All timers, with no more typing than a count needs
Counted(tm)  == /\ tm \in [Kind -> [0 .. Longest -> Nat]]
                /\ \A k \in Kind : IsFiniteSet(Waiting(tm[k]))
Many(tm, k)  == Cardinality(Waiting(tm[k]))
Times(s, t)  == Cardinality({i \in 1 .. Len(s) : s[i] = t})

LEMMA ManyIsNat ==
    ASSUME NEW tm, Counted(tm), NEW k \in Kind
    PROVE  Many(tm, k) \in Nat
  BY FS_CardinalityType DEF Counted, Many

LEMMA DelayedCounts ==
    ASSUME NEW tm, Counted(tm), NEW k \in Kind, NEW n \in 0 .. Longest
    PROVE  /\ Counted(Delayed(tm, k, n))
           /\ Many(Delayed(tm, k, n), k) = Many(tm, k) + 1
           /\ \A j \in Kind : j # k => Many(Delayed(tm, k, n), j) = Many(tm, j)
  <1>1. PICK f \in [0 .. Longest -> Nat] : f = tm[k] /\ IsFiniteSet(Waiting(f))
    BY DEF Counted
  <1>2. PICK g : g = [f EXCEPT ![n] = @ + 1]
    OBVIOUS
  <1>3. /\ g \in [0 .. Longest -> Nat] /\ g[n] = f[n] + 1
        /\ \A l \in 0 .. Longest : l # n => g[l] = f[l]
    BY <1>2
  <1>4. IsFiniteSet(Waiting(g)) /\ Cardinality(Waiting(g)) = Cardinality(Waiting(f)) + 1
    BY <1>1, <1>3, OneMoreWaits
  <1>5. PICK tn : tn = [tm EXCEPT ![k] = g]
    OBVIOUS
  <1>6. Delayed(tm, k, n) = tn
    BY <1>1, <1>2, <1>5 DEF Delayed
  <1>7. /\ tn \in [Kind -> [0 .. Longest -> Nat]] /\ tn[k] = g
        /\ \A j \in Kind : j # k => tn[j] = tm[j]
    BY <1>3, <1>5 DEF Counted
  <1>8. Counted(tn)
    BY <1>4, <1>7 DEF Counted
  <1>9. /\ Many(tn, k) = Many(tm, k) + 1
        /\ \A j \in Kind : j # k => Many(tn, j) = Many(tm, j)
    BY <1>1, <1>4, <1>7 DEF Many
  <1>. QED  BY <1>6, <1>8, <1>9

LEMMA FiredCounts ==
    ASSUME NEW tm, Counted(tm), NEW k \in Kind, tm[k][0] > 0
    PROVE  /\ Counted(Fired(tm, k))
           /\ Many(Fired(tm, k), k) = Many(tm, k) - 1
           /\ \A j \in Kind : j # k => Many(Fired(tm, k), j) = Many(tm, j)
  <1>0. 0 \in 0 .. Longest
    BY LongestBounds
  <1>1. PICK f \in [0 .. Longest -> Nat] : f = tm[k] /\ IsFiniteSet(Waiting(f)) /\ f[0] > 0
    BY DEF Counted
  <1>2. PICK g : g = [f EXCEPT ![0] = @ - 1]
    OBVIOUS
  <1>3. /\ g \in [0 .. Longest -> Nat] /\ g[0] = f[0] - 1
        /\ \A l \in 0 .. Longest : l # 0 => g[l] = f[l]
    <2>1. PICK m \in Nat : m = f[0]
      BY <1>0
    <2>2. m - 1 \in Nat
      BY <1>1, <2>1
    <2>. QED  BY <1>0, <1>2, <2>1, <2>2
  <1>4. IsFiniteSet(Waiting(g)) /\ Cardinality(Waiting(g)) = Cardinality(Waiting(f)) - 1
    BY <1>0, <1>1, <1>3, OneLessWaits
  <1>5. PICK tn : tn = [tm EXCEPT ![k] = g]
    OBVIOUS
  <1>6. Fired(tm, k) = tn
    BY <1>1, <1>2, <1>5 DEF Fired
  <1>7. /\ tn \in [Kind -> [0 .. Longest -> Nat]] /\ tn[k] = g
        /\ \A j \in Kind : j # k => tn[j] = tm[j]
    BY <1>3, <1>5 DEF Counted
  <1>8. Counted(tn)
    BY <1>4, <1>7 DEF Counted
  <1>9. /\ Many(tn, k) = Many(tm, k) - 1
        /\ \A j \in Kind : j # k => Many(tn, j) = Many(tm, j)
    BY <1>1, <1>4, <1>7 DEF Many
  <1>. QED  BY <1>6, <1>8, <1>9

LEMMA TickCounts ==
    ASSUME Counted(timer), Tick
    PROVE  Counted(timer') /\ \A k \in Kind : Many(timer', k) = Many(timer, k)
  <1>0. Longest \in Nat /\ 0 \in 0 .. Longest /\ 1 \in 0 .. Longest
    BY LongestBounds
  <1>1. timer' = [k \in Kind |-> [l \in 0 .. Longest |->
                     IF l = 0 THEN timer[k][0] + timer[k][1]
                     ELSE IF l = Longest THEN 0 ELSE timer[k][l + 1]]]
    BY DEF Tick
  <1>2. ASSUME NEW k \in Kind
        PROVE  /\ timer'[k] \in [0 .. Longest -> Nat] /\ IsFiniteSet(Waiting(timer'[k]))
               /\ Many(timer', k) = Many(timer, k)
    <2>1. PICK f \in [0 .. Longest -> Nat] : f = timer[k] /\ IsFiniteSet(Waiting(f))
      BY DEF Counted
    <2>2. PICK g : g = [l \in 0 .. Longest |->
                           IF l = 0 THEN f[0] + f[1]
                           ELSE IF l = Longest THEN 0 ELSE f[l + 1]]
      OBVIOUS
    <2>3. g \in [0 .. Longest -> Nat]
      <3>1. ASSUME NEW l \in 0 .. Longest
            PROVE  (IF l = 0 THEN f[0] + f[1]
                    ELSE IF l = Longest THEN 0 ELSE f[l + 1]) \in Nat
        <4>1. l # Longest => l + 1 \in 0 .. Longest
          BY <1>0
        <4>. QED  BY <1>0, <4>1
      <3>. QED  BY <2>2, <3>1
    <2>4. timer'[k] = g
      BY <1>1, <2>1, <2>2
    <2>5. \A l \in 0 .. Longest : g[l] = IF l = 0 THEN f[0] + f[1]
                                         ELSE IF l = Longest THEN 0 ELSE f[l + 1]
      BY <2>2
    <2>6. IsFiniteSet(Waiting(g)) /\ Cardinality(Waiting(g)) = Cardinality(Waiting(f))
      BY <2>1, <2>3, <2>5, AllWaitOn
    <2>. QED  BY <2>1, <2>3, <2>4, <2>6 DEF Many
  <1>3. timer' \in [Kind -> [0 .. Longest -> Nat]]
    <2>1. DOMAIN timer' = Kind /\ timer' = [k \in Kind |-> timer'[k]]
      BY <1>1
    <2>. QED  BY <1>2, <2>1
  <1>. QED  BY <1>2, <1>3 DEF Counted

LEMMA TimesIsNat == ASSUME NEW T, NEW s \in Seq(T), NEW t PROVE Times(s, t) \in Nat
  <1>1. IsFiniteSet(1 .. Len(s))
    BY FS_Interval
  <1>2. IsFiniteSet({i \in 1 .. Len(s) : s[i] = t})
    BY <1>1, FS_Subset
  <1>. QED  BY <1>2, FS_CardinalityType DEF Times

LEMMA TimesAppend ==
    ASSUME NEW T, NEW s \in Seq(T), NEW x \in T, NEW t
    PROVE  Times(Append(s, x), t) = Times(s, t) + (IF x = t THEN 1 ELSE 0)
  <1>1. PICK n \in Nat : n = Len(s)
    OBVIOUS
  <1>2. PICK r : r = Append(s, x)
    OBVIOUS
  <1>3. Len(r) = n + 1 /\ r[n + 1] = x /\ \A i \in 1 .. n : r[i] = s[i]
    BY <1>1, <1>2
  <1>4. PICK S : S = {i \in 1 .. n : s[i] = t}
    OBVIOUS
  <1>5. IsFiniteSet(S) /\ Cardinality(S) \in Nat /\ n + 1 \notin S
    <2>1. IsFiniteSet(1 .. n) /\ S \in SUBSET (1 .. n) /\ n + 1 \notin 1 .. n
      BY <1>4, FS_Interval
    <2>2. IsFiniteSet(S)
      BY <2>1, FS_Subset
    <2>. QED  BY <2>1, <2>2, FS_CardinalityType
  <1>6. {i \in 1 .. n + 1 : r[i] = t} = IF x = t THEN S \cup {n + 1} ELSE S
    <2>1. \A i : i \in 1 .. n + 1 <=> i \in 1 .. n \/ i = n + 1
      OBVIOUS
    <2>. QED  BY <1>3, <1>4, <2>1
  <1>7. Cardinality(S \cup {n + 1}) = Cardinality(S) + 1
    BY <1>5, FS_AddElement
  <1>8. Times(s, t) = Cardinality(S)
    BY <1>1, <1>4 DEF Times
  <1>9. Times(Append(s, x), t) = Cardinality(IF x = t THEN S \cup {n + 1} ELSE S)
    BY <1>2, <1>3, <1>6 DEF Times
  <1>10. CASE x = t
    BY <1>7, <1>8, <1>9, <1>10
  <1>11. CASE x # t
    BY <1>5, <1>8, <1>9, <1>11
  <1>. QED  BY <1>10, <1>11

LEMMA TimesTail ==
    ASSUME NEW T, NEW s \in Seq(T), s # <<>>, NEW t
    PROVE  Times(Tail(s), t) = Times(s, t) - (IF Head(s) = t THEN 1 ELSE 0)
  <1>1. PICK n \in Nat : n = Len(s) /\ n > 0
    OBVIOUS
  <1>2. PICK r : r = Tail(s)
    OBVIOUS
  <1>3. Len(r) = n - 1 /\ Head(s) = s[1] /\ \A i \in 1 .. n - 1 : r[i] = s[i + 1]
    BY <1>1, <1>2
  <1>4. PICK S : S = {i \in 1 .. n : s[i] = t}
    OBVIOUS
  <1>5. PICK R : R = {i \in 1 .. n - 1 : r[i] = t}
    OBVIOUS
  <1>6. IsFiniteSet(S) /\ IsFiniteSet(R) /\ Cardinality(S) \in Nat
    <2>1. IsFiniteSet(1 .. n) /\ IsFiniteSet(1 .. n - 1)
      BY FS_Interval
    <2>2. S \in SUBSET (1 .. n) /\ R \in SUBSET (1 .. n - 1)
      BY <1>4, <1>5
    <2>3. IsFiniteSet(S) /\ IsFiniteSet(R)
      BY <2>1, <2>2, FS_Subset
    <2>. QED  BY <2>3, FS_CardinalityType
  <1>7. 1 \in S <=> Head(s) = t
    BY <1>1, <1>3, <1>4
  <1>8. PICK f : f = [i \in R |-> i + 1]
    OBVIOUS
  <1>9. f \in Bijection(R, S \ {1})
    <2>1. ASSUME NEW i, i \in R PROVE f[i] \in S \ {1}
      <3>1. i \in 1 .. n - 1 /\ r[i] = t
        BY <1>5, <2>1
      <3>2. i + 1 \in 1 .. n /\ i + 1 # 1 /\ s[i + 1] = t
        BY <1>1, <1>3, <3>1
      <3>. QED  BY <1>4, <1>8, <2>1, <3>2
    <2>2. ASSUME NEW i, i \in R, NEW j, j \in R, f[i] = f[j] PROVE i = j
      <3>1. i \in Int /\ j \in Int
        BY <1>5, <2>2
      <3>. QED  BY <1>8, <2>2, <3>1
    <2>3. ASSUME NEW j, j \in S \ {1} PROVE \E i \in R : f[i] = j
      <3>1. j \in 1 .. n /\ j # 1 /\ s[j] = t
        BY <1>4, <2>3
      <3>2. j - 1 \in 1 .. n - 1 /\ (j - 1) + 1 = j
        BY <1>1, <3>1
      <3>3. j - 1 \in R
        BY <1>3, <1>5, <3>1, <3>2
      <3>. QED  BY <1>8, <3>2, <3>3
    <2>4. f \in [R -> S \ {1}]
      BY <1>8, <2>1
    <2>. QED  BY <2>2, <2>3, <2>4, <1>8 DEF Bijection, Injection, Surjection, IsInjective
  <1>10. Cardinality(S \ {1}) = Cardinality(R)
    <2>1. ExistsBijection(R, S \ {1})
      BY <1>9 DEF ExistsBijection
    <2>. QED  BY <1>6, <2>1, FS_Bijection
  <1>11. Cardinality(S \ {1}) = IF 1 \in S THEN Cardinality(S) - 1 ELSE Cardinality(S)
    BY <1>6, FS_RemoveElement
  <1>12. Times(s, t) = Cardinality(S) /\ Times(Tail(s), t) = Cardinality(R)
    BY <1>1, <1>2, <1>3, <1>4, <1>5 DEF Times
  <1>. QED  BY <1>6, <1>7, <1>10, <1>11, <1>12

----------------------------------------------------------------------------
(* What the connections, the heartbeats and the streams have to do with     *)
(* one another                                                              *)

Typed ==
    /\ connected \in BOOLEAN /\ trStatus \in BOOLEAN /\ cmdConn \in BOOLEAN
    /\ recvCB \in BOOLEAN /\ failCB \in BOOLEAN
    /\ conns \in 0 .. MaxConns
    /\ cbpc \in {"idle", "SendHeart", "SendClearApps", "SetConnState", "status"}
    /\ tasks \in Seq({"SendClearApps", "SetConnState"})
    /\ Counted(timer)
    /\ streams \in Nat
    /\ wait \in 0 .. Timeout
    /\ erased \in BOOLEAN

\* A time-out is planned only together with a stream's start, which runs first or later.
TimeOutsCovered == Timers("RemoveCB") <= streams + Timers("trigger")

CountInv == Typed /\ HeartbeatPerConnection /\ StreamPerConnection /\ TimeOutsCovered

\* The three equations over names of their own, for the arithmetic
Balanced(h, a, r, p, n, s) ==
    /\ h = n - Reached({"SendHeart"})
    /\ s + a + p = n - Reached({"SendHeart", "SendClearApps"})
    /\ r <= s + a

LEMMA Balance ==
    ASSUME Typed, NEW h, NEW a, NEW r, NEW p,
           h = Many(timer, "SendHeart"), a = Many(timer, "trigger"),
           r = Many(timer, "RemoveCB"), p = Times(tasks, "SendClearApps")
    PROVE  HeartbeatPerConnection /\ StreamPerConnection /\ TimeOutsCovered
               <=> Balanced(h, a, r, p, conns, streams)
  BY DEF HeartbeatPerConnection, StreamPerConnection, TimeOutsCovered, Balanced, Timers, Many,
         Posted, Times

LEMMA NextBalance ==
    ASSUME Typed', NEW h, NEW a, NEW r, NEW p,
           h = Many(timer', "SendHeart"), a = Many(timer', "trigger"),
           r = Many(timer', "RemoveCB"), p = Times(tasks', "SendClearApps"),
           Balanced(h, a, r, p, conns, streams)'
    PROVE  CountInv'
  BY DEF CountInv, HeartbeatPerConnection, StreamPerConnection, TimeOutsCovered, Balanced,
         Timers, Many, Posted, Times

LEMMA ConnectCBKeepsCounts ==
    ASSUME CountInv, BeginConnectCB \/ RemoteConnectCB \/ LoseConnection
    PROVE  CountInv'
  <1>0. /\ HeartEvery \in 0 .. Longest
        /\ "SendHeart" \in Kind /\ "RemoveCB" \in Kind /\ "trigger" \in Kind
        /\ Typed /\ Counted(timer) /\ tasks \in Seq({"SendClearApps", "SetConnState"})
    BY LongestBounds DEF Kind, CountInv, Typed
  <1>1. PICK h \in Nat : h = Many(timer, "SendHeart")
    BY <1>0, ManyIsNat
  <1>2. PICK a \in Nat : a = Many(timer, "trigger")
    BY <1>0, ManyIsNat
  <1>3. PICK r \in Nat : r = Many(timer, "RemoveCB")
    BY <1>0, ManyIsNat
  <1>4. PICK p \in Nat : p = Times(tasks, "SendClearApps")
    BY <1>0, TimesIsNat
  <1>5. Balanced(h, a, r, p, conns, streams)
    BY <1>0, <1>1, <1>2, <1>3, <1>4, Balance DEF CountInv
  <1>6. CASE BeginConnectCB
    <2>1. Typed' /\ UNCHANGED <<timer, tasks>>
      BY <1>0, <1>6 DEF BeginConnectCB, Typed
    <2>2. Balanced(h, a, r, p, conns, streams)'
      BY <1>0, <1>5, <1>6 DEF BeginConnectCB, Typed, Balanced, Reached
    <2>. QED  BY <1>1, <1>2, <1>3, <1>4, <2>1, <2>2, NextBalance
  <1>7. CASE CBSendHeart
    <2>1. /\ Counted(timer') /\ Many(timer', "SendHeart") = h + 1
          /\ Many(timer', "trigger") = a /\ Many(timer', "RemoveCB") = r
          /\ UNCHANGED tasks
      BY <1>0, <1>1, <1>2, <1>3, <1>7, DelayedCounts DEF CBSendHeart
    <2>2. Typed'
      BY <1>0, <1>7, <2>1 DEF CBSendHeart, Typed
    <2>3. Balanced(h + 1, a, r, p, conns, streams)'
      BY <1>0, <1>5, <1>7 DEF CBSendHeart, Typed, Balanced, Reached
    <2>. QED  BY <1>4, <2>1, <2>2, <2>3, NextBalance
  <1>8. CASE CBPost("SendClearApps", "SetConnState")
    <2>1. Times(tasks', "SendClearApps") = p + 1 /\ UNCHANGED timer
      BY <1>0, <1>4, <1>8, TimesAppend DEF CBPost
    <2>2. Typed'
      BY <1>0, <1>8 DEF CBPost, Typed
    <2>3. Balanced(h, a, r, p + 1, conns, streams)'
      BY <1>0, <1>5, <1>8 DEF CBPost, Typed, Balanced, Reached
    <2>. QED  BY <1>1, <1>2, <1>3, <2>1, <2>2, <2>3, NextBalance
  <1>9. CASE CBPost("SetConnState", "status")
    <2>1. Times(tasks', "SendClearApps") = p /\ UNCHANGED timer
      BY <1>0, <1>4, <1>9, TimesAppend DEF CBPost
    <2>2. Typed'
      BY <1>0, <1>9 DEF CBPost, Typed
    <2>3. Balanced(h, a, r, p, conns, streams)'
      BY <1>0, <1>5, <1>9 DEF CBPost, Typed, Balanced, Reached
    <2>. QED  BY <1>1, <1>2, <1>3, <2>1, <2>2, <2>3, NextBalance
  <1>10. CASE CBStatus \/ LoseConnection
    <2>1. Typed' /\ UNCHANGED <<timer, tasks>>
      BY <1>0, <1>10 DEF CBStatus, LoseConnection, Typed
    <2>2. Balanced(h, a, r, p, conns, streams)'
      BY <1>0, <1>5, <1>10 DEF CBStatus, LoseConnection, Typed, Balanced, Reached
    <2>. QED  BY <1>1, <1>2, <1>3, <1>4, <2>1, <2>2, NextBalance
  <1>. QED  BY <1>6, <1>7, <1>8, <1>9, <1>10 DEF RemoteConnectCB

LEMMA ControlStepKeepsCounts == ASSUME CountInv, ControlStep PROVE CountInv'
  <1>0. /\ HeartEvery \in 0 .. Longest /\ Timeout \in 0 .. Longest
        /\ TriggerAfter \in 0 .. Longest
        /\ "SendHeart" \in Kind /\ "RemoveCB" \in Kind /\ "trigger" \in Kind
        /\ Typed /\ Counted(timer) /\ tasks \in Seq({"SendClearApps", "SetConnState"})
    BY LongestBounds DEF Kind, CountInv, Typed
  <1>1. PICK h \in Nat : h = Many(timer, "SendHeart")
    BY <1>0, ManyIsNat
  <1>2. PICK a \in Nat : a = Many(timer, "trigger")
    BY <1>0, ManyIsNat
  <1>3. PICK r \in Nat : r = Many(timer, "RemoveCB")
    BY <1>0, ManyIsNat
  <1>4. PICK p \in Nat : p = Times(tasks, "SendClearApps")
    BY <1>0, TimesIsNat
  <1>5. Balanced(h, a, r, p, conns, streams)
    BY <1>0, <1>1, <1>2, <1>3, <1>4, Balance DEF CountInv
  <1>6. ASSUME tasks # <<>>
        PROVE  /\ Tail(tasks) \in Seq({"SendClearApps", "SetConnState"})
               /\ Times(Tail(tasks), "SendClearApps")
                      = p - (IF Head(tasks) = "SendClearApps" THEN 1 ELSE 0)
    BY <1>0, <1>4, <1>6, TimesTail
  <1>7. CASE RunSendClearApps
    <2>1. PICK tm : tm = Delayed(timer, "trigger", TriggerAfter)
      OBVIOUS
    <2>2. /\ Counted(tm) /\ Many(tm, "trigger") = a + 1
          /\ Many(tm, "SendHeart") = h /\ Many(tm, "RemoveCB") = r
      BY <1>0, <1>1, <1>2, <1>3, <2>1, DelayedCounts
    <2>3. /\ SendTcpData(tm) /\ trStatus' = TRUE
          /\ UNCHANGED <<connected, conns, cbpc, cmdConn, streams>>
          /\ tasks' \in Seq({"SendClearApps", "SetConnState"})
          /\ Times(tasks', "SendClearApps") = p - 1
      BY <1>6, <1>7, <2>1 DEF RunSendClearApps, SendClearApps
    <2>4. CASE ~recvCB /\ ~failCB /\ connected
      <3>1. recvCB' = TRUE /\ failCB' = TRUE /\ timer' = Delayed(tm, "RemoveCB", Timeout)
            /\ wait' = Timeout /\ erased' \in BOOLEAN
        BY <2>3, <2>4 DEF SendTcpData
      <3>2. /\ Counted(timer') /\ Many(timer', "trigger") = a + 1
            /\ Many(timer', "SendHeart") = h /\ Many(timer', "RemoveCB") = r + 1
        BY <1>0, <2>2, <3>1, DelayedCounts
      <3>3. Typed'
        BY <1>0, <2>3, <3>1, <3>2 DEF Typed
      <3>4. Balanced(h, a + 1, r + 1, p - 1, conns, streams)'
        BY <1>0, <1>5, <2>3 DEF Typed, Balanced, Reached
      <3>. QED  BY <2>3, <3>2, <3>3, <3>4, NextBalance
    <2>5. CASE ~(~recvCB /\ ~failCB /\ connected)
      <3>1. recvCB' = FALSE /\ failCB' = FALSE /\ timer' = tm /\ wait' = wait
            /\ erased' \in BOOLEAN
        BY <2>3, <2>5 DEF SendTcpData
      <3>2. Typed'
        BY <1>0, <2>2, <2>3, <3>1 DEF Typed
      <3>3. Balanced(h, a + 1, r, p - 1, conns, streams)'
        BY <1>0, <1>5, <2>3 DEF Typed, Balanced, Reached
      <3>. QED  BY <2>2, <2>3, <3>1, <3>2, <3>3, NextBalance
    <2>. QED  BY <2>4, <2>5
  <1>8. CASE RunSetConnState
    <2>1. /\ UNCHANGED timer /\ Times(tasks', "SendClearApps") = p
          /\ tasks' \in Seq({"SendClearApps", "SetConnState"})
      BY <1>6, <1>8 DEF RunSetConnState
    <2>2. Typed'
      BY <1>0, <1>8, <2>1 DEF RunSetConnState, Typed
    <2>3. Balanced(h, a, r, p, conns, streams)'
      BY <1>0, <1>5, <1>8 DEF RunSetConnState, Typed, Balanced, Reached
    <2>. QED  BY <1>1, <1>2, <1>3, <2>1, <2>2, <2>3, NextBalance
  <1>9. CASE FireSendHeart
    <2>1. PICK tm : tm = Fired(timer, "SendHeart")
      OBVIOUS
    <2>2. /\ Counted(tm) /\ Many(tm, "SendHeart") = h - 1
          /\ Many(tm, "trigger") = a /\ Many(tm, "RemoveCB") = r
      BY <1>0, <1>1, <1>2, <1>3, <1>9, <2>1, FiredCounts DEF FireSendHeart
    <2>3. timer' = Delayed(tm, "SendHeart", HeartEvery)
      BY <1>9, <2>1 DEF FireSendHeart, SendHeart
    <2>4. PICK tn : tn = Delayed(tm, "SendHeart", HeartEvery)
      OBVIOUS
    <2>5. /\ Counted(tn) /\ Many(tn, "SendHeart") = Many(tm, "SendHeart") + 1
          /\ Many(tn, "trigger") = Many(tm, "trigger")
          /\ Many(tn, "RemoveCB") = Many(tm, "RemoveCB")
      BY <1>0, <2>2, <2>4, DelayedCounts
    <2>6. /\ Counted(timer') /\ Many(timer', "SendHeart") = h
          /\ Many(timer', "trigger") = a /\ Many(timer', "RemoveCB") = r
      BY <2>2, <2>3, <2>4, <2>5
    <2>7. Typed' /\ UNCHANGED tasks
      BY <1>0, <1>9, <2>6 DEF FireSendHeart, Typed
    <2>8. Balanced(h, a, r, p, conns, streams)'
      BY <1>0, <1>5, <1>9 DEF FireSendHeart, Typed, Balanced, Reached
    <2>. QED  BY <1>4, <2>6, <2>7, <2>8, NextBalance
  <1>10. CASE FireRemoveCB
    <2>1. /\ Counted(timer') /\ Many(timer', "RemoveCB") = r - 1
          /\ Many(timer', "trigger") = a /\ Many(timer', "SendHeart") = h
      BY <1>0, <1>1, <1>2, <1>3, <1>10, FiredCounts DEF FireRemoveCB
    <2>2. Typed' /\ UNCHANGED tasks
      BY <1>0, <1>10, <2>1 DEF FireRemoveCB, RemoveCB, Typed
    <2>3. Balanced(h, a, r - 1, p, conns, streams)'
      BY <1>0, <1>5, <1>10 DEF FireRemoveCB, Typed, Balanced, Reached
    <2>. QED  BY <1>4, <2>1, <2>2, <2>3, NextBalance
  <1>11. CASE triggerStraamThread
    <2>1. /\ Counted(timer') /\ Many(timer', "trigger") = a - 1
          /\ Many(timer', "RemoveCB") = r /\ Many(timer', "SendHeart") = h
      BY <1>0, <1>1, <1>2, <1>3, <1>11, FiredCounts DEF triggerStraamThread
    <2>2. Typed' /\ UNCHANGED tasks
      BY <1>0, <1>11, <2>1 DEF triggerStraamThread, Typed
    <2>3. Balanced(h, a - 1, r, p, conns, streams)'
      BY <1>0, <1>5, <1>11 DEF triggerStraamThread, Typed, Balanced, Reached
    <2>. QED  BY <1>4, <2>1, <2>2, <2>3, NextBalance
  <1>. QED  BY <1>7, <1>8, <1>9, <1>10, <1>11 DEF ControlStep

LEMMA NextKeepsCounts == ASSUME CountInv, [Next]_vars PROVE CountInv'
  <1>0. /\ "SendHeart" \in Kind /\ "RemoveCB" \in Kind /\ "trigger" \in Kind
        /\ Typed /\ Counted(timer) /\ tasks \in Seq({"SendClearApps", "SetConnState"})
    BY DEF Kind, CountInv, Typed
  <1>1. CASE BeginConnectCB \/ RemoteConnectCB \/ LoseConnection
    BY <1>1, ConnectCBKeepsCounts
  <1>2. CASE ControlStep
    BY <1>2, ControlStepKeepsCounts
  <1>3. CASE Tick
    <2>1. PICK h, a, r, p : /\ h = Many(timer, "SendHeart") /\ a = Many(timer, "trigger")
                            /\ r = Many(timer, "RemoveCB") /\ p = Times(tasks, "SendClearApps")
      OBVIOUS
    <2>2. Balanced(h, a, r, p, conns, streams)
      BY <1>0, <2>1, Balance DEF CountInv
    <2>3. /\ Counted(timer') /\ Many(timer', "SendHeart") = h
          /\ Many(timer', "trigger") = a /\ Many(timer', "RemoveCB") = r
      BY <1>0, <1>3, <2>1, TickCounts
    <2>4. Typed' /\ UNCHANGED tasks
      BY <1>0, <1>3, <2>3 DEF Tick, Typed
    <2>5. Balanced(h, a, r, p, conns, streams)'
      BY <1>3, <2>2 DEF Tick, Balanced, Reached
    <2>. QED  BY <2>1, <2>3, <2>4, <2>5, NextBalance
  <1>4. CASE UNCHANGED vars
    BY <1>0, <1>4 DEF vars, CountInv, Typed, HeartbeatPerConnection, StreamPerConnection,
                      TimeOutsCovered, Timers, Posted, Reached
  <1>. QED  BY <1>1, <1>2, <1>3, <1>4 DEF Next

LEMMA InitCounts == ASSUME Init PROVE CountInv
  <1>1. /\ timer = [k \in Kind |-> [l \in 0 .. Longest |-> 0]] /\ tasks = <<>>
        /\ conns = 0 /\ cbpc = "idle" /\ streams = 0
    BY DEF Init
  <1>2. ASSUME NEW k \in Kind
        PROVE  IsFiniteSet(Waiting(timer[k])) /\ Many(timer, k) = 0
    <2>1. PICK f : f = [l \in 0 .. Longest |-> 0]
      OBVIOUS
    <2>2. f \in [0 .. Longest -> Nat] /\ \A l \in 0 .. Longest : f[l] = 0
      BY <2>1
    <2>3. timer[k] = f
      BY <1>1, <2>1
    <2>. QED  BY <2>2, <2>3, NoneWaiting DEF Many
  <1>3. Times(tasks, "SendClearApps") = 0
    <2>1. {i \in 1 .. Len(tasks) : tasks[i] = "SendClearApps"} = {}
      BY <1>1
    <2>. QED  BY <2>1, FS_EmptySet DEF Times
  <1>4. Typed
    <2>1. timer \in [Kind -> [0 .. Longest -> Nat]]
      BY <1>1
    <2>2. conns \in 0 .. MaxConns /\ wait \in 0 .. Timeout /\ streams \in Nat
      BY <1>1 DEF Init
    <2>3. Counted(timer)
      BY <1>2, <2>1 DEF Counted
    <2>4. tasks \in Seq({"SendClearApps", "SetConnState"})
      BY <1>1
    <2>. QED  BY <1>1, <2>2, <2>3, <2>4 DEF Init, Typed
  <1>5. Balanced(0, 0, 0, 0, conns, streams)
    <2>1. Reached({"SendHeart"}) = 0 /\ Reached({"SendHeart", "SendClearApps"}) = 0
      BY <1>1 DEF Reached
    <2>. QED  BY <1>1, <2>1 DEF Balanced
  <1>. QED  BY <1>2, <1>3, <1>4, <1>5, Balance DEF CountInv, Kind

\* Heartbeats, streams and time-outs keep their balance with the connections in every
\* behaviour: the invariant the three theorems below are read off from.
THEOREM CountsKept == Spec => []CountInv
  <1>. QED  BY InitCounts, NextKeepsCounts, PTL DEF Spec

\* A timer's count is never larger than all of its kind, and those are never more than
\* the connections that were made.
LEMMA CountsTyped == ASSUME CountInv PROVE TypeOK
  <1>0. /\ "SendHeart" \in Kind /\ "RemoveCB" \in Kind /\ "trigger" \in Kind
        /\ Typed /\ Counted(timer) /\ tasks \in Seq({"SendClearApps", "SetConnState"})
    BY DEF Kind, CountInv, Typed
  <1>1. PICK h \in Nat : h = Many(timer, "SendHeart")
    BY <1>0, ManyIsNat
  <1>2. PICK a \in Nat : a = Many(timer, "trigger")
    BY <1>0, ManyIsNat
  <1>3. PICK r \in Nat : r = Many(timer, "RemoveCB")
    BY <1>0, ManyIsNat
  <1>4. PICK p \in Nat : p = Times(tasks, "SendClearApps")
    BY <1>0, TimesIsNat
  <1>5. Balanced(h, a, r, p, conns, streams)
    BY <1>0, <1>1, <1>2, <1>3, <1>4, Balance DEF CountInv
  <1>6. /\ h <= MaxConns /\ a <= MaxConns /\ r <= MaxConns /\ streams \in 0 .. MaxConns
    BY <1>0, <1>5 DEF Balanced, Reached, Typed
  <1>7. ASSUME NEW k \in Kind, NEW l \in 0 .. Longest PROVE timer[k][l] \in 0 .. MaxConns
    <2>1. PICK f \in [0 .. Longest -> Nat] : f = timer[k] /\ IsFiniteSet(Waiting(f))
      BY <1>0 DEF Counted
    <2>2. PICK m \in Nat : m = Cardinality(Waiting(f)) /\ m <= MaxConns
      BY <1>1, <1>2, <1>3, <1>6, <2>1 DEF Kind, Many
    <2>3. f[l] \in Nat /\ f[l] <= m
      BY <2>1, <2>2, WaitsBounded
    <2>. QED  BY <2>1, <2>2, <2>3
  <1>8. timer \in [Kind -> [0 .. Longest -> 0 .. MaxConns]]
    <2>1. ASSUME NEW k \in Kind PROVE timer[k] \in [0 .. Longest -> 0 .. MaxConns]
      <3>1. PICK f \in [0 .. Longest -> Nat] : f = timer[k]
        BY <1>0 DEF Counted
      <3>2. \A l \in 0 .. Longest : f[l] \in 0 .. MaxConns
        BY <1>7, <3>1
      <3>. QED  BY <3>1, <3>2
    <2>. QED  BY <1>0, <2>1 DEF Counted
  <1>. QED  BY <1>0, <1>6, <1>8 DEF Typed, TypeOK

\* Every variable keeps its type, and no wait ever holds more timers of a kind than
\* connections were made: timers that are planned again and again do not pile up.
THEOREM TypeCorrect == Spec => []TypeOK
  <1>1. CountInv => TypeOK
    BY CountsTyped
  <1>. QED  BY <1>1, CountsKept, PTL

\* However connections are lost and made again while heartbeats are due, there is one
\* chain of heartbeats for every connection that was ever made, but for the one whose
\* callback has not planned its first yet: none dies and none splits.
THEOREM HeartbeatsAddUp == Spec => []HeartbeatPerConnection
  <1>1. CountInv => HeartbeatPerConnection
    BY DEF CountInv
  <1>. QED  BY <1>1, CountsKept, PTL

\* Every connection starts one stream thread, no more and no fewer: it is started, or
\* its timer runs, or the task that plans it is posted, or the callback will post it.
THEOREM StreamsAddUp == Spec => []StreamPerConnection
  <1>1. CountInv => StreamPerConnection
    BY DEF CountInv
  <1>. QED  BY <1>1, CountsKept, PTL
=============================================================================

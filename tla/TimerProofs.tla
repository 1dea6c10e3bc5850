------------------------------ MODULE TimerProofs ------------------------------
(***************************************************************************)
(* Proofs about Timer, for all sets of names and Timer objects: TimerInv  *)
(* is an inductive invariant of TimerSpec, so OrderMatchesKeys and       *)
(* ReportSafeWhenIdle hold in every reachable state.                      *)
(***************************************************************************)
EXTENDS Timer, SequenceTheorems, TLAPS

LEMMA InitInv == TimerInit => TimerInv
<1>. SUFFICES ASSUME TimerInit PROVE TimerInv
  OBVIOUS
<1>1. PICK n0 \in Names :
        timer = [h \in Handles |-> [state |-> "unborn", name |-> n0, id |-> 0]]
  BY DEF TimerInit
<1>2. TimerTypeOK
  BY <1>1 DEF TimerInit, TimerTypeOK, TimerRec
<1>. QED BY <1>2 DEF TimerInit, TimerInv, KeysHaveMeasurements, OrderMatchesKeys,
                     OwnerPointsHere, UnstoppedIsLive

-----------------------------------------------------------------------------
(* Timer(name). *)

LEMMA ConstructInv ==
    ASSUME TimerInv, NEW h \in Handles, NEW n \in Names, Construct(h, n)
    PROVE  TimerInv'
<1>. DEFINE r == [stopped |-> FALSE, owner |-> h]
            k == Len(meas[n])
<1>1. /\ meas[n] \in Seq(Meas) /\ r \in Meas
      /\ meas' = [meas EXCEPT ![n] = Append(meas[n], r)]
      /\ timer' = [timer EXCEPT ![h] = [state |-> "live", name |-> n, id |-> k]]
  BY DEF TimerInv, TimerTypeOK, Construct, Meas
<1>2. /\ Len(meas'[n]) = k + 1
      /\ \A i \in 1..k : meas'[n][i] = meas[n][i]
      /\ meas'[n][k + 1] = r
      /\ meas'[n] \in Seq(Meas)
  BY <1>1, AppendProperties DEF TimerInv, TimerTypeOK
<1>3. TimerTypeOK'
  BY <1>1, <1>2 DEF TimerInv, TimerTypeOK, Construct, TimerRec
(* No measurement is owned by h yet: an owner is never unborn. *)
<1>4. \A m \in Names : \A i \in 1..Len(meas[m]) : meas[m][i].owner # h
  BY DEF TimerInv, OwnerPointsHere, Construct
<1>5. KeysHaveMeasurements'
  BY <1>1, <1>2 DEF TimerInv, TimerTypeOK, KeysHaveMeasurements, Construct
<1>6. OrderMatchesKeys'
  <2>1. CASE k = 0
    <3>1. n \notin keys /\ n \notin {order[i] : i \in 1..Len(order)}
      BY <2>1 DEF TimerInv, TimerTypeOK, KeysHaveMeasurements, OrderMatchesKeys
    <3>2. order' = Append(order, n) /\ keys' = keys \cup {n}
      BY <2>1 DEF Construct
    <3>3. /\ Len(order') = Len(order) + 1
          /\ \A i \in 1..Len(order) : order'[i] = order[i]
          /\ order'[Len(order) + 1] = n
      BY <3>2, AppendProperties DEF TimerInv, TimerTypeOK
    <3>. QED BY <3>1, <3>2, <3>3 DEF TimerInv, TimerTypeOK, OrderMatchesKeys
  <2>2. CASE k # 0
    <3>1. n \in keys
      BY <2>2 DEF TimerInv, TimerTypeOK, KeysHaveMeasurements
    <3>. QED BY <2>2, <3>1 DEF TimerInv, OrderMatchesKeys, Construct
  <2>. QED BY <2>1, <2>2
<1>7. OwnerPointsHere'
  <2>. SUFFICES ASSUME NEW m \in Names, NEW i \in 1..Len(meas'[m])
                PROVE  LET o == meas'[m][i].owner IN
                       timer'[o].state # "unborn" /\ timer'[o].name = m
                       /\ timer'[o].id = i - 1
    BY DEF OwnerPointsHere
  <2>1. CASE m = n /\ i = k + 1
    BY <1>1, <1>2, <2>1 DEF TimerInv, TimerTypeOK
  <2>2. CASE ~(m = n /\ i = k + 1)
    <3>1. i \in 1..Len(meas[m]) /\ meas'[m][i] = meas[m][i]
      BY <1>1, <1>2, <2>2 DEF TimerInv, TimerTypeOK
    <3>0. meas[m][i] \in Meas
      BY <3>1 DEF TimerInv, TimerTypeOK
    <3>2. meas[m][i].owner # h /\ meas[m][i].owner \in Handles
      BY <3>0, <3>1, <1>4 DEF Meas
    <3>3. timer'[meas[m][i].owner] = timer[meas[m][i].owner]
      BY <1>1, <3>2 DEF TimerInv, TimerTypeOK
    <3>. QED BY <3>1, <3>3 DEF TimerInv, OwnerPointsHere
  <2>. QED BY <2>1, <2>2
<1>8. UnstoppedIsLive'
  <2>. SUFFICES ASSUME NEW m \in Names, NEW i \in 1..Len(meas'[m]),
                       ~meas'[m][i].stopped
                PROVE  timer'[meas'[m][i].owner].state = "live"
    BY DEF UnstoppedIsLive
  <2>1. CASE m = n /\ i = k + 1
    BY <1>1, <1>2, <2>1 DEF TimerInv, TimerTypeOK
  <2>2. CASE ~(m = n /\ i = k + 1)
    <3>1. i \in 1..Len(meas[m]) /\ meas'[m][i] = meas[m][i]
      BY <1>1, <1>2, <2>2 DEF TimerInv, TimerTypeOK
    <3>0. meas[m][i] \in Meas
      BY <3>1 DEF TimerInv, TimerTypeOK
    <3>2. meas[m][i].owner # h /\ meas[m][i].owner \in Handles
      BY <3>0, <3>1, <1>4 DEF Meas
    <3>3. timer'[meas[m][i].owner] = timer[meas[m][i].owner]
      BY <1>1, <3>2 DEF TimerInv, TimerTypeOK
    <3>. QED BY <3>1, <3>3 DEF TimerInv, UnstoppedIsLive
  <2>. QED BY <2>1, <2>2
<1>. QED BY <1>3, <1>5, <1>6, <1>7, <1>8 DEF TimerInv

-----------------------------------------------------------------------------
(* Stop and ~Timer. *)

(* StopEffect sets the stop of exactly the measurement at name_ and id_, *)
(* if there is one, and changes nothing else of the measurements.        *)
LEMMA StopEffectFacts ==
    ASSUME TimerInv, NEW h \in Handles, StopEffect(h)
    PROVE  /\ meas' \in [Names -> Seq(Meas)]
           /\ \A m \in Names :
                /\ Len(meas'[m]) = Len(meas[m])
                /\ \A i \in 1..Len(meas[m]) :
                     /\ meas'[m][i].owner = meas[m][i].owner
                     /\ meas'[m][i].stopped <=>
                          meas[m][i].stopped
                          \/ (m = timer[h].name /\ i = timer[h].id + 1)
<1>. DEFINE n == timer[h].name
            j == timer[h].id + 1
<1>1. n \in Names /\ j \in Nat
  BY DEF TimerInv, TimerTypeOK, TimerRec
<1>2. CASE meas' = meas /\ (n \notin keys \/ j > Len(meas[n]))
  <2>1. \A i \in 1..Len(meas[n]) : ~(i = j)
    BY <1>2, <1>1 DEF TimerInv, TimerTypeOK, KeysHaveMeasurements
  <2>. QED BY <1>2, <2>1 DEF TimerInv, TimerTypeOK
<1>3. CASE n \in keys /\ j <= Len(meas[n])
           /\ meas' = [meas EXCEPT ![n][j].stopped = TRUE]
  <2>1. j \in 1..Len(meas[n])
    BY <1>1, <1>3 DEF TimerInv, TimerTypeOK, TimerRec
  <2>2. meas[n][j] \in Meas
    BY <2>1, <1>1 DEF TimerInv, TimerTypeOK
  <2>3. meas'[n] = [meas[n] EXCEPT ![j] = [meas[n][j] EXCEPT !.stopped = TRUE]]
    BY <1>3, <1>1 DEF TimerInv, TimerTypeOK
  <2>4. [meas[n][j] EXCEPT !.stopped = TRUE] \in Meas
    BY <2>2 DEF Meas
  <2>5. meas[n] \in Seq(Meas)
    BY <1>1 DEF TimerInv, TimerTypeOK
  <2>6. /\ meas'[n] \in Seq(Meas)
        /\ Len(meas'[n]) = Len(meas[n])
        /\ \A i \in 1..Len(meas[n]) :
              meas'[n][i] = IF i = j THEN [meas[n][j] EXCEPT !.stopped = TRUE]
                            ELSE meas[n][i]
    <3>. DEFINE e == [meas[n][j] EXCEPT !.stopped = TRUE]
    <3>1. /\ [meas[n] EXCEPT ![j] = e] \in Seq(Meas)
          /\ Len([meas[n] EXCEPT ![j] = e]) = Len(meas[n])
          /\ \A i \in 1..Len(meas[n]) :
                [meas[n] EXCEPT ![j] = e][i] = IF i = j THEN e ELSE meas[n][i]
      BY <2>1, <2>4, <2>5, ExceptSeq
    <3>. QED BY <3>1, <2>3
  <2>7. \A m \in Names : m # n => meas'[m] = meas[m]
    BY <1>3 DEF TimerInv, TimerTypeOK
  <2>8. meas' \in [Names -> Seq(Meas)]
    BY <1>3, <2>6, <2>7 DEF TimerInv, TimerTypeOK
  <2>9. \A i \in 1..Len(meas[n]) : meas[n][i] \in Meas
    BY <2>5
  <2>10. ASSUME NEW m \in Names
         PROVE  /\ Len(meas'[m]) = Len(meas[m])
                /\ \A i \in 1..Len(meas[m]) :
                     /\ meas'[m][i].owner = meas[m][i].owner
                     /\ meas'[m][i].stopped <=>
                          meas[m][i].stopped \/ (m = n /\ i = j)
    <3>1. CASE m = n
      <4>. SUFFICES ASSUME NEW i \in 1..Len(meas[n])
                    PROVE  /\ meas'[n][i].owner = meas[n][i].owner
                           /\ meas'[n][i].stopped <=> meas[n][i].stopped \/ i = j
        BY <2>6, <3>1
      <4>1. CASE i = j
        BY <2>6, <2>2, <4>1 DEF Meas
      <4>2. CASE i # j
        BY <2>6, <4>2
      <4>. QED BY <4>1, <4>2
    <3>2. CASE m # n
      BY <2>7, <3>2
    <3>. QED BY <3>1, <3>2
  <2>. QED BY <2>8, <2>10
<1>. QED BY <1>2, <1>3 DEF StopEffect

LEMMA StopInv ==
    ASSUME TimerInv, NEW h \in Handles, Stop(h)
    PROVE  TimerInv'
<1>1. StopEffect(h) /\ UNCHANGED <<keys, order, timer>>
  BY DEF Stop
<1>2. TimerTypeOK'
  <2>1. status' \in {"running", "terminated", "undefined"}
    BY <1>1 DEF StopEffect, TimerInv, TimerTypeOK
  <2>. QED BY <1>1, <2>1, StopEffectFacts DEF TimerInv, TimerTypeOK
<1>3. KeysHaveMeasurements' /\ OrderMatchesKeys'
  BY <1>1, StopEffectFacts DEF TimerInv, TimerTypeOK, KeysHaveMeasurements,
                               OrderMatchesKeys
<1>4. OwnerPointsHere'
  BY <1>1, StopEffectFacts DEF TimerInv, OwnerPointsHere
<1>5. UnstoppedIsLive'
  BY <1>1, StopEffectFacts DEF TimerInv, UnstoppedIsLive
<1>. QED BY <1>2, <1>3, <1>4, <1>5 DEF TimerInv

LEMMA DestroyInv ==
    ASSUME TimerInv, NEW h \in Handles, Destroy(h)
    PROVE  TimerInv'
<1>1. /\ StopEffect(h) /\ UNCHANGED <<keys, order>>
      /\ timer' = [timer EXCEPT ![h].state = "dead"]
  BY DEF Destroy
<1>2. TimerTypeOK'
  <2>1. status' \in {"running", "terminated", "undefined"}
    BY <1>1 DEF StopEffect, TimerInv, TimerTypeOK
  <2>. QED BY <1>1, <2>1, StopEffectFacts DEF TimerInv, TimerTypeOK, TimerRec
<1>3. KeysHaveMeasurements' /\ OrderMatchesKeys'
  BY <1>1, StopEffectFacts DEF TimerInv, TimerTypeOK, KeysHaveMeasurements,
                               OrderMatchesKeys
<1>4. ASSUME NEW o \in Handles
      PROVE  /\ timer'[o].name = timer[o].name
             /\ timer'[o].id = timer[o].id
             /\ timer'[o].state # "unborn" <=> timer[o].state # "unborn"
             /\ o # h => timer'[o].state = timer[o].state
  <2>1. timer[o] \in TimerRec /\ timer[h].state = "live"
    BY DEF TimerInv, TimerTypeOK, Destroy
  <2>2. CASE o = h
    <3>1. timer'[o] = [timer[o] EXCEPT !.state = "dead"]
      BY <1>1, <2>2 DEF TimerInv, TimerTypeOK
    <3>. QED BY <2>1, <2>2, <3>1 DEF TimerRec
  <2>3. CASE o # h
    BY <1>1, <2>3 DEF TimerInv, TimerTypeOK
  <2>. QED BY <2>2, <2>3
<1>5. OwnerPointsHere'
  <2>. SUFFICES ASSUME NEW m \in Names, NEW i \in 1..Len(meas'[m])
                PROVE  LET o == meas'[m][i].owner IN
                       timer'[o].state # "unborn" /\ timer'[o].name = m
                       /\ timer'[o].id = i - 1
    BY DEF OwnerPointsHere
  <2>1. i \in 1..Len(meas[m]) /\ meas'[m][i].owner = meas[m][i].owner
    BY <1>1, StopEffectFacts
  <2>0. meas[m][i] \in Meas
    BY <2>1 DEF TimerInv, TimerTypeOK
  <2>2. meas[m][i].owner \in Handles
    BY <2>0 DEF Meas
  <2>. QED BY <2>1, <2>2, <1>4 DEF TimerInv, OwnerPointsHere
<1>6. UnstoppedIsLive'
  <2>. SUFFICES ASSUME NEW m \in Names, NEW i \in 1..Len(meas'[m]),
                       ~meas'[m][i].stopped
                PROVE  timer'[meas'[m][i].owner].state = "live"
    BY DEF UnstoppedIsLive
  <2>1. /\ i \in 1..Len(meas[m])
        /\ meas'[m][i].owner = meas[m][i].owner
        /\ ~meas[m][i].stopped
        /\ ~(m = timer[h].name /\ i = timer[h].id + 1)
    BY <1>1, StopEffectFacts
  <2>0. meas[m][i] \in Meas
    BY <2>1 DEF TimerInv, TimerTypeOK
  <2>2. meas[m][i].owner \in Handles
    BY <2>0 DEF Meas
  (* h's own measurement is the one at its name_ and id_, now stopped. *)
  <2>3. meas[m][i].owner # h
    BY <2>1 DEF TimerInv, OwnerPointsHere
  <2>4. timer[meas[m][i].owner].state = "live"
    BY <2>1 DEF TimerInv, UnstoppedIsLive
  <2>. QED BY <2>1, <2>2, <2>3, <2>4, <1>4

<1>. QED BY <1>2, <1>3, <1>5, <1>6 DEF TimerInv

-----------------------------------------------------------------------------
(* Timer::ClearAll. *)

LEMMA ClearAllInv ==
    ASSUME TimerInv, ClearAll
    PROVE  TimerInv'
<1>1. \A m \in Names : meas'[m] = <<>> /\ Len(meas'[m]) = 0
  BY DEF ClearAll
<1>2. TimerTypeOK'
  BY DEF ClearAll, TimerInv, TimerTypeOK
<1>. QED BY <1>1, <1>2 DEF ClearAll, TimerInv, KeysHaveMeasurements,
                           OrderMatchesKeys, OwnerPointsHere, UnstoppedIsLive

-----------------------------------------------------------------------------

LEMMA NextInv == TimerInv /\ [TimerNext]_tvars => TimerInv'
<1>. SUFFICES ASSUME TimerInv, [TimerNext]_tvars PROVE TimerInv'
  OBVIOUS
<1>1. CASE \E h \in Handles, n \in Names : Construct(h, n)
  BY <1>1, ConstructInv
<1>2. CASE \E h \in Handles : Stop(h)
  BY <1>2, StopInv
<1>3. CASE \E h \in Handles : Destroy(h)
  BY <1>3, DestroyInv
<1>4. CASE ClearAll
  BY <1>4, ClearAllInv
<1>5. CASE UNCHANGED tvars
  BY <1>5 DEF tvars, TimerInv, TimerTypeOK, KeysHaveMeasurements,
              OrderMatchesKeys, OwnerPointsHere, UnstoppedIsLive
<1>. QED BY <1>1, <1>2, <1>3, <1>4, <1>5 DEF TimerNext

LEMMA InvImpliesIdleSafe == TimerInv => ReportSafeWhenIdle
<1>. SUFFICES ASSUME TimerInv,
                     status = "running", \A h \in Handles : timer[h].state # "live",
                     NEW k \in 1..Len(order)
              PROVE  GetResultsReturns(order[k])
  BY DEF ReportSafeWhenIdle, PrintReportReturns
<1>1. order[k] \in keys /\ order[k] \in Names
  BY DEF TimerInv, TimerTypeOK, OrderMatchesKeys
<1>2. ASSUME NEW i \in 1..Len(meas[order[k]])
      PROVE  meas[order[k]][i].owner \in Handles
  <2>1. meas[order[k]][i] \in Meas
    BY <1>1 DEF TimerInv, TimerTypeOK
  <2>. QED BY <2>1 DEF Meas
<1>. QED BY <1>1, <1>2 DEF TimerInv, UnstoppedIsLive, GetResultsReturns

(* PrintReport reports every name once: in every state reached by any   *)
(* sequence of Timer constructions, Stops, destructions and ClearAll     *)
(* calls, order lists exactly the keys of measurements without repeats.  *)
THEOREM OrderMatchesKeysHolds == TimerSpec => []OrderMatchesKeys
<1>1. TimerInv => OrderMatchesKeys
  BY DEF TimerInv
<1>. QED BY <1>1, InitInv, NextInv, PTL DEF TimerSpec

(* Once all Timer objects are destroyed, PrintReport and GetResults      *)
(* return for every name, even when ClearAll ran while timers were alive. *)
THEOREM ReportSafeWhenIdleHolds == TimerSpec => []ReportSafeWhenIdle
BY InitInv, NextInv, InvImpliesIdleSafe, PTL DEF TimerSpec

=============================================================================

-------------------------------- MODULE Timer --------------------------------
(***************************************************************************)
(* NetworkMonitor::Timer (src/src/timer.cpp): named timers whose           *)
(* measurements live in a process-wide TimerMeasurements singleton, a map  *)
(* name -> vector of measurements plus the vector order of names in first *)
(* use order.  A Timer object remembers its name_ and id_, the index of    *)
(* its measurement in the vector of its name; its destructor calls Stop.  *)
(* Timer objects are the handles of the model; each is constructed at    *)
(* most once and destroyed at most once, in any order (scopes nest and   *)
(* objects may live on the heap).  The code runs on one thread.           *)
(*                                                                         *)
(* A measurement's start is set by the constructor, so only whether stop  *)
(* was set matters (IsComplete).  Each measurement also records the      *)
(* handle that created it (a ghost field, for the properties).            *)
(*                                                                         *)
(* status becomes "terminated" when an exception leaves the noexcept Stop *)
(* (std::terminate), and "undefined" when Stop indexes past the end of a  *)
(* vector (undefined behaviour): both end the run.                        *)
(***************************************************************************)
EXTENDS Integers, Sequences

CONSTANTS
    Names,     \* timer names
    Handles    \* Timer objects

VARIABLES
    keys,      \* the keys of TimerMeasurements::measurements
    meas,      \* meas[n]: the vector of measurements of name n
    order,     \* TimerMeasurements::order
    timer,     \* each Timer object: "unborn", "live" or "dead", name_, id_
    status     \* "running", "terminated" or "undefined"

tvars == <<keys, meas, order, timer, status>>

Meas == [stopped : BOOLEAN, owner : Handles]
TimerRec == [state : {"unborn", "live", "dead"}, name : Names, id : Nat]

TimerTypeOK ==
    /\ keys \subseteq Names
    /\ meas \in [Names -> Seq(Meas)]
    /\ order \in Seq(Names)
    /\ timer \in [Handles -> TimerRec]
    /\ status \in {"running", "terminated", "undefined"}

TimerInit ==
    /\ keys = {}
    /\ meas = [n \in Names |-> <<>>]
    /\ order = <<>>
    /\ \E n0 \in Names : timer = [h \in Handles |-> [state |-> "unborn", name |-> n0, id |-> 0]]
    /\ status = "running"

(* Timer(name): measurements[name] creates the key if needed; the new    *)
(* measurement is appended and its index kept as id_; a name seen for    *)
(* the first time (id_ == 0) is appended to order.                       *)
Construct(h, n) ==
    /\ status = "running"
    /\ timer[h].state = "unborn"
    /\ keys' = keys \cup {n}
    /\ meas' = [meas EXCEPT ![n] = Append(@, [stopped |-> FALSE, owner |-> h])]
    /\ timer' = [timer EXCEPT ![h] = [state |-> "live", name |-> n, id |-> Len(meas[n])]]
    /\ order' = IF Len(meas[n]) = 0 THEN Append(order, n) ELSE order
    /\ UNCHANGED status

(* The effect of Stop on the singleton and on status: measurements.at  *)
(* throws if the name is gone; measurements[id_] is out of bounds if the *)
(* vector is shorter; else the measurement gets its stop unless it is    *)
(* already complete.                                                     *)
StopEffect(h) ==
    LET n == timer[h].name
        i == timer[h].id + 1
    IN
    \/ /\ n \notin keys
       /\ status' = "terminated"
       /\ UNCHANGED meas
    \/ /\ n \in keys /\ i > Len(meas[n])
       /\ status' = "undefined"
       /\ UNCHANGED meas
    \/ /\ n \in keys /\ i <= Len(meas[n])
       /\ meas' = [meas EXCEPT ![n][i].stopped = TRUE]
       /\ UNCHANGED status

(* Timer::Stop, called explicitly (TIMER_STOP) on a live object. *)
Stop(h) ==
    /\ status = "running"
    /\ timer[h].state = "live"
    /\ StopEffect(h)
    /\ UNCHANGED <<keys, order, timer>>

(* Mutant: the destructor does not call Stop. *)
DestroyNoStop(h) ==
    /\ status = "running"
    /\ timer[h].state = "live"
    /\ timer' = [timer EXCEPT ![h].state = "dead"]
    /\ UNCHANGED <<keys, meas, order, status>>

(* ~Timer: the object goes out of scope and calls Stop. *)
Destroy(h) ==
    /\ status = "running"
    /\ timer[h].state = "live"
    /\ StopEffect(h)
    /\ timer' = [timer EXCEPT ![h].state = "dead"]
    /\ UNCHANGED <<keys, order>>

(* Mutant: ClearAll forgets to clear order. *)
ClearAllKeepOrder ==
    /\ status = "running"
    /\ keys' = {}
    /\ meas' = [n \in Names |-> <<>>]
    /\ UNCHANGED <<order, timer, status>>

(* Timer::ClearAll: both containers are cleared; live objects keep their *)
(* name_ and id_.                                                        *)
ClearAll ==
    /\ status = "running"
    /\ keys' = {}
    /\ meas' = [n \in Names |-> <<>>]
    /\ order' = <<>>
    /\ UNCHANGED <<timer, status>>

TimerNext ==
    \/ \E h \in Handles, n \in Names : Construct(h, n)
    \/ \E h \in Handles : Stop(h)
    \/ \E h \in Handles : Destroy(h)
    \/ ClearAll

TimerSpec == TimerInit /\ [][TimerNext]_tvars

-----------------------------------------------------------------------------
(* Queries. *)

(* Timer::GetResults(name) returns (rather than throws): the name is a   *)
(* key and GetDuration finds every measurement of it complete.           *)
GetResultsReturns(n) == n \in keys /\ \A i \in 1..Len(meas[n]) : meas[n][i].stopped

(* Timer::PrintReport returns: GetResults returns for every name of order. *)
PrintReportReturns == \A i \in 1..Len(order) : GetResultsReturns(order[i])

-----------------------------------------------------------------------------
(* Properties. *)

(* PrintReport reports every timer once: order lists exactly the keys of *)
(* measurements, each once, whatever the sequence of constructions and   *)
(* ClearAll calls (the constructor pushes a name only when its id_ is 0). *)
OrderMatchesKeys ==
    /\ {order[i] : i \in 1..Len(order)} = keys
    /\ \A i, j \in 1..Len(order) : order[i] = order[j] => i = j

(* Once every Timer object that was constructed has been destroyed, and  *)
(* process is still running, GetResults and PrintReport return for every *)
(* name: no measurement is left without a stop.                           *)
ReportSafeWhenIdle ==
    (status = "running" /\ \A h \in Handles : timer[h].state # "live")
        => PrintReportReturns

(* The constructor's comment: id_ identifies the specific instance of    *)
(* this named timer.  So a live Timer's name_ and id_ name the           *)
(* measurement that this object created, and its Stop stops that one.    *)
IdNamesOwnMeasurement ==
    \A h \in Handles :
        timer[h].state = "live" =>
            LET n == timer[h].name
                i == timer[h].id + 1
            IN n \in keys /\ i <= Len(meas[n]) /\ meas[n][i].owner = h

-----------------------------------------------------------------------------
(* The inductive invariant behind OrderMatchesKeys and ReportSafeWhenIdle: *)
(* a name is a key exactly when it has measurements; every measurement    *)
(* sits where its owner's name_ and id_ point; and a measurement without  *)
(* a stop belongs to a live object.                                        *)

KeysHaveMeasurements == \A n \in Names : n \in keys <=> meas[n] # <<>>

OwnerPointsHere ==
    \A n \in Names : \A i \in 1..Len(meas[n]) :
        LET h == meas[n][i].owner IN
        timer[h].state # "unborn" /\ timer[h].name = n /\ timer[h].id = i - 1

UnstoppedIsLive ==
    \A n \in Names : \A i \in 1..Len(meas[n]) :
        ~meas[n][i].stopped => timer[meas[n][i].owner].state = "live"

TimerInv ==
    /\ TimerTypeOK
    /\ KeysHaveMeasurements
    /\ OrderMatchesKeys
    /\ OwnerPointsHere
    /\ UnstoppedIsLive

=============================================================================

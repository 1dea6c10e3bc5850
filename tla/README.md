# TLA+ models of network-monitor

This directory holds TLA+ models of the C++ library under `src/`. Each model is
written from the code; the map in `PROJECT.json` names the source lines behind
every definition. TLC model-checks each model on small instances. TLAPS proves
the main invariants for every value of the constants.

## The system

The library (`src/src/transport-network.cpp`, `src/src/timer.cpp`) has these parts:

| Part | Code | What it does |
|---|---|---|
| Topology store | `AddStation`, `AddLine`, `AddRouteToLine`, `GetStation/GetLine/GetRoute` | `stations_` holds GraphNodes; `lines_` holds LineInternal objects with their RouteInternal objects. A line is registered only if all its routes pass. |
| Edge index | `GraphNode::edges`, `SetTravelTime`, both `GetTravelTime` overloads | Each non-terminal stop of a route gets one GraphEdge (route, nextStop, travelTime = 0). `SetTravelTime` sets every edge A→B and B→A. `GetTravelTime(A, B)` returns the first such edge it finds. |
| Passenger counter | `RecordPassengerEvent`, `GetPassengerCount` | A signed count per station. |
| Routes serving a station | `GetRoutesServingStation` | The routes of the station's edges, plus the routes that end at it. |
| Loader | `FromJson` | Adds the stations, then the lines (and throws on failure), then the travel times (and clears `ok` on failure). |
| Fastest route | `GetFastestTravelRoute` | Dijkstra over PathStops, with a 5-minute route-change penalty, then a walk back along `previousStop`. |
| Quiet route, k-fastest, crowding | header only | Declared but never defined in `src/`. Not modelled. |
| Timer | `Timer`, `~Timer`, `Stop`, `ClearAll`, `GetResults`, `PrintReport` | A process-wide map from a name to a vector of measurements, plus the names in first-use order. |

How the parts interact:
- The loader drives the topology store, and then the passenger counter.
- The fastest-route search reads the edge index that AddLine and SetTravelTime built.
- The Timer is independent of the rest; only tests use it.

Everything runs on one thread: the network is a single-owner object (spec §5), and no timer is shared between threads. The hard behaviours are therefore sequences of calls, not thread interleavings:
- an AddLine that fails halfway;
- an AddLine after a SetTravelTime;
- a Dijkstra search that meets stale queue entries and ties;
- Timer objects that outlive a `ClearAll`.

## Modules

- **`TransportNetwork.tla`** models the topology store, edge index, passenger counter and queries.
  - The state is `stations`, `passengers`, `lineIds`, `lineRoutes`, `route` and `edge`.
    - Each RouteInternal object gets an arena slot (`nSlots` counts the slots used). Route j of an AddLine call gets slot `nSlots + j`.
    - `edge[s][o]` is the GraphEdge of route object `o` at station `s`.
    - Objects are created in order, so slot order is the order of every `edges` vector. That is what "the first edge found" means in `GetTravelTime` and in `FirstEdgeTo`.
  - The actions are `AddStation`, `AddLine` (which includes the whole `AddRouteToLine` loop), `RecordPassengerEvent` and `SetTravelTime`.
    - AddLine's error paths (`RouteFails`) are duplicate route ids and unknown stops.
    - Routes installed before a failure keep their edges, as in the code.
    - A call that returns false with no effect is a stutter step.
  - The queries are `GetTravelTime`, `GetRoute`, `GetTravelTimeOnRoute` (the stop walk as a recursive function `walk`) and `GetRoutesServingStation`.
  - Routes with at least two distinct stops are an assumption (`InputsAssumption`), taken from the header's well-formedness rules.
- **`NetworkLoader.tla`** models `FromJson`.
  - It adds `phase` (which loop is running) and `ok`.
  - Every loop may end at any point, and every JSON entry is any allowed input.
  - A throw ends in phase "failed".
  - The "done" phase serves passenger events.
- **`FastestRoute.tla`** models `GetFastestTravelRoute` on a network chosen in `QueryInit` from the constant `Networks`. The network does not change during the call: the method is const.
  - The state is `dist` (distFromA), `prev` (previousStop), `queue` (nodesToVisit, as a set of ⟨PathStop, distance⟩), `cursor` and `result`.
  - `Begin` handles the two early returns and sets up the search.
  - `Visit` is one pop. It takes any least-distance entry, since the priority queue breaks ties in any order. The whole neighbour loop (`Relax`) runs in the same step, with the distance the entry was queued with.
  - `Assemble` picks any least-distance PathStop at B, since `std::sort` is not stable.
  - `WalkBack` is one iteration of the reconstruction loop.
  - Distances are unsigned 32-bit in the code. `NeighborDist` adds modulo the constant `UIntLimit`: 2^30 in the passing runs, where no sum comes near it, and 16 in the wrap run.
- **`FastestRouteContract.tla`** is the abstract specification of `fastest(A, B)` from spec §4.4.1. It has no algorithm: one step returns any TravelRoute the contract allows.
  - An unknown station gives the empty route. A = B gives one zero-length step. An unreachable B gives no steps. Otherwise the answer is any minimum-cost walk.
  - The reference cost (`Cheapest`, Bellman-Ford over PathStops, with its own step cost `RefCost`) gives `OptimalTime`.
  - `FastestRoute` instantiates it as `Contract` with the refinement mapping `called <- (pc = "done")` and `answer <- result` once done.
- **`Timer.tla`** models the Timer.
  - The state is `keys` and `meas` (the map), `order`, `timer` (per Timer object: unborn, live or dead, with `name_` and `id_`) and `status`.
  - `Construct` and `ClearAll` are actions. `StopEffect` is shared by `Stop` and `Destroy`.
  - A throw out of the noexcept `Stop` sets `status` to "terminated". An out-of-bounds index sets it to "undefined" (undefined behaviour). Both end the run.
  - `GetResultsReturns` and `PrintReportReturns` say whether those functions return.

The MC modules (`MCTransportNetwork`, `MCNetworkLoader`, `MCFastestRoute`, `MCTimer`) give the constants their values.

## Runs

| Run | Config | Expect | What it shows |
|---|---|---|---|
| api_any_order | `MCTransportNetwork.cfg` | pass (34087 states) | `RoutesServingComplete`: whatever the call order, every registered route is listed at each of its stops, the terminal one included. |
| api_routes_serving_sound | `MCTransportNetwork_RoutesServingSound.cfg` | violation | A failed AddLine leaves edges of its first routes behind, so a route of an unregistered line is listed (spec §4.1 says add_line is atomic). |
| api_travel_time_symmetric | `MCTransportNetwork_TravelTimeSymmetric.cfg` | violation | AddLine after SetTravelTime adds a 0-time edge beside a timed one, so `GetTravelTime(A,B) ≠ GetTravelTime(B,A)` (I6). |
| load_from_json | `MCNetworkLoader.cfg` | pass (4218 states) | Under FromJson, every edge between two stations has the same time (`EdgeTimesConsistent`). A route's travel time equals the sum of the adjacent-station times (`RouteTimeIsHopSum`, spec §8). |
| fastest_route | `MCFastestRoute.cfg` | pass (10507 states) | `ResultCorrect`: the total is the optimum, or the route is empty when B is unreachable. `StepsFormWalk`: the steps, after `std::reverse`, are real edges forming a walk from A to B. `StepsTotalIsCost`: their times plus 5 per route change equal the total (spec §8). `WalkBackDefined`: the walk back never reads `previousStop.at()` of a PathStop that has no entry (an `std::out_of_range` throw). `Termination`: the call returns. |
| fastest_route_contract | `MCFastestRoute_ImplementsContract.cfg` | pass (10507 states) | `ImplementsContract`: the search implements `FastestRouteContract` under the refinement mapping, A = B and the early returns included. |
| fastest_route_wrap | `MCFastestRoute_Wrap.cfg` | violation | With `UIntLimit` = 16, a sum of distances wraps. The search then returns a route whose total (1) is not its cost (17). In the code the same happens at 2^32, since `distFromA` is unsigned and `dist + travelTime + penalty` is not checked. |
| timer_sequences | `MCTimer.cfg` | pass (457 states) | `OrderMatchesKeys` and `ReportSafeWhenIdle`: PrintReport never sees a name twice or a missing name, and once all timers are gone it does not throw. |
| timer_id_after_clear | `MCTimer_IdNamesOwnMeasurement.cfg` | violation | ClearAll while a Timer lives makes its `id_` name nothing, or another timer's measurement. |

Each property of a passing run has a mutant in `PROJECT.json`: a plausible bug in the mapped code that makes TLC report the property violated. Examples:
- SetTravelTime updating one direction only;
- `front()` taken in place of `back()` after the sort;
- a forgotten `pop()`;
- a destructor that does not call Stop;
- a ClearAll that keeps `order`.

### Bounds and why they suffice

- **api_any_order**: 3 stations, 2 line ids, 2 route ids, 6 route objects, travel times {1, 2}, |passengers| ≤ 1. The three Line inputs cover these cases:
  - a line with two routes in opposite directions;
  - a second line sharing the b→c hop and closing a cycle;
  - a line that repeats a route id, which fails after installing its first route;
  - a line whose stops are not all added yet, which fails on an unknown stop.
- **load_from_json**: the same constants, with the loader's order of loops.
- **fastest_route**: 140 distinct networks (12 choices of stop lists times 64 time assignments, many of which coincide) and 16 argument pairs (4 station ids, one of which is not a station).
  - Each of 3 route objects takes one of a few stop lists.
  - Every directed hop takes time 0 or 6, so both the penalty (5) and a slower same-route hop can win.
  - Zero-time edges, which AddLine creates, are included.
  - Times need not agree between directions, because I6 can fail in the code.
  - The cases that occur: direct, with a route change, unreachable, A = B, A or B unknown.
- **fastest_route_wrap**: the same networks with `UIntLimit` = 16. Two 6-minute hops plus a 5-minute change reach 17, one more than the limit, so a wrapped distance can beat the real one. The passing runs use 2^30, well above any sum the networks reach (below 100), so their results are free of wrap.
- **timer**: 2 names and 3 Timer objects, with symmetry over both.
  - This allows two live timers of one name (the nested-scope test) plus a third made after a ClearAll.

### Fairness and deadlock

- **Fairness.** Only `QuerySpec` has fairness: `WF_qvars(QueryNext)`. `GetFastestTravelRoute` is a synchronous function, so once called it keeps running until it returns. The API and timer models are passive libraries with no fairness: nothing has to happen.
- **The contract's liveness.** `FastestRouteContract` states that the call returns as `Returns == <>called`, not as fairness on `Answer`. Through the refinement mapping, `<>called` is `<>(pc = "done")`, and this is what `WF_qvars(QueryNext)` yields in the detailed model.
- **Deadlock.** Every cfg sets `CHECK_DEADLOCK FALSE`:
  - the API may simply stop being called, and the passenger bound is a model bound;
  - the loader and the query end by returning;
  - the timer model ends when the process terminates.

## Proofs (TLAPS)

`TransportNetworkProofs.tla` proves three theorems:
- **TypeCorrect**: `Spec => []TypeOK`, with one lemma per action.
- **LoadKeepsEdgeTimesConsistent**: `LoadSpec => []EdgeTimesConsistent`. EdgeTimesConsistent is not inductive on its own, because an AddLine step may add a 0-time edge beside a timed one. That is exactly the api_travel_time_symmetric violation.
  - The inductive invariant `LoadInv` adds `AllTimesZero` while the loader is in the stations, lines or failed phase: FromJson sets no time before every line is in.
  - `SetTravelTimeEffect` describes what SetTravelTime does to every edge. Together with `SetTravelTimeConsistent`, it covers the travel-times phase.
  - The assumptions used are `InputsAssumption`, `BoundsAssumption` and `NullAssumption`.
- **RoutesServingCompleteHolds**: `Spec => []RoutesServingComplete`, under any order of API calls. The inductive invariant `ServingInv` (checked by TLC on the MC instance, 34087 states) is TypeOK plus two facts:
  - `RegisteredBelow`: every registered route object lies in `1..nSlots`. AddLine writes only slots above `nSlots`, so it never rewrites a registered object. Without this fact a new AddLine could seem to overwrite the route of a line already in `lines_`.
  - `RouteWellFormed`: a registered object's stops are stations, and each non-terminal stop holds an edge of it. SetTravelTime changes only the `time` field, so edges are never removed. A new object of a line that gets registered passed AddRouteToLine, so its stops are stations (`~RouteFails`).
  - From these facts, a non-terminal stop lists the route through its edge, and the terminal stop lists it through the end-stop loop.

`FastestRouteProofs.tla` proves two theorems. The first is **WalkBackNeverThrows**: `QuerySpec => []WalkBackDefined`, for every network and every `UIntLimit`. The inductive invariant `QueryInv` (checked by TLC, 10507 states) is built from these parts:
- `QueryTypeOK`;
- `QueueSeen`: every queued PathStop has a distance;
- `PrevDefined`: every PathStop with a distance, except the start, has a `previousStop` that itself has a distance;
- `CursorSeen`: the walk-back cursor has a distance.

`Relax` keeps `PrevDefined` because it sets distance and `previousStop` together, and the popped PathStop it points to has a distance. The proof goes one lemma per action (`BeginInv`, `VisitInv`, `AssembleInv`, `WalkBackInv`). The empty-string station id that `NoStop` uses is kept in its own assumption (`EmptyIdAssumption`) and used only by Zenon.

The second is **StepsFormWalkHolds**: `QuerySpec => []StepsFormWalk`, for every network, tie-breaking and `UIntLimit`. Its inductive invariant `WalkInv` (checked by TLC, 10507 states) is QueryInv plus two facts:
- `PrevIsEdge`: the previousStop of a PathStop is the station holding the edge that reaches it. `Relax` sets it only for a neighbour over an existing edge of the popped station.
- `StepsInv`: the steps stay empty until the walk back starts at a PathStop of B. During the walk they are a contiguous run of real edges from the cursor's station to B (`WalkFrom`).

`WalkBackSteps` is the key lemma. One iteration prepends the edge from `previousStop` to the cursor, which `PrevIsEdge` makes real, and `ConcatProperties` gives the new sequence. When the cursor reaches A, `WalkFrom` becomes `IsWalk`. The early returns leave no steps, or answer A = B, where the stations are not distinct.

`TimerProofs.tla` proves two theorems:
- **OrderMatchesKeysHolds**: `TimerSpec => []OrderMatchesKeys`.
- **ReportSafeWhenIdleHolds**: `TimerSpec => []ReportSafeWhenIdle`.

Both rest on the inductive invariant `TimerInv`, which TLC also checked on the MC instance (5074 states):
- `KeysHaveMeasurements`: a name is a key exactly when it has measurements;
- `OwnerPointsHere`: each measurement sits where its creator's `name_`/`id_` point;
- `UnstoppedIsLive`: an unstopped measurement belongs to a live object.

The key step is in `DestroyInv`: the measurement a destroyed object owns is the one its Stop marks. This holds even after ClearAll, because a cleared measurement no longer exists.

What stays with TLC only:
- the liveness property `Termination`, since TLAPS does not handle liveness under fairness or ENABLED;
- `ResultCorrect`, `StepsTotalIsCost`, `ImplementsContract` and `RouteTimeIsHopSum`. Each compares the model with a recursive function over all inputs: `Cheapest` (Bellman-Ford), `StepsCost` (the cost summed along the steps) or `walk`. Relating one step of the model to such a function needs induction over the length of the sequence, and the provers cannot instantiate the library's induction rules. `StepsFormPath` was split into `StepsFormWalk` and `StepsTotalIsCost` so that the half with no such sum is proved.

## Caller preconditions

The header (`transport-network.h`, the well-formedness rules of a Line) requires every route to have at least two stops and no stop twice. The models take these rules as `InputsAssumption`, and nothing checks what the code does without them:
- a route with no stops, where `stops.size() - 1` underflows in `AddRouteToLine`;
- a route that visits a stop twice, where one station gets two edges of one route.

`PROJECT.json` lists both as hazards with this note.

## Not modelled

- `GetQuietTravelRoute`, `GetFastestTravelRoutes` and `GetPathCrowding`: they have no definition in `src/`.
- The JSON conversions and `operator==`: they are pure conversions, and the models take their results as inputs. Note that `from_json` turns any event other than "in" into Out, so a PassengerEvent is always In or Out.
- The tests and the WebSocket/STOMP mocks.

## Plan for later work

- A refinement: `TransportNetwork` under FromJson implements an abstract network in which AddLine is atomic, restricted to successful loads.
- Driving `FastestRoute` from networks built by `NetworkLoader` (composition).

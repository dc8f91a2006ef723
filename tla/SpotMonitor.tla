---------------------------- MODULE SpotMonitor -----------------------------
(***************************************************************************)
(* SpotInterruptionMonitor (compute/spot_interruption.py) watching fleets: *)
(* a thread that drains the queue of interruption warnings, describes the  *)
(* registered fleets for what the queue missed, and runs the handler of    *)
(* every event found.  Instances registered one by one follow the same     *)
(* path; StandardMode models what becomes of them.                         *)
(***************************************************************************)
EXTENDS SpotFleetManager

VARIABLES
  fleet_handlers,  \* fleets registered, all with OperatingMode.handle_fleet_interruption
  monitoring,      \* whether the thread runs
  warnings,        \* the SQS queue: warned instances, as <<fleet, node>>
  event_queue,     \* fleets with an event to handle
  monitor          \* where the thread is

monitorVars == <<fleet_handlers, monitoring, warnings, event_queue, monitor>>

\* "listed": between the two calls of _check_fleet_interruptions(), with the
\* instances listed.  "handling": inside the handler, walking over `size' records.
Looping == [at |-> "loop", fleet |-> {}, ids |-> {}, size |-> 0]

MonitorTypeOK ==
  /\ fleet_handlers \in SUBSET Fleets
  /\ monitoring \in BOOLEAN
  /\ warnings \in SUBSET (Fleets \X Nodes)
  /\ event_queue \in SUBSET Fleets
  /\ monitor \in [at : {"loop", "listed", "handling"}, fleet : SUBSET Fleets,
                  ids : SUBSET Nodes, size : Nat]

\* Constructed with the mode; initialize() of a fresh mode starts the thread.
MonitorInit ==
  /\ fleet_handlers = {}
  /\ monitoring = TRUE
  /\ warnings = {}
  /\ event_queue = {}
  /\ monitor = Looping

RegisterFleet(f) == fleet_handlers' = fleet_handlers \cup {f}

AtLoop == monitoring /\ monitor.at = "loop"

\* _queue_warning(): to the fleet whose live instances include the one warned,
\* if it is registered and can be listed.
QueueWarning(f, n, listed) ==
  event_queue' = IF f \in fleet_handlers /\ n \in LiveNodes(f) /\ listed
                   THEN event_queue \cup {f} ELSE event_queue

\* _poll_warning_queue() deletes a message before it looks for an owner.
ReceiveWarning(f, n) ==
  /\ AtLoop /\ <<f, n>> \in warnings
  /\ warnings' = warnings \ {<<f, n>>}
  /\ \E listed \in BOOLEAN : QueueWarning(f, n, listed) /\ Happen(IfSo(~listed, "describe"))
  /\ UNCHANGED <<fleet_handlers, monitoring, monitor>>

\* _check_fleet_interruptions() lists the live instances of a fleet ...
ListFleet(f) ==
  /\ AtLoop /\ f \in fleet_handlers /\ LiveNodes(f) # {}
  /\ monitor' = [at |-> "listed", fleet |-> {f}, ids |-> LiveNodes(f), size |-> 0]
  /\ Happen({"late_stop"})
  /\ UNCHANGED <<fleet_handlers, monitoring, warnings, event_queue>>

\* ... and describes them: only one that stopped in between can be found
\* `shutting-down'.  (Without such a stop the two calls change nothing; the
\* pair is therefore an event.)
DescribeListed ==
  /\ monitoring /\ monitor.at = "listed"
  /\ monitor' = Looping
  /\ event_queue' = event_queue \cup
       {f \in monitor.fleet : \E n \in monitor.ids : node[f][n] = "down"}
  /\ Happen({})
  /\ UNCHANGED <<fleet_handlers, monitoring, warnings>>

\* _process_interruption_events() calls the handler of an event, which starts
\* to walk over the mode's records.
TakeEvent(f, size) ==
  /\ AtLoop /\ f \in event_queue /\ f \in fleet_handlers
  /\ event_queue' = event_queue \ {f}
  /\ monitor' = [at |-> "handling", fleet |-> {f}, ids |-> {}, size |-> size]
  /\ Happen({})
  /\ UNCHANGED <<fleet_handlers, monitoring, warnings>>

\* The handler returns or raises; an exception is logged, and its event lost.
HandlerDone ==
  /\ monitoring /\ monitor.at = "handling"
  /\ monitor' = Looping
  /\ UNCHANGED <<fleet_handlers, monitoring, warnings, event_queue>>

\* stop_monitoring(), which deletes the notifier too.
StopMonitoring ==
  /\ monitoring' = FALSE
  /\ warnings' = {}
  /\ monitor' = Looping
  /\ UNCHANGED <<fleet_handlers, event_queue>>
=============================================================================

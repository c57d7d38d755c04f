--------------------------------- MODULE Trim ---------------------------------
(***************************************************************************)
(* trim-after-delete (pkg/trim-after-delete/main.go): main follows Docker's *)
(* events, and a worker goroutine runs a command a while after something   *)
(* was removed.  Between them is a channel without buffer, to which main   *)
(* never waits to send.                                                    *)
(***************************************************************************)
EXTENDS Naturals, Sequences

CONSTANTS
  MaxEvents,   \* bound on the events of Docker
  MaxFaults    \* bound on connections that fail

VARIABLES
  main,     \* "connect", "decode", or "dead" after a panic
  stream,   \* events Docker has sent on the connection, not yet decoded
  worker,   \* "loop" on its way to receive, "receive", "sleep" or "run"
  owed,     \* AtLeastOnceMore was called since the command was last started
  events,   \* events so far
  faults    \* faults so far

vars == <<main, stream, worker, owed, events, faults>>

Events == [type : {"image", "container", "volume", "builder", "network"}, action : {"delete", "destroy", "prune", "create"}]

Init ==
  /\ main = "connect"
  /\ stream = <<>>
  /\ worker = "loop"
  /\ owed = FALSE
  /\ events = 0
  /\ faults = 0

Alive == main # "dead"
Fault == faults < MaxFaults /\ faults' = faults + 1
-----------------------------------------------------------------------------
(* Docker.  Nobody is told of what happens while there is no connection.    *)
Happens(e) ==
  /\ events < MaxEvents
  /\ events' = events + 1
  /\ stream' = IF main = "decode" THEN Append(stream, e) ELSE stream
  /\ UNCHANGED <<main, worker, owed, faults>>
-----------------------------------------------------------------------------
(* The worker of NewDelayedAction.                                         *)
Receive ==
  /\ Alive /\ worker = "loop"
  /\ worker' = "receive"
  /\ UNCHANGED <<main, stream, owed, events, faults>>

(* The delay is over, and f is called.                                     *)
RunCommand ==
  /\ Alive /\ worker = "sleep"
  /\ worker' = "run"
  /\ owed' = FALSE
  /\ UNCHANGED <<main, stream, events, faults>>

(* Whether the command failed or not makes no difference.                  *)
CommandEnds ==
  /\ Alive /\ worker = "run"
  /\ worker' = "loop"
  /\ UNCHANGED <<main, stream, owed, events, faults>>
-----------------------------------------------------------------------------
Connect ==
  /\ main = "connect"
  /\ main' = "decode"
  /\ UNCHANGED <<stream, worker, owed, events, faults>>

(* Get fails, and is tried again.                                          *)
ConnectError ==
  /\ main = "connect"
  /\ Fault
  /\ UNCHANGED <<main, stream, worker, owed, events>>

(* The server is not Docker: the whole process ends.                       *)
Panic ==
  /\ main = "connect"
  /\ Fault
  /\ main' = "dead"
  /\ UNCHANGED <<stream, worker, owed, events>>

(* AtLeastOnceMore: the send succeeds only if the worker is receiving.     *)
AtLeastOnceMore ==
  /\ owed' = TRUE
  /\ worker' = IF worker = "receive" THEN "sleep" ELSE worker

Removal(e) ==
  \/ e.action = "delete" /\ e.type = "image"
  \/ e.action = "destroy" /\ e.type \in {"container", "volume"}
  \/ e.action = "prune" /\ e.type \in {"image", "container", "volume", "builder"}

Decode ==
  /\ main = "decode"
  /\ stream # <<>>
  /\ \/ Removal(Head(stream)) /\ AtLeastOnceMore
     \/ ~Removal(Head(stream)) /\ UNCHANGED <<owed, worker>>
  /\ stream' = Tail(stream)
  /\ UNCHANGED <<main, events, faults>>

(* The connection breaks, and what was on it is lost.                      *)
DecodeError ==
  /\ main = "decode"
  /\ Fault
  /\ main' = "connect"
  /\ stream' = <<>>
  /\ UNCHANGED <<worker, owed, events>>

Worker == Receive \/ RunCommand \/ CommandEnds
Main   == Connect \/ ConnectError \/ Panic \/ Decode \/ DecodeError
Next   == Worker \/ Main \/ \E e \in Events : Happens(e)

(* The sleep and the command come to an end, and the worker goes on.       *)
FairSpec == Init /\ [][Next]_vars /\ WF_vars(Worker)
-----------------------------------------------------------------------------
(* DelayedAction "runs a function in the future at least once after every  *)
(* call to AtLeastOnceMore": so the command is started again after a call  *)
(* that came while it was running, unless the process ends.                *)
RunsAfterCall == (owed /\ worker = "run") ~> (~owed \/ ~Alive)
===============================================================================

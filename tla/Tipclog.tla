------------------------------ MODULE Tipclog ------------------------------
(***************************************************************************)
(* tipclog: a daemon that writes the topology events of the TIPC network   *)
(* to the system log until a signal stops it.  Several starts of it run    *)
(* against one pid file, each a parent that reports and a daemon it forks. *)
(*                                                                         *)
(* libdaemon is external: it creates the pid file exclusively, removes it  *)
(* by name whoever wrote it, delivers the first return value a daemon      *)
(* sends and an error when the daemon ends without one, and turns signals  *)
(* into bytes on a descriptor.  Only whether a signal stops the daemon and *)
(* how many events have arrived matters here, not which.                   *)
(***************************************************************************)
EXTENDS Integers, Sequences, FiniteSets

CONSTANTS
  Start,      \* starts of the program
  NoPid,      \* no pid file
  MaxEvents,  \* bound: topology events a daemon is sent
  MaxSignals, \* bound: signals sent to a daemon
  Faults      \* calls that may fail, see Fault

\* "start" is daemon_reset_sigs, daemon_retval_init or daemon_fork, "topsrv" a
\* call of subscribe_evt, "next" daemon_signal_next; the others are named after
\* the call.
Fault == {"start", "close", "signal", "topsrv", "select", "next", "recv", "ioctl"}

ASSUME StartAssumption ==
  /\ NoPid \notin Start
  /\ MaxEvents \in Nat /\ MaxSignals \in Nat
  /\ Faults \subseteq Fault

VARIABLES
  st,      \* the process: parent until it forks, then the daemon
  parent,  \* exit status of the parent, -1 until it has one
  sent,    \* the value the daemon has sent its parent, -1 if none
  pidfile, \* whose pid the file holds
  topsrv_sd, \* the connection of the daemon to the topology server
  fds,     \* the set the daemon passes to select
  signals, \* signals to be read from daemon_signal_fd
  evts,    \* topology events to be read from topsrv_sd
  logged,  \* events written to the log
  told     \* signals and events that have arrived so far

vars == <<st, parent, sent, pidfile, topsrv_sd, fds, signals, evts, logged, told>>

Init ==
  /\ st = [p \in Start |-> "none"]
  /\ parent = [p \in Start |-> -1] /\ sent = [p \in Start |-> -1]
  /\ pidfile = NoPid
  /\ topsrv_sd = [p \in Start |-> "none"] /\ fds = [p \in Start |-> {}]
  /\ signals = [p \in Start |-> <<>>] /\ evts = [p \in Start |-> 0]
  /\ logged = [p \in Start |-> 0] /\ told = [p \in Start |-> [sig |-> 0, evt |-> 0]]

alive(p) == st[p] \in {"pid", "sigs", "subscribe", "ok", "prepare", "select", "ready", "finish"}
goto(p, l) == st' = [st EXCEPT ![p] = l]

\* daemon_pid_file_is_running.
is_running == pidfile # NoPid /\ alive(pidfile)

\* daemon_retval_send: only the first value gets through.
retval_send(p, v) == sent' = [sent EXCEPT ![p] = IF @ = -1 THEN v ELSE @]

-----------------------------------------------------------------------------
\* main, up to daemon_retval_init: a pid file of a running daemon ends the
\* program, a stale one is removed.
CheckRunning(p) ==
  /\ st[p] = "none"
  /\ \/ /\ "start" \in Faults \/ is_running
        /\ goto(p, "gone") /\ parent' = [parent EXCEPT ![p] = 1] /\ UNCHANGED pidfile
     \/ /\ ~is_running
        /\ goto(p, "forking") /\ pidfile' = NoPid /\ UNCHANGED parent
  /\ UNCHANGED <<sent, topsrv_sd, fds, signals, evts, logged, told>>

\* daemon_retval_init and daemon_fork, and daemon_close_all in the daemon.
Fork(p) ==
  /\ st[p] = "forking"
  /\ \/ goto(p, "pid") /\ UNCHANGED <<parent, sent>>
     \/ "close" \in Faults /\ goto(p, "finish") /\ retval_send(p, 1) /\ UNCHANGED parent
     \/ /\ "start" \in Faults
        /\ goto(p, "gone") /\ parent' = [parent EXCEPT ![p] = 1] /\ UNCHANGED sent
  /\ UNCHANGED <<pidfile, topsrv_sd, fds, signals, evts, logged, told>>

\* Mutant: a start that does not get the pid file goes on without it.
CreatePidFile_GoOn(p) ==
  /\ st[p] = "pid"
  /\ goto(p, "sigs") /\ pidfile' = (IF pidfile = NoPid THEN p ELSE pidfile)
  /\ UNCHANGED <<parent, sent, topsrv_sd, fds, signals, evts, logged, told>>

\* daemon_pid_file_create.
CreatePidFile(p) ==
  /\ st[p] = "pid"
  /\ IF pidfile = NoPid
     THEN pidfile' = p /\ goto(p, "sigs") /\ UNCHANGED sent
     ELSE goto(p, "finish") /\ retval_send(p, 2) /\ UNCHANGED pidfile
  /\ UNCHANGED <<parent, topsrv_sd, fds, signals, evts, logged, told>>

SignalInit(p) ==
  /\ st[p] = "sigs"
  /\ \/ goto(p, "subscribe") /\ UNCHANGED sent
     \/ "signal" \in Faults /\ goto(p, "finish") /\ retval_send(p, 3)
  /\ UNCHANGED <<parent, pidfile, topsrv_sd, fds, signals, evts, logged, told>>

\* Mutant: the parent is told before the daemon has subscribed.
Subscribe_TellFirst(p) ==
  /\ st[p] = "subscribe"
  /\ retval_send(p, 0)
  /\ \/ goto(p, "prepare") /\ topsrv_sd' = [topsrv_sd EXCEPT ![p] = "subscribed"]
     \/ "topsrv" \in Faults /\ goto(p, "gone") /\ UNCHANGED topsrv_sd
  /\ UNCHANGED <<parent, pidfile, fds, signals, evts, logged, told>>

\* subscribe_evt: a failure leaves by exit(-1), without the cleanup.
Subscribe(p) ==
  /\ st[p] = "subscribe"
  /\ \/ goto(p, "ok") /\ topsrv_sd' = [topsrv_sd EXCEPT ![p] = "subscribed"]
     \/ "topsrv" \in Faults /\ goto(p, "gone") /\ UNCHANGED topsrv_sd
  /\ UNCHANGED <<parent, sent, pidfile, fds, signals, evts, logged, told>>

\* Mutant: the parent is not told that the daemon runs.
Started_Silent(p) ==
  /\ st[p] = "ok"
  /\ goto(p, "prepare")
  /\ UNCHANGED <<parent, sent, pidfile, topsrv_sd, fds, signals, evts, logged, told>>

\* Send OK to the parent.
Started(p) ==
  /\ st[p] = "ok"
  /\ goto(p, "prepare") /\ retval_send(p, 0)
  /\ UNCHANGED <<parent, pidfile, topsrv_sd, fds, signals, evts, logged, told>>

\* Prepare the set for select, once and for all.
Prepare(p) ==
  /\ st[p] = "prepare"
  /\ goto(p, "select") /\ fds' = [fds EXCEPT ![p] = {"fd", "topsrv_sd"}]
  /\ UNCHANGED <<parent, sent, pidfile, topsrv_sd, signals, evts, logged, told>>

-----------------------------------------------------------------------------
readable(p) ==
  (IF signals[p] # <<>> THEN {"fd"} ELSE {}) \cup (IF evts[p] > 0 THEN {"topsrv_sd"} ELSE {})

\* Mutant: only the descriptor that is looked at first stays in the set.
Select_One(p) ==
  /\ st[p] = "select"
  /\ fds[p] \cap readable(p) # {}
  /\ fds' = [fds EXCEPT ![p] = IF "topsrv_sd" \in readable(p) THEN {"topsrv_sd"} ELSE {"fd"}]
  /\ goto(p, "ready")
  /\ UNCHANGED <<parent, sent, pidfile, topsrv_sd, signals, evts, logged, told>>

\* select returns the readable descriptors in the set it was given.  A call
\* a signal interrupts is repeated with the set as it was.
Select(p) ==
  /\ st[p] = "select"
  /\ fds[p] \cap readable(p) # {}
  /\ goto(p, "ready") /\ fds' = [fds EXCEPT ![p] = @ \cap readable(p)]
  /\ UNCHANGED <<parent, sent, pidfile, topsrv_sd, signals, evts, logged, told>>

\* Any other error of select ends the loop.
SelectFails(p) ==
  /\ st[p] = "select" /\ "select" \in Faults
  /\ goto(p, "finish")
  /\ UNCHANGED <<parent, sent, pidfile, topsrv_sd, fds, signals, evts, logged, told>>

\* A signal goes first; only SIGHUP lets the loop go on.
HandleSignal(p) ==
  /\ st[p] = "ready" /\ "fd" \in fds[p]
  /\ \/ /\ goto(p, IF Head(signals[p]) = "SIGHUP" THEN "select" ELSE "finish")
        /\ signals' = [signals EXCEPT ![p] = Tail(@)]
     \/ "next" \in Faults /\ goto(p, "finish") /\ UNCHANGED signals
  /\ UNCHANGED <<parent, sent, pidfile, topsrv_sd, fds, evts, logged, told>>

\* Mutant: an event is read without looking at the set.
HandleEvent_Unchecked(p) ==
  /\ st[p] = "ready"
  /\ evts' = [evts EXCEPT ![p] = @ - 1]
  /\ goto(p, "select") /\ logged' = [logged EXCEPT ![p] = @ + 1]
  /\ UNCHANGED <<parent, sent, pidfile, topsrv_sd, fds, signals, told>>

\* recv and log_event.  A short read ends the loop, a link whose name cannot
\* be read ends the program.
HandleEvent(p) ==
  /\ st[p] = "ready" /\ "fd" \notin fds[p]
  /\ evts' = [evts EXCEPT ![p] = @ - 1]
  /\ \/ goto(p, "select") /\ logged' = [logged EXCEPT ![p] = @ + 1]
     \/ "recv" \in Faults /\ goto(p, "finish") /\ UNCHANGED logged
     \/ "ioctl" \in Faults /\ goto(p, "gone") /\ UNCHANGED logged
  /\ UNCHANGED <<parent, sent, pidfile, topsrv_sd, fds, signals, told>>

\* finish: clean up, whatever was the way here.
Finish(p) ==
  /\ st[p] = "finish"
  /\ goto(p, "gone")
  /\ retval_send(p, 255)
  /\ pidfile' = NoPid
  /\ UNCHANGED <<parent, topsrv_sd, fds, signals, evts, logged, told>>

\* daemon_retval_wait returns in the parent.
ParentReturns(p) ==
  /\ parent[p] = -1
  /\ \/ sent[p] # -1 /\ parent' = [parent EXCEPT ![p] = sent[p]]
     \/ sent[p] = -1 /\ st[p] = "gone" /\ parent' = [parent EXCEPT ![p] = 255]
  /\ UNCHANGED <<st, sent, pidfile, topsrv_sd, fds, signals, evts, logged, told>>

-----------------------------------------------------------------------------
\* The world: the network changes, somebody signals the daemon.
EventComes(p) ==
  /\ st[p] \in {"ok", "prepare", "select", "ready"} /\ told[p].evt < MaxEvents
  /\ evts' = [evts EXCEPT ![p] = @ + 1]
  /\ told' = [told EXCEPT ![p].evt = @ + 1]
  /\ UNCHANGED <<st, parent, sent, pidfile, topsrv_sd, fds, signals, logged>>

SignalComes(p) ==
  /\ st[p] \in {"subscribe", "ok", "prepare", "select", "ready"} /\ told[p].sig < MaxSignals
  /\ \E s \in {"SIGHUP", "SIGTERM"} : signals' = [signals EXCEPT ![p] = Append(@, s)]
  /\ told' = [told EXCEPT ![p].sig = @ + 1]
  /\ UNCHANGED <<st, parent, sent, pidfile, topsrv_sd, fds, evts, logged>>

Step(p) ==
  \/ CheckRunning(p) \/ Fork(p) \/ CreatePidFile(p) \/ SignalInit(p) \/ Subscribe(p)
  \/ Started(p) \/ Prepare(p) \/ Select(p) \/ HandleSignal(p) \/ HandleEvent(p) \/ Finish(p)

Next ==
  \E p \in Start :
    Step(p) \/ SelectFails(p) \/ ParentReturns(p) \/ EventComes(p) \/ SignalComes(p)

Spec == Init /\ [][Next]_vars

\* A process that can run does; no call has to fail.
FairSpec == Spec /\ \A p \in Start : WF_vars(Step(p)) /\ WF_vars(ParentReturns(p))

=============================================================================

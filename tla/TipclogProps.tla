---------------------------- MODULE TipclogProps ----------------------------
(***************************************************************************)
(* Properties of tipclog, as modelled by Tipclog.                          *)
(***************************************************************************)
EXTENDS Tipclog

Label ==
  {"none", "forking", "pid", "sigs", "subscribe", "ok", "prepare", "select", "ready", "finish", "gone"}
RetVal == {-1, 0, 1, 2, 3, 255}

\* The types of the state.
TypeOK ==
  /\ st \in [Start -> Label]
  /\ parent \in [Start -> RetVal]
  /\ sent \in [Start -> RetVal]
  /\ pidfile \in Start \cup {NoPid}
  /\ topsrv_sd \in [Start -> {"none", "subscribed"}]
  /\ fds \in [Start -> SUBSET {"fd", "topsrv_sd"}]
  /\ signals \in [Start -> Seq({"SIGHUP", "SIGTERM"})]
  /\ evts \in [Start -> Nat] /\ logged \in [Start -> Nat]
  /\ told \in [Start -> [sig : 0 .. MaxSignals, evt : 0 .. MaxEvents]]

\* A start that cleans up without having created the pid file: it could not
\* close its descriptors, or found the file there.  The cleanup removes the
\* file by name, that is another one's (tipclog.c:263).
intruder(p) == sent[p] \in {1, 2}
undisturbed == \A p \in Start : ~(intruder(p) /\ st[p] = "gone")

\* A daemon that has created the pid file and has not ended.
holder(p) ==
  /\ st[p] \in {"sigs", "subscribe", "ok", "prepare", "select", "ready", "finish"}
  /\ ~intruder(p)

\* A parent that returns 0 has left a daemon that is subscribed, whatever
\* became of it later; and as long as that daemon runs, the pid file is its
\* own and there is no second one, unless an intruder has cleaned up.
ParentTruth ==
  \A p \in Start : parent[p] = 0 =>
    /\ topsrv_sd[p] = "subscribed"
    /\ holder(p) /\ undisturbed => pidfile = p /\ \A q \in Start \ {p} : ~holder(q)

\* The inductive invariant behind ParentTruth.  A daemon tells its parent
\* nothing before it has subscribed, and 0 if it gets as far as its loop; select
\* leaves something in the set, and all of it can be read without blocking.
daemonOK(p) ==
  /\ parent[p] = 0 => sent[p] = 0
  /\ sent[p] = 0 => topsrv_sd[p] = "subscribed"
  /\ st[p] \in {"none", "forking", "pid", "sigs", "subscribe", "ok"} => sent[p] = -1
  /\ st[p] = "ok" => topsrv_sd[p] = "subscribed"
  /\ st[p] \in {"prepare", "select", "ready"} => sent[p] = 0
  /\ st[p] = "finish" => sent[p] # -1
  /\ st[p] = "ready" => fds[p] # {} /\ fds[p] \subseteq readable(p)

\* Only an intruder takes the pid file from the daemon that created it.
fileOK == undisturbed => \A p \in Start : holder(p) => pidfile = p
DaemonInv == TypeOK /\ (\A p \in Start : daemonOK(p)) /\ fileOK

\* Every parent gets its return value, without the timeout of 20 seconds:
\* every way the daemon can go sends one or ends the daemon.
ParentsAnswered == \A p \in Start : (st[p] = "forking") ~> (parent[p] # -1)

stopped(p) == \E i \in 1 .. Len(signals[p]) : signals[p][i] = "SIGTERM"

\* A stop signal that arrives while select watches the signal descriptor ends
\* the daemon.
StopsIfWatched ==
  \A p \in Start : (st[p] = "select" /\ "fd" \in fds[p] /\ stopped(p)) ~> (st[p] = "gone")

\* "Interrupted by signal, shutting down": a stop signal ends the daemon.
Stops == \A p \in Start : stopped(p) ~> (st[p] = "gone")
=============================================================================

---------------------------- MODULE TipclogProofs ----------------------------
(***************************************************************************)
(* Proofs about Tipclog, for any number of starts, events and signals and  *)
(* whichever calls fail.                                                   *)
(***************************************************************************)
EXTENDS TipclogProps, TLAPS, SequenceTheorems

\* A step of one start leaves the others' state alone.
others(p) ==
  \A q \in Start : q # p =>
    /\ st'[q] = st[q] /\ parent'[q] = parent[q] /\ sent'[q] = sent[q]
    /\ topsrv_sd'[q] = topsrv_sd[q] /\ fds'[q] = fds[q]
    /\ signals'[q] = signals[q] /\ evts'[q] = evts[q]

\* It is enough to look at the start that takes the step, and at the pid file.
LEMMA OneDaemon ==
  ASSUME \A q \in Start : daemonOK(q), NEW p \in Start, others(p), TypeOK', daemonOK(p)', fileOK'
  PROVE  DaemonInv'
<1>1. ASSUME NEW q \in Start, q # p PROVE daemonOK(q)'
  BY <1>1 DEF others, daemonOK, readable
<1> QED
  BY <1>1 DEF DaemonInv

\* A step that leaves the pid file alone keeps what is known of it, if it makes
\* nobody a holder and takes back no intrusion.
LEMMA FileKept ==
  ASSUME fileOK, NEW p \in Start, others(p), pidfile' = pidfile, holder(p)' => holder(p),
         intruder(p) /\ st[p] = "gone" => (intruder(p) /\ st[p] = "gone")'
  PROVE  fileOK'
<1>1. undisturbed' => undisturbed
  BY DEF undisturbed, intruder, others
<1>2. ASSUME NEW q \in Start, holder(q)' PROVE holder(q)
  BY <1>2 DEF holder, intruder, others
<1> QED
  BY <1>1, <1>2 DEF fileOK

\* Every step of a parent, a daemon or the world keeps the invariant.
LEMMA DaemonStep ==
  ASSUME DaemonInv, [Next]_vars
  PROVE  DaemonInv'
<1> USE StartAssumption DEF TypeOK, Label, RetVal, others, goto, retval_send
<1>0. TypeOK /\ (\A q \in Start : daemonOK(q)) /\ fileOK
  BY DEF DaemonInv
<1>1. ASSUME NEW p \in Start, CheckRunning(p) PROVE DaemonInv'
  <2>1. CASE goto(p, "gone") /\ parent' = [parent EXCEPT ![p] = 1] /\ UNCHANGED pidfile
    <3>1. TypeOK' /\ others(p)
      BY <1>0, <1>1, <2>1 DEF CheckRunning
    <3>2. daemonOK(p)'
      BY <1>0, <1>1, <2>1 DEF CheckRunning, daemonOK, readable
    <3>3. fileOK'
      BY <1>0, <1>1, <2>1, <3>1, FileKept DEF CheckRunning, daemonOK, holder, intruder
    <3> QED
      BY <1>0, <3>1, <3>2, <3>3, OneDaemon
  <2>2. CASE ~is_running /\ goto(p, "forking") /\ pidfile' = NoPid /\ UNCHANGED parent
    <3>1. TypeOK' /\ others(p)
      BY <1>0, <1>1, <2>2 DEF CheckRunning
    <3>2. daemonOK(p)'
      BY <1>0, <1>1, <2>2 DEF CheckRunning, daemonOK, readable
    <3>3. fileOK'
      <4>1. undisturbed' => undisturbed
        BY <1>0, <1>1, <2>2, <3>1 DEF CheckRunning, undisturbed, intruder
      <4>2. ASSUME NEW q \in Start, holder(q)' PROVE holder(q) /\ alive(q) /\ q # NoPid
        BY <1>0, <1>1, <2>2, <3>1, <4>2 DEF CheckRunning, holder, intruder, alive
      <4> QED
        BY <1>0, <2>2, <4>1, <4>2 DEF fileOK, is_running
    <3> QED
      BY <1>0, <3>1, <3>2, <3>3, OneDaemon
  <2> QED
    BY <1>1, <2>1, <2>2 DEF CheckRunning
<1>2. ASSUME NEW p \in Start, Fork(p) PROVE DaemonInv'
  <2>1. CASE goto(p, "pid") /\ UNCHANGED <<parent, sent>>
    <3>1. TypeOK' /\ others(p)
      BY <1>0, <1>2, <2>1 DEF Fork
    <3>2. daemonOK(p)'
      BY <1>0, <1>2, <2>1 DEF Fork, daemonOK, readable
    <3>3. fileOK'
      BY <1>0, <1>2, <2>1, <3>1, FileKept DEF Fork, daemonOK, holder, intruder
    <3> QED
      BY <1>0, <3>1, <3>2, <3>3, OneDaemon
  <2>2. CASE goto(p, "finish") /\ retval_send(p, 1) /\ UNCHANGED parent
    <3>1. TypeOK' /\ others(p)
      BY <1>0, <1>2, <2>2 DEF Fork
    <3>2. daemonOK(p)'
      BY <1>0, <1>2, <2>2 DEF Fork, daemonOK, readable
    <3>3. fileOK'
      BY <1>0, <1>2, <2>2, <3>1, FileKept DEF Fork, daemonOK, holder, intruder
    <3> QED
      BY <1>0, <3>1, <3>2, <3>3, OneDaemon
  <2>3. CASE goto(p, "gone") /\ parent' = [parent EXCEPT ![p] = 1] /\ UNCHANGED sent
    <3>1. TypeOK' /\ others(p)
      BY <1>0, <1>2, <2>3 DEF Fork
    <3>2. daemonOK(p)'
      BY <1>0, <1>2, <2>3 DEF Fork, daemonOK, readable
    <3>3. fileOK'
      BY <1>0, <1>2, <2>3, <3>1, FileKept DEF Fork, daemonOK, holder, intruder
    <3> QED
      BY <1>0, <3>1, <3>2, <3>3, OneDaemon
  <2> QED
    BY <1>2, <2>1, <2>2, <2>3 DEF Fork
<1>3. ASSUME NEW p \in Start, CreatePidFile(p) PROVE DaemonInv'
  <2>1. CASE pidfile = NoPid /\ pidfile' = p /\ goto(p, "sigs") /\ UNCHANGED sent
    <3>1. TypeOK' /\ others(p)
      BY <1>0, <1>3, <2>1 DEF CreatePidFile
    <3>2. daemonOK(p)'
      BY <1>0, <1>3, <2>1 DEF CreatePidFile, daemonOK, readable
    <3>3. fileOK'
      <4>1. undisturbed' => undisturbed
        BY <1>0, <1>3, <2>1, <3>1 DEF CreatePidFile, undisturbed, intruder
      <4>2. ASSUME NEW q \in Start, q # p, holder(q)' PROVE holder(q) /\ q # NoPid
        BY <3>1, <4>2 DEF holder, intruder
      <4> QED
        BY <1>0, <2>1, <4>1, <4>2 DEF fileOK
    <3> QED
      BY <1>0, <3>1, <3>2, <3>3, OneDaemon
  <2>2. CASE goto(p, "finish") /\ retval_send(p, 2) /\ UNCHANGED pidfile
    <3>1. TypeOK' /\ others(p)
      BY <1>0, <1>3, <2>2 DEF CreatePidFile
    <3>2. daemonOK(p)'
      BY <1>0, <1>3, <2>2 DEF CreatePidFile, daemonOK, readable
    <3>3. fileOK'
      BY <1>0, <1>3, <2>2, <3>1, FileKept DEF CreatePidFile, daemonOK, holder, intruder
    <3> QED
      BY <1>0, <3>1, <3>2, <3>3, OneDaemon
  <2> QED
    BY <1>3, <2>1, <2>2 DEF CreatePidFile
<1>4. ASSUME NEW p \in Start, SignalInit(p) PROVE DaemonInv'
  <2>1. CASE goto(p, "subscribe") /\ UNCHANGED sent
    <3>1. TypeOK' /\ others(p)
      BY <1>0, <1>4, <2>1 DEF SignalInit
    <3>2. daemonOK(p)'
      BY <1>0, <1>4, <2>1 DEF SignalInit, daemonOK, readable
    <3>3. fileOK'
      BY <1>0, <1>4, <2>1, <3>1, FileKept DEF SignalInit, daemonOK, holder, intruder
    <3> QED
      BY <1>0, <3>1, <3>2, <3>3, OneDaemon
  <2>2. CASE goto(p, "finish") /\ retval_send(p, 3)
    <3>1. TypeOK' /\ others(p)
      BY <1>0, <1>4, <2>2 DEF SignalInit
    <3>2. daemonOK(p)'
      BY <1>0, <1>4, <2>2 DEF SignalInit, daemonOK, readable
    <3>3. fileOK'
      BY <1>0, <1>4, <2>2, <3>1, FileKept DEF SignalInit, daemonOK, holder, intruder
    <3> QED
      BY <1>0, <3>1, <3>2, <3>3, OneDaemon
  <2> QED
    BY <1>4, <2>1, <2>2 DEF SignalInit
<1>5. ASSUME NEW p \in Start, Subscribe(p) PROVE DaemonInv'
  <2>1. CASE goto(p, "ok") /\ topsrv_sd' = [topsrv_sd EXCEPT ![p] = "subscribed"]
    <3>1. TypeOK' /\ others(p)
      BY <1>0, <1>5, <2>1 DEF Subscribe
    <3>2. daemonOK(p)'
      BY <1>0, <1>5, <2>1 DEF Subscribe, daemonOK, readable
    <3>3. fileOK'
      BY <1>0, <1>5, <2>1, <3>1, FileKept DEF Subscribe, daemonOK, holder, intruder
    <3> QED
      BY <1>0, <3>1, <3>2, <3>3, OneDaemon
  <2>2. CASE goto(p, "gone") /\ UNCHANGED topsrv_sd
    <3>1. TypeOK' /\ others(p)
      BY <1>0, <1>5, <2>2 DEF Subscribe
    <3>2. daemonOK(p)'
      BY <1>0, <1>5, <2>2 DEF Subscribe, daemonOK, readable
    <3>3. fileOK'
      BY <1>0, <1>5, <2>2, <3>1, FileKept DEF Subscribe, daemonOK, holder, intruder
    <3> QED
      BY <1>0, <3>1, <3>2, <3>3, OneDaemon
  <2> QED
    BY <1>5, <2>1, <2>2 DEF Subscribe
<1>6. ASSUME NEW p \in Start, Started(p) PROVE DaemonInv'
  <2>1. TypeOK' /\ others(p)
    BY <1>0, <1>6 DEF Started
  <2>2. daemonOK(p)'
    BY <1>0, <1>6 DEF Started, daemonOK
  <2>3. fileOK'
    BY <1>0, <1>6, <2>1, FileKept DEF Started, daemonOK, holder, intruder
  <2> QED
    BY <1>0, <2>1, <2>2, <2>3, OneDaemon
<1>7. ASSUME NEW p \in Start, Prepare(p) PROVE DaemonInv'
  <2>1. TypeOK' /\ others(p)
    BY <1>0, <1>7 DEF Prepare
  <2>2. daemonOK(p)'
    BY <1>0, <1>7 DEF Prepare, daemonOK
  <2>3. fileOK'
    BY <1>0, <1>7, <2>1, FileKept DEF Prepare, daemonOK, holder, intruder
  <2> QED
    BY <1>0, <2>1, <2>2, <2>3, OneDaemon
<1>8. ASSUME NEW p \in Start, Select(p) PROVE DaemonInv'
  <2>1. TypeOK'
    BY <1>0, <1>8 DEF Select
  <2>2. others(p) /\ readable(p)' = readable(p)
    BY <1>0, <1>8 DEF Select, readable
  <2>3. daemonOK(p)'
    BY <1>0, <1>8, <2>2 DEF Select, daemonOK
  <2>4. fileOK'
    <3>1. holder(p) /\ st[p] # "gone" /\ pidfile' = pidfile
      BY <1>0, <1>8 DEF Select, daemonOK, holder, intruder
    <3> QED
      BY <1>0, <2>2, <3>1, FileKept
  <2> QED
    BY <1>0, <2>1, <2>2, <2>3, <2>4, OneDaemon
<1>9. ASSUME NEW p \in Start, HandleSignal(p) PROVE DaemonInv'
  <2>1. signals[p] # <<>> /\ signals[p] \in Seq({"SIGHUP", "SIGTERM"})
    BY <1>0, <1>9 DEF HandleSignal, daemonOK, readable
  <2>2. Tail(signals[p]) \in Seq({"SIGHUP", "SIGTERM"})
    BY <2>1
  <2>3. PICK l \in {"select", "finish"} : goto(p, l)
    BY <1>9 DEF HandleSignal
  <2>4. TypeOK' /\ others(p) /\ daemonOK(p)'
    <3>1. CASE signals' = [signals EXCEPT ![p] = Tail(@)]
      <4>1. TypeOK' /\ others(p)
        BY <1>0, <1>9, <2>2, <2>3, <3>1 DEF HandleSignal
      <4>2. daemonOK(p)'
        BY <1>0, <1>9, <2>3 DEF HandleSignal, daemonOK
      <4> QED
        BY <4>1, <4>2
    <3>2. CASE UNCHANGED signals
      <4>1. TypeOK' /\ others(p)
        BY <1>0, <1>9, <2>3, <3>2 DEF HandleSignal
      <4>2. daemonOK(p)'
        BY <1>0, <1>9, <2>3 DEF HandleSignal, daemonOK
      <4> QED
        BY <4>1, <4>2
    <3> QED
      BY <1>9, <3>1, <3>2 DEF HandleSignal
  <2>5. fileOK'
    <3>1. holder(p) /\ st[p] # "gone" /\ pidfile' = pidfile
      BY <1>0, <1>9 DEF HandleSignal, daemonOK, holder, intruder
    <3> QED
      BY <1>0, <2>4, <3>1, FileKept
  <2> QED
    BY <1>0, <2>4, <2>5, OneDaemon
<1>10. ASSUME NEW p \in Start, HandleEvent(p) PROVE DaemonInv'
  <2>1. evts[p] \in Nat /\ evts[p] > 0
    BY <1>0, <1>10 DEF HandleEvent, daemonOK, readable
  <2>2. holder(p) /\ st[p] # "gone" /\ pidfile' = pidfile
    BY <1>0, <1>10 DEF HandleEvent, daemonOK, holder, intruder
  <2>3. CASE goto(p, "select") /\ logged' = [logged EXCEPT ![p] = @ + 1]
    <3>1. evts' \in [Start -> Nat] /\ logged' \in [Start -> Nat]
      BY <1>0, <1>10, <2>1, <2>3 DEF HandleEvent
    <3>2. TypeOK' /\ others(p)
      BY <1>0, <1>10, <2>3, <3>1 DEF HandleEvent
    <3>3. daemonOK(p)'
      BY <1>0, <1>10, <2>3 DEF HandleEvent, daemonOK
    <3>4. fileOK'
      BY <1>0, <2>2, <3>2, FileKept
    <3> QED
      BY <1>0, <3>2, <3>3, <3>4, OneDaemon
  <2>4. ASSUME NEW l \in {"finish", "gone"}, goto(p, l), UNCHANGED logged PROVE DaemonInv'
    <3>a. evts' \in [Start -> Nat]
      BY <1>0, <1>10, <2>1 DEF HandleEvent
    <3>b. st' \in [Start -> Label]
      BY <1>0, <2>4
    <3>c. TypeOK'
      BY <1>0, <1>10, <2>4, <3>a, <3>b DEF HandleEvent
    <3>1. TypeOK' /\ others(p)
      BY <1>0, <1>10, <2>4, <3>c DEF HandleEvent
    <3>2. daemonOK(p)'
      BY <1>0, <1>10, <2>4 DEF HandleEvent, daemonOK
    <3>3. fileOK'
      BY <1>0, <2>2, <3>1, FileKept
    <3> QED
      BY <1>0, <3>1, <3>2, <3>3, OneDaemon
  <2> QED
    BY <1>10, <2>3, <2>4 DEF HandleEvent
<1>11. ASSUME NEW p \in Start, Finish(p) PROVE DaemonInv'
  <2>1. TypeOK'
    BY <1>0, <1>11 DEF Finish
  <2>2. others(p) /\ daemonOK(p)' /\ sent'[p] = sent[p]
    BY <1>0, <1>11 DEF Finish, daemonOK
  \* An intruder disturbs; a holder removes its own file, and no other holder is left.
  <2>3. fileOK'
    <3>1. SUFFICES ASSUME undisturbed', NEW q \in Start, holder(q)' PROVE FALSE
      BY DEF fileOK
    <3>2. q # p /\ holder(q)
      BY <1>0, <1>11, <2>2, <3>1 DEF Finish, holder, intruder
    <3>3. holder(p) /\ undisturbed
      BY <1>0, <1>11, <2>2, <3>1 DEF Finish, holder, undisturbed, intruder
    <3> QED
      BY <1>0, <3>2, <3>3 DEF fileOK
  <2> QED
    BY <1>0, <2>1, <2>2, <2>3, OneDaemon
<1>12. ASSUME NEW p \in Start, ParentReturns(p) PROVE DaemonInv'
  <2>1. PICK v \in RetVal : parent' = [parent EXCEPT ![p] = v] /\ (v = 0 => sent[p] = 0)
    BY <1>0, <1>12 DEF ParentReturns
  <2>2. TypeOK'
    BY <1>0, <1>12, <2>1 DEF ParentReturns
  <2>3. others(p) /\ daemonOK(p)'
    BY <1>0, <1>12, <2>1 DEF ParentReturns, daemonOK, readable
  <2>4. fileOK'
    BY <1>0, <1>12, <2>3, FileKept DEF ParentReturns, holder, intruder
  <2> QED
    BY <1>0, <2>2, <2>3, <2>4, OneDaemon
<1>13. ASSUME NEW p \in Start, EventComes(p) PROVE DaemonInv'
  <2>a. told' \in [Start -> [sig : 0 .. MaxSignals, evt : 0 .. MaxEvents]]
    <3>1. /\ told[p] \in [sig : 0 .. MaxSignals, evt : 0 .. MaxEvents]
          /\ told' = [told EXCEPT ![p] = [told[p] EXCEPT !.evt = told[p].evt + 1]]
          /\ told[p].evt < MaxEvents
      BY <1>0, <1>13 DEF EventComes
    <3>2. told[p].evt + 1 \in 0 .. MaxEvents
      BY <3>1
    <3>3. [told[p] EXCEPT !.evt = told[p].evt + 1] \in [sig : 0 .. MaxSignals, evt : 0 .. MaxEvents]
      BY <3>1, <3>2
    <3> QED
      BY <1>0, <3>1, <3>3
  <2>b. evts' \in [Start -> Nat]
    BY <1>0, <1>13 DEF EventComes
  <2>1. TypeOK'
    BY <1>0, <1>13, <2>a, <2>b DEF EventComes
  <2>2. others(p) /\ readable(p) \subseteq readable(p)'
    BY <1>0, <1>13 DEF EventComes, readable
  <2>3. daemonOK(p)'
    BY <1>0, <1>13, <2>2 DEF EventComes, daemonOK
  <2>4. fileOK'
    BY <1>0, <1>13, <2>2, FileKept DEF EventComes, holder, intruder
  <2> QED
    BY <1>0, <2>1, <2>2, <2>3, <2>4, OneDaemon
<1>14. ASSUME NEW p \in Start, SignalComes(p) PROVE DaemonInv'
  <2>1. PICK s \in {"SIGHUP", "SIGTERM"} : signals' = [signals EXCEPT ![p] = Append(@, s)]
    BY <1>14 DEF SignalComes
  <2>a. told' \in [Start -> [sig : 0 .. MaxSignals, evt : 0 .. MaxEvents]]
    <3>1. /\ told[p] \in [sig : 0 .. MaxSignals, evt : 0 .. MaxEvents]
          /\ told' = [told EXCEPT ![p] = [told[p] EXCEPT !.sig = told[p].sig + 1]]
          /\ told[p].sig < MaxSignals
      BY <1>0, <1>14 DEF SignalComes
    <3>2. told[p].sig + 1 \in 0 .. MaxSignals
      BY <3>1
    <3>3. [told[p] EXCEPT !.sig = told[p].sig + 1] \in [sig : 0 .. MaxSignals, evt : 0 .. MaxEvents]
      BY <3>1, <3>2
    <3> QED
      BY <1>0, <3>1, <3>3
  <2>b. signals[p] \in Seq({"SIGHUP", "SIGTERM"})
    BY <1>0
  <2>2. /\ Append(signals[p], s) \in Seq({"SIGHUP", "SIGTERM"})
        /\ Append(signals[p], s) # <<>>
    BY <2>b, AppendProperties
  <2>3. TypeOK'
    BY <1>0, <1>14, <2>1, <2>2, <2>a DEF SignalComes
  <2>4. others(p) /\ readable(p) \subseteq readable(p)'
    BY <1>0, <1>14, <2>1, <2>2 DEF SignalComes, readable
  <2>5. daemonOK(p)'
    BY <1>0, <1>14, <2>4 DEF SignalComes, daemonOK
  <2>6. fileOK'
    BY <1>0, <1>14, <2>4, FileKept DEF SignalComes, holder, intruder
  <2> QED
    BY <1>0, <2>3, <2>4, <2>5, <2>6, OneDaemon
<1>15. ASSUME NEW p \in Start, SelectFails(p) PROVE DaemonInv'
  <2>1. TypeOK' /\ others(p)
    BY <1>0, <1>15 DEF SelectFails
  <2>2. daemonOK(p)'
    BY <1>0, <1>15 DEF SelectFails, daemonOK
  <2>3. fileOK'
    <3>1. holder(p) /\ st[p] # "gone" /\ pidfile' = pidfile
      BY <1>0, <1>15 DEF SelectFails, daemonOK, holder, intruder
    <3> QED
      BY <1>0, <2>1, <3>1, FileKept
  <2> QED
    BY <1>0, <2>1, <2>2, <2>3, OneDaemon
<1>16. CASE UNCHANGED vars
  <2>1. TypeOK' /\ \A q \in Start : daemonOK(q)'
    BY <1>0, <1>16 DEF vars, daemonOK, readable
  <2>2. fileOK'
    BY <1>0, <1>16 DEF vars, fileOK, undisturbed, holder, intruder
  <2> QED
    BY <2>1, <2>2 DEF DaemonInv
<1> QED
  BY <1>1, <1>2, <1>3, <1>4, <1>5, <1>6, <1>7, <1>8, <1>9, <1>10, <1>11, <1>12,
     <1>13, <1>14, <1>15, <1>16 DEF Next, Step

\* tipclog tells its parent 0 only after it has subscribed, reads no descriptor
\* that select has not reported, so that neither recv nor daemon_signal_next
\* blocks, and loses its pid file to none but a start that cleans up without
\* having created one, for any number of starts that share the file.
THEOREM DaemonInductive == Spec => []DaemonInv
<1>1. Init => DaemonInv
  <2> SUFFICES ASSUME Init PROVE DaemonInv
    OBVIOUS
  <2>1. TypeOK
    BY StartAssumption DEF Init, TypeOK, Label, RetVal
  <2>2. \A p \in Start : daemonOK(p) /\ ~holder(p)
    BY DEF Init, daemonOK, holder
  <2> QED
    BY <2>1, <2>2 DEF DaemonInv, fileOK
<1>2. DaemonInv /\ [Next]_vars => DaemonInv'
  BY DaemonStep
<1> QED
  BY <1>1, <1>2, PTL DEF Spec

\* A parent that returns success has left a daemon that has subscribed to the
\* topology server, and that is the only one and named by the pid file as long
\* as it runs and no start has cleaned up after finding the file there,
\* however signals, events, failures and other starts interleave.
THEOREM ParentTold == Spec => []ParentTruth
<1>1. DaemonInv => ParentTruth
  BY DEF DaemonInv, daemonOK, fileOK, ParentTruth
<1> QED
  BY <1>1, DaemonInductive, PTL
=============================================================================

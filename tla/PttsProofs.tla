----------------------------- MODULE PttsProofs -----------------------------
(***************************************************************************)
(* Proofs about the portable TIPC test suite.                              *)
(***************************************************************************)
EXTENDS PttsProps, FiniteSetTheorems, SequenceTheorems, WellFoundedInduction, TLAPS

-----------------------------------------------------------------------------
(***************************************************************************)
(* The routines.                                                           *)
(***************************************************************************)
\* The routine a side executes, where its signals are and what it has open.
who(s) == IF s = "client" /\ proc[s].asks THEN "request" ELSE s
pl(s) == places[who(s)][proc[s].prog]
op(s) == opens[who(s)][proc[s].prog]

\* A side that runs executes a routine that uses the signals as a whole.
LEMMA Routes ==
  ASSUME NEW s \in Side, progOK, running(s)
  PROVE  routineOK(code(s), pl(s), op(s), who(s)) /\ Len(code(s)) \in Nat
  <1>1. who(s) \in DOMAIN Routine /\ proc[s].prog \in DOMAIN Routine[who(s)]
    BY RoutineAssumption DEF progOK, running, who, Side
  <1>2. routineOK(code(s), pl(s), op(s), who(s))
    BY <1>1, RoutineAssumption DEF code, pl, op, who
  <1>3. Len(code(s)) \in Nat
    BY <1>2 DEF routineOK
  <1> QED BY <1>2, <1>3

\* What the current call of a side may be.
LEMMA CallIs ==
  ASSUME NEW s \in Side, progOK, running(s), proc[s].at <= Len(code(s))
  PROVE  /\ proc[s].at \in 1 .. Len(code(s)) /\ stage(s) = pl(s)[proc[s].at]
         /\ opened(s) = op(s)[proc[s].at]
         /\ IF stage(s) = Free THEN plainCall(call(s))
            ELSE /\ stage(s) \in Places /\ stage(s).j \in 1 .. Len(script(stage(s).k, stage(s).n))
                 /\ call(s) = script(stage(s).k, stage(s).n)[stage(s).j]
         /\ call(s).op \in UsesSocket => call(s).sd \in opened(s)
         /\ call(s).op = "run" => opened(s) = {}
  <1>1. routineOK(code(s), pl(s), op(s), who(s)) /\ Len(code(s)) \in Nat
    BY Routes
  <1>2. proc[s].at \in 1 .. Len(code(s))
    BY <1>1 DEF progOK
  <1>3. stage(s) = pl(s)[proc[s].at] /\ opened(s) = op(s)[proc[s].at]
    BY DEF stage, opened, pl, op, who
  <1>4. call(s) = code(s)[proc[s].at]
    BY DEF call
  <1>5. PICK i \in 1 .. Len(code(s)) : i = proc[s].at
    BY <1>2
  <1>6. /\ pl(s)[i] = Free => plainCall(code(s)[i])
        /\ pl(s)[i] # Free => /\ pl(s)[i] \in Places /\ pl(s)[i].j \in 1 .. Len(script(pl(s)[i].k, pl(s)[i].n))
                             /\ code(s)[i] = script(pl(s)[i].k, pl(s)[i].n)[pl(s)[i].j]
        /\ code(s)[i].op \in UsesSocket => code(s)[i].sd \in op(s)[i]
        /\ code(s)[i].op = "run" => op(s)[i] = {}
    BY <1>1 DEF routineOK
  <1> QED BY <1>2, <1>3, <1>4, <1>5, <1>6

\* The calls of the two scripts.
LEMMA Scripts ==
  ASSUME NEW m
  PROVE  /\ script("send", m) = sendSyncTIPC(m) /\ Len(sendSyncTIPC(m)) = 5
         /\ sendSyncTIPC(m)[1] = createSocketTIPC(sockfd_R, "RDM")
         /\ sendSyncTIPC(m)[2] = bindSocketTIPC(sockfd_R, syncAddr(m))
         /\ sendSyncTIPC(m)[3] = receive(sockfd_R, 1, "some", FALSE, "ack")
         /\ sendSyncTIPC(m)[4] = closeSocketTIPC(sockfd_R)
         /\ sendSyncTIPC(m)[5].op = "synced"
         /\ script("recv", m) = recvSyncTIPC(m) /\ Len(recvSyncTIPC(m)) = 11
         /\ recvSyncTIPC(m)[1] = subscribe(syncAddr(m))
         /\ recvSyncTIPC(m)[2] = event("PUBLISHED")
         /\ recvSyncTIPC(m)[3] = createSocketTIPC(sockfd_R, "RDM")
         /\ recvSyncTIPC(m)[4] = setOption(sockfd_R, "imp", CRITICAL)
         /\ recvSyncTIPC(m)[5] = clearErrors
         /\ recvSyncTIPC(m)[6] = sendto(sockfd_R, syncAddr(m), buffer("ack", 1))
         /\ recvSyncTIPC(m)[7] = checkErrors
         /\ recvSyncTIPC(m)[8] = closeSocketTIPC(sockfd_R)
         /\ recvSyncTIPC(m)[9] = event("WITHDRAWN")
         /\ recvSyncTIPC(m)[10] = unsubscribe
         /\ recvSyncTIPC(m)[11].op = "synced"
  BY DEF script, sendSyncTIPC, recvSyncTIPC, sockfd_R

\* No call of a script jumps.
LEMMA ScriptsGoOn ==
  ASSUME NEW k \in {"send", "recv"}, NEW m, NEW j \in 1 .. Len(script(k, m))
  PROVE  script(k, m)[j].op # "jump"
  <1>1. CASE k = "send"
    <2>1. script(k, m) = sendSyncTIPC(m)
      BY <1>1, Scripts, Zenon
    <2>2. Len(sendSyncTIPC(m)) = 5
      BY Scripts
    <2>3. j = 1 \/ j = 2 \/ j = 3 \/ j = 4 \/ j = 5
      BY <2>1, <2>2
    <2>4. /\ sendSyncTIPC(m)[1].op = "socket" /\ sendSyncTIPC(m)[2].op = "bind"
          /\ sendSyncTIPC(m)[3].op = "recv" /\ sendSyncTIPC(m)[4].op = "close"
          /\ sendSyncTIPC(m)[5].op = "synced"
      BY DEF sendSyncTIPC, createSocketTIPC, bindSocketTIPC, receive, closeSocketTIPC
    <2> QED BY <2>1, <2>3, <2>4
  <1>2. CASE k = "recv"
    <2>1. script(k, m) = recvSyncTIPC(m)
      BY <1>2, Scripts, Zenon
    <2>2. Len(recvSyncTIPC(m)) = 11
      BY Scripts
    <2>3. j = 1 \/ j = 2 \/ j = 3 \/ j = 4 \/ j = 5 \/ j = 6 \/ j = 7 \/ j = 8 \/ j = 9 \/ j = 10 \/ j = 11
      BY <2>1, <2>2
    <2>4. /\ recvSyncTIPC(m)[1].op = "subscribe" /\ recvSyncTIPC(m)[2].op = "event"
          /\ recvSyncTIPC(m)[3].op = "socket" /\ recvSyncTIPC(m)[4].op = "setopt"
          /\ recvSyncTIPC(m)[5].op = "clear" /\ recvSyncTIPC(m)[6].op = "sendto"
          /\ recvSyncTIPC(m)[7].op = "check" /\ recvSyncTIPC(m)[8].op = "close"
          /\ recvSyncTIPC(m)[9].op = "event" /\ recvSyncTIPC(m)[10].op = "unsubscribe"
          /\ recvSyncTIPC(m)[11].op = "synced"
      BY DEF recvSyncTIPC, createSocketTIPC, subscribe, event, setOption, clearErrors, sendto,
             checkErrors, closeSocketTIPC, unsubscribe
    <2> QED BY <2>1, <2>3, <2>4
  <1> QED BY <1>1, <1>2

\* A side is at a call of a signal only when that is the call it makes.
LEMMA Placed ==
  ASSUME NEW s \in Side, progOK, NEW o, calls(s, o)
  PROVE  /\ running(s) /\ proc[s].at <= Len(code(s)) /\ call(s).op = o
         /\ stage(s) # Free =>
              \/ stage(s).k = "send" /\ stage(s).j \in 1 .. 5
                 /\ call(s) = sendSyncTIPC(stage(s).n)[stage(s).j]
              \/ stage(s).k = "recv" /\ stage(s).j \in 1 .. 11
                 /\ call(s) = recvSyncTIPC(stage(s).n)[stage(s).j]
         /\ stage(s) # Free => stage(s) \in Places
  <1>1. running(s) /\ proc[s].at <= Len(code(s)) /\ call(s).op = o
    BY DEF calls, call
  <1>2. stage(s) # Free => /\ stage(s) \in Places /\ stage(s).j \in 1 .. Len(script(stage(s).k, stage(s).n))
                           /\ call(s) = script(stage(s).k, stage(s).n)[stage(s).j]
    BY <1>1, CallIs
  <1>3. stage(s) \in Places => stage(s).k \in {"send", "recv"}
    BY DEF Places
  <1> QED BY <1>1, <1>2, <1>3, Scripts

\* A side outside the signals, or about to begin one.
calm(s) == stage(s) = Free \/ stage(s).j = 1

\* A side goes to state p of its routine.
goesTo(s, p) ==
  /\ DOMAIN p = DOMAIN start(0) /\ p.prog = proc[s].prog /\ p.asks = proc[s].asks
  /\ proc' = [proc EXCEPT ![s] = p] /\ status' = status

\* The other side stays where it is.
stays(s) ==
  /\ stage(s)' = stage(s) /\ opened(s)' = opened(s) /\ proc'[s] = proc[s] /\ running(s)' = running(s)

\* The two sides.
LEMMA Sides ==
  ASSUME NEW s \in Side
  PROVE  /\ other(s) \in Side /\ other(s) # s /\ other(other(s)) = s
         /\ \A x \in Side : x = s \/ x = other(s)
  BY DEF Side, other

\* Where a side is in its routine afterwards, and where the other one is.
LEMMA Position ==
  ASSUME NEW s \in Side, progOK, running(s), NEW p, goesTo(s, p)
  PROVE  /\ proc'[s] = p /\ code(s)' = code(s) /\ running(s)'
         /\ stage(s)' = IF p.at <= Len(code(s)) THEN pl(s)[p.at] ELSE Free
         /\ opened(s)' = op(s)[p.at]
         /\ stays(other(s))
  <1>1. proc'[s] = p /\ proc'[other(s)] = proc[other(s)]
    BY Sides DEF goesTo, progOK
  <1>2. who(s)' = who(s) /\ pl(s)' = pl(s) /\ op(s)' = op(s) /\ code(s)' = code(s)
    BY <1>1 DEF who, pl, op, code, goesTo
  <1>3. running(s)'
    BY <1>1 DEF running, goesTo
  <1>4. stage(s)' = IF p.at <= Len(code(s)) THEN pl(s)[p.at] ELSE Free
    BY <1>1, <1>2, <1>3 DEF stage, pl, who
  <1>5. opened(s)' = op(s)[p.at]
    BY <1>1, <1>2, <1>3 DEF opened, op, who
  <1>6. stays(other(s))
    BY <1>1 DEF stays, stage, opened, running, code, goesTo
  <1> QED BY <1>1, <1>2, <1>3, <1>4, <1>5, <1>6

\* The state of the programs when a side goes on.
LEMMA ProgKept ==
  ASSUME NEW s \in Side, progOK, running(s), NEW p, goesTo(s, p), UNCHANGED main,
         p.at \in 1 .. Len(code(s)) + 1,
         beat' \in [Side -> 0 .. 3], importance' \in LOW .. CRITICAL + 1
  PROVE  progOK'
  <1>1. /\ proc'[s] = p /\ code(s)' = code(s) /\ running(s)' /\ stays(other(s))
    BY Position
  <1>2. code(other(s))' = code(other(s)) /\ proc'[other(s)] = proc[other(s)]
    BY <1>1 DEF code, stays
  <1>3. \A x \in Side : running(x)' => proc'[x].at \in 1 .. Len(code(x)') + 1
    BY <1>1, <1>2, Sides DEF progOK, stays
  <1>4. DOMAIN proc' = Side /\ \A x \in Side : DOMAIN proc'[x] = DOMAIN start(0)
    BY <1>1, <1>2, Sides DEF progOK, goesTo
  <1>5. \A x \in Side : proc'[x].prog = proc[x].prog /\ proc'[x].asks = proc[x].asks
    BY <1>1, <1>2, Sides DEF goesTo
  <1>6. "server" \in Side /\ "client" \in Side
    BY DEF Side
  <1> QED BY <1>3, <1>4, <1>5, <1>6 DEF progOK, main, goesTo

\* A call outside the signals leads out of them or to the beginning of one, and
\* so does the last call of one.
LEMMA Goes ==
  ASSUME NEW s \in Side, progOK, running(s), proc[s].at <= Len(code(s)), NEW p, goesTo(s, p),
         \/ stage(s) = Free /\ p.at \in targets(call(s), proc[s].at)
         \/ stage(s) # Free /\ stage(s).j = Len(script(stage(s).k, stage(s).n)) /\ p.at = proc[s].at + 1
  PROVE  /\ calm(s)' /\ opened(s)' = effect(opened(s), call(s)) /\ running(s)' /\ proc'[s] = p
         /\ p.at \in 1 .. Len(code(s)) + 1 /\ stays(other(s))
  <1>1. /\ proc'[s] = p /\ code(s)' = code(s) /\ running(s)'
        /\ stage(s)' = IF p.at <= Len(code(s)) THEN pl(s)[p.at] ELSE Free
        /\ opened(s)' = op(s)[p.at]
        /\ stays(other(s))
    BY Position
  <1>2. routineOK(code(s), pl(s), op(s), who(s)) /\ Len(code(s)) \in Nat
    BY Routes
  <1>3. PICK i \in 1 .. Len(code(s)) : i = proc[s].at
    BY CallIs
  <1>4. stage(s) = pl(s)[i] /\ opened(s) = op(s)[i] /\ call(s) = code(s)[i]
    BY <1>3, CallIs DEF call
  <1>5. /\ pl(s)[i] = Free => \A t \in targets(code(s)[i], i) : entry(code(s), pl(s), t)
        /\ pl(s)[i] # Free /\ pl(s)[i].j = Len(script(pl(s)[i].k, pl(s)[i].n)) => entry(code(s), pl(s), i + 1)
        /\ \A t \in targets(code(s)[i], i) : op(s)[t] = effect(op(s)[i], code(s)[i])
    BY <1>2 DEF routineOK
  <1>6. stage(s) # Free => i + 1 \in targets(code(s)[i], i)
    <2>1. SUFFICES ASSUME stage(s) # Free
                   PROVE  i + 1 \in targets(code(s)[i], i)
      OBVIOUS
    <2>2. call(s).op # "jump"
      <3>1. /\ stage(s) \in Places /\ stage(s).j \in 1 .. Len(script(stage(s).k, stage(s).n))
            /\ call(s) = script(stage(s).k, stage(s).n)[stage(s).j]
        BY <2>1, CallIs
      <3>2. stage(s).k \in {"send", "recv"}
        BY <3>1 DEF Places
      <3> QED BY <3>1, <3>2, ScriptsGoOn
    <2> QED BY <2>2, <1>4 DEF targets
  <1>7. entry(code(s), pl(s), p.at) /\ op(s)[p.at] = effect(op(s)[i], code(s)[i])
    BY <1>3, <1>4, <1>5, <1>6
  <1>8. p.at \in 1 .. Len(code(s)) + 1 /\ (p.at <= Len(code(s)) => pl(s)[p.at] = Free \/ pl(s)[p.at].j = 1)
    BY <1>7 DEF entry
  <1>9. calm(s)'
    BY <1>1, <1>8 DEF calm
  <1> QED BY <1>1, <1>4, <1>7, <1>8, <1>9

\* A step within a signal.
LEMMA Advances ==
  ASSUME NEW s \in Side, progOK, running(s), proc[s].at <= Len(code(s)), NEW p, goesTo(s, p),
         stage(s) # Free, stage(s).j < Len(script(stage(s).k, stage(s).n)), p.at = proc[s].at + 1
  PROVE  /\ stage(s)' = [stage(s) EXCEPT !.j = @ + 1]
         /\ opened(s)' = effect(opened(s), call(s)) /\ running(s)' /\ proc'[s] = p
         /\ p.at \in 1 .. Len(code(s)) + 1 /\ stays(other(s))
  <1>1. /\ proc'[s] = p /\ code(s)' = code(s) /\ running(s)'
        /\ stage(s)' = IF p.at <= Len(code(s)) THEN pl(s)[p.at] ELSE Free
        /\ opened(s)' = op(s)[p.at]
        /\ stays(other(s))
    BY Position
  <1>2. routineOK(code(s), pl(s), op(s), who(s)) /\ Len(code(s)) \in Nat
    BY Routes
  <1>3. PICK i \in 1 .. Len(code(s)) : i = proc[s].at
    BY CallIs
  <1>4. stage(s) = pl(s)[i] /\ opened(s) = op(s)[i] /\ call(s) = code(s)[i]
    BY <1>3, CallIs DEF call
  <1>5. /\ pl(s)[i] # Free => IF pl(s)[i].j = Len(script(pl(s)[i].k, pl(s)[i].n))
                              THEN entry(code(s), pl(s), i + 1)
                              ELSE i < Len(code(s)) /\ pl(s)[i + 1] = [pl(s)[i] EXCEPT !.j = @ + 1]
        /\ \A t \in targets(code(s)[i], i) : op(s)[t] = effect(op(s)[i], code(s)[i])
    BY <1>2 DEF routineOK
  <1>6. i < Len(code(s)) /\ pl(s)[i + 1] = [pl(s)[i] EXCEPT !.j = @ + 1]
    <2>1. pl(s)[i] # Free /\ pl(s)[i].j # Len(script(pl(s)[i].k, pl(s)[i].n))
      BY <1>4
    <2> QED BY <2>1, <1>5
  <1>7. i + 1 \in targets(code(s)[i], i)
    <2>1. /\ stage(s) \in Places /\ stage(s).j \in 1 .. Len(script(stage(s).k, stage(s).n))
          /\ call(s) = script(stage(s).k, stage(s).n)[stage(s).j]
      BY CallIs
    <2>2. stage(s).k \in {"send", "recv"}
      BY <2>1 DEF Places
    <2>3. call(s).op # "jump"
      BY <2>1, <2>2, ScriptsGoOn
    <2> QED BY <2>3, <1>4 DEF targets
  <1> QED BY <1>1, <1>2, <1>3, <1>4, <1>5, <1>6, <1>7

\* A step that repeats the current call.
LEMMA Repeats ==
  ASSUME NEW s \in Side, progOK, running(s), proc[s].at <= Len(code(s)), NEW p, goesTo(s, p),
         p.at = proc[s].at
  PROVE  /\ stage(s)' = stage(s) /\ opened(s)' = opened(s) /\ running(s)' /\ proc'[s] = p
         /\ p.at \in 1 .. Len(code(s)) + 1 /\ stays(other(s))
  <1>1. /\ proc'[s] = p /\ code(s)' = code(s) /\ running(s)'
        /\ stage(s)' = IF p.at <= Len(code(s)) THEN pl(s)[p.at] ELSE Free
        /\ opened(s)' = op(s)[p.at]
        /\ stays(other(s))
    BY Position
  <1>2. /\ proc[s].at \in 1 .. Len(code(s)) /\ stage(s) = pl(s)[proc[s].at]
        /\ opened(s) = op(s)[proc[s].at]
    BY CallIs
  <1>3. Len(code(s)) \in Nat
    BY Routes
  <1> QED BY <1>1, <1>2, <1>3

\* A step of a signal moves its side to the next call of the signal.
LEMMA AdvancesTo ==
  ASSUME NEW k, NEW m, NEW j, NEW s, stage(s) = [k |-> k, n |-> m, j |-> j],
         stage(s)' = [stage(s) EXCEPT !.j = @ + 1]
  PROVE  stage(s)' = [k |-> k, n |-> m, j |-> j + 1]
  OBVIOUS

-----------------------------------------------------------------------------
(***************************************************************************)
(* Packets under way.                                                      *)
(***************************************************************************)
cleanSeq(r) == isSeq(r) /\ \A i \in 1 .. Len(r) : ~Marked(r[i]) /\ plainOK(r[i])

\* Two sequences that carry the same packets of the signals.
alike(q, r) ==
  /\ marks(q) = {} <=> marks(r) = {}
  /\ \A k : under(q, k) <=> under(r, k)
  /\ \A k, m : underNamed(q, k, m) <=> underNamed(r, k, m)
  /\ \A m : underBoth(q, m) <=> underBoth(r, m)

\* Sequences joined, prolonged and taken from.
LEMMA InSeq ==
  ASSUME NEW S, NEW q \in Seq(S)
  PROVE  isSeq(q)
  <1>1. DOMAIN q = 1 .. Len(q) /\ Len(q) \in Nat
    OBVIOUS
  <1>2. q = [i \in 1 .. Len(q) |-> q[i]]
    BY <1>1
  <1>3. q \in [1 .. Len(q) -> {q[i] : i \in DOMAIN q}]
    BY <1>1, <1>2
  <1> QED BY <1>1, <1>3 DEF isSeq

\* Two sequences joined.
LEMMA SeqJoin ==
  ASSUME NEW q, isSeq(q), NEW r, isSeq(r)
  PROVE  /\ isSeq(q \o r) /\ Len(q \o r) = Len(q) + Len(r) /\ Len(q) \in Nat /\ Len(r) \in Nat
         /\ \A i \in 1 .. Len(q) : (q \o r)[i] = q[i]
         /\ \A i \in Len(q) + 1 .. Len(q) + Len(r) :
              (q \o r)[i] = r[i - Len(q)] /\ i - Len(q) \in 1 .. Len(r)
  <1> DEFINE S == {q[i] : i \in DOMAIN q} \cup {r[i] : i \in DOMAIN r}
  <1>1. q \in Seq(S) /\ r \in Seq(S)
    BY DEF isSeq
  <1> HIDE DEF S
  <1>2. q \o r \in Seq(S)
    BY <1>1
  <1>3. isSeq(q \o r)
    BY <1>2, InSeq
  <1> QED BY <1>1, <1>3

\* A sequence of one element.
LEMMA SeqOne ==
  ASSUME NEW p
  PROVE  isSeq(<<p>>) /\ Len(<<p>>) = 1 /\ <<p>>[1] = p /\ isSeq(<<>>) /\ Len(<<>>) = 0
  BY DEF isSeq

\* The empty sequence.
LEMMA SeqNone == isSeq(<<>>) /\ Len(<<>>) = 0
  BY DEF isSeq

\* A sequence with one more element.
LEMMA SeqAppend ==
  ASSUME NEW q, isSeq(q), NEW p
  PROVE  /\ isSeq(Append(q, p)) /\ Len(Append(q, p)) = Len(q) + 1 /\ Len(q) \in Nat
         /\ \A i \in 1 .. Len(q) : Append(q, p)[i] = q[i]
         /\ Append(q, p)[Len(q) + 1] = p
         /\ Append(q, p) = q \o <<p>>
  <1> DEFINE S == {q[i] : i \in DOMAIN q} \cup {p}
  <1>1. q \in Seq(S) /\ p \in S
    BY DEF isSeq
  <1> HIDE DEF S
  <1>2. Append(q, p) \in Seq(S)
    BY <1>1
  <1>3. isSeq(Append(q, p))
    BY <1>2, InSeq
  <1>4. <<p>> \in Seq(S) /\ Append(q, p) = q \o <<p>>
    BY <1>1, AppendIsConcat
  <1> QED BY <1>1, <1>3, <1>4

\* A sequence without its first element.
LEMMA SeqTail ==
  ASSUME NEW q, isSeq(q), q # <<>>
  PROVE  /\ isSeq(Tail(q)) /\ Len(Tail(q)) = Len(q) - 1 /\ Len(q) \in Nat \ {0} /\ Head(q) = q[1]
         /\ \A i \in 1 .. Len(q) - 1 : Tail(q)[i] = q[i + 1]
  <1> DEFINE S == {q[i] : i \in DOMAIN q}
  <1>1. q \in Seq(S)
    BY DEF isSeq
  <1> HIDE DEF S
  <1>2. Tail(q) \in Seq(S)
    BY <1>1
  <1>3. isSeq(Tail(q))
    BY <1>2, InSeq
  <1> QED BY <1>1, <1>3

\* Packets that have to do with no signal, behind the others or at their head.
LEMMA JoinClean ==
  ASSUME NEW q, isSeq(q), NEW r, cleanSeq(r)
  PROVE  alike(q \o r, q)
  <1>1. /\ Len(q \o r) = Len(q) + Len(r) /\ Len(q) \in Nat /\ Len(r) \in Nat
        /\ \A i \in 1 .. Len(q) : (q \o r)[i] = q[i]
        /\ \A i \in Len(q) + 1 .. Len(q) + Len(r) : ~Marked((q \o r)[i])
    <2>1. isSeq(r) /\ \A i \in 1 .. Len(r) : ~Marked(r[i])
      BY DEF cleanSeq
    <2>2. /\ Len(q \o r) = Len(q) + Len(r) /\ Len(q) \in Nat /\ Len(r) \in Nat
          /\ \A i \in 1 .. Len(q) : (q \o r)[i] = q[i]
          /\ \A i \in Len(q) + 1 .. Len(q) + Len(r) :
               (q \o r)[i] = r[i - Len(q)] /\ i - Len(q) \in 1 .. Len(r)
      BY <2>1, SeqJoin
    <2> QED BY <2>1, <2>2
  <1>2. marks(q \o r) = marks(q)
    BY <1>1 DEF marks
  <1>3. \A i \in marks(q) : (q \o r)[i] = q[i]
    BY <1>1 DEF marks
  <1> QED BY <1>2, <1>3 DEF alike, under, underNamed, underBoth

\* A packet of no signal leaves a queue as it was for the signals.
LEMMA TailClean ==
  ASSUME NEW q, isSeq(q), q # <<>>, ~Marked(Head(q))
  PROVE  alike(Tail(q), q)
  <1>1. /\ Len(Tail(q)) = Len(q) - 1 /\ Len(q) \in Nat \ {0} /\ ~Marked(q[1])
        /\ \A i \in 1 .. Len(q) - 1 : Tail(q)[i] = q[i + 1]
    BY SeqTail
  <1>2. \A i : i \in marks(Tail(q)) => i \in Int /\ i + 1 \in marks(q) /\ Tail(q)[i] = q[i + 1]
    BY <1>1 DEF marks
  <1>3. \A i : i \in marks(q) => i \in Int /\ i - 1 \in marks(Tail(q)) /\ Tail(q)[i - 1] = q[i]
    <2>1. SUFFICES ASSUME NEW i \in marks(q)
                   PROVE  i \in Int /\ i - 1 \in marks(Tail(q)) /\ Tail(q)[i - 1] = q[i]
      OBVIOUS
    <2>2. i \in 2 .. Len(q) /\ Marked(q[i])
      BY <1>1 DEF marks
    <2>3. i - 1 \in 1 .. Len(q) - 1 /\ (i - 1) + 1 = i
      BY <2>2, <1>1
    <2>4. Tail(q)[i - 1] = q[i]
      BY <2>3, <1>1
    <2> QED BY <2>2, <2>3, <2>4, <1>1 DEF marks
  <1>4. marks(q) = {} <=> marks(Tail(q)) = {}
    BY <1>2, <1>3
  <1>5. \A i : marks(Tail(q)) = {i} => marks(q) = {i + 1} /\ Tail(q)[i] = q[i + 1]
    <2>1. SUFFICES ASSUME NEW i, marks(Tail(q)) = {i}
                   PROVE  marks(q) = {i + 1} /\ Tail(q)[i] = q[i + 1]
      OBVIOUS
    <2>2. i \in Int /\ i + 1 \in marks(q) /\ Tail(q)[i] = q[i + 1]
      BY <2>1, <1>2
    <2>3. \A h \in marks(q) : h = i + 1
      BY <2>1, <2>2, <1>3
    <2> QED BY <2>2, <2>3
  <1>6. \A i : marks(q) = {i} => marks(Tail(q)) = {i - 1} /\ Tail(q)[i - 1] = q[i]
    <2>1. SUFFICES ASSUME NEW i, marks(q) = {i}
                   PROVE  marks(Tail(q)) = {i - 1} /\ Tail(q)[i - 1] = q[i]
      OBVIOUS
    <2>2. i \in Int /\ i - 1 \in marks(Tail(q)) /\ Tail(q)[i - 1] = q[i]
      BY <2>1, <1>3
    <2>3. \A h \in marks(Tail(q)) : h = i - 1
      BY <2>1, <2>2, <1>2
    <2> QED BY <2>2, <2>3
  <1>7. \A k : under(Tail(q), k) <=> under(q, k)
    <2>1. ASSUME NEW k, under(Tail(q), k) PROVE under(q, k)
      BY <2>1, <1>5 DEF under
    <2>2. ASSUME NEW k, under(q, k) PROVE under(Tail(q), k)
      BY <2>2, <1>6 DEF under
    <2> QED BY <2>1, <2>2
  <1>8. \A k, m : underNamed(Tail(q), k, m) <=> underNamed(q, k, m)
    <2>1. ASSUME NEW k, NEW m, underNamed(Tail(q), k, m) PROVE underNamed(q, k, m)
      BY <2>1, <1>5 DEF underNamed
    <2>2. ASSUME NEW k, NEW m, underNamed(q, k, m) PROVE underNamed(Tail(q), k, m)
      BY <2>2, <1>6 DEF underNamed
    <2> QED BY <2>1, <2>2
  <1>9. \A m : underBoth(Tail(q), m) <=> underBoth(q, m)
    <2>1. ASSUME NEW m, underBoth(Tail(q), m) PROVE underBoth(q, m)
      <3>1. PICK i, h \in marks(Tail(q)) : /\ marks(Tail(q)) = {i, h} /\ i < h /\ Tail(q)[i].k = "withdraw"
                         /\ Tail(q)[h].k = "publish" /\ Tail(q)[h].addr = syncAddr(m)
        BY <2>1 DEF underBoth
      <3>2. /\ i \in Int /\ h \in Int /\ i + 1 \in marks(q) /\ h + 1 \in marks(q)
            /\ Tail(q)[i] = q[i + 1] /\ Tail(q)[h] = q[h + 1]
        BY <1>2
      <3>3. marks(q) = {i + 1, h + 1}
        <4>1. \A x \in marks(q) : x = i + 1 \/ x = h + 1
          BY <3>1, <3>2, <1>3
        <4> QED BY <4>1, <3>2
      <3>4. i + 1 < h + 1
        BY <3>1, <3>2
      <3> QED BY <3>1, <3>2, <3>3, <3>4 DEF underBoth
    <2>2. ASSUME NEW m, underBoth(q, m) PROVE underBoth(Tail(q), m)
      <3>1. PICK i, h \in marks(q) : /\ marks(q) = {i, h} /\ i < h /\ q[i].k = "withdraw"
                         /\ q[h].k = "publish" /\ q[h].addr = syncAddr(m)
        BY <2>2 DEF underBoth
      <3>2. /\ i \in Int /\ h \in Int /\ i - 1 \in marks(Tail(q)) /\ h - 1 \in marks(Tail(q))
            /\ Tail(q)[i - 1] = q[i] /\ Tail(q)[h - 1] = q[h]
        BY <1>3
      <3>3. marks(Tail(q)) = {i - 1, h - 1}
        <4>1. \A x \in marks(Tail(q)) : x = i - 1 \/ x = h - 1
          BY <3>1, <3>2, <1>2
        <4> QED BY <4>1, <3>2
      <3>4. i - 1 < h - 1
        BY <3>1, <3>2
      <3> QED BY <3>1, <3>2, <3>3, <3>4 DEF underBoth
    <2> QED BY <2>1, <2>2
  <1> QED BY <1>4, <1>7, <1>8, <1>9 DEF alike

\* The packets of the signals that are under way are none, one or two.
LEMMA UnderOne ==
  ASSUME NEW q
  PROVE  /\ \A k : under(q, k) => marks(q) # {}
         /\ \A k, h : under(q, k) /\ under(q, h) => k = h
         /\ \A k, m : underNamed(q, k, m) => under(q, k)
         /\ \A k, m : underBoth(q, m) => ~under(q, k) /\ marks(q) # {}
  <1>1. \A k : under(q, k) => marks(q) # {}
    BY DEF under
  <1>2. \A k, h : under(q, k) /\ under(q, h) => k = h
    BY DEF under
  <1>3. \A k, m : underNamed(q, k, m) => under(q, k)
    BY DEF under, underNamed
  <1>4. ASSUME NEW k, NEW m, underBoth(q, m), under(q, k) PROVE FALSE
    <2>1. PICK i, h \in marks(q) : i < h /\ marks(q) = {i, h}
      BY <1>4 DEF underBoth
    <2>2. i \in Int /\ h \in Int
      BY DEF marks
    <2>3. PICK j \in marks(q) : marks(q) = {j}
      BY <1>4 DEF under
    <2> QED BY <2>1, <2>2, <2>3
  <1>5. \A k, m : underBoth(q, m) => ~under(q, k) /\ marks(q) # {}
    BY <1>4 DEF underBoth
  <1> QED BY <1>1, <1>2, <1>3, <1>5

\* A packet of a signal is sent.
LEMMA JoinMarked ==
  ASSUME NEW q, isSeq(q), NEW p, Marked(p)
  PROVE  /\ marks(q) = {} => /\ under(q \o <<p>>, p.k)
                             /\ \A m : p.addr = syncAddr(m) => underNamed(q \o <<p>>, p.k, m)
         /\ under(q, "withdraw") /\ p.k = "publish" =>
              \A m : p.addr = syncAddr(m) => underBoth(q \o <<p>>, m)
  <1> DEFINE r == q \o <<p>>
             l == Len(q) + 1
  <1>1. /\ Len(r) = l /\ Len(q) \in Nat /\ \A i \in 1 .. Len(q) : r[i] = q[i]
        /\ r[l] = p
    BY SeqJoin, SeqOne
  <1> HIDE DEF r
  <1>2. marks(r) = marks(q) \cup {l} /\ l \in Int
    BY <1>1 DEF marks
  <1>3. ASSUME marks(q) = {}
        PROVE  under(r, p.k) /\ \A m : p.addr = syncAddr(m) => underNamed(r, p.k, m)
    <2>1. marks(r) = {l} /\ l \in marks(r)
      BY <1>2, <1>3
    <2> QED BY <1>1, <2>1 DEF under, underNamed
  <1>4. ASSUME under(q, "withdraw"), p.k = "publish", NEW m, p.addr = syncAddr(m)
        PROVE  underBoth(r, m)
    <2>1. PICK i \in marks(q) : marks(q) = {i} /\ q[i].k = "withdraw"
      BY <1>4 DEF under
    <2>2. i \in 1 .. Len(q) /\ r[i] = q[i] /\ i < l
      BY <1>1 DEF marks
    <2>3. marks(r) = {i, l}
      BY <1>2, <2>1
    <2> QED BY <1>1, <1>4, <2>1, <2>2, <2>3 DEF underBoth
  <1> QED BY <1>3, <1>4 DEF r

\* A packet of a signal has arrived.
LEMMA TailMarked ==
  ASSUME NEW q, isSeq(q), q # <<>>, Marked(Head(q))
  PROVE  /\ marks(q) # {}
         /\ \A k : under(q, k) => marks(Tail(q)) = {} /\ Head(q).k = k
         /\ \A k, m : underNamed(q, k, m) => Head(q).addr = syncAddr(m)
         /\ \A m : underBoth(q, m) => Head(q).k = "withdraw" /\ underNamed(Tail(q), "publish", m)
  <1>1. /\ Len(Tail(q)) = Len(q) - 1 /\ Len(q) \in Nat \ {0} /\ Head(q) = q[1]
        /\ \A i \in 1 .. Len(q) - 1 : Tail(q)[i] = q[i + 1]
    BY SeqTail
  <1>2. 1 \in marks(q)
    BY <1>1 DEF marks
  <1>3. \A i : i \in marks(Tail(q)) => i \in Int /\ i # 0 /\ i + 1 \in marks(q) /\ Tail(q)[i] = q[i + 1]
    BY <1>1 DEF marks
  <1>4. \A k : under(q, k) => marks(Tail(q)) = {} /\ Head(q).k = k
    <2>1. SUFFICES ASSUME NEW k, under(q, k)
                   PROVE  marks(Tail(q)) = {} /\ Head(q).k = k
      OBVIOUS
    <2>2. marks(q) = {1} /\ q[1].k = k
      BY <2>1, <1>2 DEF under
    <2>3. \A i : i \notin marks(Tail(q))
      BY <2>2, <1>3
    <2> QED BY <2>2, <2>3, <1>1
  <1>5. \A k, m : underNamed(q, k, m) => Head(q).addr = syncAddr(m)
    BY <1>1, <1>2 DEF underNamed
  <1>6. \A m : underBoth(q, m) => Head(q).k = "withdraw" /\ underNamed(Tail(q), "publish", m)
    <2>1. SUFFICES ASSUME NEW m, underBoth(q, m)
                   PROVE  Head(q).k = "withdraw" /\ underNamed(Tail(q), "publish", m)
      OBVIOUS
    <2>2. PICK i, h \in marks(q) : /\ marks(q) = {i, h} /\ i < h /\ q[i].k = "withdraw"
                                   /\ q[h].k = "publish" /\ q[h].addr = syncAddr(m)
      BY <2>1 DEF underBoth
    <2>3. i \in 1 .. Len(q) /\ h \in 1 .. Len(q) /\ Marked(q[h])
      BY DEF marks
    <2>4. i = 1 /\ h \in 2 .. Len(q)
      BY <2>2, <2>3, <1>2
    <2>5. h - 1 \in 1 .. Len(q) - 1 /\ Tail(q)[h - 1] = q[h]
      <3>1. h - 1 \in 1 .. Len(q) - 1 /\ (h - 1) + 1 = h
        BY <2>4, <1>1
      <3> QED BY <3>1, <1>1
    <2>6. h - 1 \in marks(Tail(q))
      BY <2>3, <2>5, <1>1 DEF marks
    <2>7. \A x \in marks(Tail(q)) : x = h - 1
      BY <2>2, <2>4, <1>3
    <2>8. marks(Tail(q)) = {h - 1}
      BY <2>6, <2>7
    <2>9. q[1].k = "withdraw"
      BY <2>2, <2>4
    <2> QED BY <2>2, <2>5, <2>6, <2>8, <2>9, <1>1 DEF underNamed
  <1> QED BY <1>2, <1>4, <1>5, <1>6

\* A set of numbers that is not empty has a least member.
LEMMA LeastNat ==
  ASSUME NEW T \in SUBSET Nat, NEW a \in T
  PROVE  \E x \in T : \A y \in T : x <= y
  <1> DEFINE R == {p \in Nat \X Nat : p[1] < p[2]}
  <1>1. IsWellFoundedOn(R, Nat)
    <2>1. R = OpToRel(<, Nat)
      BY DEF OpToRel
    <2> QED BY <2>1, NatLessThanWellFounded
  <1> HIDE DEF R
  <1>2. \E x \in T : \A y \in T : ~ (<<y, x>> \in R)
    BY <1>1, WFMin, Zenon
  <1>3. PICK x \in T : \A y \in T : ~ (<<y, x>> \in R)
    BY <1>2
  <1>4. \A y \in T : x <= y
    <2>1. \A u, v \in Nat : u < v => <<u, v>> \in R
      BY DEF R
    <2>2. ASSUME NEW y \in T PROVE x <= y
      <3>1. x \in Nat /\ y \in Nat
        OBVIOUS
      <3>2. ~ (y < x)
        BY <1>3, <2>1, <3>1, Zenon
      <3> QED BY <3>1, <3>2
    <2> QED BY <2>2
  <1> QED BY <1>4

\* Induction over the natural numbers, for a set of them.
LEMMA NatInd ==
  ASSUME NEW T, 0 \in T, \A n \in Nat : n \in T => n + 1 \in T
  PROVE  \A n \in Nat : n \in T
  <1>1. SUFFICES ASSUME NEW n \in Nat, n \notin T
                 PROVE  FALSE
    OBVIOUS
  <1> DEFINE U == {m \in Nat : m \notin T}
  <1>2. PICK x \in U : \A y \in U : x <= y
    <2>1. U \in SUBSET Nat /\ n \in U
      BY <1>1
    <2> HIDE DEF U
    <2> QED BY <2>1, LeastNat
  <1>3. x \in Nat /\ x # 0 /\ x - 1 \in Nat /\ x - 1 \notin U
    BY <1>2
  <1>4. x - 1 \in T
    BY <1>3
  <1> QED BY <1>3, <1>4, <1>2

\* f holds the concatenations of the first members of s.
sums(f, s, S) ==
  /\ f \in [1 .. Len(s) -> Seq(S)]
  /\ \A i \in 1 .. Len(s) : f[i] = IF i = 1 THEN s[1] ELSE f[i - 1] \o s[i]

\* Every sequence of sequences has its running concatenations.
LEMMA SumsExist ==
  ASSUME NEW S, NEW s \in Seq(Seq(S))
  PROVE  \E f : sums(f, s, S)
  <1> DEFINE T == {l \in Nat : \A z \in Seq(Seq(S)) : Len(z) = l => \E f : sums(f, z, S)}
  <1>1. 0 \in T
    <2>1. SUFFICES ASSUME NEW z \in Seq(Seq(S)), Len(z) = 0
                   PROVE  \E f : sums(f, z, S)
      OBVIOUS
    <2>2. sums([i \in 1 .. 0 |-> <<>>], z, S)
      BY <2>1 DEF sums
    <2> QED BY <2>2
  <1>2. ASSUME NEW l \in Nat, l \in T
        PROVE  l + 1 \in T
    <2>1. SUFFICES ASSUME NEW z \in Seq(Seq(S)), Len(z) = l + 1
                   PROVE  \E f : sums(f, z, S)
      OBVIOUS
    <2>2. PICK y \in Seq(Seq(S)), x \in Seq(S) : z = Append(y, x)
      <3>1. z # <<>>
        BY <2>1
      <3> QED BY <3>1, SequenceEmptyOrAppend, Zenon
    <2>3. /\ Len(y) = l /\ z[l + 1] = x /\ \A i \in 1 .. l : z[i] = y[i]
      BY <2>1, <2>2
    <2>4. PICK f : sums(f, y, S)
      BY <2>3, <1>2
    <2> DEFINE g == [i \in 1 .. l + 1 |-> IF i <= l THEN f[i] ELSE IF l = 0 THEN x ELSE f[l] \o x]
    <2>5. l # 0 => f[l] \in Seq(S) /\ f[l] \o x \in Seq(S)
      BY <2>3, <2>4, ConcatProperties DEF sums
    <2>6. g \in [1 .. Len(z) -> Seq(S)]
      BY <2>1, <2>3, <2>4, <2>5 DEF sums
    <2>7. ASSUME NEW i \in 1 .. Len(z)
          PROVE  g[i] = IF i = 1 THEN z[1] ELSE g[i - 1] \o z[i]
      <3>1. CASE i <= l
        <4>1. i \in 1 .. l /\ (i # 1 => i - 1 \in 1 .. l)
          BY <3>1, <2>1
        <4>2. g[i] = f[i] /\ (i # 1 => g[i - 1] = f[i - 1]) /\ z[i] = y[i]
          BY <4>1, <2>3
        <4>3. f[i] = IF i = 1 THEN y[1] ELSE f[i - 1] \o y[i]
          BY <4>1, <2>3, <2>4 DEF sums
        <4> QED BY <4>2, <4>3, <4>1, <2>3
      <3>2. CASE i = l + 1
        <4>1. g[i] = IF l = 0 THEN x ELSE f[l] \o x
          BY <3>2
        <4>2. i # 1 => g[i - 1] = f[l] /\ l # 0
          BY <3>2
        <4>3. z[i] = x /\ (i = 1 <=> l = 0)
          BY <3>2, <2>3
        <4> QED BY <4>1, <4>2, <4>3
      <3> QED BY <3>1, <3>2, <2>1
    <2> HIDE DEF g
    <2>8. sums(g, z, S)
      BY <2>6, <2>7 DEF sums
    <2> QED BY <2>8
  <1>3. Len(s) \in Nat
    OBVIOUS
  <1> HIDE DEF T
  <1>4. Len(s) \in T
    BY <1>1, <1>2, <1>3, NatInd
  <1> QED BY <1>4 DEF T

\* Flattening keeps the members, and of one sequence it makes that sequence.
LEMMA Flatten ==
  ASSUME NEW S, NEW s \in Seq(Seq(S))
  PROVE  FlattenSeq(s) \in Seq(S) /\ (Len(s) = 1 => FlattenSeq(s) = s[1])
  <1>1. CASE Len(s) = 0
    <2>1. FlattenSeq(s) = <<>>
      BY <1>1 DEF FlattenSeq
    <2> QED BY <2>1, <1>1
  <1>2. CASE Len(s) # 0
    <2> DEFINE P(g) == g = [i \in 1 .. Len(s) |-> IF i = 1 THEN s[i] ELSE g[i - 1] \o s[i]]
               h == CHOOSE g : P(g)
    <2>1. PICK f : sums(f, s, S)
      BY SumsExist
    <2>2. P(f)
      BY <2>1 DEF sums
    <2>3. P(h)
      BY <2>2
    <2>4. FlattenSeq(s) = h[Len(s)]
      BY <1>2 DEF FlattenSeq
    <2>5. \A i \in 1 .. Len(s) : h[i] = IF i = 1 THEN s[1] ELSE h[i - 1] \o s[i]
      BY <2>3
    <2> HIDE DEF h
    <2> DEFINE T == {l \in Nat : l \in 1 .. Len(s) => h[l] \in Seq(S)}
    <2>6. 0 \in T
      OBVIOUS
    <2>7. ASSUME NEW l \in Nat, l \in T
          PROVE  l + 1 \in T
      <3>1. SUFFICES ASSUME l + 1 \in 1 .. Len(s)
                     PROVE  h[l + 1] \in Seq(S)
        OBVIOUS
      <3>2. PICK i \in 1 .. Len(s) : i = l + 1
        BY <3>1
      <3>3. h[i] = IF i = 1 THEN s[1] ELSE h[i - 1] \o s[i]
        BY <2>5
      <3>4. s[i] \in Seq(S) /\ i - 1 = l /\ (i # 1 => l \in 1 .. Len(s))
        BY <3>2
      <3>5. i # 1 => h[l] \in Seq(S)
        BY <3>4, <2>7
      <3>6. CASE i = 1
        BY <3>2, <3>3, <3>4, <3>6
      <3>7. CASE i # 1
        <4>1. h[l] \o s[i] \in Seq(S)
          BY <3>4, <3>5, <3>7, ConcatProperties
        <4> QED BY <4>1, <3>2, <3>3, <3>4, <3>7
      <3> QED BY <3>6, <3>7
    <2> HIDE DEF T
    <2>8. \A l \in Nat : l \in T
      BY <2>6, <2>7, NatInd
    <2>9. Len(s) \in 1 .. Len(s) /\ Len(s) \in Nat
      BY <1>2
    <2>10. h[Len(s)] \in Seq(S)
      BY <2>8, <2>9 DEF T
    <2>11. Len(s) = 1 => h[Len(s)] = s[1]
      BY <2>5, <2>9
    <2> QED BY <2>4, <2>10, <2>11
  <1> QED BY <1>1, <1>2

\* Packets that are sent together are appended to those under way.
clean(p) == ~Marked(p) /\ plainOK(p)

\* A sequence of packets that have to do with no signal.
LEMMA CleanMembers ==
  ASSUME NEW S, \A p \in S : clean(p), NEW r \in Seq(S)
  PROVE  cleanSeq(r)
  <1>1. isSeq(r)
    BY InSeq
  <1>2. \A i \in 1 .. Len(r) : r[i] \in S
    OBVIOUS
  <1> QED BY <1>1, <1>2 DEF cleanSeq, clean

\* Sequences of such packets one after the other.
LEMMA FlattenClean ==
  ASSUME NEW l \in Nat, NEW f, f = [i \in 1 .. l |-> f[i]], \A i \in 1 .. l : cleanSeq(f[i])
  PROVE  cleanSeq(FlattenSeq(f))
  <1> DEFINE S == UNION {{f[i][j] : j \in DOMAIN f[i]} : i \in 1 .. l}
  <1>1. \A i \in 1 .. l : f[i] \in Seq(S)
    <2>1. SUFFICES ASSUME NEW i \in 1 .. l
                   PROVE  f[i] \in Seq(S)
      OBVIOUS
    <2>2. f[i] \in Seq({f[i][j] : j \in DOMAIN f[i]})
      BY DEF cleanSeq, isSeq
    <2>3. {f[i][j] : j \in DOMAIN f[i]} \subseteq S
      OBVIOUS
    <2> HIDE DEF S
    <2> QED BY <2>2, <2>3
  <1>2. \A p \in S : clean(p)
    <2>1. SUFFICES ASSUME NEW i \in 1 .. l, NEW j \in DOMAIN f[i]
                   PROVE  clean(f[i][j])
      OBVIOUS
    <2>2. j \in 1 .. Len(f[i])
      BY DEF cleanSeq, isSeq
    <2> QED BY <2>2 DEF cleanSeq, clean
  <1> HIDE DEF S
  <1>3. f \in Seq(Seq(S))
    BY <1>1
  <1>4. FlattenSeq(f) \in Seq(S)
    BY <1>3, Flatten
  <1> QED BY <1>2, <1>4, CleanMembers

\* What is for a side of one packet.
LEMMA ForSide ==
  ASSUME NEW x, NEW p
  PROVE  forSide(x, p) \in Seq({p})
  <1>1. <<p>> \in Seq({p}) /\ <<>> \in Seq({p})
    OBVIOUS
  <1> QED BY <1>1 DEF forSide

\* One packet reaches the queue of the node it is for.
LEMMA AfterOne ==
  ASSUME NEW p, NEW x \in Side
  PROVE  after(<<p>>)[x] = link[x] \o IF p.dst = x THEN <<p>> ELSE <<>>
  <1> DEFINE f == [i \in 1 .. Len(<<p>>) |-> forSide(x, <<p>>[i])]
  <1>1. Len(<<p>>) = 1 /\ <<p>>[1] = p
    OBVIOUS
  <1>2. forSide(x, p) \in Seq({p})
    BY ForSide
  <1>3. f = [i \in 1 .. 1 |-> forSide(x, p)]
    <2>1. \A i \in 1 .. 1 : forSide(x, <<p>>[i]) = forSide(x, p)
      BY <1>1
    <2> QED BY <1>1, <2>1
  <1>4. f \in Seq(Seq({p})) /\ Len(f) = 1 /\ f[1] = forSide(x, p)
    BY <1>2, <1>3
  <1>5. after(<<p>>)[x] = link[x] \o FlattenSeq(f)
    BY DEF after
  <1> HIDE DEF f
  <1>6. FlattenSeq(f) = forSide(x, p)
    BY <1>4, Flatten
  <1> QED BY <1>5, <1>6 DEF forSide

\* Packets that have to do with no signal lengthen the queues by such.
LEMMA AfterClean ==
  ASSUME NEW q, cleanSeq(q), NEW x \in Side
  PROVE  \E r : cleanSeq(r) /\ after(q)[x] = link[x] \o r
  <1> DEFINE f == [i \in 1 .. Len(q) |-> forSide(x, q[i])]
  <1>1. Len(q) \in Nat
    BY DEF cleanSeq, isSeq
  <1>2. ASSUME NEW i \in 1 .. Len(q)
        PROVE  cleanSeq(f[i])
    <2>1. clean(q[i])
      BY DEF cleanSeq, clean
    <2>2. f[i] = forSide(x, q[i])
      OBVIOUS
    <2> HIDE DEF f
    <2>3. forSide(x, q[i]) \in Seq({q[i]})
      BY ForSide
    <2> QED BY <2>1, <2>2, <2>3, CleanMembers
  <1>3. f = [i \in 1 .. Len(q) |-> f[i]]
    OBVIOUS
  <1>4. after(q)[x] = link[x] \o FlattenSeq(f)
    BY DEF after
  <1> HIDE DEF f
  <1>5. cleanSeq(FlattenSeq(f))
    BY <1>1, <1>2, <1>3, FlattenClean
  <1> QED BY <1>4, <1>5

\* One packet of a signal is sent.
LEMMA AfterDomain ==
  ASSUME NEW q
  PROVE  DOMAIN after(q) = Side
  BY DEF after

-----------------------------------------------------------------------------
(***************************************************************************)
(* Steps outside the signals.                                              *)
(***************************************************************************)
\* What a step of one side leaves to the other one.
untouched(s) == sock'[s] = sock[s] /\ known'[s] = known[s] /\ sub'[s] = sub[s]
own_(s) == openOK(s) /\ sockOK(s) /\ nameOK(s) /\ subOK(s) /\ signalSocketOK(s)
meet(s) == viewOK(s) /\ ackOK(s) /\ meetOK(s)

\* A side that does nothing, and to which nothing is done, has what it had.
LEMMA OtherSide ==
  ASSUME NEW s \in Side, stays(s), untouched(s), own_(s)
  PROVE  own_(s)' /\ view(s)' = view(s)
  <1>1. openOK(s)'
    BY DEF stays, untouched, own_, openOK
  <1>2. sockOK(s)'
    BY DEF untouched, own_, sockOK
  <1>3. /\ \A J : sends(s, J)' <=> sends(s, J)
        /\ \A J : recvs(s, J)' <=> recvs(s, J)
        /\ signal(s)' = signal(s)
    BY DEF stays, sends, recvs, signal
  <1>4. nameOK(s)'
    BY <1>3 DEF untouched, own_, nameOK, own
  <1>5. subOK(s)'
    BY <1>3 DEF untouched, own_, subOK, stays
  <1>6. signalSocketOK(s)'
    BY <1>3 DEF untouched, own_, signalSocketOK
  <1>7. view(s)' = view(s)
    BY DEF untouched, view
  <1> QED BY <1>1, <1>2, <1>4, <1>5, <1>6, <1>7 DEF own_

\* A calm side is at no call of a signal but the first.
LEMMA Calm ==
  ASSUME NEW s
  PROVE  /\ calm(s) => \A J : 1 \notin J => ~sends(s, J) /\ ~recvs(s, J)
         /\ calm(s)' => \A J : 1 \notin J => ~sends(s, J)' /\ ~recvs(s, J)'
  BY DEF calm, sends, recvs, Free

\* The places of the two sides when one acts outside the signals.
LEMMA CalmMeet ==
  ASSUME NEW s \in Side, calm(s), calm(s)', NEW t \in Side, t = other(s), stage(t)' = stage(t),
         beat' = beat, view(s)' = view(s), view(t)' = view(t), sub'[t] = sub[t], sock'[t] = sock[t],
         alike(link'[s], link[s]), alike(link'[t], link[t]), meet(s), meet(t)
  PROVE  meet(s)' /\ meet(t)'
  <1>1. other(t) = s /\ s # t
    BY Sides
  <1>2. /\ \A J : 1 \notin J => ~sends(s, J) /\ ~recvs(s, J)
        /\ \A J : 1 \notin J => ~sends(s, J)' /\ ~recvs(s, J)'
    BY Calm
  <1>3. /\ ~sends(s, 3 .. 4) /\ ~sends(s, {3}) /\ ~sends(s, {4}) /\ ~sends(s, {5}) /\ ~recvs(s, 7 .. 9)
        /\ ~recvs(s, {2}) /\ ~recvs(s, 3 .. 6) /\ ~recvs(s, 7 .. 11) /\ ~sends(s, 3 .. 5)
    BY <1>2
  <1>4. /\ ~sends(s, 3 .. 4)' /\ ~sends(s, {3})' /\ ~sends(s, {4})' /\ ~sends(s, {5})' /\ ~recvs(s, 7 .. 9)'
        /\ ~recvs(s, {2})' /\ ~recvs(s, 3 .. 6)' /\ ~recvs(s, 7 .. 11)' /\ ~sends(s, 3 .. 5)'
    BY <1>2
  <1>5. /\ \A J : sends(t, J)' <=> sends(t, J)
        /\ \A J : recvs(t, J)' <=> recvs(t, J)
        /\ signal(t)' = signal(t)
    BY DEF sends, recvs, signal
  <1>6. ~open(s) /\ ~open(s)' /\ (open(t)' <=> open(t))
    BY <1>3, <1>4, <1>5 DEF open
  <1>7. ~answering(s) /\ ~answering(s)' /\ ~answering(t) /\ ~answering(t)'
    BY <1>1, <1>3, <1>4, <1>6 DEF answering
  <1>8. viewOK(s)'
    BY <1>1, <1>4, <1>5, <1>6 DEF meet, viewOK, alike
  <1>9. viewOK(t)'
    BY <1>1, <1>3, <1>4, <1>5, <1>6 DEF meet, viewOK, alike
  <1>10. ackOK(s)'
    BY <1>3, <1>4, <1>7 DEF meet, ackOK, alike
  <1>11. ackOK(t)'
    BY <1>5, <1>7 DEF meet, ackOK, alike
  <1>12. ahead(s, t)' = ahead(s, t) /\ ahead(t, s)' = ahead(t, s)
    BY DEF ahead
  <1>13. meetOK(s)'
    BY <1>1, <1>3, <1>4, <1>5, <1>6, <1>7, <1>12 DEF meet, meetOK, late
  <1>14. meetOK(t)'
    BY <1>1, <1>3, <1>4, <1>5, <1>6, <1>7, <1>12 DEF meet, meetOK, late
  <1> QED BY <1>8, <1>9, <1>10, <1>11, <1>13, <1>14 DEF meet

\* A packet that has to do with no signal is sent.
linkGrows(x) == \E r : cleanSeq(r) /\ link'[x] = link[x] \o r

\* A queue that packets of no signal are added to.
LEMMA LinkGrows ==
  ASSUME NEW x \in Side, linkOK(x), linkGrows(x)
  PROVE  linkOK(x)' /\ alike(link'[x], link[x])
  <1>1. PICK r : cleanSeq(r) /\ link'[x] = link[x] \o r
    BY DEF linkGrows
  <1>2. isSeq(link[x]) /\ isSeq(r)
    BY <1>1 DEF linkOK, cleanSeq
  <1>3. /\ isSeq(link'[x]) /\ Len(link'[x]) = Len(link[x]) + Len(r) /\ Len(link[x]) \in Nat /\ Len(r) \in Nat
        /\ \A i \in 1 .. Len(link[x]) : link'[x][i] = link[x][i]
        /\ \A i \in Len(link[x]) + 1 .. Len(link[x]) + Len(r) :
             link'[x][i] = r[i - Len(link[x])] /\ i - Len(link[x]) \in 1 .. Len(r)
    <2> DEFINE q == link[x]
    <2>1. /\ isSeq(q \o r) /\ Len(q \o r) = Len(q) + Len(r) /\ Len(q) \in Nat /\ Len(r) \in Nat
          /\ \A i \in 1 .. Len(q) : (q \o r)[i] = q[i]
          /\ \A i \in Len(q) + 1 .. Len(q) + Len(r) :
               (q \o r)[i] = r[i - Len(q)] /\ i - Len(q) \in 1 .. Len(r)
      <3> HIDE DEF q
      <3> QED BY <1>2, SeqJoin DEF q
    <2> QED BY <1>1, <2>1
  <1>4. alike(link'[x], link[x])
    BY <1>1, <1>2, JoinClean
  <1>5. ASSUME NEW i \in 1 .. Len(link'[x])
        PROVE  IF Marked(link'[x][i]) THEN markedOK(x, link'[x][i]) ELSE plainOK(link'[x][i])
    <2>1. CASE i <= Len(link[x])
      <3>1. i \in 1 .. Len(link[x])
        BY <2>1, <1>3
      <3>2. link'[x][i] = link[x][i]
        BY <3>1, <1>3
      <3>3. IF Marked(link[x][i]) THEN markedOK(x, link[x][i]) ELSE plainOK(link[x][i])
        BY <3>1 DEF linkOK
      <3> QED BY <3>2, <3>3
    <2>2. CASE i > Len(link[x])
      <3>1. i \in Len(link[x]) + 1 .. Len(link[x]) + Len(r)
        BY <2>2, <1>3
      <3>2. link'[x][i] = r[i - Len(link[x])] /\ i - Len(link[x]) \in 1 .. Len(r)
        BY <3>1, <1>3
      <3>3. ~Marked(r[i - Len(link[x])]) /\ plainOK(r[i - Len(link[x])])
        BY <1>1, <3>2 DEF cleanSeq
      <3> QED BY <3>2, <3>3
    <2> QED BY <2>1, <2>2, <1>3
  <1>7. linkOK(x)'
    BY <1>3, <1>5 DEF linkOK, markedOK
  <1> QED BY <1>4, <1>7

\* A queue nothing happens to.
LEMMA LinkStays ==
  ASSUME NEW x \in Side, linkOK(x), link'[x] = link[x]
  PROVE  linkOK(x)' /\ alike(link'[x], link[x]) /\ linkGrows(x)
  <1>1. linkOK(x)' /\ alike(link'[x], link[x])
    BY DEF linkOK, alike
  <1>2. isSeq(link[x]) /\ cleanSeq(<<>>)
    <2>1. isSeq(<<>>) /\ Len(<<>>) = 0
      BY SeqOne
    <2> QED BY <2>1 DEF linkOK, cleanSeq
  <1>3. link[x] \o <<>> = link[x]
    BY <1>2, ConcatEmptySeq DEF isSeq
  <1> QED BY <1>1, <1>2, <1>3 DEF linkGrows

\* The tables keep their domains.
domains == DOMAIN sock = Side /\ DOMAIN known = Side /\ DOMAIN sub = Side /\ DOMAIN link = Side

\* The parts of the invariant, before and after a step.
LEMMA InvParts ==
  /\ SyncInv <=> progOK /\ domains /\ \A s \in Side : own_(s) /\ linkOK(s) /\ meet(s)
  /\ SyncInv' <=> progOK' /\ domains' /\ \A s \in Side : own_(s)' /\ linkOK(s)' /\ meet(s)'
  BY DEF SyncInv, domains, own_, meet

\* A step outside the signals keeps the invariant if it keeps what its side has.
LEMMA PlainStep ==
  ASSUME NEW s \in Side, SyncInv, calm(s), calm(s)', progOK', domains', stays(other(s)),
         untouched(other(s)), beat' = beat, own_(s)', view(s)' = view(s),
         \A x \in Side : linkGrows(x)
  PROVE  SyncInv'
  <1> DEFINE t == other(s)
  <1>1. t \in Side /\ \A x \in Side : x = s \/ x = t
    BY Sides
  <1>2. \A x \in Side : own_(x) /\ linkOK(x) /\ meet(x)
    BY InvParts
  <1>3. own_(t)' /\ view(t)' = view(t)
    BY <1>1, <1>2, OtherSide
  <1>4. \A x \in Side : linkOK(x)' /\ alike(link'[x], link[x])
    BY <1>2, LinkGrows
  <1>5. meet(s)' /\ meet(t)'
    BY <1>1, <1>2, <1>3, <1>4, CalmMeet DEF stays, untouched
  <1> QED BY <1>1, <1>3, <1>4, <1>5, InvParts

\* What a side that is calm has.
subPlain(s) ==
  /\ DOMAIN sub[s] = DOMAIN NoSub /\ isSeq(sub[s].evts)
  /\ sub[s].on => ~sync(sub[s].addr)
  /\ \A i \in 1 .. Len(sub[s].evts) : sub[s].evts[i].port.sd # sockfd_R
namesPlain(s) == IsFiniteSet(known[s]) /\ \A x \in known[s] : sync(x.addr) <=> x.port.sd = sockfd_R
syncNames(s) == {x \in known[s] : sync(x.addr)}

\* What a side has outside the signals.
LEMMA CalmOwn ==
  ASSUME NEW s \in Side
  PROVE  /\ calm(s) => (own_(s) <=>
              /\ openOK(s) /\ sockOK(s) /\ sockfd_R \notin DOMAIN sock[s]
              /\ namesPlain(s) /\ own(s) = {} /\ subPlain(s) /\ proc[s].port.sd # sockfd_R)
         /\ calm(s)' => (own_(s)' <=>
              /\ openOK(s)' /\ sockOK(s)' /\ sockfd_R \notin DOMAIN sock'[s]
              /\ namesPlain(s)' /\ own(s)' = {} /\ subPlain(s)' /\ proc'[s].port.sd # sockfd_R)
  <1>1. ASSUME calm(s)
        PROVE  own_(s) <=>
              /\ openOK(s) /\ sockOK(s) /\ sockfd_R \notin DOMAIN sock[s]
              /\ namesPlain(s) /\ own(s) = {} /\ subPlain(s) /\ proc[s].port.sd # sockfd_R
    <2>1. \A J : 1 \notin J => ~sends(s, J) /\ ~recvs(s, J)
      BY <1>1, Calm
    <2>2. /\ ~sends(s, 3 .. 4) /\ ~sends(s, 2 .. 4) /\ ~recvs(s, 4 .. 8) /\ ~recvs(s, 2 .. 10) /\ ~recvs(s, {11})
          /\ ~recvs(s, 6 .. 7) /\ ~recvs(s, {10})
      BY <2>1
    <2>3. nameOK(s) <=> namesPlain(s) /\ own(s) = {}
      BY <2>2 DEF nameOK, namesPlain
    <2>4. subOK(s) <=> subPlain(s) /\ proc[s].port.sd # sockfd_R
      BY <2>2 DEF subOK, subPlain
    <2>5. signalSocketOK(s) <=> sockfd_R \notin DOMAIN sock[s]
      BY <2>2 DEF signalSocketOK
    <2> QED BY <2>3, <2>4, <2>5 DEF own_
  <1>2. ASSUME calm(s)'
        PROVE  own_(s)' <=>
              /\ openOK(s)' /\ sockOK(s)' /\ sockfd_R \notin DOMAIN sock'[s]
              /\ namesPlain(s)' /\ own(s)' = {} /\ subPlain(s)' /\ proc'[s].port.sd # sockfd_R
    <2>1. \A J : 1 \notin J => ~sends(s, J)' /\ ~recvs(s, J)'
      BY <1>2, Calm
    <2>2. /\ ~sends(s, 3 .. 4)' /\ ~sends(s, 2 .. 4)' /\ ~recvs(s, 4 .. 8)' /\ ~recvs(s, 2 .. 10)'
          /\ ~recvs(s, {11})' /\ ~recvs(s, 6 .. 7)' /\ ~recvs(s, {10})'
      BY <2>1
    <2>3. nameOK(s)' <=> namesPlain(s)' /\ own(s)' = {}
      BY <2>2 DEF nameOK, namesPlain
    <2>4. subOK(s)' <=> subPlain(s)' /\ proc'[s].port.sd # sockfd_R
      BY <2>2 DEF subOK, subPlain
    <2>5. signalSocketOK(s)' <=> sockfd_R \notin DOMAIN sock'[s]
      BY <2>2 DEF signalSocketOK
    <2> QED BY <2>3, <2>4, <2>5 DEF own_
  <1> QED BY <1>1, <1>2

\* A call outside the signals.
LEMMA PlainCall ==
  ASSUME NEW s \in Side, SyncInv, NEW o, calls(s, o), stage(s) = Free,
         NEW p, goesTo(s, p), p.port.sd # sockfd_R,
         p.at \in targets(call(s), proc[s].at) \/ (p.at = proc[s].at /\ effect(opened(s), call(s)) = opened(s)),
         UNCHANGED main, beat' = beat, importance' \in LOW .. CRITICAL + 1,
         domains', untouched(other(s)),
         DOMAIN sock'[s] = effect(DOMAIN sock[s], call(s)), sockOK(s)', sockfd_R \notin DOMAIN sock'[s],
         namesPlain(s)', syncNames(s)' = syncNames(s), subPlain(s)',
         \A x \in Side : linkGrows(x)
  PROVE  SyncInv'
  <1>1. progOK /\ own_(s) /\ calm(s)
    BY InvParts DEF calm
  <1>2. running(s) /\ proc[s].at <= Len(code(s)) /\ call(s).op = o
    BY <1>1, Placed
  <1>3. /\ calm(s)' /\ opened(s)' = effect(opened(s), call(s)) /\ running(s)' /\ proc'[s] = p
        /\ p.at \in 1 .. Len(code(s)) + 1 /\ stays(other(s))
    <2>1. CASE p.at \in targets(call(s), proc[s].at)
      BY <1>1, <1>2, <2>1, Goes
    <2>2. CASE p.at = proc[s].at /\ effect(opened(s), call(s)) = opened(s)
      <3>1. /\ stage(s)' = stage(s) /\ opened(s)' = opened(s) /\ running(s)' /\ proc'[s] = p
            /\ p.at \in 1 .. Len(code(s)) + 1 /\ stays(other(s))
        BY <1>1, <1>2, <2>2, Repeats
      <3>2. calm(s)'
        BY <3>1 DEF calm
      <3> QED BY <2>2, <3>1, <3>2
    <2> QED BY <2>1, <2>2
  <1>4. progOK'
    <2>1. beat' \in [Side -> 0 .. 3]
      BY <1>1 DEF progOK
    <2> QED BY <1>1, <1>2, <1>3, <2>1, ProgKept
  <1>5. openOK(s)'
    <2>1. opened(s) \subseteq DOMAIN sock[s] /\ DOMAIN sock[s] \subseteq opened(s) \cup kept(s)
      BY <1>1 DEF own_, openOK
    <2> QED BY <1>3, <2>1 DEF openOK, effect
  <1>6. own(s)' = own(s) /\ view(s)' = view(s)
    <2>1. /\ own(s) = {x \in syncNames(s) : x.port.side = s}
          /\ own(s)' = {x \in syncNames(s)' : x.port.side = s}
          /\ view(s) = {x \in syncNames(s) : x.port.side # s}
          /\ view(s)' = {x \in syncNames(s)' : x.port.side # s}
      BY DEF own, view, syncNames
    <2> QED BY <2>1
  <1>7. own_(s)'
    BY <1>1, <1>3, <1>5, <1>6, CalmOwn
  <1> QED BY <1>1, <1>3, <1>4, <1>6, <1>7, PlainStep

\* The registers after a call.
LEMMA GoIs ==
  ASSUME NEW p, DOMAIN p = DOMAIN start(0), NEW by
  PROVE  /\ DOMAIN go(p, by) = DOMAIN start(0) /\ go(p, by).at = p.at + by
         /\ go(p, by).prog = p.prog /\ go(p, by).asks = p.asks /\ go(p, by).port = p.port
         /\ go(p, by).bad = p.bad
  BY DEF go, start

\* The call a side makes outside the signals.
LEMMA FreeCall ==
  ASSUME NEW s \in Side, SyncInv, NEW o, calls(s, o), stage(s) = Free
  PROVE  /\ plainCall(call(s)) /\ call(s).op = o /\ running(s) /\ progOK /\ own_(s) /\ domains /\ calm(s)
         /\ o \in UsesSocket => call(s).sd \in DOMAIN sock[s]
         /\ sockOK(s) /\ sockfd_R \notin DOMAIN sock[s] /\ namesPlain(s) /\ subPlain(s)
         /\ proc[s].port.sd # sockfd_R /\ DOMAIN proc[s] = DOMAIN start(0) /\ proc[s].at \in Nat
         /\ \A x \in Side : linkOK(x)
  <1>1. progOK /\ own_(s) /\ domains /\ calm(s) /\ \A x \in Side : linkOK(x)
    BY InvParts DEF calm
  <1>2. running(s) /\ proc[s].at <= Len(code(s)) /\ call(s).op = o
    BY <1>1, Placed
  <1>3. plainCall(call(s)) /\ (o \in UsesSocket => call(s).sd \in opened(s)) /\ proc[s].at \in Nat
    BY <1>1, <1>2, CallIs
  <1>4. opened(s) \subseteq DOMAIN sock[s]
    BY <1>1 DEF own_, openOK
  <1>5. DOMAIN proc[s] = DOMAIN start(0)
    BY <1>1 DEF progOK
  <1> QED BY <1>1, <1>2, <1>3, <1>4, <1>5, CalmOwn

\* A socket that has to do with no signal.
sockFine(k) ==
  /\ DOMAIN k = DOMAIN newSocket("RDM") /\ isSeq(k.q)
  /\ ~sync(k.name) /\ k.peer.sd # sockfd_R /\ \A i \in 1 .. Len(k.q) : fromTest(k.q[i])

\* A call outside the signals that changes sockets only.
LEMMA PlainSock ==
  ASSUME NEW s \in Side, SyncInv, NEW o, calls(s, o), stage(s) = Free,
         NEW p, goesTo(s, p), p.port.sd # sockfd_R,
         p.at \in targets(call(s), proc[s].at)
           \/ (p.at = proc[s].at /\ o \notin {"socket", "accept", "close"}),
         UNCHANGED <<main, beat, importance, known, sub>>,
         NEW f, sock' = [sock EXCEPT ![s] = f], DOMAIN f = effect(DOMAIN sock[s], call(s)),
         \A x \in DOMAIN f : sockFine(f[x]),
         \A x \in Side : linkGrows(x), DOMAIN link' = Side
  PROVE  SyncInv'
  <1>1. /\ plainCall(call(s)) /\ call(s).op = o /\ progOK /\ domains /\ own_(s)
        /\ sockfd_R \notin DOMAIN sock[s] /\ namesPlain(s) /\ subPlain(s) /\ sockOK(s)
    BY FreeCall
  <1>2. sock'[s] = f /\ sock'[other(s)] = sock[other(s)]
    BY <1>1, Sides DEF domains
  <1>3. domains' /\ untouched(other(s))
    BY <1>1, <1>2 DEF domains, untouched
  <1>4. sockfd_R \notin DOMAIN sock'[s]
    BY <1>1, <1>2 DEF effect, plainCall, UsesSocket
  <1>5. IsFiniteSet(DOMAIN f)
    <2>1. IsFiniteSet(DOMAIN sock[s])
      BY <1>1 DEF sockOK
    <2>2. \A x : IsFiniteSet(DOMAIN sock[s] \cup {x}) /\ IsFiniteSet(DOMAIN sock[s] \ {x})
      BY <2>1, FS_AddElement, FS_RemoveElement
    <2> QED BY <2>1, <2>2 DEF effect
  <1>6. sockOK(s)'
    BY <1>2, <1>5 DEF sockOK, sockFine
  <1>7. namesPlain(s)' /\ syncNames(s)' = syncNames(s) /\ subPlain(s)'
    BY <1>1 DEF namesPlain, syncNames, subPlain
  <1>8. importance' \in LOW .. CRITICAL + 1
    BY <1>1 DEF progOK
  <1>9. p.at \in targets(call(s), proc[s].at) \/ (p.at = proc[s].at /\ effect(opened(s), call(s)) = opened(s))
    BY <1>1 DEF effect
  <1> QED BY <1>2, <1>3, <1>4, <1>6, <1>7, <1>8, <1>9, PlainCall

\* A call outside the signals that changes nothing but the registers of the
\* process and sends packets.
LEMMA PlainIdle ==
  ASSUME NEW s \in Side, SyncInv, NEW o, calls(s, o), stage(s) = Free, o \notin {"socket", "accept", "close"},
         NEW p, goesTo(s, p), p.port.sd # sockfd_R,
         p.at \in targets(call(s), proc[s].at) \/ p.at = proc[s].at,
         UNCHANGED <<main, beat, sock, known, sub>>, importance' \in LOW .. CRITICAL + 1,
         \A x \in Side : linkGrows(x), DOMAIN link' = Side
  PROVE  SyncInv'
  <1>1. /\ call(s).op = o /\ domains
        /\ sockfd_R \notin DOMAIN sock[s] /\ namesPlain(s) /\ subPlain(s) /\ sockOK(s)
    BY FreeCall
  <1>2. domains' /\ untouched(other(s))
    BY <1>1 DEF domains, untouched
  <1>3. namesPlain(s)' /\ syncNames(s)' = syncNames(s) /\ subPlain(s)' /\ sockOK(s)'
    BY <1>1 DEF namesPlain, syncNames, subPlain, sockOK
  <1>4. effect(opened(s), call(s)) = opened(s) /\ effect(DOMAIN sock[s], call(s)) = DOMAIN sock[s]
    BY <1>1 DEF effect
  <1> QED BY <1>1, <1>2, <1>3, <1>4, PlainCall

-----------------------------------------------------------------------------
(***************************************************************************)
(* Packets that have to do with no signal.                                 *)
(***************************************************************************)

\* The fields of a packet.
LEMMA PacketIs ==
  ASSUME NEW k, NEW dst, NEW f, NEW t
  PROVE  /\ packet(k, dst, f, t).k = k /\ packet(k, dst, f, t).dst = dst
         /\ packet(k, dst, f, t).from = f /\ packet(k, dst, f, t).to = t
         /\ packet(k, dst, f, t).addr = NoAddr /\ ~packet(k, dst, f, t).keep
         /\ DOMAIN packet(k, dst, f, t) = {"k", "dst", "from", "to", "addr", "msg", "keep", "err"}
  BY DEF packet

\* A message that is returned has to do with no signal if it had not.
LEMMA ErrorClean ==
  ASSUME NEW p, ~Marked(p), NEW f, f.sd # sockfd_R, NEW e
  PROVE  clean(errorFor(p, f, e))
  <1>1. /\ errorFor(p, f, e).k = "error" /\ errorFor(p, f, e).from = f /\ errorFor(p, f, e).to = p.from.sd
        /\ "from" \in DOMAIN errorFor(p, f, e)
    BY PacketIs DEF errorFor
  <1> QED BY <1>1 DEF clean, Marked, Kinds, plainOK

\* One packet that has to do with no signal, or none.
LEMMA CleanOne ==
  ASSUME NEW p, clean(p)
  PROVE  cleanSeq(<<p>>) /\ cleanSeq(<<>>)
  BY SeqOne DEF cleanSeq, clean

\* Such packets after such packets.
LEMMA CleanJoin ==
  ASSUME NEW q, cleanSeq(q), NEW r, cleanSeq(r)
  PROVE  cleanSeq(q \o r)
  <1>1. /\ isSeq(q \o r) /\ Len(q \o r) = Len(q) + Len(r) /\ Len(q) \in Nat /\ Len(r) \in Nat
        /\ \A i \in 1 .. Len(q) : (q \o r)[i] = q[i]
        /\ \A i \in Len(q) + 1 .. Len(q) + Len(r) :
             (q \o r)[i] = r[i - Len(q)] /\ i - Len(q) \in 1 .. Len(r)
    BY SeqJoin DEF cleanSeq
  <1>2. ASSUME NEW i \in 1 .. Len(q \o r)
        PROVE  clean((q \o r)[i])
    <2>1. CASE i <= Len(q)
      <3>1. i \in 1 .. Len(q)
        BY <2>1, <1>1
      <3> QED BY <3>1, <1>1 DEF cleanSeq, clean
    <2>2. CASE i > Len(q)
      <3>1. i \in Len(q) + 1 .. Len(q) + Len(r)
        BY <2>2, <1>1
      <3>2. (q \o r)[i] = r[i - Len(q)] /\ i - Len(q) \in 1 .. Len(r)
        BY <3>1, <1>1
      <3>3. clean(r[i - Len(q)])
        BY <3>2 DEF cleanSeq, clean
      <3> QED BY <3>2, <3>3
    <2> QED BY <2>1, <2>2, <1>1
  <1> QED BY <1>1, <1>2 DEF cleanSeq, clean

\* What closing a socket that has to do with no signal sends.
LEMMA FarewellClean ==
  ASSUME NEW s \in Side, NEW x, x # sockfd_R, sockFine(sock[s][x])
  PROVE  cleanSeq(farewell(s, x))
  <1> DEFINE k == sock[s][x]
             back(p) == IF p.k \in {"data", "syn"} \/ p.keep THEN <<errorFor(p, port(s, x), "NO_PORT")>> ELSE <<>>
             f == [i \in 1 .. Len(k.q) |-> back(k.q[i])]
             b == FlattenSeq(f)
             w == [packet("withdraw", other(s), port(s, x), "") EXCEPT !.addr = k.name]
             e == [packet("error", k.peer.side, port(s, x), k.peer.sd) EXCEPT !.err = "NO_PORT"]
  <1>1. port(s, x).sd = x
    BY DEF port
  <1>2. isSeq(k.q) /\ Len(k.q) \in Nat /\ \A i \in 1 .. Len(k.q) : ~Marked(k.q[i])
    BY DEF sockFine, isSeq, fromTest
  <1>3. \A p : ~Marked(p) => cleanSeq(back(p))
    <2>1. SUFFICES ASSUME NEW p, ~Marked(p) PROVE cleanSeq(back(p))
      OBVIOUS
    <2>2. clean(errorFor(p, port(s, x), "NO_PORT"))
      BY <1>1, <2>1, ErrorClean
    <2>3. cleanSeq(<<errorFor(p, port(s, x), "NO_PORT")>>) /\ cleanSeq(<<>>)
      BY <2>2, CleanOne
    <2> QED BY <2>3
  <1> HIDE DEF back
  <1>4. cleanSeq(b)
    <2>1. \A i \in 1 .. Len(k.q) : cleanSeq(f[i])
      BY <1>2, <1>3
    <2>2. f = [i \in 1 .. Len(k.q) |-> f[i]]
      OBVIOUS
    <2> HIDE DEF f
    <2> QED BY <1>2, <2>1, <2>2, FlattenClean
  <1>5. clean(w)
    <2>1. w.k = "withdraw" /\ w.from = port(s, x) /\ w.to = "" /\ w.addr = k.name /\ "from" \in DOMAIN w
      BY DEF packet
    <2>2. ~sync(k.name)
      BY DEF sockFine
    <2> HIDE DEF w
    <2> QED BY <2>1, <2>2, <1>1 DEF clean, Marked, Kinds, plainOK, sockfd_R
  <1>6. clean(e)
    <2>1. e.k = "error" /\ e.from = port(s, x) /\ e.to = k.peer.sd /\ "from" \in DOMAIN e
      BY PacketIs
    <2>2. k.peer.sd # sockfd_R
      BY DEF sockFine
    <2> HIDE DEF e
    <2> QED BY <2>1, <2>2, <1>1 DEF clean, Marked, Kinds, plainOK
  <1>7. b # <<>> => cleanSeq(<<b[1]>>)
    <2>1. SUFFICES ASSUME b # <<>> PROVE cleanSeq(<<b[1]>>)
      OBVIOUS
    <2> HIDE DEF b
    <2>2. 1 \in 1 .. Len(b)
      BY <1>4, <2>1 DEF cleanSeq, isSeq
    <2>3. clean(b[1])
      BY <1>4, <2>2 DEF cleanSeq, clean
    <2> QED BY <2>3, CleanOne
  <1>8. farewell(s, x) =
          (IF k.name = NoAddr THEN <<>> ELSE <<w>>)
          \o CASE k.conn = "down" -> <<>>
               [] k.conn = "up" /\ b # <<>> -> <<b[1]>>
               [] k.conn = "up" /\ b = <<>> -> <<e>>
               [] OTHER -> b
    BY DEF farewell, back
  <1> HIDE DEF b, w, e, k
  <1>9. cleanSeq(<<w>>) /\ cleanSeq(<<e>>) /\ cleanSeq(<<>>)
    BY <1>5, <1>6, CleanOne
  <1>10. cleanSeq(IF k.name = NoAddr THEN <<>> ELSE <<w>>)
    BY <1>9
  <1>11. cleanSeq(CASE k.conn = "down" -> <<>>
               [] k.conn = "up" /\ b # <<>> -> <<b[1]>>
               [] k.conn = "up" /\ b = <<>> -> <<e>>
               [] OTHER -> b)
    BY <1>4, <1>7, <1>9
  <1> QED BY <1>8, <1>10, <1>11, CleanJoin

\* A finite set can be listed.
LEMMA Listing ==
  ASSUME NEW S, IsFiniteSet(S)
  PROVE  LET q == SetToSeq(S) IN
           /\ Len(q) \in Nat /\ q \in [1 .. Len(q) -> S]
           /\ Cardinality(S) = 1 => Len(q) = 1
  <1>1. Cardinality(S) \in Nat
    BY FS_CardinalityType
  <1>2. ExistsBijection(1 .. Cardinality(S), S)
    BY FS_CardinalityType
  <1>3. \E f \in [1 .. Cardinality(S) -> S] : IsInjective(f)
    BY <1>2 DEF ExistsBijection, Bijection, Injection, IsInjective
  <1>4. SetToSeq(S) \in [1 .. Cardinality(S) -> S]
    BY <1>3 DEF SetToSeq
  <1>5. SetToSeq(S) \in Seq(S)
    BY <1>1, <1>4
  <1>6. Len(SetToSeq(S)) = Cardinality(S)
    BY <1>1, <1>4, <1>5
  <1> QED BY <1>1, <1>4, <1>6

\* Where a routine starts.
LEMMA StartIs ==
  ASSUME NEW test
  PROVE  /\ start(test).prog = test /\ start(test).asks = TRUE /\ start(test).at = 1
         /\ start(test).port.sd # sockfd_R /\ DOMAIN start(test) = DOMAIN start(0)
  <1>1. NoPort.sd # sockfd_R
    BY DEF NoPort, sockfd_R
  <1>2. start(test).port = NoPort
    BY DEF start
  <1> QED BY <1>1, <1>2 DEF start

\* No subscription has to do with no signal.
LEMMA NoSubPlain ==
  /\ DOMAIN NoSub = DOMAIN NoSub /\ isSeq(NoSub.evts)
  /\ NoSub.on => ~sync(NoSub.addr)
  /\ \A i \in 1 .. Len(NoSub.evts) : NoSub.evts[i].port.sd # sockfd_R
  /\ ~NoSub.on
  <1>1. NoSub.evts = <<>>
    BY DEF NoSub
  <1>2. ~NoSub.on
    BY DEF NoSub
  <1>3. isSeq(NoSub.evts) /\ \A i \in 1 .. Len(NoSub.evts) : NoSub.evts[i].port.sd # sockfd_R
    BY <1>1, SeqNone
  <1> QED BY <1>2, <1>3, Zenon

\* The end of a process outside the signals.
LEMMA ExitStep ==
  ASSUME NEW s \in Side, SyncInv, stage(s) = Free, NEW how \in {"done", "failed", "usage"}, Exit(s, how),
         UNCHANGED <<main, importance, beat>>
  PROVE  SyncInv'
  <1> DEFINE t == other(s)
  <1>1. /\ progOK /\ domains /\ own_(s) /\ calm(s) /\ sockOK(s) /\ sockfd_R \notin DOMAIN sock[s]
        /\ namesPlain(s) /\ own(s) = {} /\ subPlain(s)
    BY InvParts, CalmOwn DEF calm
  <1>2. t \in Side /\ t # s /\ \A x \in Side : x = s \/ x = t
    BY Sides
  <1>3. /\ status' = [status EXCEPT ![s] = how] /\ proc' = [proc EXCEPT ![s] = start(0)]
        /\ sock' = [sock EXCEPT ![s] = <<>>] /\ sub' = [sub EXCEPT ![s] = NoSub]
        /\ known' = [known EXCEPT ![s] = {x \in @ : x.port.side # s}]
    BY DEF Exit, Goto
  <1>4. /\ status'[s] = how /\ status'[t] = status[t] /\ proc'[s] = start(0) /\ proc'[t] = proc[t]
        /\ sock'[s] = <<>> /\ sub'[s] = NoSub /\ known'[s] = {x \in known[s] : x.port.side # s}
        /\ untouched(t)
    BY <1>1, <1>2, <1>3 DEF progOK, domains, untouched
  <1>5. ~running(s)' /\ running(t)' = running(t)
    BY <1>4 DEF running
  <1>6. calm(s)' /\ opened(s)' = {}
    BY <1>5 DEF calm, stage, opened
  <1>7. stays(t)
    BY <1>4, <1>5 DEF stays, stage, opened, code
  <1>8. progOK'
    <2>1. code(t)' = code(t)
      BY <1>4 DEF code
    <2>2. \A x \in Side : running(x)' => proc'[x].at \in 1 .. Len(code(x)') + 1
      BY <1>1, <1>2, <1>4, <1>5, <2>1 DEF progOK
    <2>3. start(0).prog = 0 /\ start(0).asks = TRUE
      BY DEF start
    <2>4. /\ proc'["server"].prog \in {proc["server"].prog, 0}
          /\ proc'["client"] = proc["client"] \/ proc'["client"] = start(0)
      BY <1>2, <1>4, <2>3 DEF Side
    <2>5. DOMAIN proc' = Side /\ \A x \in Side : DOMAIN proc'[x] = DOMAIN start(0)
      BY <1>1, <1>2, <1>3, <1>4 DEF progOK
    <2>6. status' \in [Side -> {"off", "run", "done", "failed", "usage"}]
      BY <1>1, <1>3 DEF progOK
    <2>7. UNCHANGED <<args, lastTestNum, clients>>
      BY DEF main
    <2> QED BY <1>1, <2>2, <2>3, <2>4, <2>5, <2>6, <2>7 DEF progOK
  <1>9. namesPlain(s)' /\ own(s)' = {} /\ view(s)' = view(s)
    <2>1. known'[s] \subseteq known[s]
      BY <1>4
    <2> QED BY <1>1, <1>4, <2>1, FS_Subset DEF namesPlain, own, view
  <1>10. own_(s)'
    <2>1. openOK(s)'
      BY <1>4, <1>6 DEF openOK
    <2>2. sockOK(s)' /\ sockfd_R \notin DOMAIN sock'[s]
      <3>1. DOMAIN sock'[s] = {} /\ IsFiniteSet({})
        BY <1>4, FS_EmptySet
      <3> QED BY <3>1 DEF sockOK
    <2>3. subPlain(s)'
      BY <1>4, NoSubPlain, Zenon DEF subPlain
    <2>4. proc'[s].port.sd # sockfd_R
      BY <1>4, StartIs
    <2> QED BY <1>6, <1>9, <2>1, <2>2, <2>3, <2>4, CalmOwn
  <1>11. DOMAIN link' = Side /\ \A x \in Side : linkGrows(x)
    <2> DEFINE mine == SetToSeq(DOMAIN sock[s])
               f == [i \in 1 .. Len(mine) |-> farewell(s, mine[i])]
    <2>1. Post(FlattenSeq(f))
      BY DEF Exit
    <2>2. Len(mine) \in Nat /\ mine \in [1 .. Len(mine) -> DOMAIN sock[s]]
      BY <1>1, Listing DEF sockOK
    <2>3. \A i \in 1 .. Len(mine) : cleanSeq(f[i])
      <3>1. \A x \in DOMAIN sock[s] : cleanSeq(farewell(s, x))
        <4>1. SUFFICES ASSUME NEW x \in DOMAIN sock[s]
                       PROVE  cleanSeq(farewell(s, x))
          OBVIOUS
        <4>2. x # sockfd_R /\ sockFine(sock[s][x])
          BY <1>1, <4>1 DEF sockOK, sockFine
        <4> QED BY <4>2, FarewellClean
      <3> HIDE DEF mine
      <3> QED BY <2>2, <3>1
    <2>4. f = [i \in 1 .. Len(mine) |-> f[i]]
      OBVIOUS
    <2> HIDE DEF mine, f
    <2>5. cleanSeq(FlattenSeq(f))
      BY <2>2, <2>3, <2>4, FlattenClean
    <2>6. link' = after(FlattenSeq(f))
      BY <2>1 DEF Post
    <2> QED BY <2>5, <2>6, AfterClean, AfterDomain DEF linkGrows
  <1>12. domains'
    BY <1>1, <1>3, <1>11 DEF domains
  <1> QED BY <1>1, <1>4, <1>6, <1>7, <1>8, <1>9, <1>10, <1>11, <1>12, PlainStep

-----------------------------------------------------------------------------
(***************************************************************************)
(* The calls outside the signals, one by one.                              *)
(***************************************************************************)

\* Nothing is sent.
LEMMA NoPackets ==
  ASSUME SyncInv, link' = link
  PROVE  DOMAIN link' = Side /\ \A x \in Side : linkGrows(x)
  <1>1. domains /\ \A x \in Side : linkOK(x)
    BY InvParts
  <1> QED BY <1>1, LinkStays DEF domains

\* The next state of a process: the call that follows, and its registers.
nextState(s, p) ==
  /\ DOMAIN p = DOMAIN start(0) /\ p.prog = proc[s].prog /\ p.asks = proc[s].asks
  /\ p.port = proc[s].port /\ p.at = proc[s].at + 1

\* A call outside the signals after which the next one follows.
LEMMA NextGoes ==
  ASSUME NEW s \in Side, SyncInv, NEW o, calls(s, o), stage(s) = Free, o # "jump",
         NEW p, nextState(s, p), Goto(s, p), status' = status
  PROVE  goesTo(s, p) /\ p.port.sd # sockfd_R /\ p.at \in targets(call(s), proc[s].at)
  <1>1. call(s).op = o /\ proc[s].port.sd # sockfd_R
    BY FreeCall
  <1> QED BY <1>1 DEF nextState, goesTo, Goto, targets

\* The next call follows.
LEMMA NextOne ==
  ASSUME NEW s \in Side, progOK
  PROVE  nextState(s, go(proc[s], 1))
  <1>1. DOMAIN proc[s] = DOMAIN start(0)
    BY DEF progOK
  <1> QED BY <1>1, GoIs DEF nextState

\* A call that changes the registers only.
LEMMA IdleNext ==
  ASSUME NEW s \in Side, SyncInv, NEW o, calls(s, o), stage(s) = Free,
         o \notin {"socket", "accept", "close", "jump"},
         NEW p, nextState(s, p), Goto(s, p), UNCHANGED <<status, main, beat, tipc>>,
         importance' \in LOW .. CRITICAL + 1
  PROVE  SyncInv'
  <1>1. goesTo(s, p) /\ p.port.sd # sockfd_R /\ p.at \in targets(call(s), proc[s].at)
    BY NextGoes
  <1>2. DOMAIN link' = Side /\ \A x \in Side : linkGrows(x)
    BY NoPackets DEF tipc
  <1> QED BY <1>1, <1>2, PlainIdle DEF tipc

\* A call that changes nothing.
LEMMA IdleContinue ==
  ASSUME NEW s \in Side, SyncInv, NEW o, calls(s, o), stage(s) = Free,
         o \notin {"socket", "accept", "close", "jump"},
         Continue(s), proceeds, UNCHANGED tipc
  PROVE  SyncInv'
  <1>1. progOK /\ importance \in LOW .. CRITICAL + 1
    BY FreeCall DEF progOK
  <1>2. nextState(s, go(proc[s], 1))
    BY <1>1, NextOne
  <1> QED BY <1>1, <1>2, IdleNext DEF Continue, proceeds

\* A test fails.
LEMMA ErrStep ==
  ASSUME NEW s \in Side, SyncInv, stage(s) = Free, err(s)
  PROVE  SyncInv'
  BY ExitStep DEF err

\* getsockopt outside the signals.
LEMMA GetOptionPlain ==
  ASSUME NEW s \in Side, SyncInv, stage(s) = Free, GetOption(s)
  PROVE  SyncInv'
  <1>1. calls(s, "getopt") /\ (err(s) \/ (Continue(s) /\ proceeds /\ UNCHANGED tipc))
    BY DEF GetOption
  <1> QED BY <1>1, ErrStep, IdleContinue

\* The setting of the client's importance.
LEMMA SetImportancePlain ==
  ASSUME NEW s \in Side, SyncInv, stage(s) = Free, SetImportance(s)
  PROVE  SyncInv'
  <1>1. calls(s, "importance") /\ Continue(s) /\ importance' = call(s).value
        /\ UNCHANGED <<status, main, beat, tipc>>
    BY DEF SetImportance
  <1>2. progOK /\ importance' \in LOW .. CRITICAL + 1
    BY <1>1, FreeCall DEF plainCall
  <1>3. nextState(s, go(proc[s], 1))
    BY <1>2, NextOne
  <1> QED BY <1>1, <1>2, <1>3, IdleNext DEF Continue

\* The clearing of the count of errors outside the signals.
LEMMA ClearErrorsPlain ==
  ASSUME NEW s \in Side, SyncInv, stage(s) = Free, ClearErrors(s)
  PROVE  SyncInv'
  <1> DEFINE p == [go(proc[s], 1) EXCEPT !.bad = 0]
  <1>1. calls(s, "clear") /\ Goto(s, p) /\ proceeds /\ UNCHANGED tipc
    BY DEF ClearErrors
  <1>2. progOK /\ importance \in LOW .. CRITICAL + 1
    BY <1>1, FreeCall DEF progOK
  <1>3. nextState(s, p)
    BY <1>2, NextOne DEF nextState
  <1> QED BY <1>1, <1>2, <1>3, IdleNext DEF proceeds

\* The check of the count of errors outside the signals.
LEMMA CheckErrorsPlain ==
  ASSUME NEW s \in Side, SyncInv, stage(s) = Free, CheckErrors(s)
  PROVE  SyncInv'
  <1>1. calls(s, "check") /\ (err(s) \/ (Continue(s) /\ proceeds /\ UNCHANGED tipc))
    BY DEF CheckErrors
  <1> QED BY <1>1, ErrStep, IdleContinue

\* The setting of a register.
LEMMA SetRegisterPlain ==
  ASSUME NEW s \in Side, SyncInv, stage(s) = Free, SetRegister(s)
  PROVE  SyncInv'
  <1> DEFINE p == [go(proc[s], 1) EXCEPT !.a = call(s).value, !.b = 0, !.c = 0]
  <1>1. calls(s, "set") /\ Goto(s, p) /\ proceeds /\ UNCHANGED tipc
    BY DEF SetRegister
  <1>2. progOK /\ importance \in LOW .. CRITICAL + 1
    BY <1>1, FreeCall DEF progOK
  <1>3. nextState(s, p)
    BY <1>2, NextOne DEF nextState
  <1> QED BY <1>1, <1>2, <1>3, IdleNext DEF proceeds

\* A jump.
LEMMA JumpPlain ==
  ASSUME NEW s \in Side, SyncInv, stage(s) = Free, Jump(s)
  PROVE  SyncInv'
  <1> DEFINE p == go(proc[s], call(s).by)
  <1>1. calls(s, "jump") /\ Goto(s, p) /\ proceeds /\ UNCHANGED tipc
    BY DEF Jump
  <1>2. /\ call(s).op = "jump" /\ importance \in LOW .. CRITICAL + 1
        /\ proc[s].port.sd # sockfd_R /\ DOMAIN proc[s] = DOMAIN start(0)
    BY <1>1, FreeCall DEF progOK
  <1>3. /\ DOMAIN p = DOMAIN start(0) /\ p.prog = proc[s].prog /\ p.asks = proc[s].asks
        /\ p.port = proc[s].port /\ p.at = proc[s].at + call(s).by
    BY <1>2, GoIs
  <1> HIDE DEF p
  <1>4. goesTo(s, p) /\ p.port.sd # sockfd_R /\ p.at \in targets(call(s), proc[s].at)
    BY <1>1, <1>2, <1>3 DEF goesTo, Goto, targets, proceeds
  <1>5. DOMAIN link' = Side /\ \A x \in Side : linkGrows(x)
    BY <1>1, NoPackets DEF tipc
  <1> QED BY <1>1, <1>2, <1>4, <1>5, PlainIdle DEF tipc, proceeds

\* The check of the number of receives.
LEMMA NumRecPlain ==
  ASSUME NEW s \in Side, SyncInv, stage(s) = Free, NumRec(s)
  PROVE  SyncInv'
  <1>1. calls(s, "numRec") /\ (err(s) \/ (Continue(s) /\ proceeds /\ UNCHANGED tipc))
    BY DEF NumRec
  <1> QED BY <1>1, ErrStep, IdleContinue

\* The end of a connect.
LEMMA ConnectPlain ==
  ASSUME NEW s \in Side, SyncInv, stage(s) = Free, Connect(s) \/ ConnectTimeout(s)
  PROVE  SyncInv'
  <1>1. calls(s, "connect") /\ (err(s) \/ (Continue(s) /\ proceeds /\ UNCHANGED tipc))
    BY DEF Connect, ConnectTimeout
  <1> QED BY <1>1, ErrStep, IdleContinue

\* The end of server_mcast.
LEMMA McastEndPlain ==
  ASSUME NEW s \in Side, SyncInv, stage(s) = Free, McastEnd(s)
  PROVE  SyncInv'
  <1>1. calls(s, "mcast") /\ (err(s) \/ (Continue(s) /\ proceeds /\ UNCHANGED tipc))
    BY DEF McastEnd
  <1> QED BY <1>1, ErrStep, IdleContinue

\* A sleep.
LEMMA SleepPlain ==
  ASSUME NEW s \in Side, SyncInv, stage(s) = Free, Sleep(s)
  PROVE  SyncInv'
  <1>1. calls(s, "sleep") /\ Continue(s) /\ proceeds /\ UNCHANGED tipc
    BY DEF Sleep
  <1> QED BY <1>1, IdleContinue

\* A timeout of select in server_mcast.
LEMMA McastTimeoutPlain ==
  ASSUME NEW s \in Side, SyncInv, stage(s) = Free, McastTimeout(s)
  PROVE  SyncInv'
  <1> DEFINE p == nextMsgno(proc[s])
  <1>1. calls(s, "mcast") /\ Goto(s, p) /\ proceeds /\ UNCHANGED tipc
    BY DEF McastTimeout
  <1>2. /\ importance \in LOW .. CRITICAL + 1
        /\ proc[s].port.sd # sockfd_R /\ DOMAIN proc[s] = DOMAIN start(0)
    BY <1>1, FreeCall DEF progOK
  <1>3. /\ DOMAIN p = DOMAIN start(0) /\ p.prog = proc[s].prog /\ p.asks = proc[s].asks
        /\ p.port = proc[s].port /\ p.at = proc[s].at
    BY <1>2 DEF nextMsgno, start
  <1> HIDE DEF p
  <1>4. goesTo(s, p) /\ p.port.sd # sockfd_R
    BY <1>1, <1>2, <1>3 DEF goesTo, Goto, proceeds
  <1>5. DOMAIN link' = Side /\ \A x \in Side : linkGrows(x)
    BY <1>1, NoPackets DEF tipc
  <1> QED BY <1>1, <1>2, <1>3, <1>4, <1>5, PlainIdle DEF tipc, proceeds

\* The packets of a step.
LEMMA Posts ==
  ASSUME NEW q, cleanSeq(q), Post(q)
  PROVE  DOMAIN link' = Side /\ \A x \in Side : linkGrows(x)
  BY AfterClean, AfterDomain DEF Post, linkGrows

\* A call that may count an error.
LEMMA CountIs ==
  ASSUME NEW s \in Side, progOK, NEW ok, CountError(s, ok)
  PROVE  \E p : nextState(s, p) /\ Goto(s, p)
  <1> DEFINE p == [go(proc[s], 1) EXCEPT !.bad = IF ok THEN @ ELSE @ + 1]
  <1>1. nextState(s, p)
    BY NextOne DEF nextState
  <1>2. Goto(s, p)
    BY DEF CountError
  <1> QED BY <1>1, <1>2

\* A call outside the signals that sends packets.
LEMMA SendNext ==
  ASSUME NEW s \in Side, SyncInv, NEW o, calls(s, o), stage(s) = Free,
         o \notin {"socket", "accept", "close", "jump"},
         NEW p, nextState(s, p), Goto(s, p), proceeds, UNCHANGED <<sock, known, sub>>,
         \A x \in Side : linkGrows(x), DOMAIN link' = Side
  PROVE  SyncInv'
  <1>1. goesTo(s, p) /\ p.port.sd # sockfd_R /\ p.at \in targets(call(s), proc[s].at)
    BY NextGoes DEF proceeds
  <1>2. importance' \in LOW .. CRITICAL + 1
    BY FreeCall DEF progOK, proceeds
  <1> QED BY <1>1, <1>2, PlainIdle DEF proceeds

\* A datagram sent outside the signals.
LEMMA DatagramClean ==
  ASSUME NEW s \in Side, call(s).sd # sockfd_R, NEW k, NEW dst, NEW t, t # sockfd_R,
         k \in {"named", "mcast"} => ~sync(call(s).addr) /\ call(s).addr.type # NoAddr.type,
         k \in {"named", "mcast", "direct"}
  PROVE  clean(datagram(s, k, dst, t))
  <1>1. /\ datagram(s, k, dst, t).k = k /\ datagram(s, k, dst, t).from = port(s, call(s).sd)
        /\ datagram(s, k, dst, t).to = t /\ datagram(s, k, dst, t).addr = call(s).addr
        /\ "from" \in DOMAIN datagram(s, k, dst, t)
    BY PacketIs DEF datagram
  <1>2. port(s, call(s).sd).sd = call(s).sd
    BY DEF port
  <1> QED BY <1>1, <1>2 DEF clean, Marked, Kinds, plainOK

\* sendto outside the signals.
LEMMA SendToPlain ==
  ASSUME NEW s \in Side, SyncInv, stage(s) = Free, SendTo(s)
  PROVE  SyncInv'
  <1>1. calls(s, "sendto") /\ proceeds /\ UNCHANGED <<sock, known, sub>>
    BY DEF SendTo
  <1>2. /\ progOK /\ call(s).op = "sendto" /\ plainCall(call(s)) /\ proc[s].port.sd # sockfd_R
    BY <1>1, FreeCall
  <1>3. /\ call(s).sd # sockfd_R /\ ~sync(call(s).addr)
        /\ call(s).addr # portAddr => call(s).addr.type # NoAddr.type
    BY <1>2 DEF plainCall, UsesSocket
  <1>4. \E p : nextState(s, p) /\ Goto(s, p)
    BY <1>2, CountIs DEF SendTo
  <1>5. DOMAIN link' = Side /\ \A x \in Side : linkGrows(x)
    <2>1. CASE link' = link
      BY <2>1, NoPackets
    <2>2. CASE call(s).addr = portAddr /\ Post(<<datagram(s, "direct", proc[s].port.side, proc[s].port.sd)>>)
      <3>1. clean(datagram(s, "direct", proc[s].port.side, proc[s].port.sd))
        BY <1>2, <1>3, DatagramClean
      <3> QED BY <2>2, <3>1, CleanOne, Posts
    <2>3. ASSUME NEW d, call(s).addr # portAddr, Post(<<datagram(s, "named", d, "")>>)
          PROVE  DOMAIN link' = Side /\ \A x \in Side : linkGrows(x)
      <3>1. "" # sockfd_R
        BY DEF sockfd_R
      <3>2. clean(datagram(s, "named", d, ""))
        BY <1>3, <2>3, <3>1, DatagramClean
      <3> QED BY <2>3, <3>2, CleanOne, Posts
    <2> QED BY <2>1, <2>2, <2>3 DEF SendTo
  <1> QED BY <1>1, <1>4, <1>5, SendNext

\* A packet computed for each of some numbers.
LEMMA CleanList ==
  ASSUME NEW l \in Nat, NEW f, f = [i \in 1 .. l |-> f[i]], \A i \in 1 .. l : clean(f[i])
  PROVE  cleanSeq(f)
  <1> DEFINE S == {f[i] : i \in 1 .. l}
  <1>1. f \in Seq(S)
    <2>1. f \in [1 .. l -> S]
      OBVIOUS
    <2> HIDE DEF S
    <2> QED BY <2>1
  <1>2. \A p \in S : clean(p)
    OBVIOUS
  <1> HIDE DEF S
  <1> QED BY <1>1, <1>2, CleanMembers

\* A multicast outside the signals.
LEMMA McastToPlain ==
  ASSUME NEW s \in Side, SyncInv, stage(s) = Free, McastTo(s)
  PROVE  SyncInv'
  <1> DEFINE N == {n.port.side : n \in {m \in known[s] : overlap(m.addr, call(s).addr)}}
             nodes == SetToSeq(N)
             f == [i \in 1 .. Len(nodes) |-> datagram(s, "mcast", nodes[i], "")]
  <1>1. calls(s, "mcastto") /\ proceeds /\ UNCHANGED <<sock, known, sub>> /\ Post(f) /\ Continue(s)
    BY DEF McastTo
  <1>2. /\ progOK /\ call(s).op = "mcastto" /\ plainCall(call(s)) /\ IsFiniteSet(known[s])
    BY <1>1, FreeCall DEF namesPlain
  <1>3. call(s).sd # sockfd_R /\ ~sync(call(s).addr) /\ call(s).addr.type # NoAddr.type
    BY <1>2 DEF plainCall, UsesSocket
  <1>4. "" # sockfd_R
    BY DEF sockfd_R
  <1>5. Len(nodes) \in Nat
    <2>1. IsFiniteSet({m \in known[s] : overlap(m.addr, call(s).addr)})
      BY <1>2, FS_Subset
    <2>2. IsFiniteSet(N)
      <3> DEFINE D == {m \in known[s] : overlap(m.addr, call(s).addr)}
                 g == [n \in D |-> n.port.side]
      <3>1. g \in Surjection(D, N)
        BY DEF Surjection
      <3> HIDE DEF g
      <3> QED BY <2>1, <3>1, FS_Surjection
    <2> QED BY <2>2, Listing
  <1>6. \A i \in 1 .. Len(nodes) : clean(f[i])
    <2> HIDE DEF nodes
    <2> QED BY <1>3, <1>4, DatagramClean
  <1>7. f = [i \in 1 .. Len(nodes) |-> f[i]]
    OBVIOUS
  <1> HIDE DEF f, nodes
  <1>8. DOMAIN link' = Side /\ \A x \in Side : linkGrows(x)
    BY <1>1, <1>5, <1>6, <1>7, CleanList, Posts
  <1>9. nextState(s, go(proc[s], 1)) /\ Goto(s, go(proc[s], 1))
    BY <1>1, <1>2, NextOne DEF Continue
  <1> QED BY <1>1, <1>8, <1>9, SendNext

\* The open sockets of a side outside the signals.
LEMMA SocksFine ==
  ASSUME NEW s \in Side, SyncInv, NEW o, calls(s, o), stage(s) = Free
  PROVE  \A x \in DOMAIN sock[s] : x # sockfd_R /\ sockFine(sock[s][x])
  <1>1. sockOK(s) /\ sockfd_R \notin DOMAIN sock[s]
    BY FreeCall
  <1> QED BY <1>1 DEF sockOK, sockFine

\* A message on a connection.
LEMMA SendOnPlain ==
  ASSUME NEW s \in Side, SyncInv, stage(s) = Free, NEW o \in {"send", "answer"}, calls(s, o),
         NEW msg, msg.size \in Nat, SendOn(s, call(s).sd, msg), proceeds, UNCHANGED <<sock, known, sub>>
  PROVE  SyncInv'
  <1> DEFINE k == sock[s][call(s).sd]
             ms == parts(msg)
             f == [i \in 1 .. Len(ms) |->
                     [packet("data", k.peer.side, port(s, call(s).sd), k.peer.sd) EXCEPT !.msg = ms[i]]]
  <1>1. progOK /\ call(s).sd \in DOMAIN sock[s]
    BY FreeCall DEF UsesSocket
  <1>2. call(s).sd # sockfd_R /\ k.peer.sd # sockfd_R
    BY <1>1, SocksFine DEF sockFine
  <1>3. Len(ms) \in Nat
    <2>1. (msg.size + MAX_MSG - 1) \div MAX_MSG \in Nat
      BY DEF MAX_MSG
    <2> QED BY <2>1 DEF parts
  <1>4. \A i \in 1 .. Len(ms) : clean(f[i])
    <2> HIDE DEF ms
    <2>1. SUFFICES ASSUME NEW i \in 1 .. Len(ms) PROVE clean(f[i])
      OBVIOUS
    <2>2. f[i].k = "data" /\ f[i].from = port(s, call(s).sd) /\ f[i].to = k.peer.sd /\ "from" \in DOMAIN f[i]
      BY DEF packet
    <2> HIDE DEF f, k
    <2>3. port(s, call(s).sd).sd = call(s).sd
      BY DEF port
    <2> QED BY <1>2, <2>2, <2>3 DEF clean, Marked, Kinds, plainOK, k
  <1>5. f = [i \in 1 .. Len(ms) |-> f[i]]
    OBVIOUS
  <1>6. Post(f) \/ UNCHANGED link
    BY DEF SendOn
  <1>7. \E p : nextState(s, p) /\ Goto(s, p)
    BY <1>1, CountIs DEF SendOn
  <1> HIDE DEF f, ms
  <1>8. DOMAIN link' = Side /\ \A x \in Side : linkGrows(x)
    <2>1. cleanSeq(f)
      BY <1>3, <1>4, <1>5, CleanList
    <2> QED BY <2>1, <1>6, NoPackets, Posts
  <1> QED BY <1>7, <1>8, SendNext

\* send.
LEMMA SendPlain ==
  ASSUME NEW s \in Side, SyncInv, stage(s) = Free, Send(s)
  PROVE  SyncInv'
  <1>1. calls(s, "send") /\ SendOn(s, call(s).sd, call(s).msg) /\ proceeds /\ UNCHANGED <<sock, known, sub>>
    BY DEF Send
  <1>2. call(s).msg.size \in Nat
    BY <1>1, FreeCall DEF plainCall
  <1> QED BY <1>1, <1>2, SendOnPlain

\* The client's answer in the test of ancillary data.
LEMMA AnswerPlain ==
  ASSUME NEW s \in Side, SyncInv, stage(s) = Free, Answer(s)
  PROVE  SyncInv'
  <1> DEFINE msg == buffer(IF proc[s].got.what = "ONE" THEN "END" ELSE "TWO", 4)
  <1>1. calls(s, "answer") /\ SendOn(s, call(s).sd, msg) /\ proceeds /\ UNCHANGED <<sock, known, sub>>
    BY DEF Answer
  <1>2. msg.size \in Nat
    BY DEF buffer, part
  <1> QED BY <1>1, <1>2, SendOnPlain

\* A call outside the signals that changes one socket.
LEMMA SockChange ==
  ASSUME NEW s \in Side, SyncInv, NEW o \in UsesSocket \ {"accept", "close"}, calls(s, o),
         stage(s) = Free, NEW p, nextState(s, p), Goto(s, p), proceeds, UNCHANGED <<known, sub>>,
         NEW k, sockFine(k), sock' = [sock EXCEPT ![s] = [@ EXCEPT ![call(s).sd] = k]],
         \A x \in Side : linkGrows(x), DOMAIN link' = Side
  PROVE  SyncInv'
  <1> DEFINE f == [sock[s] EXCEPT ![call(s).sd] = k]
  <1>1. o # "jump" /\ o # "socket"
    BY DEF UsesSocket
  <1>2. goesTo(s, p) /\ p.port.sd # sockfd_R /\ p.at \in targets(call(s), proc[s].at)
    BY <1>1, NextGoes DEF proceeds
  <1>3. call(s).op = o /\ domains
    BY FreeCall
  <1>4. sock' = [sock EXCEPT ![s] = f] /\ DOMAIN f = effect(DOMAIN sock[s], call(s))
    BY <1>1, <1>3 DEF effect
  <1>5. \A x \in DOMAIN f : sockFine(f[x])
    BY SocksFine
  <1> HIDE DEF f
  <1> QED BY <1>2, <1>4, <1>5, PlainSock DEF proceeds

\* The step of a process that goes on to the next call.
LEMMA ContinueGoes ==
  ASSUME NEW s \in Side, SyncInv, NEW o, calls(s, o), stage(s) = Free, o # "jump", Continue(s), proceeds
  PROVE  LET p == go(proc[s], 1)
         IN  /\ nextState(s, p) /\ Goto(s, p) /\ goesTo(s, p) /\ p.port.sd # sockfd_R
             /\ p.at \in targets(call(s), proc[s].at)
  <1>1. nextState(s, go(proc[s], 1))
    BY FreeCall, NextOne
  <1>2. Goto(s, go(proc[s], 1)) /\ status' = status
    BY DEF Continue, proceeds
  <1> QED BY <1>1, <1>2, NextGoes

\* A new socket.
LEMMA NewSocketFine ==
  ASSUME NEW type
  PROVE  sockFine(newSocket(type)) /\ newSocket(type).peer = NoPort
  <1>1. newSocket(type).q = <<>> /\ newSocket(type).name = NoAddr /\ newSocket(type).peer = NoPort
        /\ DOMAIN newSocket(type) = DOMAIN newSocket("RDM")
    BY DEF newSocket
  <1>2. ~sync(NoAddr) /\ NoPort.sd # sockfd_R
    BY DEF sync, NoAddr, setServerAddrTo, TS_SYNCRO_TYPE, NoPort, sockfd_R
  <1> QED BY <1>1, <1>2, SeqNone DEF sockFine

\* socket outside the signals.
LEMMA SocketPlain ==
  ASSUME NEW s \in Side, SyncInv, stage(s) = Free, Socket(s)
  PROVE  SyncInv'
  <1> DEFINE p == go(proc[s], 1)
             f == with(sock[s], call(s).sd, newSocket(call(s).type))
  <1>1. /\ calls(s, "socket") /\ sock' = [sock EXCEPT ![s] = f] /\ Continue(s) /\ proceeds
        /\ UNCHANGED <<known, sub, link>>
    BY DEF Socket, setSock
  <1>2. call(s).op = "socket"
    BY <1>1, FreeCall
  <1>3. goesTo(s, p) /\ p.port.sd # sockfd_R /\ p.at \in targets(call(s), proc[s].at)
    BY <1>1, ContinueGoes
  <1>4. DOMAIN f = effect(DOMAIN sock[s], call(s))
    BY <1>2 DEF with, effect
  <1>5. \A x \in DOMAIN f : sockFine(f[x])
    BY <1>1, SocksFine, NewSocketFine DEF with
  <1>6. DOMAIN link' = Side /\ \A x \in Side : linkGrows(x)
    BY <1>1, NoPackets
  <1> HIDE DEF f, p
  <1> QED BY <1>1, <1>3, <1>4, <1>5, <1>6, PlainSock DEF proceeds

\* listen.
LEMMA ListenPlain ==
  ASSUME NEW s \in Side, SyncInv, stage(s) = Free, Listen(s)
  PROVE  SyncInv'
  <1> DEFINE k == [sock[s][call(s).sd] EXCEPT !.listen = TRUE]
  <1>1. /\ calls(s, "listen") /\ sock' = [sock EXCEPT ![s] = [@ EXCEPT ![call(s).sd] = k]]
        /\ Continue(s) /\ proceeds /\ UNCHANGED <<known, sub, link>>
    BY DEF Listen
  <1>2. sockFine(sock[s][call(s).sd])
    BY <1>1, FreeCall, SocksFine DEF UsesSocket
  <1>3. sockFine(k)
    BY <1>2 DEF sockFine
  <1>4. DOMAIN link' = Side /\ \A x \in Side : linkGrows(x)
    BY <1>1, NoPackets
  <1>5. nextState(s, go(proc[s], 1)) /\ Goto(s, go(proc[s], 1))
    BY <1>1, ContinueGoes
  <1> HIDE DEF k
  <1>6. "listen" \in UsesSocket \ {"accept", "close"}
    BY DEF UsesSocket
  <1> QED BY <1>1, <1>3, <1>4, <1>5, <1>6, SockChange

\* setsockopt outside the signals.
LEMMA SetOptionPlain ==
  ASSUME NEW s \in Side, SyncInv, stage(s) = Free, SetOption(s)
  PROVE  SyncInv'
  <1> DEFINE k == [sock[s][call(s).sd] EXCEPT !.opt[call(s).opt] = optionValue(s)]
  <1>1. /\ calls(s, "setopt")
        /\ \/ err(s)
           \/ /\ sock' = [sock EXCEPT ![s] = [@ EXCEPT ![call(s).sd] = k]]
              /\ Continue(s) /\ proceeds /\ UNCHANGED <<known, sub, link>>
    BY DEF SetOption
  <1>2. sockFine(sock[s][call(s).sd])
    BY <1>1, FreeCall, SocksFine DEF UsesSocket
  <1>3. sockFine(k)
    BY <1>2 DEF sockFine
  <1> HIDE DEF k
  <1>4. "setopt" \in UsesSocket \ {"accept", "close"}
    BY DEF UsesSocket
  <1>5. CASE err(s)
    BY <1>5, ErrStep
  <1>6. CASE /\ sock' = [sock EXCEPT ![s] = [@ EXCEPT ![call(s).sd] = k]]
             /\ Continue(s) /\ proceeds /\ UNCHANGED <<known, sub, link>>
    <2>1. DOMAIN link' = Side /\ \A x \in Side : linkGrows(x)
      BY <1>6, NoPackets
    <2>2. nextState(s, go(proc[s], 1)) /\ Goto(s, go(proc[s], 1))
      BY <1>1, <1>6, ContinueGoes
    <2> QED BY <1>1, <1>3, <1>4, <1>6, <2>1, <2>2, SockChange
  <1> QED BY <1>1, <1>5, <1>6

\* The request of a connection.
LEMMA SynPlain ==
  ASSUME NEW s \in Side, SyncInv, stage(s) = Free, Syn(s)
  PROVE  SyncInv'
  <1> DEFINE k == [sock[s][call(s).sd] EXCEPT !.conn = "syn"]
             y(d) == [packet("syn", d, port(s, call(s).sd), "") EXCEPT !.addr = call(s).addr]
  <1>1. /\ calls(s, "syn")
        /\ \/ err(s)
           \/ /\ sock' = [sock EXCEPT ![s] = [@ EXCEPT ![call(s).sd] = k]]
              /\ \E d : Post(<<y(d)>>)
              /\ Continue(s) /\ proceeds /\ UNCHANGED <<known, sub>>
    BY DEF Syn
  <1>2. sockFine(sock[s][call(s).sd]) /\ plainCall(call(s)) /\ call(s).op = "syn"
    BY <1>1, FreeCall, SocksFine DEF UsesSocket
  <1>3. sockFine(k)
    BY <1>2 DEF sockFine
  <1> HIDE DEF k
  <1>4. "syn" \in UsesSocket \ {"accept", "close"}
    BY DEF UsesSocket
  <1>5. CASE err(s)
    BY <1>5, ErrStep
  <1>6. CASE /\ sock' = [sock EXCEPT ![s] = [@ EXCEPT ![call(s).sd] = k]]
             /\ \E d : Post(<<y(d)>>)
             /\ Continue(s) /\ proceeds /\ UNCHANGED <<known, sub>>
    <2>1. PICK d : Post(<<y(d)>>)
      BY <1>6
    <2>2. clean(y(d))
      <3>1. y(d).k = "syn" /\ y(d).from = port(s, call(s).sd) /\ y(d).to = "" /\ y(d).addr = call(s).addr
            /\ "from" \in DOMAIN y(d)
        BY DEF packet
      <3>2. port(s, call(s).sd).sd # sockfd_R /\ ~sync(call(s).addr) /\ call(s).addr.type # NoAddr.type
        BY <1>2, <1>4 DEF plainCall, port
      <3> HIDE DEF y
      <3>3. "" # sockfd_R
        BY DEF sockfd_R
      <3> QED BY <3>1, <3>2, <3>3 DEF clean, Marked, Kinds, plainOK
    <2>3. DOMAIN link' = Side /\ \A x \in Side : linkGrows(x)
      BY <2>1, <2>2, CleanOne, Posts
    <2>4. nextState(s, go(proc[s], 1)) /\ Goto(s, go(proc[s], 1))
      BY <1>1, <1>6, ContinueGoes
    <2> QED BY <1>1, <1>3, <1>4, <1>6, <2>3, <2>4, SockChange
  <1> QED BY <1>1, <1>5, <1>6

\* shutdown.
LEMMA ShutdownPlain ==
  ASSUME NEW s \in Side, SyncInv, stage(s) = Free, Shutdown(s)
  PROVE  SyncInv'
  <1> DEFINE k == sock[s][call(s).sd]
             d == [k EXCEPT !.conn = "down"]
             e == [packet("error", k.peer.side, port(s, call(s).sd), k.peer.sd) EXCEPT !.err = "SHUTDOWN"]
  <1>1. /\ calls(s, "shutdown")
        /\ \/ err(s)
           \/ Continue(s) /\ proceeds /\ UNCHANGED tipc
           \/ /\ sock' = [sock EXCEPT ![s] = [@ EXCEPT ![call(s).sd] = d]]
              /\ Post(<<e>>)
              /\ Continue(s) /\ proceeds /\ UNCHANGED <<known, sub>>
    BY DEF Shutdown
  <1>2. sockFine(k) /\ call(s).sd # sockfd_R
    BY <1>1, FreeCall, SocksFine DEF UsesSocket
  <1>3. sockFine(d)
    BY <1>2 DEF sockFine
  <1>4. clean(e)
    <2>1. e.k = "error" /\ e.from = port(s, call(s).sd) /\ e.to = k.peer.sd /\ "from" \in DOMAIN e
      BY DEF packet
    <2>2. port(s, call(s).sd).sd # sockfd_R /\ k.peer.sd # sockfd_R
      BY <1>2 DEF port, sockFine
    <2> HIDE DEF e
    <2> QED BY <2>1, <2>2 DEF clean, Marked, Kinds, plainOK
  <1> HIDE DEF d, e
  <1>5. "shutdown" \in UsesSocket \ {"accept", "close"}
    BY DEF UsesSocket
  <1>6. CASE err(s)
    BY <1>6, ErrStep
  <1>7. CASE Continue(s) /\ proceeds /\ UNCHANGED tipc
    BY <1>1, <1>7, IdleContinue
  <1>8. CASE /\ sock' = [sock EXCEPT ![s] = [@ EXCEPT ![call(s).sd] = d]]
             /\ Post(<<e>>)
             /\ Continue(s) /\ proceeds /\ UNCHANGED <<known, sub>>
    <2>1. DOMAIN link' = Side /\ \A x \in Side : linkGrows(x)
      BY <1>4, <1>8, CleanOne, Posts
    <2>2. nextState(s, go(proc[s], 1)) /\ Goto(s, go(proc[s], 1))
      BY <1>1, <1>8, ContinueGoes
    <2> QED BY <1>1, <1>3, <1>5, <1>8, <2>1, <2>2, SockChange
  <1> QED BY <1>1, <1>6, <1>7, <1>8

\* The events for a subscription that has to do with no signal.
LEMMA SubscriptionPlain ==
  ASSUME NEW s \in Side, subPlain(s), NEW ns, \A x \in ns : sync(x.addr) <=> x.port.sd = sockfd_R,
         DOMAIN sub = Side, sub' = [sub EXCEPT ![s] = subscription(s, ns)]
  PROVE  subPlain(s)' /\ DOMAIN sub' = Side /\ \A x \in Side \ {s} : sub'[x] = sub[x]
  <1> DEFINE now == {n \in ns : overlap(n.addr, sub[s].addr)}
             e == [k |-> "PUBLISHED", port |-> (CHOOSE n \in now : TRUE).port]
             w == [k |-> "WITHDRAWN", port |-> NoPort]
  <1>1. /\ DOMAIN sub' = Side /\ \A x \in Side \ {s} : sub'[x] = sub[x]
        /\ sub'[s] = subscription(s, ns)
    OBVIOUS
  <1>2. \/ sub'[s] = sub[s]
        \/ sub[s].on /\ now # {} /\ sub'[s] = [sub[s] EXCEPT !.evts = Append(@, e)]
        \/ sub'[s] = [sub[s] EXCEPT !.evts = Append(@, w)]
    BY <1>1 DEF subscription
  <1>3. w.port.sd # sockfd_R
    BY DEF NoPort, sockfd_R
  <1>4. sub[s].on /\ now # {} => e.port.sd # sockfd_R
    <2>1. SUFFICES ASSUME sub[s].on, now # {} PROVE e.port.sd # sockfd_R
      OBVIOUS
    <2>2. (CHOOSE n \in now : TRUE) \in now
      BY <2>1
    <2>3. \A n \in now : n.port.sd # sockfd_R
      BY <2>1 DEF overlap, sync, subPlain
    <2> HIDE DEF now
    <2> QED BY <2>2, <2>3
  <1> HIDE DEF e, w
  <1>5. ASSUME NEW v, v.port.sd # sockfd_R, sub'[s] = [sub[s] EXCEPT !.evts = Append(@, v)]
        PROVE  subPlain(s)'
    <2> DEFINE q == sub[s].evts
    <2>1. isSeq(q) /\ \A i \in 1 .. Len(q) : q[i].port.sd # sockfd_R
      BY DEF subPlain
    <2>2. /\ DOMAIN sub'[s] = DOMAIN sub[s] /\ sub'[s].on = sub[s].on /\ sub'[s].addr = sub[s].addr
          /\ sub'[s].evts = Append(q, v)
      BY <1>5 DEF subPlain, NoSub
    <2> HIDE DEF q
    <2>3. /\ isSeq(Append(q, v)) /\ Len(Append(q, v)) = Len(q) + 1 /\ Len(q) \in Nat
          /\ \A i \in 1 .. Len(q) : Append(q, v)[i] = q[i]
          /\ Append(q, v)[Len(q) + 1] = v
      <3>1. isSeq(q)
        BY <2>1
      <3> HIDE <2>1, <1>5
      <3> QED BY <3>1, SeqAppend
    <2>4. \A i \in 1 .. Len(Append(q, v)) : Append(q, v)[i].port.sd # sockfd_R
      BY <1>5, <2>1, <2>3
    <2> QED BY <2>2, <2>3, <2>4 DEF subPlain
  <1>6. CASE sub'[s] = sub[s]
    BY <1>6 DEF subPlain
  <1> QED BY <1>1, <1>2, <1>3, <1>4, <1>5, <1>6

\* bind outside the signals.
LEMMA BindPlain ==
  ASSUME NEW s \in Side, SyncInv, stage(s) = Free, Bind(s)
  PROVE  SyncInv'
  <1> DEFINE p == go(proc[s], 1)
             x == call(s).sd
             k == [sock[s][x] EXCEPT !.name = call(s).addr]
             f == [sock[s] EXCEPT ![x] = k]
             e == [addr |-> call(s).addr, port |-> port(s, x)]
             ns == known[s] \cup {e}
             pub == [packet("publish", other(s), port(s, x), "") EXCEPT !.addr = call(s).addr]
  <1>1. /\ calls(s, "bind") /\ sock' = [sock EXCEPT ![s] = f] /\ Continue(s) /\ proceeds
        /\ known' = [known EXCEPT ![s] = ns] /\ sub' = [sub EXCEPT ![s] = subscription(s, ns)]
        /\ Post(<<pub>>)
    BY DEF Bind, SetNames
  <1>2. /\ call(s).op = "bind" /\ plainCall(call(s)) /\ domains /\ namesPlain(s) /\ subPlain(s)
        /\ x \in DOMAIN sock[s] /\ sockfd_R \notin DOMAIN sock[s] /\ sockOK(s)
        /\ importance \in LOW .. CRITICAL + 1
    BY <1>1, FreeCall DEF UsesSocket, progOK
  <1>3. x # sockfd_R /\ ~sync(call(s).addr) /\ sockFine(sock[s][x])
    BY <1>1, <1>2, SocksFine DEF plainCall
  <1>4. goesTo(s, p) /\ p.port.sd # sockfd_R /\ p.at \in targets(call(s), proc[s].at)
    BY <1>1, ContinueGoes
  <1>5. sockOK(s)' /\ DOMAIN sock'[s] = DOMAIN sock[s]
    <2>1. sock'[s] = f /\ DOMAIN f = DOMAIN sock[s]
      BY <1>1, <1>2 DEF domains
    <2>2. sockFine(k)
      BY <1>3 DEF sockFine
    <2>3. \A y \in DOMAIN f : sockFine(f[y])
      <3> HIDE DEF k
      <3> QED BY <1>1, <2>2, SocksFine
    <2>4. IsFiniteSet(DOMAIN f)
      BY <1>2, <2>1 DEF sockOK
    <2> HIDE DEF f
    <2> QED BY <2>1, <2>3, <2>4 DEF sockOK, sockFine
  <1>6. DOMAIN sock[s] = effect(DOMAIN sock[s], call(s))
    BY <1>2 DEF effect
  <1>7. port(s, x).sd = x /\ e.addr = call(s).addr /\ e.port.sd = x
    BY DEF port
  <1>8. known'[s] = ns /\ IsFiniteSet(ns) /\ \A y \in ns : sync(y.addr) <=> y.port.sd = sockfd_R
    <2>1. IsFiniteSet(known[s]) /\ \A y \in known[s] : sync(y.addr) <=> y.port.sd = sockfd_R
      BY <1>2 DEF namesPlain
    <2> HIDE DEF e
    <2>2. IsFiniteSet(ns)
      BY <2>1, FS_AddElement
    <2> QED BY <1>1, <1>2, <1>3, <1>7, <2>1, <2>2 DEF domains
  <1>9. namesPlain(s)' /\ syncNames(s)' = syncNames(s)
    <2> HIDE DEF e
    <2> QED BY <1>3, <1>7, <1>8 DEF namesPlain, syncNames
  <1>10. clean(pub)
    <2>1. pub.k = "publish" /\ pub.from = port(s, x) /\ pub.to = "" /\ pub.addr = call(s).addr
          /\ "from" \in DOMAIN pub
      BY DEF packet
    <2> HIDE DEF pub
    <2> QED BY <2>1, <1>3, <1>7 DEF clean, Marked, Kinds, plainOK, sockfd_R
  <1> HIDE DEF f, ns, pub, p
  <1>11. subPlain(s)' /\ DOMAIN sub' = Side /\ \A y \in Side \ {s} : sub'[y] = sub[y]
    BY <1>1, <1>2, <1>8, SubscriptionPlain DEF domains
  <1>12. DOMAIN link' = Side /\ \A y \in Side : linkGrows(y)
    BY <1>1, <1>10, CleanOne, Posts
  <1>13. domains' /\ untouched(other(s))
    BY <1>1, <1>2, <1>11, <1>12, Sides DEF domains, untouched
  <1> QED BY <1>1, <1>2, <1>4, <1>5, <1>6, <1>9, <1>11, <1>12, <1>13, PlainCall DEF proceeds

\* close outside the signals.
LEMMA ClosePlain ==
  ASSUME NEW s \in Side, SyncInv, stage(s) = Free, Close(s)
  PROVE  SyncInv'
  <1> DEFINE p == go(proc[s], 1)
             x == call(s).sd
             f == [y \in DOMAIN sock[s] \ {x} |-> sock[s][y]]
             ns == {n \in known[s] : n.port # port(s, x)}
  <1>1. /\ calls(s, "close") /\ sock' = [sock EXCEPT ![s] = f] /\ Continue(s) /\ proceeds
        /\ known' = [known EXCEPT ![s] = ns] /\ sub' = [sub EXCEPT ![s] = subscription(s, ns)]
        /\ Post(farewell(s, x))
    BY DEF Close, SetNames
  <1>2. /\ call(s).op = "close" /\ plainCall(call(s)) /\ domains /\ namesPlain(s) /\ subPlain(s)
        /\ x \in DOMAIN sock[s] /\ sockfd_R \notin DOMAIN sock[s] /\ sockOK(s)
        /\ importance \in LOW .. CRITICAL + 1
    BY <1>1, FreeCall DEF UsesSocket, progOK
  <1>3. x # sockfd_R /\ sockFine(sock[s][x])
    BY <1>1, <1>2, SocksFine
  <1>4. goesTo(s, p) /\ p.port.sd # sockfd_R /\ p.at \in targets(call(s), proc[s].at)
    BY <1>1, ContinueGoes
  <1>5. DOMAIN f = DOMAIN sock[s] \ {x} /\ \A y \in DOMAIN f : f[y] = sock[s][y]
    OBVIOUS
  <1> HIDE DEF f
  <1>6. sockOK(s)' /\ DOMAIN sock'[s] = DOMAIN f
    <2>1. sock'[s] = f
      BY <1>1, <1>2 DEF domains
    <2>2. IsFiniteSet(DOMAIN f)
      BY <1>2, <1>5, FS_RemoveElement DEF sockOK
    <2> QED BY <1>2, <1>5, <2>1, <2>2 DEF sockOK
  <1>7. DOMAIN f = effect(DOMAIN sock[s], call(s))
    BY <1>2, <1>5 DEF effect
  <1>8. port(s, x).sd = x
    BY DEF port
  <1>9. known'[s] = ns /\ IsFiniteSet(ns) /\ \A y \in ns : sync(y.addr) <=> y.port.sd = sockfd_R
    <2>1. IsFiniteSet(ns)
      BY <1>2, FS_Subset DEF namesPlain
    <2> QED BY <1>1, <1>2, <2>1 DEF domains, namesPlain
  <1>10. namesPlain(s)' /\ syncNames(s)' = syncNames(s)
    BY <1>2, <1>3, <1>8, <1>9 DEF namesPlain, syncNames
  <1> HIDE DEF ns, p
  <1>11. subPlain(s)' /\ DOMAIN sub' = Side /\ \A y \in Side \ {s} : sub'[y] = sub[y]
    BY <1>1, <1>2, <1>9, SubscriptionPlain DEF domains
  <1>12. DOMAIN link' = Side /\ \A y \in Side : linkGrows(y)
    BY <1>1, <1>3, FarewellClean, Posts
  <1>13. domains' /\ untouched(other(s))
    BY <1>1, <1>2, <1>11, <1>12, Sides DEF domains, untouched
  <1> QED BY <1>1, <1>2, <1>4, <1>5, <1>6, <1>7, <1>10, <1>11, <1>12, <1>13, PlainCall DEF proceeds

\* A call outside the signals that changes the subscription.
LEMMA SubChange ==
  ASSUME NEW s \in Side, SyncInv, NEW o, calls(s, o), stage(s) = Free,
         o \notin {"socket", "accept", "close"}, NEW p, goesTo(s, p), p.port.sd # sockfd_R,
         p.at \in targets(call(s), proc[s].at), proceeds, UNCHANGED <<sock, known, link>>,
         NEW e, sub' = [sub EXCEPT ![s] = e],
         DOMAIN e = DOMAIN NoSub, isSeq(e.evts), e.on => ~sync(e.addr),
         \A i \in 1 .. Len(e.evts) : e.evts[i].port.sd # sockfd_R
  PROVE  SyncInv'
  <1>1. /\ call(s).op = o /\ domains /\ namesPlain(s)
        /\ sockfd_R \notin DOMAIN sock[s] /\ sockOK(s) /\ importance \in LOW .. CRITICAL + 1
    BY FreeCall DEF progOK
  <1>2. subPlain(s)'
    BY <1>1 DEF domains, subPlain
  <1>3. namesPlain(s)' /\ syncNames(s)' = syncNames(s) /\ sockOK(s)'
    BY <1>1 DEF namesPlain, syncNames, sockOK
  <1>4. domains' /\ untouched(other(s))
    BY <1>1, Sides DEF domains, untouched
  <1>5. DOMAIN sock'[s] = effect(DOMAIN sock[s], call(s))
    BY <1>1 DEF effect
  <1>6. \A x \in Side : linkGrows(x)
    BY NoPackets
  <1> QED BY <1>1, <1>2, <1>3, <1>4, <1>5, <1>6, PlainCall DEF proceeds

\* A subscription outside the signals.
LEMMA SubscribePlain ==
  ASSUME NEW s \in Side, SyncInv, stage(s) = Free, Subscribe(s)
  PROVE  SyncInv'
  <1> DEFINE p == go(proc[s], 1)
             fits == {n \in known[s] : overlap(n.addr, call(s).addr)}
             v == [k |-> "PUBLISHED", port |-> (CHOOSE n \in fits : TRUE).port]
             e == [on |-> TRUE, addr |-> call(s).addr, evts |-> IF fits = {} THEN <<>> ELSE <<v>>]
  <1>1. /\ calls(s, "subscribe") /\ sub' = [sub EXCEPT ![s] = e]
        /\ Continue(s) /\ proceeds /\ UNCHANGED <<sock, known, link>>
    BY DEF Subscribe
  <1>2. namesPlain(s) /\ ~sync(call(s).addr)
    BY <1>1, FreeCall DEF plainCall
  <1>3. fits # {} => v.port.sd # sockfd_R
    <2>1. \A n \in fits : n.port.sd # sockfd_R
      BY <1>2 DEF namesPlain, overlap, sync
    <2>2. fits # {} => (CHOOSE n \in fits : TRUE) \in fits
      OBVIOUS
    <2> HIDE DEF fits
    <2> QED BY <2>1, <2>2
  <1>4. goesTo(s, p) /\ p.port.sd # sockfd_R /\ p.at \in targets(call(s), proc[s].at)
    BY <1>1, ContinueGoes
  <1> HIDE DEF fits, v, p
  <1>5. DOMAIN e = DOMAIN NoSub /\ ~sync(e.addr)
    BY <1>2 DEF NoSub
  <1>6. e.evts = IF fits = {} THEN <<>> ELSE <<v>>
    OBVIOUS
  <1> HIDE DEF e
  <1>7. isSeq(e.evts) /\ \A i \in 1 .. Len(e.evts) : e.evts[i].port.sd # sockfd_R
    <2>1. CASE fits = {}
      BY <1>6, <2>1, SeqNone
    <2>2. CASE fits # {}
      BY <1>3, <1>6, <2>2, SeqOne
    <2> QED BY <2>1, <2>2
  <1> QED BY <1>1, <1>4, <1>5, <1>7, SubChange

\* An event outside the signals.
LEMMA EventPlain ==
  ASSUME NEW s \in Side, SyncInv, stage(s) = Free, Event(s)
  PROVE  SyncInv'
  <1> DEFINE q == sub[s].evts
             p == [go(proc[s], 1) EXCEPT !.port = Head(q).port]
             e == [sub[s] EXCEPT !.evts = Tail(q)]
  <1>1. /\ calls(s, "event") /\ q # <<>>
        /\ \/ err(s)
           \/ /\ sub' = [sub EXCEPT ![s] = e] /\ Goto(s, p)
              /\ proceeds /\ UNCHANGED <<sock, known, link>>
    BY DEF Event
  <1>2. /\ call(s).op = "event" /\ subPlain(s) /\ DOMAIN proc[s] = DOMAIN start(0)
    BY <1>1, FreeCall
  <1>3. CASE err(s)
    BY <1>3, ErrStep
  <1>4. CASE /\ sub' = [sub EXCEPT ![s] = e] /\ Goto(s, p)
             /\ proceeds /\ UNCHANGED <<sock, known, link>>
    <2>1. isSeq(q) /\ \A i \in 1 .. Len(q) : q[i].port.sd # sockfd_R
      BY <1>2 DEF subPlain
    <2>2. /\ DOMAIN e = DOMAIN NoSub /\ e.on = sub[s].on /\ e.addr = sub[s].addr /\ e.evts = Tail(q)
      BY <1>2 DEF subPlain, NoSub
    <2>3. /\ DOMAIN p = DOMAIN start(0) /\ p.prog = proc[s].prog /\ p.asks = proc[s].asks
          /\ p.port = Head(q).port /\ p.at = proc[s].at + 1
      BY <1>2 DEF go, start
    <2> HIDE DEF q, p, e
    <2>4. /\ isSeq(Tail(q)) /\ Len(Tail(q)) = Len(q) - 1 /\ Len(q) \in Nat \ {0} /\ Head(q) = q[1]
          /\ \A i \in 1 .. Len(q) - 1 : Tail(q)[i] = q[i + 1]
      BY <1>1, <2>1, SeqTail
    <2>5. \A i \in 1 .. Len(Tail(q)) : Tail(q)[i].port.sd # sockfd_R
      BY <2>1, <2>4
    <2>6. p.port.sd # sockfd_R
      BY <2>1, <2>3, <2>4
    <2>7. goesTo(s, p) /\ p.at \in targets(call(s), proc[s].at)
      BY <1>2, <1>4, <2>3 DEF goesTo, Goto, targets, proceeds
    <2>8. e.on => ~sync(e.addr)
      BY <1>2, <2>2 DEF subPlain
    <2>9. isSeq(e.evts) /\ \A i \in 1 .. Len(e.evts) : e.evts[i].port.sd # sockfd_R
      BY <2>2, <2>4, <2>5, Zenon
    <2>10. DOMAIN e = DOMAIN NoSub /\ calls(s, "event")
      BY <1>1, <2>2
    <2> HIDE <2>2, <2>4, <2>5
    <2> QED BY <1>4, <2>6, <2>7, <2>8, <2>9, <2>10, SubChange
  <1> QED BY <1>1, <1>3, <1>4

\* The end of a subscription outside the signals.
LEMMA UnsubscribePlain ==
  ASSUME NEW s \in Side, SyncInv, stage(s) = Free, Unsubscribe(s)
  PROVE  SyncInv'
  <1> DEFINE p == go(proc[s], 1)
  <1>1. /\ calls(s, "unsubscribe") /\ sub' = [sub EXCEPT ![s] = NoSub]
        /\ Continue(s) /\ proceeds /\ UNCHANGED <<sock, known, link>>
    BY DEF Unsubscribe
  <1>2. goesTo(s, p) /\ p.port.sd # sockfd_R /\ p.at \in targets(call(s), proc[s].at)
    BY <1>1, ContinueGoes
  <1> HIDE DEF p
  <1> QED BY <1>1, <1>2, NoSubPlain, SubChange

\* A socket without its first message.
LEMMA TailFine ==
  ASSUME NEW k, sockFine(k), k.q # <<>>
  PROVE  sockFine([k EXCEPT !.q = Tail(k.q)]) /\ fromTest(Head(k.q))
  <1> DEFINE q == k.q
             h == [k EXCEPT !.q = Tail(k.q)]
  <1>1. isSeq(q) /\ q # <<>> /\ \A i \in 1 .. Len(q) : fromTest(q[i])
    BY DEF sockFine
  <1>2. /\ DOMAIN h = DOMAIN k /\ h.name = k.name /\ h.peer = k.peer /\ h.q = Tail(q)
    BY DEF sockFine, newSocket
  <1> HIDE DEF q, h
  <1>3. /\ isSeq(Tail(q)) /\ Len(Tail(q)) = Len(q) - 1 /\ Len(q) \in Nat \ {0} /\ Head(q) = q[1]
        /\ \A i \in 1 .. Len(q) - 1 : Tail(q)[i] = q[i + 1]
    BY <1>1, SeqTail
  <1>4. \A i \in 1 .. Len(Tail(q)) : fromTest(Tail(q)[i])
    BY <1>1, <1>3
  <1>5. fromTest(Head(q))
    BY <1>1, <1>3
  <1>6. sockFine(h)
    BY <1>2, <1>3, <1>4 DEF sockFine
  <1> QED BY <1>5, <1>6 DEF q, h

\* accept.
LEMMA AcceptPlain ==
  ASSUME NEW s \in Side, SyncInv, stage(s) = Free, Accept(s)
  PROVE  SyncInv'
  <1> DEFINE p == go(proc[s], 1)
             x == call(s).sd
             y == call(s).new
             l == sock[s][x]
             g == [sock[s] EXCEPT ![x].q = Tail(l.q)]
             k == [newSocket(l.type) EXCEPT !.conn = "up", !.peer = Head(l.q).from, !.via = Head(l.q).addr]
             f == with(g, y, k)
             a == packet("ack", Head(l.q).from.side, port(s, y), Head(l.q).from.sd)
  <1>1. /\ calls(s, "accept") /\ sock' = [sock EXCEPT ![s] = f] /\ Continue(s) /\ proceeds
        /\ UNCHANGED <<known, sub>> /\ l.q # <<>> /\ Post(<<a>>)
    <2>1. /\ calls(s, "accept") /\ Continue(s) /\ proceeds /\ UNCHANGED <<known, sub>>
          /\ l.q # <<>> /\ Post(<<a>>)
      BY DEF Accept
    <2>2. sock' = [sock EXCEPT ![s] = f]
      BY Zenon DEF Accept
    <2> QED BY <2>1, <2>2
  <1>2. call(s).op = "accept" /\ plainCall(call(s)) /\ x \in DOMAIN sock[s]
    BY <1>1, FreeCall DEF UsesSocket
  <1>3. goesTo(s, p) /\ p.port.sd # sockfd_R /\ p.at \in targets(call(s), proc[s].at)
    BY <1>1, ContinueGoes
  <1>4. sockFine(l)
    BY <1>1, <1>2, SocksFine
  <1>5. sockFine([l EXCEPT !.q = Tail(l.q)]) /\ fromTest(Head(l.q))
    BY <1>1, <1>4, TailFine
  <1>6. sockFine(k)
    <2>1. /\ DOMAIN k = DOMAIN newSocket("RDM") /\ k.q = <<>> /\ k.name = NoAddr /\ k.peer = Head(l.q).from
      BY DEF newSocket
    <2> HIDE DEF k
    <2>2. Head(l.q).from.sd # sockfd_R
      BY <1>5 DEF fromTest, Marked
    <2>3. ~sync(NoAddr)
      BY DEF sync, NoAddr, setServerAddrTo, TS_SYNCRO_TYPE
    <2> HIDE DEF l
    <2> QED BY <2>1, <2>2, <2>3, SeqNone DEF sockFine
  <1>7. clean(a)
    <2>1. a.k = "ack" /\ a.from = port(s, y) /\ a.to = Head(l.q).from.sd /\ "from" \in DOMAIN a
      BY PacketIs
    <2>2. y # sockfd_R
      BY <1>2 DEF plainCall
    <2>3. Head(l.q).from.sd # sockfd_R
      BY <1>5 DEF fromTest, Marked
    <2> HIDE DEF a
    <2> QED BY <2>1, <2>2, <2>3 DEF clean, Marked, Kinds, plainOK, port
  <1>8. DOMAIN g = DOMAIN sock[s] /\ \A z \in DOMAIN g : sockFine(g[z])
    <2>1. \A z \in DOMAIN g : g[z] = IF z = x THEN [l EXCEPT !.q = Tail(l.q)] ELSE sock[s][z]
      OBVIOUS
    <2> HIDE DEF l
    <2> QED BY <1>1, <1>5, <2>1, SocksFine
  <1> HIDE DEF g, k, a, p
  <1>9. DOMAIN f = effect(DOMAIN sock[s], call(s)) /\ \A z \in DOMAIN f : sockFine(f[z])
    BY <1>2, <1>6, <1>8 DEF with, effect
  <1>10. DOMAIN link' = Side /\ \A z \in Side : linkGrows(z)
    BY <1>1, <1>7, CleanOne, Posts
  <1> HIDE DEF f
  <1> QED BY <1>1, <1>3, <1>9, <1>10, PlainSock DEF proceeds

\* The start of a stream is taken from a queue.
LEMMA DataPrefix ==
  ASSUME NEW q, isSeq(q)
  PROVE  dataPrefix(q) \in 0 .. Len(q)
  <1> DEFINE stop == {i \in 1 .. Len(q) : q[i].k # "data"}
  <1>1. Len(q) \in Nat
    BY DEF isSeq
  <1>2. CASE stop = {}
    BY <1>1, <1>2 DEF dataPrefix
  <1>3. CASE stop # {}
    <2>1. PICK a \in stop : TRUE
      BY <1>3
    <2>2. stop \in SUBSET Nat
      BY <1>1
    <2>3. \E x \in stop : \A y \in stop : x <= y
      <3> HIDE DEF stop
      <3> QED BY <2>1, <2>2, LeastNat
    <2>4. Min(stop) \in stop
      <3> HIDE DEF stop
      <3> QED BY <2>3 DEF Min
    <2> QED BY <1>1, <1>3, <2>4 DEF dataPrefix
  <1> QED BY <1>2, <1>3

\* What is left of a stream that has been read comes from no signal.
LEMMA WithoutFrom ==
  ASSUME NEW q, isSeq(q), \A i \in 1 .. Len(q) : fromTest(q[i]), NEW n
  PROVE  isSeq(without(q, n)) /\ \A i \in 1 .. Len(without(q, n)) : fromTest(without(q, n)[i])
  <1> DEFINE end == dataPrefix(q)
             L == {i \in 0 .. end : i = end \/ bytes(SubSeq(q, 1, i + 1)) > n}
             left == Min(L)
             rest == SubSeq(q, left + 1, Len(q))
             cut == n - bytes(SubSeq(q, 1, left))
             new == [rest EXCEPT ![1].msg.off = @ + cut, ![1].msg.size = @ - cut]
  <1>1. Len(q) \in Nat /\ end \in 0 .. Len(q)
    BY DataPrefix DEF isSeq
  <1>2. left \in 0 .. end
    <2>1. end \in L /\ L \in SUBSET Nat /\ L \subseteq 0 .. end
      BY <1>1
    <2>2. \E x \in L : \A y \in L : x <= y
      <3> HIDE DEF L
      <3> QED BY <2>1, LeastNat
    <2>3. left \in L
      <3> HIDE DEF L
      <3> QED BY <2>2 DEF Min
    <2> QED BY <2>1, <2>3
  <1>3. without(q, n) = IF cut = 0 THEN rest ELSE new
    BY DEF without
  <1> HIDE DEF end, L, left, cut
  <1>4. /\ Len(rest) = Len(q) - left /\ Len(rest) \in Nat /\ DOMAIN rest = 1 .. Len(rest)
        /\ \A i \in 1 .. Len(rest) : fromTest(rest[i])
        /\ isSeq(rest)
    <2> DEFINE S == {q[i] : i \in DOMAIN q}
    <2>1. q \in Seq(S) /\ left + 1 \in 1 .. Len(q) + 1
      BY <1>1, <1>2 DEF isSeq
    <2> HIDE DEF S
    <2>2. /\ rest \in Seq(S) /\ Len(rest) = Len(q) - left
          /\ \A i \in 1 .. Len(q) - left : rest[i] = q[left + i]
      <3>1. rest = [i \in 1 .. Len(q) - left |-> q[left + i]]
        BY <1>1, <1>2, <2>1
      <3>2. Len(q) - left \in Nat
        BY <1>1, <1>2
      <3>3. \A i \in 1 .. Len(q) - left : q[left + i] \in S
        BY <1>1, <1>2, <2>1
      <3> HIDE DEF rest
      <3> QED BY <3>1, <3>2, <3>3
    <2> HIDE DEF rest
    <2>3. isSeq(rest)
      BY <2>2, InSeq
    <2> QED BY <2>2, <2>3, <1>1, <1>2
  <1>5. isSeq(rest)
    BY <1>4
  <1>6. isSeq(new) /\ \A i \in 1 .. Len(new) : fromTest(new[i])
    <2>1. DOMAIN new = DOMAIN rest
      OBVIOUS
    <2>2. \A i \in 1 .. Len(rest) : i # 1 => new[i] = rest[i]
      BY <1>4
    <2>3. 1 \in 1 .. Len(rest) => /\ DOMAIN new[1] = DOMAIN rest[1]
                                  /\ "from" \in DOMAIN rest[1] => new[1].from = rest[1].from
      <3> HIDE DEF rest
      <3> QED BY <1>4
    <2>4. new = [i \in 1 .. Len(rest) |-> new[i]] /\ Len(rest) \in Nat
      BY <1>4
    <2> HIDE DEF rest, new
    <2>5. \A i \in 1 .. Len(rest) : fromTest(new[i])
      BY <1>4, <2>2, <2>3 DEF fromTest, Marked
    <2>6. Len(new) = Len(rest) /\ isSeq(new)
      BY <2>4 DEF isSeq
    <2> QED BY <2>5, <2>6
  <1> HIDE DEF rest, new
  <1> QED BY <1>3, <1>4, <1>5, <1>6

\* Where a receive leads to.
near(s, j) ==
  /\ DOMAIN j = DOMAIN start(0) /\ j.prog = proc[s].prog /\ j.asks = proc[s].asks
  /\ j.port = proc[s].port
  /\ \/ j.at = proc[s].at \/ j.at = proc[s].at + 1
     \/ call(s).want = "header" /\ j.at = proc[s].at + 6
     \/ call(s).want = "loop" /\ j.at = proc[s].at + 5

\* What the caller makes of a receive leads to a call that may follow.
LEMMA JudgeGoes ==
  ASSUME NEW s, DOMAIN proc[s] = DOMAIN start(0), proc[s].at \in Nat,
         call(s).want \in Wants, NEW r, judge(s, r) # failed
  PROVE  near(s, judge(s, r))
  <1> DEFINE p == proc[s]
             w == call(s).want
             next == go(p, 1)
  <1>1. /\ next.at = p.at + 1 /\ DOMAIN next = DOMAIN start(0)
        /\ next.prog = p.prog /\ next.asks = p.asks /\ next.port = p.port
    BY GoIs
  <1>2. near(s, next)
    BY <1>1 DEF near
  <1>3. \A v : /\ near(s, [next EXCEPT !.bad = v]) /\ near(s, [next EXCEPT !.a = v])
               /\ near(s, [next EXCEPT !.b = v])
    <2>1. SUFFICES ASSUME NEW v
                   PROVE  /\ near(s, [next EXCEPT !.bad = v]) /\ near(s, [next EXCEPT !.a = v])
                          /\ near(s, [next EXCEPT !.b = v])
      OBVIOUS
    <2> HIDE DEF next
    <2> QED BY <1>1 DEF near, start
  <1>4. \A v, u : near(s, [next EXCEPT !.got = v, !.a = u])
    <2> HIDE DEF next
    <2> QED BY <1>1 DEF near, start
  <1>5. CASE w \in {"ack", "end", "any", "named", "recvfrom", "record", "full", "nothing", "returned"}
    <2>1. judge(s, r) \in {next, failed}
      BY <1>5 DEF judge
    <2> QED BY <1>2, <2>1
  <1>6. CASE w \in {"array", "message"}
    <2>1. judge(s, r) \in {next, failed, [next EXCEPT !.bad = @ + 1]}
      BY <1>6 DEF judge
    <2> QED BY <1>2, <1>3, <2>1
  <1>7. CASE w = "test"
    <2>1. \E v : judge(s, r) = [next EXCEPT !.a = v]
      BY <1>7 DEF judge
    <2> QED BY <1>3, <2>1
  <1>8. CASE w = "header"
    <2>1. \/ judge(s, r) = failed \/ judge(s, r) = go(p, 6)
          \/ \E v : judge(s, r) = [next EXCEPT !.a = v]
      BY <1>8 DEF judge
    <2>2. near(s, go(p, 6))
      <3>1. /\ go(p, 6).at = p.at + 6 /\ DOMAIN go(p, 6) = DOMAIN start(0)
            /\ go(p, 6).prog = p.prog /\ go(p, 6).asks = p.asks /\ go(p, 6).port = p.port
        BY GoIs
      <3> QED BY <1>8, <3>1 DEF near
    <2> QED BY <1>3, <2>1, <2>2
  <1>9. CASE w = "chunk"
    <2> DEFINE j(by) == [go(p, by) EXCEPT !.a = @ - r.res, !.b = @ + 1]
    <2>1. \/ judge(s, r) = failed \/ judge(s, r) = [next EXCEPT !.b = -@]
          \/ judge(s, r) = j(1) \/ judge(s, r) = j(0)
      BY <1>9 DEF judge
    <2>2. ASSUME NEW by \in {0, 1} PROVE near(s, j(by))
      <3>1. /\ go(p, by).at = p.at + by /\ DOMAIN go(p, by) = DOMAIN start(0)
            /\ go(p, by).prog = p.prog /\ go(p, by).asks = p.asks /\ go(p, by).port = p.port
        BY GoIs
      <3>2. /\ j(by).at = go(p, by).at /\ DOMAIN j(by) = DOMAIN go(p, by)
            /\ j(by).prog = go(p, by).prog /\ j(by).asks = go(p, by).asks /\ j(by).port = go(p, by).port
        BY <3>1 DEF start
      <3> HIDE DEF j
      <3>3. j(by).at = p.at \/ j(by).at = p.at + 1
        BY <3>1, <3>2
      <3> QED BY <3>1, <3>2, <3>3 DEF near
    <2> QED BY <1>3, <2>1, <2>2
  <1>10. CASE w = "loop"
    <2>1. \/ judge(s, r) = failed \/ judge(s, r) = go(p, 5)
          \/ \E v, u : judge(s, r) = [next EXCEPT !.got = v, !.a = u]
      BY <1>10 DEF judge
    <2>2. near(s, go(p, 5))
      <3>1. /\ go(p, 5).at = p.at + 5 /\ DOMAIN go(p, 5) = DOMAIN start(0)
            /\ go(p, 5).prog = p.prog /\ go(p, 5).asks = p.asks /\ go(p, 5).port = p.port
        BY GoIs
      <3> QED BY <1>10, <3>1 DEF near
    <2>3. ASSUME NEW v, NEW u, judge(s, r) = [next EXCEPT !.got = v, !.a = u]
          PROVE  near(s, judge(s, r))
      <3>1. near(s, [next EXCEPT !.got = v, !.a = u])
        BY <1>4
      <3> QED BY <2>3, <3>1, Zenon
    <2> QED BY <2>1, <2>2, <2>3
  <1> QED BY <1>5, <1>6, <1>7, <1>8, <1>9, <1>10 DEF Wants

\* What a receive leaves in the queue.
LEMMA ReceivedFrom ==
  ASSUME NEW s, sockFine(sock[s][call(s).sd])
  PROVE  isSeq(received(s).q) /\ \A i \in 1 .. Len(received(s).q) : fromTest(received(s).q[i])
  <1> DEFINE k == sock[s][call(s).sd]
             q == k.q
  <1>1. isSeq(q) /\ \A i \in 1 .. Len(q) : fromTest(q[i])
    BY DEF sockFine
  <1>2. \/ received(s).q = <<>>
        \/ q # <<>> /\ received(s).q = Tail(q)
        \/ \E n : received(s).q = without(q, n)
    BY DEF received, result
  <1> HIDE DEF q, k
  <1>3. CASE received(s).q = <<>>
    BY <1>3, SeqNone
  <1>4. CASE q # <<>> /\ received(s).q = Tail(q)
    <2>1. /\ isSeq(Tail(q)) /\ Len(Tail(q)) = Len(q) - 1 /\ Len(q) \in Nat \ {0}
          /\ \A i \in 1 .. Len(q) - 1 : Tail(q)[i] = q[i + 1]
      BY <1>1, <1>4, SeqTail
    <2>2. \A i \in 1 .. Len(Tail(q)) : fromTest(Tail(q)[i])
      BY <1>1, <2>1
    <2> QED BY <1>4, <2>1, <2>2
  <1>5. ASSUME NEW n, received(s).q = without(q, n)
        PROVE  isSeq(received(s).q) /\ \A i \in 1 .. Len(received(s).q) : fromTest(received(s).q[i])
    BY <1>1, <1>5, WithoutFrom
  <1> QED BY <1>2, <1>3, <1>4, <1>5

\* A receive outside the signals.
LEMMA RecvPlain ==
  ASSUME NEW s \in Side, SyncInv, stage(s) = Free, Recv(s)
  PROVE  SyncInv'
  <1> DEFINE r == received(s)
             x == call(s).sd
             k == [sock[s][x] EXCEPT !.q = r.q]
             f == [sock[s] EXCEPT ![x] = k]
             p == judge(s, r)
  <1>1. /\ calls(s, "recv")
        /\ \/ err(s)
           \/ /\ p # failed /\ Goto(s, p) /\ sock' = [sock EXCEPT ![s] = f]
              /\ proceeds /\ UNCHANGED <<known, sub, link>>
    BY DEF Recv
  <1>2. /\ call(s).op = "recv" /\ plainCall(call(s)) /\ x \in DOMAIN sock[s]
        /\ DOMAIN proc[s] = DOMAIN start(0) /\ proc[s].at \in Nat /\ proc[s].port.sd # sockfd_R
    BY <1>1, FreeCall DEF UsesSocket
  <1>3. CASE err(s)
    BY <1>3, ErrStep
  <1>4. CASE /\ p # failed /\ Goto(s, p) /\ sock' = [sock EXCEPT ![s] = f]
             /\ proceeds /\ UNCHANGED <<known, sub, link>>
    <2>1. sockFine(sock[s][x])
      BY <1>1, <1>2, SocksFine
    <2>2. isSeq(r.q) /\ \A i \in 1 .. Len(r.q) : fromTest(r.q[i])
      BY <2>1, ReceivedFrom
    <2>3. near(s, p)
      BY <1>2, <1>4, JudgeGoes DEF plainCall
    <2> HIDE DEF r, p
    <2>4. sockFine(k)
      BY <2>1, <2>2 DEF sockFine, newSocket
    <2>5. DOMAIN f = effect(DOMAIN sock[s], call(s)) /\ \A z \in DOMAIN f : sockFine(f[z])
      <3> HIDE DEF k
      <3> QED BY <1>1, <1>2, <2>4, SocksFine DEF effect
    <2>6. goesTo(s, p) /\ p.port.sd # sockfd_R
      BY <1>2, <1>4, <2>3 DEF goesTo, Goto, proceeds, near
    <2>7. p.at \in targets(call(s), proc[s].at) \/ (p.at = proc[s].at /\ "recv" \notin {"socket", "accept", "close"})
      BY <1>2, <2>3 DEF targets, near
    <2>8. DOMAIN link' = Side /\ \A z \in Side : linkGrows(z)
      BY <1>4, NoPackets
    <2> HIDE DEF f
    <2> QED BY <1>1, <1>4, <2>5, <2>6, <2>7, <2>8, PlainSock DEF proceeds
  <1> QED BY <1>1, <1>3, <1>4

\* A round of select in server_mcast.
LEMMA McastRoundPlain ==
  ASSUME NEW s \in Side, SyncInv, stage(s) = Free, McastRound(s)
  PROVE  SyncInv'
  <1> DEFINE n == Cardinality(mcastNow(s))
             p1 == [proc[s] EXCEPT !.b = @ + n, !.c = @ + n]
             p == IF p1.b >= call(s).num THEN nextMsgno(p1) ELSE p1
             f == [x \in DOMAIN sock[s] |-> IF x \in mcastNow(s)
                                            THEN [sock[s][x] EXCEPT !.q = Tail(sock[s][x].q)]
                                            ELSE sock[s][x]]
  <1>1. /\ calls(s, "mcast")
        /\ \/ err(s)
           \/ /\ sock' = [sock EXCEPT ![s] = f] /\ Goto(s, p)
              /\ proceeds /\ UNCHANGED <<known, sub, link>>
    BY DEF McastRound
  <1>2. /\ call(s).op = "mcast"
        /\ DOMAIN proc[s] = DOMAIN start(0) /\ proc[s].port.sd # sockfd_R
    BY <1>1, FreeCall
  <1>3. CASE err(s)
    BY <1>3, ErrStep
  <1>4. CASE /\ sock' = [sock EXCEPT ![s] = f] /\ Goto(s, p)
             /\ proceeds /\ UNCHANGED <<known, sub, link>>
    <2>1. \A x \in DOMAIN sock[s] : sockFine(sock[s][x])
      BY <1>1, SocksFine
    <2>2. \A x \in mcastNow(s) : sock[s][x].q # <<>>
      BY DEF mcastNow, mcastSockets
    <2>3. DOMAIN f = effect(DOMAIN sock[s], call(s))
      BY <1>2 DEF effect
    <2>4. \A x \in DOMAIN f : sockFine(f[x])
      <3>1. SUFFICES ASSUME NEW x \in DOMAIN sock[s] PROVE sockFine(f[x])
        OBVIOUS
      <3>2. CASE x \in mcastNow(s)
        <4> DEFINE k == sock[s][x]
        <4>1. f[x] = [k EXCEPT !.q = Tail(k.q)]
          BY <3>2
        <4>2. sockFine(k) /\ k.q # <<>>
          BY <2>1, <2>2, <3>2
        <4> HIDE DEF k, f
        <4> QED BY <4>1, <4>2, TailFine
      <3>3. CASE x \notin mcastNow(s)
        BY <2>1, <3>3
      <3> QED BY <3>2, <3>3
    <2>5. /\ DOMAIN p = DOMAIN start(0) /\ p.prog = proc[s].prog /\ p.asks = proc[s].asks
          /\ p.port = proc[s].port /\ p.at = proc[s].at
      BY <1>2 DEF nextMsgno, start
    <2> HIDE DEF p, f
    <2>6. goesTo(s, p) /\ p.port.sd # sockfd_R
      BY <1>2, <1>4, <2>5 DEF goesTo, Goto, proceeds
    <2>7. DOMAIN link' = Side /\ \A z \in Side : linkGrows(z)
      BY <1>4, NoPackets
    <2>8. p.at \in targets(call(s), proc[s].at) \/ (p.at = proc[s].at /\ "mcast" \notin {"socket", "accept", "close"})
      BY <2>5
    <2>9. calls(s, "mcast")
      BY <1>1
    <2>10. UNCHANGED <<main, beat, importance, known, sub>> /\ sock' = [sock EXCEPT ![s] = f]
      BY <1>4 DEF proceeds
    <2> HIDE <2>5
    <2> QED BY <2>3, <2>4, <2>6, <2>7, <2>8, <2>9, <2>10, PlainSock
  <1> QED BY <1>1, <1>3, <1>4

\* A call outside the signals, whichever it is.
LEMMA FreeStep ==
  ASSUME NEW s \in Side, SyncInv, stage(s) = Free, Step(s)
  PROVE  SyncInv'
  <1>1. ~Synced(s)
    <2>1. SUFFICES ASSUME Synced(s) PROVE FALSE
      OBVIOUS
    <2>2. calls(s, "synced")
      BY <2>1 DEF Synced
    <2>3. plainCall(call(s)) /\ call(s).op = "synced"
      BY <2>2, FreeCall
    <2> QED BY <2>3 DEF plainCall
  <1>2. \/ Socket(s) \/ Listen(s) \/ SetOption(s) \/ GetOption(s) \/ SetImportance(s)
        \/ ClearErrors(s) \/ CheckErrors(s) \/ SetRegister(s) \/ Jump(s) \/ NumRec(s)
        \/ Bind(s) \/ Close(s) \/ Subscribe(s) \/ Event(s) \/ Unsubscribe(s)
        \/ SendTo(s) \/ McastTo(s) \/ Send(s) \/ Answer(s)
        \/ Syn(s) \/ Accept(s) \/ Connect(s) \/ Shutdown(s) \/ Recv(s)
        \/ McastRound(s) \/ McastEnd(s) \/ Sleep(s) \/ ConnectTimeout(s) \/ McastTimeout(s)
    BY <1>1, Zenon DEF Step, OwnCall, SocketCall, NameCall, SendCall, ReceiveCall
  <1> QED
    BY <1>2, SocketPlain, ListenPlain, SetOptionPlain, GetOptionPlain, SetImportancePlain, ClearErrorsPlain,
       CheckErrorsPlain, SetRegisterPlain, JumpPlain, NumRecPlain, BindPlain, ClosePlain, SubscribePlain,
       EventPlain, UnsubscribePlain, SendToPlain, McastToPlain, SendPlain, AnswerPlain, SynPlain,
       AcceptPlain, ConnectPlain, ShutdownPlain, RecvPlain, McastRoundPlain, McastEndPlain, SleepPlain,
       McastTimeoutPlain

-----------------------------------------------------------------------------
(***************************************************************************)
(* The main programs.                                                      *)
(***************************************************************************)
\* The state of the programs but for the place in the routine.
progRest ==
  /\ status \in [Side -> {"off", "run", "done", "failed", "usage"}]
  /\ DOMAIN proc = Side /\ \A s \in Side : DOMAIN proc[s] = DOMAIN start(0)
  /\ proc["server"].prog \in Progs \cup {0}
  /\ proc["client"].prog \in Progs \cup {0, TS_KILL_SERVER} /\ proc["client"].asks \in BOOLEAN
  /\ proc["client"].prog = TS_KILL_SERVER => proc["client"].asks
  /\ args \in Seq(Int)
  /\ proc["client"].prog # 0 =>
       /\ proc["client"].prog <= lastTestNum
       /\ lastTestNum \in Progs \cup {TS_KILL_SERVER}
       /\ proc["client"].prog < lastTestNum => lastTestNum \in SanityTests
                                               /\ proc["client"].prog \in SanityTests
  /\ beat \in [Side -> 0 .. 3]
  /\ importance \in LOW .. CRITICAL + 1 /\ clients \in 0 .. MaxClients

\* A side begins a routine, with no socket but the one the client keeps.
LEMMA NewRoutine ==
  ASSUME NEW s \in Side, SyncInv, stage(s) = Free, opened(s) \subseteq kept(s),
         NEW p, p.at = 1, p.port.sd # sockfd_R, proc' = [proc EXCEPT ![s] = p],
         status'[other(s)] = status[other(s)], progRest', UNCHANGED <<tipc, beat>>
  PROVE  SyncInv'
  <1> DEFINE t == other(s)
  <1>1. /\ progOK /\ domains /\ own_(s) /\ calm(s)
        /\ openOK(s) /\ sockOK(s) /\ sockfd_R \notin DOMAIN sock[s]
        /\ namesPlain(s) /\ own(s) = {} /\ subPlain(s)
    BY InvParts, CalmOwn DEF calm
  <1>2. t \in Side /\ t # s /\ \A x \in Side : x = s \/ x = t
    BY Sides
  <1>3. proc'[s] = p /\ proc'[t] = proc[t] /\ status'[t] = status[t]
    BY <1>1, <1>2 DEF progOK
  <1>4. stays(t) /\ running(t)' = running(t) /\ code(t)' = code(t)
    BY <1>3 DEF stays, stage, opened, running, code
  <1> DEFINE w == who(s)'
             g == proc'[s].prog
  <1>5. running(s)' => /\ routineOK(Routine[w][g], places[w][g], opens[w][g], w)
                       /\ code(s)' = Routine[w][g]
    <2>1. SUFFICES ASSUME running(s)' PROVE w \in DOMAIN Routine /\ g \in DOMAIN Routine[w]
      BY RoutineAssumption DEF code, who
    <2> QED BY <2>1, RoutineAssumption DEF progRest, running, who, Side
  <1>6. running(s)' => /\ Len(code(s)') \in Nat /\ opens[w][g][1] = {}
                       /\ entry(code(s)', places[w][g], 1)
    <2>1. \A r, q, o, z : routineOK(r, q, o, z) => Len(r) \in Nat /\ o[1] = {} /\ entry(r, q, 1)
      BY DEF routineOK
    <2> HIDE DEF w, g
    <2> QED BY <1>5, <2>1
  <1>7. calm(s)'
    <2>1. stage(s)' = IF running(s)' /\ 1 <= Len(code(s)') THEN places[w][g][1] ELSE Free
      BY <1>3 DEF stage, who
    <2> QED BY <1>6, <2>1 DEF calm, entry
  <1>8. opened(s)' = {}
    <2>1. opened(s)' = IF running(s)' THEN opens[w][g][1] ELSE {}
      BY <1>3 DEF opened, who
    <2> QED BY <1>6, <2>1
  <1>9. progOK'
    <2>1. running(t)' => proc'[t].at \in 1 .. Len(code(t)') + 1
      BY <1>1, <1>2, <1>3, <1>4 DEF progOK
    <2>2. running(s)' => proc'[s].at \in 1 .. Len(code(s)') + 1
      BY <1>3, <1>6
    <2>3. \A x \in Side : running(x)' => proc'[x].at \in 1 .. Len(code(x)') + 1
      BY <1>2, <2>1, <2>2
    <2> QED BY <2>3 DEF progOK, progRest
  <1>10. own_(s)'
    <2>1. openOK(s)'
      BY <1>1, <1>8 DEF openOK, tipc
    <2>2. sockOK(s)' /\ namesPlain(s)' /\ own(s)' = {} /\ subPlain(s)'
      BY <1>1 DEF sockOK, namesPlain, own, subPlain, tipc
    <2> QED BY <1>1, <1>3, <1>7, <2>1, <2>2, CalmOwn DEF tipc
  <1>11. domains' /\ untouched(t) /\ view(s)' = view(s) /\ \A x \in Side : linkGrows(x)
    BY <1>1, NoPackets DEF domains, untouched, view, tipc
  <1> QED BY <1>1, <1>4, <1>7, <1>9, <1>10, <1>11, PlainStep

\* A side that is not at a call is at no signal.
LEMMA AtEnd ==
  ASSUME NEW s \in Side, SyncInv
  PROVE  /\ ~running(s) => stage(s) = Free /\ opened(s) \subseteq kept(s)
         /\ running(s) /\ proc[s].at > Len(code(s)) => stage(s) = Free /\ opened(s) \subseteq kept(s)
  <1>1. progOK
    BY InvParts
  <1>2. ~running(s) => stage(s) = Free /\ opened(s) \subseteq kept(s)
    BY DEF stage, opened
  <1>3. ASSUME running(s), proc[s].at > Len(code(s))
        PROVE  stage(s) = Free /\ opened(s) \subseteq kept(s)
    <2>1. routineOK(code(s), pl(s), op(s), who(s)) /\ Len(code(s)) \in Nat
      BY <1>1, <1>3, Routes
    <2>2. proc[s].at = Len(code(s)) + 1
      BY <1>1, <1>3, <2>1 DEF progOK
    <2>3. stage(s) = Free
      BY <2>1, <2>2 DEF stage
    <2>4. opened(s) = op(s)[Len(code(s)) + 1]
      BY <1>3, <2>2 DEF opened, op, who
    <2>5. kept(who(s)) = kept(s)
      BY DEF kept, who, Side
    <2> QED BY <2>1, <2>3, <2>4, <2>5 DEF routineOK
  <1> QED BY <1>2, <1>3

\* The calls only the signals' scripts do not make.
Others == {"dispatch", "run"}

\* The calls of the server's loop that are its own are in no signal.
LEMMA NotScript ==
  ASSUME NEW s \in Side, SyncInv, NEW o \in Others, calls(s, o)
  PROVE  stage(s) = Free
  <1>1. SUFFICES ASSUME stage(s) # Free PROVE FALSE
    OBVIOUS
  <1>2. /\ call(s).op = o
        /\ \/ stage(s).j \in 1 .. 5 /\ call(s) = sendSyncTIPC(stage(s).n)[stage(s).j]
           \/ stage(s).j \in 1 .. 11 /\ call(s) = recvSyncTIPC(stage(s).n)[stage(s).j]
    BY <1>1, InvParts, Placed
  <1>3. \A m : \A j \in 1 .. 5 : sendSyncTIPC(m)[j].op \notin Others
    <2>1. SUFFICES ASSUME NEW m, NEW j \in 1 .. 5 PROVE sendSyncTIPC(m)[j].op \notin Others
      OBVIOUS
    <2>2. j = 1 \/ j = 2 \/ j = 3 \/ j = 4 \/ j = 5
      OBVIOUS
    <2>3. /\ sendSyncTIPC(m)[1].op = "socket" /\ sendSyncTIPC(m)[2].op = "bind"
          /\ sendSyncTIPC(m)[3].op = "recv" /\ sendSyncTIPC(m)[4].op = "close"
          /\ sendSyncTIPC(m)[5].op = "synced"
      BY DEF sendSyncTIPC, createSocketTIPC, bindSocketTIPC, receive, closeSocketTIPC
    <2> QED BY <2>2, <2>3 DEF Others
  <1>4. \A m : \A j \in 1 .. 11 : recvSyncTIPC(m)[j].op \notin Others
    <2>1. SUFFICES ASSUME NEW m, NEW j \in 1 .. 11 PROVE recvSyncTIPC(m)[j].op \notin Others
      OBVIOUS
    <2>2. j = 1 \/ j = 2 \/ j = 3 \/ j = 4 \/ j = 5 \/ j = 6 \/ j = 7 \/ j = 8 \/ j = 9 \/ j = 10 \/ j = 11
      OBVIOUS
    <2>3. /\ recvSyncTIPC(m)[1].op = "subscribe" /\ recvSyncTIPC(m)[2].op = "event"
          /\ recvSyncTIPC(m)[3].op = "socket" /\ recvSyncTIPC(m)[4].op = "setopt"
          /\ recvSyncTIPC(m)[5].op = "clear" /\ recvSyncTIPC(m)[6].op = "sendto"
          /\ recvSyncTIPC(m)[7].op = "check" /\ recvSyncTIPC(m)[8].op = "close"
          /\ recvSyncTIPC(m)[9].op = "event" /\ recvSyncTIPC(m)[10].op = "unsubscribe"
          /\ recvSyncTIPC(m)[11].op = "synced"
      BY DEF recvSyncTIPC, createSocketTIPC, subscribe, event, setOption, clearErrors, sendto,
             checkErrors, closeSocketTIPC, unsubscribe
    <2> QED BY <2>2, <2>3 DEF Others
  <1> QED BY <1>2, <1>3, <1>4

\* The server looks at the number of a test.
LEMMA ServerDispatchStep ==
  ASSUME SyncInv, ServerDispatch
  PROVE  SyncInv'
  <1>1. "server" \in Side /\ calls("server", "dispatch")
    BY DEF Side, ServerDispatch
  <1>2. stage("server") = Free
    BY <1>1, NotScript DEF Others
  <1>3. \/ Exit("server", "done") /\ UNCHANGED <<main, importance, beat, given>>
        \/ err("server") \/ (Continue("server") /\ proceeds /\ UNCHANGED tipc)
    BY DEF ServerDispatch
  <1> QED BY <1>1, <1>2, <1>3, ExitStep, ErrStep, IdleContinue

\* What the main program of the server leaves to that of the client.
LEMMA ServerProg ==
  ASSUME progOK, NEW p, DOMAIN p = DOMAIN start(0), p.prog \in Progs \cup {0},
         proc' = [proc EXCEPT !["server"] = p], UNCHANGED <<status, main, importance, beat>>
  PROVE  progRest'
  <1>1. proc'["server"] = p /\ proc'["client"] = proc["client"] /\ DOMAIN proc' = Side
        /\ \A s \in Side : DOMAIN proc'[s] = DOMAIN start(0)
    BY DEF progOK, Side
  <1> QED BY <1>1 DEF progOK, progRest, main

\* The server begins a test.
LEMMA ServerRunStep ==
  ASSUME SyncInv, ServerRun
  PROVE  SyncInv'
  <1> DEFINE test == proc["server"].a
             p == start(IF test \in DOMAIN Routine["server"] THEN test ELSE 0)
  <1>1. /\ "server" \in Side /\ other("server") \in Side /\ calls("server", "run") /\ proc' = [proc EXCEPT !["server"] = p]
        /\ proceeds /\ UNCHANGED tipc
    BY DEF Side, ServerRun, Goto, other
  <1>2. stage("server") = Free
    BY <1>1, NotScript DEF Others
  <1>3. progOK /\ opened("server") = {}
    BY <1>1, InvParts, Placed, CallIs
  <1>4. DOMAIN p = DOMAIN start(0) /\ p.prog \in Progs \cup {0} /\ p.at = 1 /\ p.port.sd # sockfd_R
    BY StartIs, RoutineAssumption
  <1> HIDE DEF p
  <1>5. progRest'
    BY <1>1, <1>3, <1>4, ServerProg DEF proceeds
  <1> QED BY <1>1, <1>2, <1>3, <1>4, <1>5, NewRoutine DEF proceeds

\* The server begins its loop again.
LEMMA ServerLoopStep ==
  ASSUME SyncInv, ServerLoop
  PROVE  SyncInv'
  <1> DEFINE p == start(0)
  <1>1. /\ "server" \in Side /\ proc' = [proc EXCEPT !["server"] = p]
        /\ running("server") /\ proc["server"].at > Len(code("server"))
        /\ proceeds /\ UNCHANGED tipc
    BY DEF Side, ServerLoop, Goto
  <1>2. progOK /\ stage("server") = Free /\ opened("server") \subseteq kept("server")
    BY <1>1, InvParts, AtEnd
  <1>3. DOMAIN p = DOMAIN start(0) /\ p.prog \in Progs \cup {0} /\ p.at = 1 /\ p.port.sd # sockfd_R
    BY StartIs
  <1> HIDE DEF p
  <1>4. progRest'
    BY <1>1, <1>2, <1>3, ServerProg DEF proceeds
  <1> QED BY <1>1, <1>2, <1>3, <1>4, NewRoutine DEF proceeds

\* The main program of the client goes on with another routine.
LEMMA ClientProg ==
  ASSUME SyncInv, stage("client") = Free, opened("client") \subseteq kept("client"),
         NEW p, DOMAIN p = DOMAIN start(0), p.at = 1, p.port.sd # sockfd_R, p.asks \in BOOLEAN,
         p.prog \in Progs \cup {0, TS_KILL_SERVER}, p.prog = TS_KILL_SERVER => p.asks,
         proc' = [proc EXCEPT !["client"] = p],
         status' \in [Side -> {"off", "run", "done", "failed", "usage"}], status'["server"] = status["server"],
         args' \in Seq(Int), importance' \in LOW .. CRITICAL + 1, clients' \in 0 .. MaxClients,
         p.prog # 0 => /\ p.prog <= lastTestNum' /\ lastTestNum' \in Progs \cup {TS_KILL_SERVER}
                       /\ p.prog < lastTestNum' => lastTestNum' \in SanityTests /\ p.prog \in SanityTests,
         UNCHANGED <<tipc, beat>>
  PROVE  SyncInv'
  <1>1. "client" \in Side /\ other("client") = "server" /\ progOK
    BY InvParts DEF Side, other
  <1>2. proc'["client"] = p /\ proc'["server"] = proc["server"] /\ DOMAIN proc' = Side
        /\ \A s \in Side : DOMAIN proc'[s] = DOMAIN start(0)
    BY <1>1 DEF progOK, Side
  <1>3. progRest'
    BY <1>1, <1>2 DEF progOK, progRest
  <1> QED BY <1>1, <1>3, NewRoutine

\* A client starts.
LEMMA ClientStartStep ==
  ASSUME SyncInv, ClientStart
  PROVE  SyncInv'
  <1> DEFINE p == start(0)
  <1>1. /\ progOK /\ "client" \in Side
    BY InvParts DEF Side
  <1>2. ~running("client")
    BY DEF ClientStart, running
  <1>3. stage("client") = Free /\ opened("client") \subseteq kept("client")
    BY <1>1, <1>2, AtEnd
  <1>4. DOMAIN p = DOMAIN start(0) /\ p.prog = 0 /\ p.asks = TRUE /\ p.at = 1 /\ p.port.sd # sockfd_R
    BY StartIs
  <1>5. proc' = [proc EXCEPT !["client"] = p]
    BY DEF ClientStart, Goto
  <1>6. /\ status' \in [Side -> {"off", "run", "done", "failed", "usage"}] /\ status'["server"] = status["server"]
        /\ args' \in Seq(Int) /\ importance' \in LOW .. CRITICAL + 1 /\ clients' \in 0 .. MaxClients
        /\ UNCHANGED <<tipc, beat>>
    <2>1. args' \in Seq(Int)
      BY PttsAssumption DEF ClientStart
    <2>2. clients' \in 0 .. MaxClients
      BY <1>1, PttsAssumption DEF ClientStart, progOK
    <2>3. status' \in [Side -> {"off", "run", "done", "failed", "usage"}] /\ status'["server"] = status["server"]
      BY <1>1 DEF ClientStart, progOK, Side
    <2> QED BY <1>1, <2>1, <2>2, <2>3 DEF ClientStart, progOK
  <1>7. TS_KILL_SERVER # 0
    BY DEF TS_KILL_SERVER
  <1> HIDE DEF p
  <1> QED BY <1>3, <1>4, <1>5, <1>6, <1>7, ClientProg

\* The tests an argument asks for.
LEMMA ArgTests ==
  ASSUME NEW test \in Int, test = TS_KILL_SERVER \/ validTest(test)
  PROVE  LET first == IF test = 0 THEN TS_FIRST_SANITY_TEST ELSE test
             last == IF test = 0 THEN ts_lastSanityTest - 1 ELSE test
         IN  /\ first \in Progs \cup {TS_KILL_SERVER} /\ last \in Progs \cup {TS_KILL_SERVER}
             /\ first <= last /\ (first < last => first \in SanityTests /\ last \in SanityTests)
  <1>1. ts_lastSanityTest \in {16, 19}
    BY DEF ts_lastSanityTest
  <1> QED BY <1>1 DEF validTest, Progs, SanityTests, ts_lastStressTest, ts_stress_rdm, TS_FIRST_STRESS_TEST,
             TS_FIRST_SANITY_TEST, TS_KILL_SERVER

\* The client takes its next argument.
LEMMA ClientArgStep ==
  ASSUME SyncInv, ClientArg
  PROVE  SyncInv'
  <1> DEFINE test == Head(args)
             first == IF test = 0 THEN TS_FIRST_SANITY_TEST ELSE test
             last == IF test = 0 THEN ts_lastSanityTest - 1 ELSE test
             p == start(first)
  <1>1. progOK /\ "client" \in Side
    BY InvParts DEF Side
  <1>2. ~running("client") /\ args # <<>>
    BY DEF ClientArg, running
  <1>3. stage("client") = Free /\ opened("client") \subseteq kept("client")
    BY <1>1, <1>2, AtEnd
  <1>4. args \in Seq(Int) /\ importance \in LOW .. CRITICAL + 1 /\ clients \in 0 .. MaxClients
        /\ status \in [Side -> {"off", "run", "done", "failed", "usage"}]
    BY <1>1 DEF progOK
  <1>5. test \in Int /\ Tail(args) \in Seq(Int)
    BY <1>2, <1>4
  <1>6. CASE test # TS_KILL_SERVER /\ ~validTest(test)
    BY <1>1, <1>3, <1>6, ExitStep DEF ClientArg
  <1>7. CASE test = TS_KILL_SERVER \/ validTest(test)
    <2>1. /\ args' = Tail(args) /\ lastTestNum' = last /\ proc' = [proc EXCEPT !["client"] = p]
          /\ importance' = IF test = TS_KILL_SERVER THEN importance ELSE LOW
          /\ UNCHANGED <<status, clients, beat, given, tipc>>
      BY <1>7 DEF ClientArg, Goto
    <2>2. /\ first \in Progs \cup {TS_KILL_SERVER} /\ last \in Progs \cup {TS_KILL_SERVER}
          /\ first <= last /\ (first < last => first \in SanityTests /\ last \in SanityTests)
      BY <1>5, <1>7, ArgTests
    <2>3. DOMAIN p = DOMAIN start(0) /\ p.prog = first /\ p.asks = TRUE /\ p.at = 1 /\ p.port.sd # sockfd_R
      BY StartIs
    <2>4. importance' \in LOW .. CRITICAL + 1
      BY <1>4, <2>1 DEF LOW, CRITICAL
    <2> HIDE DEF p, first, last, test
    <2> QED BY <1>3, <1>4, <1>5, <2>1, <2>2, <2>3, <2>4, ClientProg
  <1> QED BY <1>6, <1>7

\* The client begins a test it has asked for.
LEMMA ClientRunStep ==
  ASSUME SyncInv, ClientRun
  PROVE  SyncInv'
  <1> DEFINE p == [start(proc["client"].prog) EXCEPT !.asks = FALSE]
  <1>1. progOK /\ "client" \in Side
    BY InvParts DEF Side
  <1>2. /\ running("client") /\ proc["client"].at > Len(code("client")) /\ proc["client"].prog # TS_KILL_SERVER
        /\ proc' = [proc EXCEPT !["client"] = p] /\ proceeds /\ UNCHANGED tipc
    BY DEF ClientRun, Goto
  <1>3. stage("client") = Free /\ opened("client") \subseteq kept("client")
    BY <1>1, <1>2, AtEnd
  <1>4. DOMAIN p = DOMAIN start(0) /\ p.prog = proc["client"].prog /\ p.asks = FALSE /\ p.at = 1 /\ p.port.sd # sockfd_R
    <2> DEFINE g == start(proc["client"].prog)
    <2>1. /\ g.prog = proc["client"].prog /\ g.at = 1 /\ g.port.sd # sockfd_R /\ DOMAIN g = DOMAIN start(0)
      BY StartIs
    <2>2. p.prog = g.prog /\ p.at = g.at /\ p.port = g.port /\ DOMAIN p = DOMAIN g /\ p.asks = FALSE
      BY DEF start
    <2> QED BY <2>1, <2>2
  <1> HIDE DEF p
  <1>5. /\ args' \in Seq(Int) /\ importance' \in LOW .. CRITICAL + 1 /\ clients' \in 0 .. MaxClients
        /\ status' \in [Side -> {"off", "run", "done", "failed", "usage"}] /\ status'["server"] = status["server"]
        /\ UNCHANGED <<tipc, beat>> /\ lastTestNum' = lastTestNum
    BY <1>1, <1>2 DEF progOK, proceeds, main
  <1>6. /\ p.prog \in Progs \cup {0, TS_KILL_SERVER} /\ p.prog # TS_KILL_SERVER
        /\ p.prog # 0 => /\ p.prog <= lastTestNum' /\ lastTestNum' \in Progs \cup {TS_KILL_SERVER}
                         /\ p.prog < lastTestNum' => lastTestNum' \in SanityTests /\ p.prog \in SanityTests
    BY <1>1, <1>2, <1>4, <1>5 DEF progOK
  <1> QED BY <1>2, <1>3, <1>4, <1>5, <1>6, ClientProg

\* The client comes to the end of a test.
LEMMA ClientNextTestStep ==
  ASSUME SyncInv, ClientNextTest
  PROVE  SyncInv'
  <1> DEFINE was == proc["client"].prog
             test == IF was < lastTestNum THEN was + 1 ELSE 0
             p == start(test)
  <1>1. progOK /\ "client" \in Side
    BY InvParts DEF Side
  <1>2. /\ running("client") /\ proc["client"].at > Len(code("client"))
        /\ proc' = [proc EXCEPT !["client"] = p] /\ proceeds /\ UNCHANGED tipc
    BY DEF ClientNextTest, Goto
  <1>3. stage("client") = Free /\ opened("client") \subseteq kept("client")
    BY <1>1, <1>2, AtEnd
  <1>4. DOMAIN p = DOMAIN start(0) /\ p.prog = test /\ p.asks = TRUE /\ p.at = 1 /\ p.port.sd # sockfd_R
    BY StartIs
  <1>5. /\ args' \in Seq(Int) /\ importance' \in LOW .. CRITICAL + 1 /\ clients' \in 0 .. MaxClients
        /\ status' \in [Side -> {"off", "run", "done", "failed", "usage"}] /\ status'["server"] = status["server"]
        /\ UNCHANGED <<tipc, beat>> /\ lastTestNum' = lastTestNum
    BY <1>1, <1>2 DEF progOK, proceeds, main
  <1>6. was # 0 /\ (was < lastTestNum => lastTestNum \in SanityTests /\ was \in SanityTests)
    BY <1>1, <1>2 DEF progOK, running
  <1> HIDE DEF p, was
  <1>7. /\ test \in SanityTests \cup {0} /\ (test # 0 => test <= lastTestNum /\ lastTestNum \in SanityTests)
    <2>1. ts_lastSanityTest \in Int /\ TS_FIRST_SANITY_TEST = 1
      BY DEF ts_lastSanityTest, TS_FIRST_SANITY_TEST
    <2> QED BY <1>6, <2>1 DEF SanityTests
  <1>8. SanityTests \subseteq Progs
    BY DEF Progs
  <1> QED BY <1>2, <1>3, <1>4, <1>5, <1>7, <1>8, ClientProg

\* The client ends.
LEMMA ClientDoneStep ==
  ASSUME SyncInv, ClientDone
  PROVE  SyncInv'
  <1>1. "client" \in Side /\ ~running("client")
    BY DEF Side, ClientDone, running
  <1>2. stage("client") = Free
    BY <1>1, AtEnd
  <1>3. Exit("client", "done") /\ UNCHANGED <<main, importance, beat>>
    BY DEF ClientDone
  <1> QED BY <1>1, <1>2, <1>3, ExitStep

-----------------------------------------------------------------------------
(***************************************************************************)
(* Steps of the signals.                                                   *)
(***************************************************************************)
\* Where a side is, as far as the other one depends on it.
sameAtoms(s) ==
  /\ sends(s, 3 .. 4)' <=> sends(s, 3 .. 4)
  /\ sends(s, {3})' <=> sends(s, {3})
  /\ sends(s, {4})' <=> sends(s, {4})
  /\ sends(s, {5})' <=> sends(s, {5})
  /\ sends(s, 3 .. 5)' <=> sends(s, 3 .. 5)
  /\ recvs(s, 7 .. 11)' <=> recvs(s, 7 .. 11)
  /\ open(s)' <=> open(s)
  /\ recvs(s, {2})' => recvs(s, {2})
  /\ recvs(s, 3 .. 6)' => recvs(s, 3 .. 6)
  /\ recvs(s, 7 .. 9)' => recvs(s, 7 .. 9)
  /\ sends(s, 3 .. 4) \/ recvs(s, 2 .. 9) => signal(s)' = signal(s)
  /\ recvs(s, 2 .. 9)' => sub'[s].evts = sub[s].evts
  /\ sends(s, {3}) => sock'[s][sockfd_R].q = sock[s][sockfd_R].q

\* Sets of calls in each other.
LEMMA StageSets ==
  ASSUME NEW s
  PROVE  /\ sends(s, {3}) \/ sends(s, {4}) <=> sends(s, 3 .. 4)
         /\ sends(s, 3 .. 4) => sends(s, 3 .. 5)
         /\ recvs(s, {2}) \/ recvs(s, 3 .. 6) \/ recvs(s, 7 .. 9) => recvs(s, 2 .. 9)
         /\ recvs(s, {2})' \/ recvs(s, 3 .. 6)' \/ recvs(s, 7 .. 9)' => recvs(s, 2 .. 9)'
         /\ open(s) => recvs(s, 7 .. 9) /\ recvs(s, 2 .. 9)
  BY DEF sends, recvs, open

\* The meeting is as it was.
LEMMA MeetSame ==
  ASSUME NEW s \in Side, sameAtoms(s), NEW t \in Side, t = other(s), stage(t)' = stage(t),
         beat' = beat, view(s)' = view(s), view(t)' = view(t), sub'[t] = sub[t], sock'[t] = sock[t],
         alike(link'[s], link[s]), alike(link'[t], link[t]), meet(s), meet(t)
  PROVE  meet(s)' /\ meet(t)'
  <1>1. other(t) = s /\ s # t
    BY Sides
  <1>2. /\ \A J : sends(t, J)' <=> sends(t, J)
        /\ \A J : recvs(t, J)' <=> recvs(t, J)
        /\ signal(t)' = signal(t)
    BY DEF sends, recvs, signal
  <1>3. open(t)' <=> open(t)
    BY <1>2 DEF open
  <1>4. ahead(s, t)' = ahead(s, t) /\ ahead(t, s)' = ahead(t, s)
    BY DEF ahead
  <1>5. answering(s)' <=> answering(s)
    BY <1>1, <1>2, <1>3 DEF answering, sameAtoms
  <1>6. answering(t)' <=> answering(t)
    BY <1>1, <1>2, <1>3, StageSets DEF answering, sameAtoms
  <1>7. viewOK(s)'
    BY <1>1, <1>2, <1>4, StageSets DEF meet, viewOK, alike, sameAtoms
  <1>8. viewOK(t)'
    BY <1>1, <1>2, <1>3, <1>4, StageSets DEF meet, viewOK, alike, sameAtoms
  <1>9. ackOK(s)'
    BY <1>5, StageSets DEF meet, ackOK, alike, sameAtoms
  <1>10. ackOK(t)'
    BY <1>2, <1>6 DEF meet, ackOK, alike
  <1>11. late(s)' <=> late(s)
    BY DEF late, sameAtoms
  <1>12. late(t)' <=> late(t)
    BY <1>2 DEF late
  <1>13. meetOK(s)'
    <2>1. \A m : nameOf(t, m)' = nameOf(t, m)
      BY DEF nameOf
    <2>2. beat'[s] = beat'[t] \/ (ahead(s, t)' = 1 /\ late(t)') \/ (ahead(t, s)' = 1 /\ late(s)')
      BY <1>4, <1>11, <1>12 DEF meet, meetOK
    <2>3. /\ sends(s, {4})' => answering(s)'
          /\ sends(s, {5})' => (recvs(t, 7 .. 11)' /\ beat'[s] = beat'[t]) \/ ahead(t, s)' = 1
      BY <1>2, <1>4, <1>5 DEF meet, meetOK, sameAtoms
    <2>4. recvs(s, {2})' => IF nameOf(t, signal(s)') \in view(s)'
                            THEN Len(sub'[s].evts) = 1 /\ sub'[s].evts[1].k = "PUBLISHED"
                            ELSE sub'[s].evts = <<>>
      BY StageSets DEF meet, meetOK, sameAtoms
    <2>5. recvs(s, 3 .. 6)' => sends(t, {3})' /\ signal(t)' = signal(s)' /\ sub'[s].evts = <<>>
                               /\ view(s)' = {nameOf(t, signal(s)')}
      BY <1>2, StageSets DEF meet, meetOK, sameAtoms
    <2>6. recvs(s, 7 .. 9)' => IF sub'[s].evts = <<>> THEN view(s)' = {nameOf(t, signal(s)')}
                               ELSE sub'[s].evts[1] = [k |-> "WITHDRAWN", port |-> NoPort]
      BY StageSets DEF meet, meetOK, sameAtoms
    <2>7. /\ recvs(s, 7 .. 11)' => (beat'[s] = beat'[t] /\ sends(t, 3 .. 5)') \/ ahead(t, s)' = 1
          /\ recvs(s, 7 .. 11)' /\ ~open(s)' => (beat'[s] = beat'[t] /\ sends(t, {5})') \/ ahead(t, s)' = 1
      BY <1>2, <1>4 DEF meet, meetOK, sameAtoms
    <2> QED BY <2>1, <2>2, <2>3, <2>4, <2>5, <2>6, <2>7, <1>1 DEF meetOK
  <1>14. meetOK(t)'
    <2>1. \A m : nameOf(s, m)' = nameOf(s, m)
      BY DEF nameOf
    <2>2. meetOK(t)
      BY DEF meet
    <2>3. beat'[t] = beat'[s] \/ (ahead(t, s)' = 1 /\ late(s)') \/ (ahead(s, t)' = 1 /\ late(t)')
      BY <1>1, <1>4, <1>11, <1>12, <2>2 DEF meetOK
    <2>4. /\ sends(t, {4})' => answering(t)'
          /\ sends(t, {5})' => (recvs(s, 7 .. 11)' /\ beat'[t] = beat'[s]) \/ ahead(s, t)' = 1
      BY <1>1, <1>2, <1>4, <1>6, <2>2 DEF meetOK, sameAtoms
    <2>5. /\ recvs(t, {2})' => IF nameOf(s, signal(t)') \in view(t)'
                               THEN Len(sub'[t].evts) = 1 /\ sub'[t].evts[1].k = "PUBLISHED"
                               ELSE sub'[t].evts = <<>>
          /\ recvs(t, 7 .. 9)' => IF sub'[t].evts = <<>> THEN view(t)' = {nameOf(s, signal(t)')}
                                  ELSE sub'[t].evts[1] = [k |-> "WITHDRAWN", port |-> NoPort]
      BY <1>1, <1>2, <2>2 DEF meetOK
    <2>6. recvs(t, 3 .. 6)' => sends(s, {3})' /\ signal(s)' = signal(t)' /\ sub'[t].evts = <<>>
                               /\ view(t)' = {nameOf(s, signal(t)')}
      BY <1>1, <1>2, <2>2, StageSets DEF meetOK, sameAtoms
    <2>7. /\ recvs(t, 7 .. 11)' => (beat'[t] = beat'[s] /\ sends(s, 3 .. 5)') \/ ahead(s, t)' = 1
          /\ recvs(t, 7 .. 11)' /\ ~open(t)' => (beat'[t] = beat'[s] /\ sends(s, {5})') \/ ahead(s, t)' = 1
      BY <1>1, <1>2, <1>3, <1>4, <2>2 DEF meetOK, sameAtoms
    <2> QED BY <2>1, <2>3, <2>4, <2>5, <2>6, <2>7, <1>1 DEF meetOK
  <1> QED BY <1>7, <1>8, <1>9, <1>10, <1>13, <1>14 DEF meet

\* Call number j of the signal m.
spot(k, m, j) == [k |-> k, n |-> m, j |-> j]

\* What a side at call j of sendSyncTIPC or recvSyncTIPC is at.
LEMMA AtSend ==
  ASSUME NEW s, NEW m, NEW j
  PROVE  /\ stage(s) = spot("send", m, j) =>
              /\ \A J : (sends(s, J) <=> j \in J) /\ ~recvs(s, J)
              /\ ~open(s) /\ signal(s) = m
         /\ stage(s)' = spot("send", m, j) =>
              /\ \A J : (sends(s, J)' <=> j \in J) /\ ~recvs(s, J)'
              /\ ~open(s)' /\ signal(s)' = m
  BY DEF spot, sends, recvs, open, signal

\* At a call of recvSyncTIPC.
LEMMA AtRecv ==
  ASSUME NEW s, NEW m, NEW j
  PROVE  /\ stage(s) = spot("recv", m, j) =>
              /\ \A J : (recvs(s, J) <=> j \in J) /\ ~sends(s, J)
              /\ open(s) <=> j \in 7 .. 9 /\ sub[s].evts = <<>>
              /\ signal(s) = m
         /\ stage(s)' = spot("recv", m, j) =>
              /\ \A J : (recvs(s, J)' <=> j \in J) /\ ~sends(s, J)'
              /\ open(s)' <=> j \in 7 .. 9 /\ sub'[s].evts = <<>>
              /\ signal(s)' = m
  <1>1. ASSUME stage(s) = spot("recv", m, j)
        PROVE  /\ \A J : (recvs(s, J) <=> j \in J) /\ ~sends(s, J)
               /\ open(s) <=> j \in 7 .. 9 /\ sub[s].evts = <<>>
               /\ signal(s) = m
    BY <1>1 DEF spot, sends, recvs, open, signal
  <1>2. ASSUME stage(s)' = spot("recv", m, j)
        PROVE  /\ \A J : (recvs(s, J)' <=> j \in J) /\ ~sends(s, J)'
               /\ open(s)' <=> j \in 7 .. 9 /\ sub'[s].evts = <<>>
               /\ signal(s)' = m
    BY <1>2 DEF spot, sends, recvs, open, signal
  <1> QED BY <1>1, <1>2

\* The call of a side that is at signal m.
placed(s, m, o) ==
  \/ /\ stage(s) \in {spot("send", m, 1), spot("recv", m, 3)} /\ o = "socket"
     /\ call(s) = createSocketTIPC(sockfd_R, "RDM")
  \/ stage(s) = spot("send", m, 2) /\ o = "bind" /\ call(s) = bindSocketTIPC(sockfd_R, syncAddr(m))
  \/ stage(s) = spot("send", m, 3) /\ o = "recv" /\ call(s) = receive(sockfd_R, 1, "some", FALSE, "ack")
  \/ /\ stage(s) \in {spot("send", m, 4), spot("recv", m, 8)} /\ o = "close"
     /\ call(s) = closeSocketTIPC(sockfd_R)
  \/ stage(s) \in {spot("send", m, 5), spot("recv", m, 11)} /\ o = "synced"
  \/ stage(s) = spot("recv", m, 1) /\ o = "subscribe" /\ call(s) = subscribe(syncAddr(m))
  \/ stage(s) = spot("recv", m, 2) /\ o = "event" /\ call(s) = event("PUBLISHED")
  \/ /\ stage(s) = spot("recv", m, 4) /\ o = "setopt"
     /\ call(s) = setOption(sockfd_R, "imp", CRITICAL)
  \/ stage(s) = spot("recv", m, 5) /\ o = "clear"
  \/ /\ stage(s) = spot("recv", m, 6) /\ o = "sendto"
     /\ call(s) = sendto(sockfd_R, syncAddr(m), buffer("ack", 1))
  \/ stage(s) = spot("recv", m, 7) /\ o = "check"
  \/ stage(s) = spot("recv", m, 9) /\ o = "event" /\ call(s) = event("WITHDRAWN")
  \/ stage(s) = spot("recv", m, 10) /\ o = "unsubscribe"

\* Which call of a signal an operation is.
LEMMA SignalPlace ==
  ASSUME NEW s \in Side, progOK, NEW o, calls(s, o), stage(s) # Free
  PROVE  \E m \in SyncIds : placed(s, m, o)
  <1> DEFINE m == stage(s).n
             j == stage(s).j
  <1>1. /\ call(s).op = o /\ stage(s) \in Places
        /\ \/ stage(s).k = "send" /\ j \in 1 .. 5 /\ call(s) = sendSyncTIPC(m)[j]
           \/ stage(s).k = "recv" /\ j \in 1 .. 11 /\ call(s) = recvSyncTIPC(m)[j]
    BY Placed
  <1>2. m \in SyncIds /\ stage(s) = spot(stage(s).k, m, j)
    BY <1>1 DEF Places, spot
  <1>3. CASE stage(s).k = "send" /\ j \in 1 .. 5 /\ call(s) = sendSyncTIPC(m)[j]
    <2>1. j = 1 \/ j = 2 \/ j = 3 \/ j = 4 \/ j = 5
      BY <1>3
    <2>2. /\ sendSyncTIPC(m)[1] = createSocketTIPC(sockfd_R, "RDM")
          /\ sendSyncTIPC(m)[2] = bindSocketTIPC(sockfd_R, syncAddr(m))
          /\ sendSyncTIPC(m)[3] = receive(sockfd_R, 1, "some", FALSE, "ack")
          /\ sendSyncTIPC(m)[4] = closeSocketTIPC(sockfd_R)
          /\ sendSyncTIPC(m)[5].op = "synced"
      BY Scripts
    <2>3. /\ createSocketTIPC(sockfd_R, "RDM").op = "socket"
          /\ bindSocketTIPC(sockfd_R, syncAddr(m)).op = "bind"
          /\ receive(sockfd_R, 1, "some", FALSE, "ack").op = "recv"
          /\ closeSocketTIPC(sockfd_R).op = "close"
      BY DEF createSocketTIPC, bindSocketTIPC, receive, closeSocketTIPC
    <2> HIDE DEF m, j
    <2>4. placed(s, m, o)
      BY <1>1, <1>2, <1>3, <2>1, <2>2, <2>3 DEF placed
    <2> QED BY <1>2, <2>4
  <1>4. CASE stage(s).k = "recv" /\ j \in 1 .. 11 /\ call(s) = recvSyncTIPC(m)[j]
    <2>1. j = 1 \/ j = 2 \/ j = 3 \/ j = 4 \/ j = 5 \/ j = 6 \/ j = 7 \/ j = 8 \/ j = 9 \/ j = 10 \/ j = 11
      BY <1>4
    <2>2. /\ recvSyncTIPC(m)[1] = subscribe(syncAddr(m))
          /\ recvSyncTIPC(m)[2] = event("PUBLISHED")
          /\ recvSyncTIPC(m)[3] = createSocketTIPC(sockfd_R, "RDM")
          /\ recvSyncTIPC(m)[4] = setOption(sockfd_R, "imp", CRITICAL)
          /\ recvSyncTIPC(m)[5] = clearErrors
          /\ recvSyncTIPC(m)[6] = sendto(sockfd_R, syncAddr(m), buffer("ack", 1))
          /\ recvSyncTIPC(m)[7] = checkErrors
          /\ recvSyncTIPC(m)[8] = closeSocketTIPC(sockfd_R)
          /\ recvSyncTIPC(m)[9] = event("WITHDRAWN")
          /\ recvSyncTIPC(m)[10] = unsubscribe
          /\ recvSyncTIPC(m)[11].op = "synced"
      BY Scripts
    <2>3. /\ createSocketTIPC(sockfd_R, "RDM").op = "socket"
          /\ setOption(sockfd_R, "imp", CRITICAL).op = "setopt"
          /\ subscribe(syncAddr(m)).op = "subscribe" /\ event("PUBLISHED").op = "event"
          /\ event("WITHDRAWN").op = "event" /\ clearErrors.op = "clear" /\ checkErrors.op = "check"
          /\ sendto(sockfd_R, syncAddr(m), buffer("ack", 1)).op = "sendto"
          /\ closeSocketTIPC(sockfd_R).op = "close" /\ unsubscribe.op = "unsubscribe"
      BY DEF createSocketTIPC, closeSocketTIPC, setOption, subscribe, event, clearErrors, checkErrors,
             sendto, unsubscribe
    <2> HIDE DEF m, j
    <2> QED BY <1>1, <1>2, <1>4, <2>1, <2>2, <2>3 DEF placed
  <1> QED BY <1>1, <1>3, <1>4

\* A side goes on within a signal or leaves it.
callsOf(k) == IF k = "send" THEN 5 ELSE 11
moves(s, k, m, j) == IF j < callsOf(k) THEN stage(s)' = spot(k, m, j + 1) ELSE calm(s)'

\* A call of a signal and where control goes from it.
LEMMA SignalGoes ==
  ASSUME NEW s \in Side, progOK, NEW o, calls(s, o), NEW k \in {"send", "recv"}, NEW m, NEW j,
         stage(s) = spot(k, m, j), NEW p, goesTo(s, p), p.at = proc[s].at + 1,
         UNCHANGED <<main, importance>>, beat' \in [Side -> 0 .. 3]
  PROVE  /\ progOK' /\ stays(other(s)) /\ proc'[s] = p /\ opened(s)' = effect(opened(s), call(s))
         /\ moves(s, k, m, j)
  <1>1. running(s) /\ proc[s].at <= Len(code(s)) /\ stage(s) # Free
    BY Placed DEF spot, Free
  <1>2. /\ stage(s) \in Places /\ stage(s).j \in 1 .. Len(script(stage(s).k, stage(s).n))
    BY <1>1, CallIs
  <1>3. stage(s).k = k /\ stage(s).n = m /\ stage(s).j = j
    BY DEF spot
  <1>4. Len(script(k, m)) = IF k = "send" THEN 5 ELSE 11
    BY Scripts
  <1>5. /\ running(s)' /\ proc'[s] = p /\ opened(s)' = effect(opened(s), call(s))
        /\ p.at \in 1 .. Len(code(s)) + 1 /\ stays(other(s))
        /\ IF j < Len(script(k, m)) THEN stage(s)' = spot(k, m, j + 1) ELSE calm(s)'
    <2>1. CASE j < Len(script(k, m))
      <3>1. /\ stage(s)' = [stage(s) EXCEPT !.j = @ + 1]
            /\ opened(s)' = effect(opened(s), call(s)) /\ running(s)' /\ proc'[s] = p
            /\ p.at \in 1 .. Len(code(s)) + 1 /\ stays(other(s))
        BY <1>1, <1>3, <2>1, Advances
      <3>2. stage(s)' = spot(k, m, j + 1)
        BY <3>1, AdvancesTo DEF spot
      <3> QED BY <2>1, <3>1, <3>2
    <2>2. CASE ~ (j < Len(script(k, m)))
      <3>1. j = Len(script(k, m))
        BY <1>2, <1>3, <1>4, <2>2
      <3> QED BY <1>1, <1>3, <2>2, <3>1, Goes
    <2> QED BY <2>1, <2>2
  <1>6. progOK'
    <2>1. importance' \in LOW .. CRITICAL + 1
      BY DEF progOK
    <2> QED BY <1>1, <1>5, <2>1, ProgKept
  <1> QED BY <1>4, <1>5, <1>6 DEF moves, callsOf

\* What a side has of its own in the course of a signal.
signalSock(k, name) ==
  /\ k.type = "RDM" /\ k.conn = "no" /\ k.opt.dest = 1
  /\ DOMAIN k.opt = DOMAIN newSocket("RDM").opt /\ k.name = name

\* What a side has at a call of sendSyncTIPC.
LEMMA OwnSend ==
  ASSUME NEW s \in Side, NEW m, NEW j
  PROVE  /\ stage(s) = spot("send", m, j) =>
              (own_(s) <=>
                 /\ openOK(s) /\ sockOK(s) /\ namesPlain(s)
                 /\ own(s) = IF j \in 3 .. 4 THEN {nameOf(s, m)} ELSE {}
                 /\ subPlain(s) /\ proc[s].port.sd # sockfd_R
                 /\ sockfd_R \in DOMAIN sock[s] <=> j \in 2 .. 4
                 /\ sockfd_R \in DOMAIN sock[s] =>
                      /\ signalSock(sock[s][sockfd_R], IF j \in 3 .. 4 THEN syncAddr(m) ELSE NoAddr)
                      /\ j # 3 => sock[s][sockfd_R].q = <<>>)
         /\ stage(s)' = spot("send", m, j) =>
              (own_(s)' <=>
                 /\ openOK(s)' /\ sockOK(s)' /\ namesPlain(s)'
                 /\ own(s)' = IF j \in 3 .. 4 THEN {nameOf(s, m)} ELSE {}
                 /\ subPlain(s)' /\ proc'[s].port.sd # sockfd_R
                 /\ sockfd_R \in DOMAIN sock'[s] <=> j \in 2 .. 4
                 /\ sockfd_R \in DOMAIN sock'[s] =>
                      /\ signalSock(sock'[s][sockfd_R], IF j \in 3 .. 4 THEN syncAddr(m) ELSE NoAddr)
                      /\ j # 3 => sock'[s][sockfd_R].q = <<>>)
  <1>1. ASSUME stage(s) = spot("send", m, j)
        PROVE  own_(s) <=>
                 /\ openOK(s) /\ sockOK(s) /\ namesPlain(s)
                 /\ own(s) = IF j \in 3 .. 4 THEN {nameOf(s, m)} ELSE {}
                 /\ subPlain(s) /\ proc[s].port.sd # sockfd_R
                 /\ sockfd_R \in DOMAIN sock[s] <=> j \in 2 .. 4
                 /\ sockfd_R \in DOMAIN sock[s] =>
                      /\ signalSock(sock[s][sockfd_R], IF j \in 3 .. 4 THEN syncAddr(m) ELSE NoAddr)
                      /\ j # 3 => sock[s][sockfd_R].q = <<>>
    <2>1. /\ \A J : (sends(s, J) <=> j \in J) /\ ~recvs(s, J)
          /\ signal(s) = m
      BY <1>1, AtSend
    <2>2. nameOK(s) <=> namesPlain(s) /\ own(s) = IF j \in 3 .. 4 THEN {nameOf(s, m)} ELSE {}
      BY <2>1 DEF nameOK, namesPlain
    <2>3. subOK(s) <=> subPlain(s) /\ proc[s].port.sd # sockfd_R
      BY <2>1 DEF subOK, subPlain
    <2>4. signalSocketOK(s) <=>
                 /\ sockfd_R \in DOMAIN sock[s] <=> j \in 2 .. 4
                 /\ sockfd_R \in DOMAIN sock[s] =>
                      /\ signalSock(sock[s][sockfd_R], IF j \in 3 .. 4 THEN syncAddr(m) ELSE NoAddr)
                      /\ j # 3 => sock[s][sockfd_R].q = <<>>
      BY <2>1 DEF signalSocketOK, signalSock
    <2> QED BY <2>2, <2>3, <2>4 DEF own_
  <1>2. ASSUME stage(s)' = spot("send", m, j)
        PROVE  own_(s)' <=>
                 /\ openOK(s)' /\ sockOK(s)' /\ namesPlain(s)'
                 /\ own(s)' = IF j \in 3 .. 4 THEN {nameOf(s, m)} ELSE {}
                 /\ subPlain(s)' /\ proc'[s].port.sd # sockfd_R
                 /\ sockfd_R \in DOMAIN sock'[s] <=> j \in 2 .. 4
                 /\ sockfd_R \in DOMAIN sock'[s] =>
                      /\ signalSock(sock'[s][sockfd_R], IF j \in 3 .. 4 THEN syncAddr(m) ELSE NoAddr)
                      /\ j # 3 => sock'[s][sockfd_R].q = <<>>
    <2>1. /\ \A J : (sends(s, J)' <=> j \in J) /\ ~recvs(s, J)'
          /\ signal(s)' = m
      BY <1>2, AtSend
    <2>2. nameOK(s)' <=> namesPlain(s)' /\ own(s)' = IF j \in 3 .. 4 THEN {nameOf(s, m)} ELSE {}
      <3>1. nameOf(s, signal(s))' = nameOf(s, m)
        BY <2>1 DEF nameOf
      <3> QED BY <2>1, <3>1 DEF nameOK, namesPlain
    <2>3. subOK(s)' <=> subPlain(s)' /\ proc'[s].port.sd # sockfd_R
      BY <2>1 DEF subOK, subPlain
    <2>4. signalSocketOK(s)' <=>
                 /\ sockfd_R \in DOMAIN sock'[s] <=> j \in 2 .. 4
                 /\ sockfd_R \in DOMAIN sock'[s] =>
                      /\ signalSock(sock'[s][sockfd_R], IF j \in 3 .. 4 THEN syncAddr(m) ELSE NoAddr)
                      /\ j # 3 => sock'[s][sockfd_R].q = <<>>
      BY <2>1 DEF signalSocketOK, signalSock
    <2> QED BY <2>2, <2>3, <2>4 DEF own_
  <1> QED BY <1>1, <1>2

subSignal(s, m) ==
  /\ DOMAIN sub[s] = DOMAIN NoSub /\ isSeq(sub[s].evts)
  /\ sub[s].on /\ sub[s].addr = syncAddr(m)

\* What a side has at a call of recvSyncTIPC.
LEMMA OwnRecv ==
  ASSUME NEW s \in Side, NEW m, NEW j
  PROVE  /\ stage(s) = spot("recv", m, j) =>
              (own_(s) <=>
                 /\ openOK(s) /\ sockOK(s) /\ namesPlain(s) /\ own(s) = {}
                 /\ IF j \in 2 .. 10 THEN subSignal(s, m) ELSE subPlain(s) /\ proc[s].port.sd # sockfd_R
                 /\ j = 11 => ~sub[s].on
                 /\ j \in 6 .. 7 => proc[s].bad = 0
                 /\ j = 10 => proc[s].port.sd # sockfd_R
                 /\ sockfd_R \in DOMAIN sock[s] <=> j \in 4 .. 8
                 /\ sockfd_R \in DOMAIN sock[s] =>
                      signalSock(sock[s][sockfd_R], NoAddr) /\ sock[s][sockfd_R].q = <<>>)
         /\ stage(s)' = spot("recv", m, j) =>
              (own_(s)' <=>
                 /\ openOK(s)' /\ sockOK(s)' /\ namesPlain(s)' /\ own(s)' = {}
                 /\ IF j \in 2 .. 10 THEN subSignal(s, m)' ELSE subPlain(s)' /\ proc'[s].port.sd # sockfd_R
                 /\ j = 11 => ~sub'[s].on
                 /\ j \in 6 .. 7 => proc'[s].bad = 0
                 /\ j = 10 => proc'[s].port.sd # sockfd_R
                 /\ sockfd_R \in DOMAIN sock'[s] <=> j \in 4 .. 8
                 /\ sockfd_R \in DOMAIN sock'[s] =>
                      signalSock(sock'[s][sockfd_R], NoAddr) /\ sock'[s][sockfd_R].q = <<>>)
  <1>1. ASSUME stage(s) = spot("recv", m, j)
        PROVE  own_(s) <=>
                 /\ openOK(s) /\ sockOK(s) /\ namesPlain(s) /\ own(s) = {}
                 /\ IF j \in 2 .. 10 THEN subSignal(s, m) ELSE subPlain(s) /\ proc[s].port.sd # sockfd_R
                 /\ j = 11 => ~sub[s].on
                 /\ j \in 6 .. 7 => proc[s].bad = 0
                 /\ j = 10 => proc[s].port.sd # sockfd_R
                 /\ sockfd_R \in DOMAIN sock[s] <=> j \in 4 .. 8
                 /\ sockfd_R \in DOMAIN sock[s] =>
                      signalSock(sock[s][sockfd_R], NoAddr) /\ sock[s][sockfd_R].q = <<>>
    <2>1. (\A J : (recvs(s, J) <=> j \in J) /\ ~sends(s, J)) /\ signal(s) = m
      BY <1>1, AtRecv
    <2>2. nameOK(s) <=> namesPlain(s) /\ own(s) = {}
      BY <2>1 DEF nameOK, namesPlain
    <2>3. subOK(s) <=>
                 /\ IF j \in 2 .. 10 THEN subSignal(s, m) ELSE subPlain(s) /\ proc[s].port.sd # sockfd_R
                 /\ j = 11 => ~sub[s].on
                 /\ j \in 6 .. 7 => proc[s].bad = 0
                 /\ j = 10 => proc[s].port.sd # sockfd_R
      BY <2>1 DEF subOK, subPlain, subSignal
    <2>4. signalSocketOK(s) <=>
                 /\ sockfd_R \in DOMAIN sock[s] <=> j \in 4 .. 8
                 /\ sockfd_R \in DOMAIN sock[s] =>
                      signalSock(sock[s][sockfd_R], NoAddr) /\ sock[s][sockfd_R].q = <<>>
      BY <2>1 DEF signalSocketOK, signalSock
    <2> QED BY <2>2, <2>3, <2>4 DEF own_
  <1>2. ASSUME stage(s)' = spot("recv", m, j)
        PROVE  own_(s)' <=>
                 /\ openOK(s)' /\ sockOK(s)' /\ namesPlain(s)' /\ own(s)' = {}
                 /\ IF j \in 2 .. 10 THEN subSignal(s, m)' ELSE subPlain(s)' /\ proc'[s].port.sd # sockfd_R
                 /\ j = 11 => ~sub'[s].on
                 /\ j \in 6 .. 7 => proc'[s].bad = 0
                 /\ j = 10 => proc'[s].port.sd # sockfd_R
                 /\ sockfd_R \in DOMAIN sock'[s] <=> j \in 4 .. 8
                 /\ sockfd_R \in DOMAIN sock'[s] =>
                      signalSock(sock'[s][sockfd_R], NoAddr) /\ sock'[s][sockfd_R].q = <<>>
    <2>1. (\A J : (recvs(s, J)' <=> j \in J) /\ ~sends(s, J)') /\ signal(s)' = m
      BY <1>2, AtRecv
    <2>2. nameOK(s)' <=> namesPlain(s)' /\ own(s)' = {}
      BY <2>1 DEF nameOK, namesPlain
    <2>3. subOK(s)' <=>
                 /\ IF j \in 2 .. 10 THEN subSignal(s, m)' ELSE subPlain(s)' /\ proc'[s].port.sd # sockfd_R
                 /\ j = 11 => ~sub'[s].on
                 /\ j \in 6 .. 7 => proc'[s].bad = 0
                 /\ j = 10 => proc'[s].port.sd # sockfd_R
      BY <2>1 DEF subOK, subPlain, subSignal
    <2>4. signalSocketOK(s)' <=>
                 /\ sockfd_R \in DOMAIN sock'[s] <=> j \in 4 .. 8
                 /\ sockfd_R \in DOMAIN sock'[s] =>
                      signalSock(sock'[s][sockfd_R], NoAddr) /\ sock'[s][sockfd_R].q = <<>>
      BY <2>1 DEF signalSocketOK, signalSock
    <2> QED BY <2>2, <2>3, <2>4 DEF own_
  <1> QED BY <1>1, <1>2

\* The open sockets change as the call says.
LEMMA OpenKept ==
  ASSUME NEW s \in Side, openOK(s), NEW c, opened(s)' = effect(opened(s), c),
         DOMAIN sock'[s] = effect(DOMAIN sock[s], c)
  PROVE  openOK(s)'
  BY DEF openOK, effect

\* A step of a side in the course of a signal.
LEMMA SignalStep ==
  ASSUME NEW s \in Side, SyncInv, progOK', domains', stays(other(s)), untouched(other(s)), own_(s)',
         \A x \in Side : linkOK(x)', meet(s)', meet(other(s))'
  PROVE  SyncInv'
  <1> DEFINE t == other(s)
  <1>1. t \in Side /\ \A x \in Side : x = s \/ x = t
    BY Sides
  <1>2. own_(t)
    BY <1>1, InvParts
  <1>3. own_(t)'
    BY <1>1, <1>2, OtherSide
  <1> QED BY <1>1, <1>3, InvParts

\* A step of a signal that the other side does not depend on.
LEMMA SameStep ==
  ASSUME NEW s \in Side, SyncInv, progOK', domains', stays(other(s)), untouched(other(s)), own_(s)',
         sameAtoms(s), view(s)' = view(s), beat' = beat, \A x \in Side : linkGrows(x)
  PROVE  SyncInv'
  <1> DEFINE t == other(s)
  <1>1. t \in Side /\ t # s
    BY Sides
  <1>2. own_(t) /\ meet(s) /\ meet(t) /\ \A x \in Side : linkOK(x)
    BY <1>1, InvParts
  <1>3. view(t)' = view(t)
    BY <1>1, <1>2, OtherSide
  <1>4. \A x \in Side : linkOK(x)' /\ alike(link'[x], link[x])
    BY <1>2, LinkGrows
  <1>5. meet(s)' /\ meet(t)'
    BY <1>1, <1>2, <1>3, <1>4, MeetSame DEF stays, untouched
  <1> QED BY <1>4, <1>5, SignalStep

\* Calls of a signal the other side does not depend on.
LEMMA SameSend ==
  ASSUME NEW s, NEW m, stage(s) = spot("send", m, 1), stage(s)' = spot("send", m, 2)
  PROVE  sameAtoms(s)
  <1>1. \A J : (sends(s, J) <=> 1 \in J) /\ ~recvs(s, J) /\ ~open(s)
    BY AtSend
  <1>2. \A J : (sends(s, J)' <=> 2 \in J) /\ ~recvs(s, J)' /\ ~open(s)'
    BY AtSend
  <1> QED BY <1>1, <1>2 DEF sameAtoms

\* The steps of recvSyncTIPC the other side does not notice.
LEMMA SameRecv ==
  ASSUME NEW s, NEW m, NEW j \in 3 .. 10, j # 6, NEW h, h = j + 1,
         stage(s) = spot("recv", m, j), stage(s)' = spot("recv", m, h),
         j < 9 => sub'[s].evts = sub[s].evts, j = 9 => sub[s].evts # <<>>
  PROVE  sameAtoms(s)
  <1>1. /\ \A J : (recvs(s, J) <=> j \in J) /\ ~sends(s, J)
        /\ open(s) <=> j \in 7 .. 9 /\ sub[s].evts = <<>>
        /\ signal(s) = m
    BY AtRecv
  <1>2. /\ \A J : (recvs(s, J)' <=> h \in J) /\ ~sends(s, J)'
        /\ open(s)' <=> h \in 7 .. 9 /\ sub'[s].evts = <<>>
        /\ signal(s)' = m
    BY AtRecv
  <1>3. open(s)' <=> open(s)
    BY <1>1, <1>2
  <1>4. /\ recvs(s, {2})' => recvs(s, {2})
        /\ recvs(s, 3 .. 6)' => recvs(s, 3 .. 6)
        /\ recvs(s, 7 .. 9)' => recvs(s, 7 .. 9)
        /\ recvs(s, 7 .. 11)' <=> recvs(s, 7 .. 11)
        /\ recvs(s, 2 .. 9)' => sub'[s].evts = sub[s].evts
    BY <1>1, <1>2
  <1> QED BY <1>1, <1>2, <1>3, <1>4 DEF sameAtoms

\* The sockets but that of the signal stay as they are.
LEMMA OthersKept ==
  ASSUME NEW s \in Side, sockOK(s),
         DOMAIN sock'[s] \subseteq DOMAIN sock[s] \cup {sockfd_R},
         \A x \in DOMAIN sock'[s] : x # sockfd_R => sock'[s][x] = sock[s][x],
         sockfd_R \in DOMAIN sock'[s] =>
           DOMAIN sock'[s][sockfd_R] = DOMAIN newSocket("RDM") /\ isSeq(sock'[s][sockfd_R].q)
  PROVE  sockOK(s)'
  <1>1. IsFiniteSet(DOMAIN sock'[s])
    <2>1. IsFiniteSet(DOMAIN sock[s] \cup {sockfd_R})
      BY FS_AddElement DEF sockOK
    <2> QED BY <2>1, FS_Subset
  <1>2. ASSUME NEW x \in DOMAIN sock'[s]
        PROVE  /\ DOMAIN sock'[s][x] = DOMAIN newSocket("RDM")
               /\ isSeq(sock'[s][x].q)
               /\ x # sockfd_R => /\ ~sync(sock'[s][x].name) /\ sock'[s][x].peer.sd # sockfd_R
                                  /\ \A i \in 1 .. Len(sock'[s][x].q) : fromTest(sock'[s][x].q[i])
    BY DEF sockOK
  <1> QED BY <1>1, <1>2 DEF sockOK

\* What a side in the course of a signal can rely on.
LEMMA SignalHas ==
  ASSUME NEW s \in Side, SyncInv
  PROVE  /\ progOK /\ domains /\ own_(s) /\ meet(s) /\ meet(other(s)) /\ own_(other(s))
         /\ openOK(s) /\ sockOK(s) /\ \A x \in Side : linkOK(x)
         /\ DOMAIN proc[s] = DOMAIN start(0)
         /\ beat' = beat => beat' \in [Side -> 0 .. 3]
  <1>1. progOK /\ domains /\ \A x \in Side : own_(x) /\ linkOK(x) /\ meet(x)
    BY InvParts
  <1>2. DOMAIN proc[s] = DOMAIN start(0) /\ (beat' = beat => beat' \in [Side -> 0 .. 3])
    BY <1>1 DEF progOK
  <1> QED BY <1>1, <1>2, Sides DEF own_

\* The next state of a side within a signal.
LEMMA SignalNext ==
  ASSUME NEW s \in Side, SyncInv, NEW o, calls(s, o), NEW k \in {"send", "recv"}, NEW m, NEW j,
         stage(s) = spot(k, m, j), NEW p, DOMAIN p = DOMAIN start(0), p.prog = proc[s].prog,
         p.asks = proc[s].asks, p.at = proc[s].at + 1, Goto(s, p),
         UNCHANGED <<status, main, importance>>, beat' \in [Side -> 0 .. 3]
  PROVE  /\ progOK' /\ stays(other(s)) /\ proc'[s] = p /\ opened(s)' = effect(opened(s), call(s))
         /\ moves(s, k, m, j)
  <1>1. goesTo(s, p)
    BY DEF goesTo, Goto
  <1>2. progOK
    BY SignalHas
  <1>3. UNCHANGED <<main, importance>>
    OBVIOUS
  <1> QED BY <1>1, <1>2, <1>3, SignalGoes

\* A call of a signal after which the next one follows.
LEMMA SignalContinue ==
  ASSUME NEW s \in Side, SyncInv, NEW o, calls(s, o), NEW k \in {"send", "recv"}, NEW m, NEW j,
         stage(s) = spot(k, m, j), Continue(s), UNCHANGED <<status, main, importance>>,
         beat' \in [Side -> 0 .. 3]
  PROVE  /\ progOK' /\ stays(other(s)) /\ opened(s)' = effect(opened(s), call(s))
         /\ proc'[s].port = proc[s].port /\ proc'[s].bad = proc[s].bad
         /\ moves(s, k, m, j)
  <1> DEFINE p == go(proc[s], 1)
  <1>1. /\ DOMAIN p = DOMAIN start(0) /\ p.at = proc[s].at + 1
        /\ p.prog = proc[s].prog /\ p.asks = proc[s].asks /\ p.port = proc[s].port
        /\ p.bad = proc[s].bad
    BY SignalHas, GoIs DEF progOK
  <1>2. Goto(s, p)
    BY DEF Continue
  <1> HIDE DEF p
  <1>3. /\ progOK' /\ stays(other(s)) /\ proc'[s] = p /\ opened(s)' = effect(opened(s), call(s))
        /\ moves(s, k, m, j)
    BY <1>1, <1>2, SignalNext
  <1> QED BY <1>1, <1>3

\* The names and the subscription of a side stay as they are.
LEMMA NamesKept ==
  ASSUME NEW s, known'[s] = known[s], sub'[s] = sub[s]
  PROVE  /\ namesPlain(s)' <=> namesPlain(s)
         /\ own(s)' = own(s) /\ view(s)' = view(s)
         /\ subPlain(s)' <=> subPlain(s)
         /\ \A m : subSignal(s, m)' <=> subSignal(s, m)
  BY DEF namesPlain, own, view, subPlain, subSignal

\* Only the sockets of one side change.
LEMMA OneSide ==
  ASSUME NEW s \in Side, domains, NEW f, sock' = [sock EXCEPT ![s] = f], UNCHANGED <<known, sub, link>>
  PROVE  /\ domains' /\ untouched(other(s)) /\ sock'[s] = f /\ known'[s] = known[s] /\ sub'[s] = sub[s]
  BY Sides DEF domains, untouched

\* The socket of a signal is created.
LEMMA SocketSignal ==
  ASSUME NEW s \in Side, SyncInv, NEW m, calls(s, "socket"),
         stage(s) \in {spot("send", m, 1), spot("recv", m, 3)},
         call(s) = createSocketTIPC(sockfd_R, "RDM"), Socket(s)
  PROVE  SyncInv'
  <1> DEFINE f == with(sock[s], sockfd_R, newSocket("RDM"))
  <1>1. /\ sock' = [sock EXCEPT ![s] = f] /\ Continue(s) /\ UNCHANGED <<status, main, importance>>
        /\ beat' = beat /\ UNCHANGED <<known, sub, link>>
    BY DEF Socket, setSock, createSocketTIPC, proceeds
  <1>2. /\ progOK /\ domains /\ own_(s) /\ openOK(s) /\ sockOK(s) /\ beat' \in [Side -> 0 .. 3]
    BY <1>1, SignalHas
  <1>3. /\ domains' /\ untouched(other(s)) /\ sock'[s] = f /\ known'[s] = known[s] /\ sub'[s] = sub[s]
    <2> HIDE DEF f
    <2> QED BY <1>1, <1>2, OneSide
  <1>4. /\ DOMAIN f = DOMAIN sock[s] \cup {sockfd_R} /\ f[sockfd_R] = newSocket("RDM")
        /\ \A x \in DOMAIN f : x # sockfd_R => f[x] = sock[s][x]
    BY DEF with
  <1>5. /\ signalSock(newSocket("RDM"), NoAddr) /\ newSocket("RDM").q = <<>>
    BY DEF signalSock, newSocket
  <1>6. sockOK(s)'
    <2>1. isSeq(newSocket("RDM").q)
      BY <1>5, SeqNone
    <2> HIDE DEF f
    <2> QED BY <1>2, <1>3, <1>4, <2>1, OthersKept
  <1>7. DOMAIN sock'[s] = effect(DOMAIN sock[s], call(s))
    BY <1>3, <1>4 DEF effect, createSocketTIPC
  <1> HIDE DEF f
  <1>8. ASSUME NEW k \in {"send", "recv"}, NEW j, stage(s) = spot(k, m, j)
        PROVE  /\ progOK' /\ stays(other(s)) /\ openOK(s)' /\ proc'[s].port = proc[s].port
               /\ moves(s, k, m, j)
    <2>1. /\ progOK' /\ stays(other(s)) /\ opened(s)' = effect(opened(s), call(s))
          /\ proc'[s].port = proc[s].port /\ moves(s, k, m, j)
      BY <1>1, <1>2, <1>8, SignalContinue
    <2> QED BY <1>2, <1>7, <2>1, OpenKept
  <1>9. /\ namesPlain(s)' <=> namesPlain(s)
        /\ own(s)' = own(s) /\ view(s)' = view(s)
        /\ subPlain(s)' <=> subPlain(s)
        /\ subSignal(s, m)' <=> subSignal(s, m)
    BY <1>3, NamesKept
  <1>10. \A x \in Side : linkGrows(x)
    BY <1>1, NoPackets
  <1>11. CASE stage(s) = spot("send", m, 1)
    <2>1. stage(s)' = spot("send", m, 2) /\ progOK' /\ stays(other(s)) /\ openOK(s)'
          /\ proc'[s].port = proc[s].port
      BY <1>8, <1>11 DEF moves, callsOf
    <2>2. sameAtoms(s)
      BY <1>11, <2>1, SameSend
    <2>3. /\ namesPlain(s) /\ own(s) = {} /\ subPlain(s) /\ proc[s].port.sd # sockfd_R
      BY <1>2, <1>11, OwnSend
    <2>4. own_(s)'
      BY <2>1, <2>3, <1>3, <1>4, <1>5, <1>6, <1>9, OwnSend
    <2> QED BY <1>1, <1>3, <1>9, <1>10, <2>1, <2>2, <2>4, SameStep
  <1>12. CASE stage(s) = spot("recv", m, 3)
    <2>1. stage(s)' = spot("recv", m, 4) /\ progOK' /\ stays(other(s)) /\ openOK(s)'
      BY <1>8, <1>12 DEF moves, callsOf
    <2>2. sameAtoms(s)
      BY <1>3, <1>12, <2>1, SameRecv
    <2>3. /\ namesPlain(s) /\ own(s) = {} /\ subSignal(s, m)
      BY <1>2, <1>12, OwnRecv
    <2>4. own_(s)'
      BY <2>1, <2>3, <1>3, <1>4, <1>5, <1>6, <1>9, OwnRecv
    <2> QED BY <1>1, <1>3, <1>9, <1>10, <2>1, <2>2, <2>4, SameStep
  <1> QED BY <1>11, <1>12

\* The importance of the byte that answers a signal is set.
LEMMA SetOptionSignal ==
  ASSUME NEW s \in Side, SyncInv, NEW m, calls(s, "setopt"), stage(s) = spot("recv", m, 4),
         call(s) = setOption(sockfd_R, "imp", CRITICAL), SetOption(s)
  PROVE  SyncInv'
  <1> DEFINE k == sock[s][sockfd_R]
             o == [k.opt EXCEPT !["imp"] = CRITICAL]
             f == [sock[s] EXCEPT ![sockfd_R] = [k EXCEPT !.opt = o]]
  <1>1. optionValue(s) = CRITICAL /\ CRITICAL \in LOW .. CRITICAL
    BY DEF optionValue, setOption, CRITICAL, LOW
  <1>2. call(s).opt = "imp" /\ call(s).sd = sockfd_R /\ call(s).op = "setopt"
    BY DEF setOption
  <1>3. /\ sock' = [sock EXCEPT ![s] = f] /\ Continue(s) /\ UNCHANGED <<status, main, importance>>
        /\ beat' = beat /\ UNCHANGED <<known, sub, link>>
    BY <1>1, <1>2 DEF SetOption, proceeds
  <1>4. /\ progOK /\ domains /\ own_(s) /\ openOK(s) /\ sockOK(s) /\ beat' \in [Side -> 0 .. 3]
    BY <1>3, SignalHas
  <1>5. /\ namesPlain(s) /\ own(s) = {} /\ subSignal(s, m) /\ sockfd_R \in DOMAIN sock[s]
        /\ signalSock(k, NoAddr) /\ k.q = <<>>
    BY <1>4, OwnRecv
  <1>6. DOMAIN k = DOMAIN newSocket("RDM")
    BY <1>4, <1>5 DEF sockOK
  <1>7. DOMAIN newSocket("RDM") = {"type", "name", "listen", "conn", "peer", "via", "q", "opt"}
    BY DEF newSocket
  <1>8. DOMAIN f = DOMAIN sock[s] /\ f[sockfd_R] = [k EXCEPT !.opt = o]
        /\ \A x \in DOMAIN f : x # sockfd_R => f[x] = sock[s][x]
    BY <1>5
  <1>9. /\ DOMAIN [k EXCEPT !.opt = o] = DOMAIN newSocket("RDM") /\ [k EXCEPT !.opt = o].q = <<>>
        /\ [k EXCEPT !.opt = o].type = k.type /\ [k EXCEPT !.opt = o].conn = k.conn
        /\ [k EXCEPT !.opt = o].name = k.name /\ [k EXCEPT !.opt = o].opt = o
    BY <1>5, <1>6, <1>7
  <1>10. DOMAIN o = DOMAIN k.opt /\ o.dest = k.opt.dest
    BY DEF o
  <1>11. signalSock(f[sockfd_R], NoAddr) /\ f[sockfd_R].q = <<>>
         /\ DOMAIN f[sockfd_R] = DOMAIN newSocket("RDM")
    <2> HIDE DEF f, o
    <2> QED BY <1>5, <1>8, <1>9, <1>10 DEF signalSock
  <1> HIDE DEF f, o
  <1>12. /\ domains' /\ untouched(other(s)) /\ sock'[s] = f /\ known'[s] = known[s] /\ sub'[s] = sub[s]
    BY <1>3, <1>4, OneSide
  <1>13. sockOK(s)'
    BY <1>4, <1>8, <1>11, <1>12, SeqNone, OthersKept
  <1>14. DOMAIN sock'[s] = effect(DOMAIN sock[s], call(s))
    BY <1>2, <1>8, <1>12 DEF effect
  <1>15. /\ progOK' /\ stays(other(s)) /\ opened(s)' = effect(opened(s), call(s)) /\ moves(s, "recv", m, 4)
    BY <1>3, <1>4, SignalContinue
  <1>16. stage(s)' = spot("recv", m, 5) /\ openOK(s)'
    BY <1>4, <1>14, <1>15, OpenKept DEF moves, callsOf
  <1>17. /\ namesPlain(s)' /\ own(s)' = {} /\ view(s)' = view(s) /\ subSignal(s, m)'
    BY <1>5, <1>12, NamesKept
  <1>18. own_(s)'
    <2>1. /\ sockfd_R \in DOMAIN sock'[s] /\ signalSock(sock'[s][sockfd_R], NoAddr)
          /\ sock'[s][sockfd_R].q = <<>>
      BY <1>5, <1>8, <1>11, <1>12
    <2> QED BY <2>1, <1>13, <1>16, <1>17, OwnRecv
  <1>19. sameAtoms(s)
    <2>1. sub'[s].evts = sub[s].evts
      BY <1>12
    <2>2. /\ stage(s) = spot("recv", m, 4) /\ stage(s)' = spot("recv", m, 5)
          /\ 4 \in 3 .. 10 /\ 4 # 6 /\ 5 = 4 + 1 /\ ~(4 = 9)
      BY <1>16
    <2> QED BY <2>1, <2>2, SameRecv
  <1>20. \A x \in Side : linkGrows(x)
    BY <1>3, NoPackets
  <1> QED BY <1>3, <1>12, <1>15, <1>17, <1>18, <1>19, <1>20, SameStep

\* Nothing but the registers of a side changes.
LEMMA OwnKept ==
  ASSUME NEW s \in Side, SyncInv, UNCHANGED tipc, NEW o, calls(s, o),
         o \notin {"socket", "accept", "close"}, opened(s)' = effect(opened(s), call(s))
  PROVE  /\ domains' /\ untouched(s) /\ untouched(other(s)) /\ openOK(s)' /\ sockOK(s)'
         /\ \A x \in Side : linkGrows(x)
  <1>1. /\ domains /\ openOK(s) /\ sockOK(s) /\ call(s).op = o
    BY SignalHas, Placed
  <1>2. sock' = sock /\ known' = known /\ sub' = sub /\ link' = link
    BY DEF tipc
  <1>3. domains' /\ untouched(s) /\ untouched(other(s))
    BY <1>1, <1>2 DEF domains, untouched
  <1>4. opened(s)' = opened(s)
    BY <1>1 DEF effect
  <1>5. openOK(s)' /\ sockOK(s)'
    BY <1>1, <1>2, <1>4 DEF openOK, sockOK
  <1> QED BY <1>2, <1>3, <1>5, NoPackets

\* The count of errors is cleared before the answer.
LEMMA ClearErrorsSignal ==
  ASSUME NEW s \in Side, SyncInv, NEW m, calls(s, "clear"), stage(s) = spot("recv", m, 5), ClearErrors(s)
  PROVE  SyncInv'
  <1> DEFINE p == [go(proc[s], 1) EXCEPT !.bad = 0]
  <1>1. /\ Goto(s, p) /\ UNCHANGED <<status, main, importance>> /\ beat' = beat /\ UNCHANGED tipc
    BY DEF ClearErrors, proceeds
  <1> HIDE DEF p
  <1>2. /\ progOK /\ domains /\ own_(s) /\ DOMAIN proc[s] = DOMAIN start(0) /\ beat' \in [Side -> 0 .. 3]
    BY <1>1, SignalHas
  <1>3. /\ DOMAIN p = DOMAIN start(0) /\ p.at = proc[s].at + 1 /\ p.bad = 0
        /\ p.prog = proc[s].prog /\ p.asks = proc[s].asks /\ p.port = proc[s].port
    <2>1. DOMAIN start(0) = {"prog", "asks", "at", "bad", "a", "b", "c", "got", "port"}
      BY DEF start
    <2>2. /\ DOMAIN go(proc[s], 1) = DOMAIN start(0) /\ go(proc[s], 1).at = proc[s].at + 1
          /\ go(proc[s], 1).prog = proc[s].prog /\ go(proc[s], 1).asks = proc[s].asks
          /\ go(proc[s], 1).port = proc[s].port
      BY <1>2, GoIs
    <2> QED BY <2>1, <2>2 DEF p
  <1>4. /\ progOK' /\ stays(other(s)) /\ proc'[s] = p /\ opened(s)' = effect(opened(s), call(s))
        /\ moves(s, "recv", m, 5)
    BY <1>1, <1>2, <1>3, SignalNext
  <1>5. stage(s)' = spot("recv", m, 6)
    BY <1>4 DEF moves, callsOf
  <1>6. /\ domains' /\ untouched(s) /\ untouched(other(s)) /\ openOK(s)' /\ sockOK(s)'
        /\ \A x \in Side : linkGrows(x)
    BY <1>1, <1>4, OwnKept
  <1>7. /\ namesPlain(s) /\ own(s) = {} /\ subSignal(s, m) /\ sockfd_R \in DOMAIN sock[s]
        /\ signalSock(sock[s][sockfd_R], NoAddr) /\ sock[s][sockfd_R].q = <<>>
    BY <1>2, OwnRecv
  <1>8. /\ namesPlain(s)' /\ own(s)' = {} /\ view(s)' = view(s) /\ subSignal(s, m)'
    BY <1>6, <1>7, NamesKept DEF untouched
  <1>9. sock'[s] = sock[s]
    BY <1>6 DEF untouched
  <1>10. own_(s)'
    BY <1>3, <1>4, <1>5, <1>6, <1>7, <1>8, <1>9, OwnRecv
  <1>11. sameAtoms(s)
    <2>1. sub'[s].evts = sub[s].evts
      BY <1>6 DEF untouched
    <2>2. /\ stage(s) = spot("recv", m, 5) /\ stage(s)' = spot("recv", m, 6)
          /\ 5 \in 3 .. 10 /\ 5 # 6 /\ 6 = 5 + 1 /\ ~(5 = 9)
      BY <1>5
    <2> QED BY <2>1, <2>2, SameRecv
  <1> QED BY <1>1, <1>4, <1>6, <1>8, <1>10, <1>11, SameStep

\* The count of errors is checked after it: there was none.
LEMMA CheckErrorsSignal ==
  ASSUME NEW s \in Side, SyncInv, NEW m, calls(s, "check"), stage(s) = spot("recv", m, 7), CheckErrors(s)
  PROVE  SyncInv'
  <1>1. own_(s)
    BY SignalHas
  <1>2. /\ namesPlain(s) /\ own(s) = {} /\ subSignal(s, m) /\ sockfd_R \in DOMAIN sock[s]
        /\ signalSock(sock[s][sockfd_R], NoAddr) /\ sock[s][sockfd_R].q = <<>> /\ proc[s].bad = 0
    BY <1>1, OwnRecv
  <1>3. /\ Continue(s) /\ UNCHANGED <<status, main, importance>> /\ beat' = beat /\ UNCHANGED tipc
    BY <1>2 DEF CheckErrors, proceeds
  <1>4. beat' \in [Side -> 0 .. 3]
    BY <1>3, SignalHas
  <1>5. /\ progOK' /\ stays(other(s)) /\ opened(s)' = effect(opened(s), call(s)) /\ moves(s, "recv", m, 7)
    BY <1>3, <1>4, SignalContinue
  <1>6. stage(s)' = spot("recv", m, 8)
    BY <1>5 DEF moves, callsOf
  <1>7. /\ domains' /\ untouched(s) /\ untouched(other(s)) /\ openOK(s)' /\ sockOK(s)'
        /\ \A x \in Side : linkGrows(x)
    BY <1>3, <1>5, OwnKept
  <1>8. /\ namesPlain(s)' /\ own(s)' = {} /\ view(s)' = view(s) /\ subSignal(s, m)'
    BY <1>2, <1>7, NamesKept DEF untouched
  <1>9. sock'[s] = sock[s]
    BY <1>7 DEF untouched
  <1>10. own_(s)'
    BY <1>2, <1>6, <1>7, <1>8, <1>9, OwnRecv
  <1>11. sameAtoms(s)
    <2>1. sub'[s].evts = sub[s].evts
      BY <1>7 DEF untouched
    <2>2. /\ stage(s) = spot("recv", m, 7) /\ stage(s)' = spot("recv", m, 8)
          /\ 7 \in 3 .. 10 /\ 7 # 6 /\ 8 = 7 + 1 /\ ~(7 = 9)
      BY <1>6
    <2> QED BY <2>1, <2>2, SameRecv
  <1> QED BY <1>3, <1>5, <1>7, <1>8, <1>10, <1>11, SameStep

\* What closing the socket of a signal does to the sockets and names of a side.
LEMMA CloseIs ==
  ASSUME NEW s \in Side, SyncInv, NEW m, calls(s, "close"), call(s) = closeSocketTIPC(sockfd_R), Close(s)
  PROVE  LET ns == {n \in known[s] : n.port # port(s, sockfd_R)}
         IN  /\ Continue(s) /\ UNCHANGED <<status, main, importance>> /\ beat' = beat
             /\ DOMAIN sock' = Side /\ DOMAIN sock'[s] = effect(DOMAIN sock[s], call(s))
             /\ sockfd_R \notin DOMAIN sock'[s] /\ sockOK(s)' /\ sock'[other(s)] = sock[other(s)]
             /\ DOMAIN known' = Side /\ known'[s] = ns /\ known'[other(s)] = known[other(s)]
             /\ DOMAIN sub' = Side /\ sub'[s] = subscription(s, ns) /\ sub'[other(s)] = sub[other(s)]
             /\ sub' = [sub EXCEPT ![s] = subscription(s, ns)]
             /\ Post(farewell(s, sockfd_R))
             /\ ns = known[s] \ own(s)
  <1> DEFINE ns == {n \in known[s] : n.port # port(s, sockfd_R)}
             f == [y \in DOMAIN sock[s] \ {sockfd_R} |-> sock[s][y]]
  <1>1. call(s).sd = sockfd_R /\ call(s).op = "close"
    BY DEF closeSocketTIPC
  <1>2. /\ Continue(s) /\ UNCHANGED <<status, main, importance>> /\ beat' = beat
        /\ sock' = [sock EXCEPT ![s] = f]
        /\ known' = [known EXCEPT ![s] = ns] /\ sub' = [sub EXCEPT ![s] = subscription(s, ns)]
        /\ Post(farewell(s, sockfd_R))
    BY <1>1 DEF Close, proceeds, SetNames
  <1>3. domains /\ sockOK(s) /\ own_(s) /\ other(s) # s
    BY SignalHas, Sides
  <1>4. /\ DOMAIN f = DOMAIN sock[s] \ {sockfd_R}
        /\ \A x \in DOMAIN f : f[x] = sock[s][x]
    OBVIOUS
  <1>5. ns = known[s] \ own(s)
    <2>1. \A x \in known[s] : sync(x.addr) <=> x.port.sd = sockfd_R
      BY <1>3 DEF own_, nameOK
    <2>2. \A x \in own(s) : x.addr = syncAddr(signal(s)) /\ x.port = port(s, sockfd_R)
      BY <1>3 DEF own_, nameOK, nameOf
    <2>3. port(s, sockfd_R).side = s /\ port(s, sockfd_R).sd = sockfd_R
      BY DEF port
    <2> QED BY <2>1, <2>2, <2>3 DEF own
  <1> HIDE DEF f, ns
  <1>6. /\ DOMAIN sock' = Side /\ sock'[s] = f /\ sock'[other(s)] = sock[other(s)]
        /\ DOMAIN known' = Side /\ known'[s] = ns /\ known'[other(s)] = known[other(s)]
        /\ DOMAIN sub' = Side /\ sub'[s] = subscription(s, ns) /\ sub'[other(s)] = sub[other(s)]
    BY <1>2, <1>3, Sides DEF domains
  <1>7. DOMAIN sock'[s] = effect(DOMAIN sock[s], call(s)) /\ sockfd_R \notin DOMAIN sock'[s]
    BY <1>1, <1>4, <1>6 DEF effect
  <1>8. sockOK(s)'
    BY <1>3, <1>4, <1>6, OthersKept
  <1> QED BY <1>2, <1>5, <1>6, <1>7, <1>8 DEF ns

\* Names that do not change give no event.
LEMMA NoEvent ==
  ASSUME NEW s
  PROVE  subscription(s, known[s]) = sub[s]
  BY DEF subscription

\* No sequences one after the other.
LEMMA FlattenNone == FlattenSeq(<<>>) = <<>>
  <1>1. Len(<<>>) = 0
    BY SeqNone
  <1> QED BY <1>1 DEF FlattenSeq

\* recvSyncTIPC closes its socket.
LEMMA CloseRecv ==
  ASSUME NEW s \in Side, SyncInv, NEW m, calls(s, "close"), stage(s) = spot("recv", m, 8),
         call(s) = closeSocketTIPC(sockfd_R), Close(s)
  PROVE  SyncInv'
  <1> DEFINE ns == {n \in known[s] : n.port # port(s, sockfd_R)}
  <1>1. /\ Continue(s) /\ UNCHANGED <<status, main, importance>> /\ beat' = beat
        /\ DOMAIN sock' = Side /\ DOMAIN sock'[s] = effect(DOMAIN sock[s], call(s))
        /\ sockfd_R \notin DOMAIN sock'[s] /\ sockOK(s)' /\ sock'[other(s)] = sock[other(s)]
        /\ DOMAIN known' = Side /\ known'[s] = ns /\ known'[other(s)] = known[other(s)]
        /\ DOMAIN sub' = Side /\ sub'[s] = subscription(s, ns) /\ sub'[other(s)] = sub[other(s)]
        /\ Post(farewell(s, sockfd_R)) /\ ns = known[s] \ own(s)
    BY CloseIs
  <1> HIDE DEF ns
  <1>2. /\ progOK /\ domains /\ own_(s) /\ openOK(s) /\ sockOK(s) /\ beat' \in [Side -> 0 .. 3]
    BY <1>1, SignalHas
  <1>3. /\ namesPlain(s) /\ own(s) = {} /\ subSignal(s, m) /\ sockfd_R \in DOMAIN sock[s]
        /\ signalSock(sock[s][sockfd_R], NoAddr) /\ sock[s][sockfd_R].q = <<>>
    BY <1>2, OwnRecv
  <1>4. known'[s] = known[s] /\ sub'[s] = sub[s] /\ untouched(other(s))
    <2>1. ns = known[s]
      BY <1>1, <1>3
    <2> QED BY <1>1, <2>1, NoEvent DEF untouched
  <1>5. farewell(s, sockfd_R) = <<>>
    <2> DEFINE returned(p) == IF p.k \in {"data", "syn"} \/ p.keep
                              THEN <<errorFor(p, port(s, sockfd_R), "NO_PORT")>> ELSE <<>>
               g == [i \in 1 .. 0 |-> returned(sock[s][sockfd_R].q[i])]
    <2>1. sock[s][sockfd_R].name = NoAddr /\ sock[s][sockfd_R].conn = "no" /\ Len(sock[s][sockfd_R].q) = 0
      BY <1>3, SeqNone DEF signalSock
    <2>2. FlattenSeq(g) = <<>>
      <3>1. g = <<>>
        OBVIOUS
      <3>2. FlattenSeq(<<>>) = <<>>
        BY FlattenNone
      <3> QED BY <3>1, <3>2
    <2>3. farewell(s, sockfd_R) = <<>> \o FlattenSeq(g)
      BY <2>1 DEF farewell
    <2> HIDE DEF g
    <2> QED BY <2>2, <2>3
  <1>6. DOMAIN link' = Side /\ \A x \in Side : linkGrows(x)
    <2>1. cleanSeq(<<>>)
      BY SeqNone DEF cleanSeq
    <2> QED BY <1>1, <1>5, <2>1, Posts
  <1>7. /\ progOK' /\ stays(other(s)) /\ opened(s)' = effect(opened(s), call(s)) /\ moves(s, "recv", m, 8)
    BY <1>1, <1>2, SignalContinue
  <1>8. stage(s)' = spot("recv", m, 9) /\ openOK(s)'
    BY <1>1, <1>2, <1>7, OpenKept DEF moves, callsOf
  <1>9. /\ namesPlain(s)' /\ own(s)' = {} /\ view(s)' = view(s) /\ subSignal(s, m)'
    BY <1>3, <1>4, NamesKept
  <1>10. own_(s)'
    BY <1>1, <1>8, <1>9, OwnRecv
  <1>11. sameAtoms(s)
    <2>1. sub'[s].evts = sub[s].evts
      BY <1>4
    <2>2. /\ stage(s) = spot("recv", m, 8) /\ stage(s)' = spot("recv", m, 9)
          /\ 8 \in 3 .. 10 /\ 8 # 6 /\ 9 = 8 + 1 /\ ~(8 = 9)
      BY <1>8
    <2> QED BY <2>1, <2>2, SameRecv
  <1>12. domains'
    BY <1>1, <1>6 DEF domains
  <1> QED BY <1>1, <1>4, <1>6, <1>7, <1>9, <1>10, <1>11, <1>12, SameStep

\* A side takes the event it waits for.
LEMMA EventIs ==
  ASSUME NEW s \in Side, SyncInv, NEW m, NEW j \in {2, 9}, calls(s, "event"), stage(s) = spot("recv", m, j),
         Event(s), Head(sub[s].evts).k = call(s).want
  PROVE  /\ progOK' /\ domains' /\ stays(other(s)) /\ untouched(other(s)) /\ openOK(s)' /\ sockOK(s)'
         /\ sock'[s] = sock[s] /\ known'[s] = known[s] /\ subSignal(s, m)' /\ beat' = beat
         /\ sub[s].evts # <<>> /\ isSeq(sub[s].evts) /\ sub'[s].evts = Tail(sub[s].evts)
         /\ proc'[s].port = Head(sub[s].evts).port /\ moves(s, "recv", m, j)
         /\ namesPlain(s)' /\ own(s)' = {} /\ view(s)' = view(s)
         /\ \A x \in Side : linkGrows(x)
  <1> DEFINE e == [sub[s] EXCEPT !.evts = Tail(sub[s].evts)]
             p == [go(proc[s], 1) EXCEPT !.port = Head(sub[s].evts).port]
  <1>1. /\ sub[s].evts # <<>> /\ sub' = [sub EXCEPT ![s] = e] /\ Goto(s, p)
        /\ UNCHANGED <<status, main, importance>> /\ beat' = beat
        /\ sock' = sock /\ known' = known /\ link' = link
    BY DEF Event, proceeds
  <1>2. /\ progOK /\ domains /\ own_(s) /\ openOK(s) /\ sockOK(s) /\ DOMAIN proc[s] = DOMAIN start(0)
        /\ beat' \in [Side -> 0 .. 3] /\ other(s) # s /\ other(s) \in Side
    <2>1. beat' = beat
      BY <1>1
    <2> HIDE DEF e, p
    <2> QED BY <2>1, SignalHas, Sides
  <1>3. /\ namesPlain(s) /\ own(s) = {} /\ subSignal(s, m)
    BY <1>2, OwnRecv
  <1>4. /\ DOMAIN p = DOMAIN start(0) /\ p.at = proc[s].at + 1 /\ p.port = Head(sub[s].evts).port
        /\ p.prog = proc[s].prog /\ p.asks = proc[s].asks
    <2>1. DOMAIN start(0) = {"prog", "asks", "at", "bad", "a", "b", "c", "got", "port"}
      BY DEF start
    <2>2. /\ DOMAIN go(proc[s], 1) = DOMAIN start(0) /\ go(proc[s], 1).at = proc[s].at + 1
          /\ go(proc[s], 1).prog = proc[s].prog /\ go(proc[s], 1).asks = proc[s].asks
      BY <1>2, GoIs
    <2> QED BY <2>1, <2>2
  <1>5. /\ isSeq(sub[s].evts) /\ isSeq(e.evts) /\ e.evts = Tail(sub[s].evts)
        /\ DOMAIN e = DOMAIN NoSub /\ e.on /\ e.addr = syncAddr(m)
    <2>1. isSeq(sub[s].evts) /\ DOMAIN sub[s] = DOMAIN NoSub /\ sub[s].on /\ sub[s].addr = syncAddr(m)
      BY <1>3 DEF subSignal
    <2>2. DOMAIN NoSub = {"on", "addr", "evts"}
      BY DEF NoSub
    <2>3. isSeq(Tail(sub[s].evts))
      <3> DEFINE q == sub[s].evts
      <3>1. isSeq(q) /\ q # <<>>
        BY <1>1, <2>1
      <3> HIDE DEF q
      <3>2. isSeq(Tail(q))
        BY <3>1, SeqTail
      <3> QED BY <3>2 DEF q
    <2> QED BY <2>1, <2>2, <2>3
  <1> HIDE DEF e, p
  <1>6. /\ progOK' /\ stays(other(s)) /\ proc'[s] = p /\ opened(s)' = effect(opened(s), call(s))
        /\ moves(s, "recv", m, j)
    BY <1>1, <1>2, <1>4, SignalNext
  <1>7. openOK(s)' /\ sockOK(s)'
    <2>1. call(s).op = "event"
      BY <1>2, Placed
    <2>2. opened(s)' = opened(s)
      BY <1>6, <2>1 DEF effect
    <2> QED BY <1>1, <1>2, <2>2 DEF openOK, sockOK
  <1>8. sub'[s] = e /\ domains' /\ untouched(other(s)) /\ sock'[s] = sock[s] /\ known'[s] = known[s]
    BY <1>1, <1>2 DEF domains, untouched
  <1>9. subSignal(s, m)' /\ sub'[s].evts = Tail(sub[s].evts)
    BY <1>5, <1>8 DEF subSignal
  <1>10. namesPlain(s)' /\ own(s)' = {} /\ view(s)' = view(s)
    BY <1>3, <1>8 DEF namesPlain, own, view
  <1>11. \A x \in Side : linkGrows(x)
    BY <1>1, NoPackets
  <1> QED BY <1>1, <1>4, <1>5, <1>6, <1>7, <1>8, <1>9, <1>10, <1>11

\* recvSyncTIPC hears of the withdrawal.
LEMMA EventWithdrawn ==
  ASSUME NEW s \in Side, SyncInv, NEW m, calls(s, "event"), stage(s) = spot("recv", m, 9),
         call(s) = event("WITHDRAWN"), Event(s)
  PROVE  SyncInv'
  <1>1. own_(s) /\ meet(s)
    BY SignalHas
  <1>2. sub[s].evts # <<>>
    BY DEF Event
  <1>3. sub[s].evts[1] = [k |-> "WITHDRAWN", port |-> NoPort]
    <2>1. recvs(s, 7 .. 9)
      BY DEF spot, recvs
    <2> QED BY <1>1, <1>2, <2>1 DEF meet, meetOK
  <1>4. isSeq(sub[s].evts)
    BY <1>1, OwnRecv DEF subSignal
  <1>5. Head(sub[s].evts) = [k |-> "WITHDRAWN", port |-> NoPort]
    <2> DEFINE q == sub[s].evts
    <2>1. isSeq(q) /\ q # <<>>
      BY <1>2, <1>4
    <2> HIDE DEF q
    <2>2. Head(q) = q[1]
      BY <2>1, SeqTail
    <2> QED BY <2>2, <1>3 DEF q
  <1>6. call(s).want = "WITHDRAWN"
    BY DEF event
  <1>7. /\ progOK' /\ domains' /\ stays(other(s)) /\ untouched(other(s)) /\ openOK(s)' /\ sockOK(s)'
        /\ sock'[s] = sock[s] /\ known'[s] = known[s] /\ subSignal(s, m)' /\ beat' = beat
        /\ proc'[s].port = Head(sub[s].evts).port /\ moves(s, "recv", m, 9)
        /\ namesPlain(s)' /\ own(s)' = {} /\ view(s)' = view(s)
        /\ \A x \in Side : linkGrows(x)
    BY <1>5, <1>6, EventIs
  <1>8. stage(s)' = spot("recv", m, 10)
    BY <1>7 DEF moves, callsOf
  <1>9. proc'[s].port.sd # sockfd_R
    <2>1. Head(sub[s].evts).port = NoPort
      BY <1>5
    <2>2. NoPort.sd # sockfd_R
      BY DEF NoPort, sockfd_R
    <2> QED BY <1>7, <2>1, <2>2
  <1>10. sockfd_R \notin DOMAIN sock'[s]
    BY <1>1, <1>7, OwnRecv
  <1>11. own_(s)'
    BY <1>7, <1>8, <1>9, <1>10, OwnRecv
  <1>12. sameAtoms(s)
    <2>1. /\ stage(s) = spot("recv", m, 9) /\ stage(s)' = spot("recv", m, 10)
          /\ 9 \in 3 .. 10 /\ 9 # 6 /\ 10 = 9 + 1 /\ ~(9 < 9)
      BY <1>8
    <2> QED BY <1>2, <2>1, SameRecv
  <1> QED BY <1>7, <1>11, <1>12, SameStep

\* recvSyncTIPC ends its subscription.
LEMMA UnsubscribeSignal ==
  ASSUME NEW s \in Side, SyncInv, NEW m, calls(s, "unsubscribe"), stage(s) = spot("recv", m, 10),
         Unsubscribe(s)
  PROVE  SyncInv'
  <1>1. /\ sub' = [sub EXCEPT ![s] = NoSub] /\ Continue(s)
        /\ UNCHANGED <<status, main, importance>> /\ beat' = beat
        /\ sock' = sock /\ known' = known /\ link' = link
    BY DEF Unsubscribe, proceeds
  <1>2. /\ progOK /\ domains /\ own_(s) /\ openOK(s) /\ sockOK(s)
        /\ beat' \in [Side -> 0 .. 3] /\ other(s) # s /\ other(s) \in Side
    BY <1>1, SignalHas, Sides
  <1>3. /\ namesPlain(s) /\ own(s) = {} /\ proc[s].port.sd # sockfd_R /\ sockfd_R \notin DOMAIN sock[s]
    BY <1>2, OwnRecv
  <1>4. /\ progOK' /\ stays(other(s)) /\ opened(s)' = effect(opened(s), call(s))
        /\ proc'[s].port = proc[s].port /\ moves(s, "recv", m, 10)
    BY <1>1, <1>2, SignalContinue
  <1>5. stage(s)' = spot("recv", m, 11)
    BY <1>4 DEF moves, callsOf
  <1>6. openOK(s)' /\ sockOK(s)'
    <2>1. call(s).op = "unsubscribe"
      BY <1>2, Placed
    <2>2. opened(s)' = opened(s)
      BY <1>4, <2>1 DEF effect
    <2> QED BY <1>1, <1>2, <2>2 DEF openOK, sockOK
  <1>7. /\ sub'[s] = NoSub /\ domains' /\ untouched(other(s)) /\ sock'[s] = sock[s]
        /\ known'[s] = known[s]
    BY <1>1, <1>2 DEF domains, untouched
  <1>8. subPlain(s)' /\ ~sub'[s].on
    BY <1>7, NoSubPlain DEF subPlain
  <1>9. namesPlain(s)' /\ own(s)' = {} /\ view(s)' = view(s)
    BY <1>3, <1>7 DEF namesPlain, own, view
  <1>10. own_(s)'
    BY <1>3, <1>4, <1>5, <1>6, <1>7, <1>8, <1>9, OwnRecv
  <1>11. sameAtoms(s)
    <2>1. /\ stage(s) = spot("recv", m, 10) /\ stage(s)' = spot("recv", m, 11)
          /\ 10 \in 3 .. 10 /\ 10 # 6 /\ 11 = 10 + 1 /\ ~(10 < 9) /\ ~(10 = 9)
      BY <1>5
    <2> QED BY <2>1, SameRecv
  <1>12. \A x \in Side : linkGrows(x)
    BY <1>1, NoPackets
  <1> QED BY <1>1, <1>4, <1>7, <1>9, <1>10, <1>11, <1>12, SameStep

\* A packet of a signal is sent.
LEMMA LinkMarked ==
  ASSUME NEW x \in Side, linkOK(x), NEW p, Marked(p), markedOK(x, p), link'[x] = link[x] \o <<p>>
  PROVE  linkOK(x)'
  <1> DEFINE q == link[x]
  <1>1. isSeq(q) /\ link'[x] = q \o <<p>>
    BY DEF linkOK
  <1>2. \A i \in 1 .. Len(q) : IF Marked(q[i]) THEN markedOK(x, q[i]) ELSE plainOK(q[i])
    BY DEF linkOK
  <1> HIDE DEF q
  <1>3. /\ isSeq(Append(q, p)) /\ Len(Append(q, p)) = Len(q) + 1 /\ Len(q) \in Nat
        /\ \A i \in 1 .. Len(q) : Append(q, p)[i] = q[i]
        /\ Append(q, p)[Len(q) + 1] = p /\ Append(q, p) = q \o <<p>>
    BY <1>1, SeqAppend
  <1> DEFINE r == Append(q, p)
  <1>4. ASSUME NEW i \in 1 .. Len(r)
        PROVE  IF Marked(r[i]) THEN markedOK(x, r[i]) ELSE plainOK(r[i])
    <2>1. i \in 1 .. Len(q) \/ i = Len(q) + 1
      BY <1>3
    <2>2. CASE i \in 1 .. Len(q)
      <3>1. r[i] = q[i]
        BY <2>2, <1>3
      <3> HIDE DEF r
      <3> QED BY <2>2, <3>1, <1>2
    <2>3. CASE i = Len(q) + 1
      <3>1. r[i] = p
        BY <2>3, <1>3
      <3> HIDE DEF r
      <3> QED BY <3>1
    <2> QED BY <2>1, <2>2, <2>3
  <1>5. link'[x] = r /\ isSeq(r)
    BY <1>1, <1>3
  <1> HIDE DEF r
  <1>6. \A y : markedOK(x, y)' <=> markedOK(x, y)
    BY DEF markedOK
  <1> QED BY <1>4, <1>5, <1>6 DEF linkOK

\* What the other side is at while it waits.
LEMMA OtherStays ==
  ASSUME NEW t, stays(t), untouched(t)
  PROVE  /\ \A J : (sends(t, J)' <=> sends(t, J)) /\ (recvs(t, J)' <=> recvs(t, J))
         /\ signal(t)' = signal(t) /\ (open(t)' <=> open(t)) /\ (late(t)' <=> late(t))
         /\ sub'[t] = sub[t] /\ sock'[t] = sock[t] /\ view(t)' = view(t)
         /\ \A m : nameOf(t, m)' = nameOf(t, m)
  <1>1. /\ \A J : (sends(t, J)' <=> sends(t, J)) /\ (recvs(t, J)' <=> recvs(t, J))
        /\ signal(t)' = signal(t)
    BY DEF stays, sends, recvs, signal
  <1>2. sub'[t] = sub[t] /\ sock'[t] = sock[t] /\ view(t)' = view(t)
    BY DEF untouched, view
  <1>3. (open(t)' <=> open(t)) /\ (late(t)' <=> late(t))
    BY <1>1, <1>2 DEF open, late
  <1> QED BY <1>1, <1>2, <1>3 DEF nameOf

\* The name of the signal is published: the other side has heard nothing of the
\* signal yet, or only that the one before has ended.
LEMMA BindMeet ==
  ASSUME NEW s \in Side, NEW t \in Side, t = other(s), NEW m, stage(s) = spot("send", m, 2),
         stage(s)' = spot("send", m, 3), stays(t), untouched(t), view(s)' = view(s), beat' = beat,
         link'[s] = link[s], NEW p, Marked(p), p.k = "publish", p.addr = syncAddr(m),
         link'[t] = link[t] \o <<p>>, isSeq(link[t]), sock'[s][sockfd_R].q = <<>>, meet(s), meet(t)
  PROVE  meet(s)' /\ meet(t)'
  <1>1. other(t) = s /\ s # t
    BY Sides
  <1>2. /\ \A J : (sends(t, J)' <=> sends(t, J)) /\ (recvs(t, J)' <=> recvs(t, J))
        /\ signal(t)' = signal(t) /\ (open(t)' <=> open(t)) /\ (late(t)' <=> late(t))
        /\ sub'[t] = sub[t] /\ sock'[t] = sock[t] /\ view(t)' = view(t)
    BY OtherStays
  <1>3. /\ ~sends(s, 3 .. 4) /\ ~sends(s, {3}) /\ ~sends(s, {4}) /\ ~sends(s, {5}) /\ ~sends(s, 3 .. 5)
        /\ ~recvs(s, {2}) /\ ~recvs(s, 3 .. 6) /\ ~recvs(s, 7 .. 9) /\ ~recvs(s, 7 .. 11) /\ ~open(s)
    BY AtSend
  <1>4. /\ sends(s, 3 .. 4)' /\ sends(s, {3})' /\ ~sends(s, {4})' /\ ~sends(s, {5})' /\ sends(s, 3 .. 5)'
        /\ ~recvs(s, {2})' /\ ~recvs(s, 3 .. 6)' /\ ~recvs(s, 7 .. 9)' /\ ~recvs(s, 7 .. 11)' /\ ~open(s)'
        /\ signal(s)' = m
    BY AtSend
  <1>5. ahead(s, t)' = ahead(s, t) /\ ahead(t, s)' = ahead(t, s)
    BY DEF ahead
  <1>6. ~answering(t) /\ ~answering(t)' /\ ~answering(s)
    BY <1>1, <1>3, <1>4 DEF answering
  <1>7. /\ ~under(link[t], "named") /\ ~under(link[s], "named")
        /\ IF sends(t, {3}) THEN sock[t][sockfd_R].q = <<>> ELSE TRUE
    BY <1>3, <1>6, UnderOne DEF meet, ackOK
  <1>8. open(t) => ahead(s, t) = 1
    <2>1. open(t) => recvs(t, 7 .. 11)
      BY DEF open, recvs
    <2> QED BY <1>1, <1>3, <2>1 DEF meet, meetOK
  <1>9. viewOK(t)' /\ ~under(link'[t], "named")
    <2> DEFINE q == link[t]
    <2>1. /\ marks(q) = {} => under(q \o <<p>>, "publish") /\ underNamed(q \o <<p>>, "publish", m)
          /\ under(q, "withdraw") => underBoth(q \o <<p>>, m)
      <3>1. isSeq(q)
        OBVIOUS
      <3> HIDE DEF q
      <3> QED BY <3>1, JoinMarked
    <2>2. /\ marks(link[t]) = {} => under(link'[t], "publish") /\ underNamed(link'[t], "publish", m)
          /\ under(link[t], "withdraw") => underBoth(link'[t], m)
      BY <2>1
    <2> HIDE DEF q
    <2>3. /\ under(link'[t], "publish") => ~under(link'[t], "named")
          /\ underBoth(link'[t], m) => ~under(link'[t], "named")
      <3>1. under(link'[t], "publish") /\ under(link'[t], "named") => "publish" = "named"
        BY UnderOne
      <3>2. underBoth(link'[t], m) => ~under(link'[t], "named")
        BY UnderOne
      <3> QED BY <3>1, <3>2
    <2>4. \/ view(t) = {} /\ marks(link[t]) = {}
          \/ open(t) /\ view(t) = {nameOf(s, signal(t))} /\ under(link[t], "withdraw")
      BY <1>1, <1>3, <1>7 DEF meet, viewOK
    <2>5. CASE view(t) = {} /\ marks(link[t]) = {}
      <3>1. view(t)' = {} /\ sends(s, 3 .. 4)' /\ underNamed(link'[t], "publish", signal(s)')
        BY <2>5, <2>2, <1>2, <1>4
      <3> QED BY <1>1, <2>2, <2>3, <2>5, <3>1 DEF viewOK
    <2>6. CASE open(t) /\ view(t) = {nameOf(s, signal(t))} /\ under(link[t], "withdraw")
      <3>1. /\ open(t)' /\ view(t)' = {nameOf(s, signal(t)')} /\ sends(s, {3})' /\ ahead(s, t)' = 1
            /\ underBoth(link'[t], signal(s)')
        BY <2>6, <2>2, <1>2, <1>4, <1>5, <1>8
      <3>2. view(t)' = {nameOf(s, signal(t))'}
        BY <3>1 DEF nameOf
      <3> QED BY <1>1, <2>2, <2>3, <2>6, <3>1, <3>2 DEF viewOK
    <2> QED BY <2>4, <2>5, <2>6
  <1>10. viewOK(s)'
    <2>1. viewOK(s)
      BY DEF meet
    <2>2. nameOf(t, signal(t))' = nameOf(t, signal(t))
      BY <1>2 DEF nameOf
    <2> QED BY <2>1, <2>2, <1>1, <1>2, <1>3, <1>4 DEF viewOK
  <1>11. ackOK(s)'
    BY <1>4, <1>7 DEF ackOK
  <1>12. ackOK(t)'
    BY <1>2, <1>7, <1>9 DEF ackOK
  <1>13. meetOK(s)'
    <2>1. beat'[s] = beat'[t] \/ (ahead(s, t)' = 1 /\ late(t)') \/ (ahead(t, s)' = 1 /\ late(s)')
      <3>1. ~late(s) /\ ~late(s)'
        BY <1>3, <1>4 DEF late
      <3> QED BY <3>1, <1>2, <1>5 DEF meet, meetOK
    <2> QED BY <2>1, <1>4 DEF meetOK
  <1>14. meetOK(t)'
    <2>1. ~late(s) /\ ~late(s)'
      BY <1>3, <1>4 DEF late
    <2>2. meetOK(t)
      BY DEF meet
    <2>3. beat'[t] = beat'[s] \/ (ahead(t, s)' = 1 /\ late(s)') \/ (ahead(s, t)' = 1 /\ late(t)')
      BY <1>1, <1>2, <1>5, <2>1, <2>2 DEF meetOK
    <2>4. ~sends(t, {4})' /\ (sends(t, {5})' => ahead(s, t)' = 1) /\ ~recvs(t, 3 .. 6)'
          /\ (recvs(t, 7 .. 11)' => ahead(s, t)' = 1)
      BY <1>1, <1>2, <1>3, <1>5, <1>6, <2>2 DEF meetOK
    <2>5. /\ recvs(t, {2})' => IF nameOf(s, signal(t)') \in view(t)'
                               THEN Len(sub'[t].evts) = 1 /\ sub'[t].evts[1].k = "PUBLISHED"
                               ELSE sub'[t].evts = <<>>
          /\ recvs(t, 7 .. 9)' => IF sub'[t].evts = <<>> THEN view(t)' = {nameOf(s, signal(t)')}
                                  ELSE sub'[t].evts[1] = [k |-> "WITHDRAWN", port |-> NoPort]
      BY <1>1, <1>2, <2>2 DEF meetOK
    <2>6. \A n : nameOf(s, n)' = nameOf(s, n)
      BY DEF nameOf
    <2> QED BY <1>1, <2>3, <2>4, <2>5, <2>6 DEF meetOK
  <1> QED BY <1>9, <1>10, <1>11, <1>12, <1>13, <1>14 DEF meet

\* The names of the signals and the other ones.
LEMMA SyncAddr ==
  ASSUME NEW m
  PROVE  sync(syncAddr(m)) /\ ~sync(NoAddr) /\ ~sync(setServerAddr) /\ syncAddr(m) # NoAddr
  BY DEF sync, syncAddr, setServerAddrTo, TS_SYNCRO_TYPE, NoAddr, setServerAddr, TS_TEST_TYPE

\* sendSyncTIPC publishes the name of a signal.
LEMMA BindSignal ==
  ASSUME NEW s \in Side, SyncInv, NEW m, calls(s, "bind"), stage(s) = spot("send", m, 2),
         call(s) = bindSocketTIPC(sockfd_R, syncAddr(m)), Bind(s)
  PROVE  SyncInv'
  <1> DEFINE t == other(s)
             k == [sock[s][sockfd_R] EXCEPT !.name = syncAddr(m)]
             f == [sock[s] EXCEPT ![sockfd_R] = k]
             e == nameOf(s, m)
             ns == known[s] \cup {e}
             pub == [packet("publish", t, port(s, sockfd_R), "") EXCEPT !.addr = syncAddr(m)]
  <1>1. call(s).op = "bind" /\ call(s).sd = sockfd_R /\ call(s).addr = syncAddr(m)
    BY DEF bindSocketTIPC
  <1>2. /\ sock' = [sock EXCEPT ![s] = f] /\ Continue(s) /\ UNCHANGED <<status, main, importance>>
        /\ beat' = beat /\ known' = [known EXCEPT ![s] = ns]
        /\ sub' = [sub EXCEPT ![s] = subscription(s, ns)] /\ Post(<<pub>>)
    BY <1>1 DEF Bind, SetNames, proceeds, nameOf
  <1>3. /\ pub.k = "publish" /\ pub.dst = t /\ pub.from = port(s, sockfd_R) /\ pub.addr = syncAddr(m)
    BY DEF packet
  <1> HIDE DEF pub, ns
  <1>4. /\ progOK /\ domains /\ own_(s) /\ openOK(s) /\ sockOK(s) /\ meet(s) /\ meet(t)
        /\ beat' \in [Side -> 0 .. 3] /\ t # s /\ t \in Side /\ other(t) = s
        /\ \A x \in Side : linkOK(x) /\ (x = s \/ x = t)
    BY <1>2, SignalHas, Sides
  <1>5. /\ namesPlain(s) /\ own(s) = {} /\ subPlain(s) /\ proc[s].port.sd # sockfd_R
        /\ sockfd_R \in DOMAIN sock[s] /\ signalSock(sock[s][sockfd_R], NoAddr)
        /\ sock[s][sockfd_R].q = <<>>
    BY <1>4, OwnSend
  <1>6. /\ DOMAIN f = DOMAIN sock[s] /\ f[sockfd_R] = k
        /\ \A x \in DOMAIN f : x # sockfd_R => f[x] = sock[s][x]
    BY <1>5
  <1>7. /\ DOMAIN k = DOMAIN newSocket("RDM") /\ k.q = <<>> /\ signalSock(k, syncAddr(m))
    <2>1. DOMAIN sock[s][sockfd_R] = DOMAIN newSocket("RDM")
      BY <1>4, <1>5 DEF sockOK
    <2>2. DOMAIN newSocket("RDM") = {"type", "name", "listen", "conn", "peer", "via", "q", "opt"}
      BY DEF newSocket
    <2>3. k.type = sock[s][sockfd_R].type /\ k.conn = sock[s][sockfd_R].conn
          /\ k.opt = sock[s][sockfd_R].opt /\ k.name = syncAddr(m) /\ k.q = <<>>
          /\ DOMAIN k = DOMAIN newSocket("RDM")
      BY <2>1, <2>2, <1>5
    <2> HIDE DEF k
    <2> QED BY <2>3, <1>5 DEF signalSock
  <1> HIDE DEF k, f
  <1>8. /\ sock'[s] = f /\ known'[s] = ns /\ sub'[s] = subscription(s, ns)
        /\ DOMAIN sock' = Side /\ DOMAIN known' = Side /\ DOMAIN sub' = Side /\ untouched(t)
    BY <1>2, <1>4 DEF domains, untouched
  <1>9. sockOK(s)'
    BY <1>4, <1>6, <1>7, <1>8, SeqNone, OthersKept
  <1>10. DOMAIN sock'[s] = effect(DOMAIN sock[s], call(s))
    BY <1>1, <1>6, <1>8 DEF effect
  <1>11. /\ progOK' /\ stays(t) /\ opened(s)' = effect(opened(s), call(s))
         /\ proc'[s].port = proc[s].port /\ moves(s, "send", m, 2)
    BY <1>2, <1>4, SignalContinue
  <1>12. stage(s)' = spot("send", m, 3) /\ openOK(s)'
    BY <1>4, <1>10, <1>11, OpenKept DEF moves, callsOf
  <1>13. /\ e.port.sd = sockfd_R /\ e.port.side = s /\ sync(e.addr)
    BY SyncAddr DEF nameOf, port
  <1> HIDE DEF e
  <1>14. IsFiniteSet(ns) /\ \A x \in ns : sync(x.addr) <=> x.port.sd = sockfd_R
    <2>1. IsFiniteSet(known[s]) /\ \A y \in known[s] : sync(y.addr) <=> y.port.sd = sockfd_R
      BY <1>5 DEF namesPlain
    <2>2. IsFiniteSet(ns)
      BY <2>1, FS_AddElement DEF ns
    <2> QED BY <2>1, <2>2, <1>13 DEF ns
  <1>15. namesPlain(s)' /\ own(s)' = {e} /\ view(s)' = view(s)
    <2>1. namesPlain(s)'
      BY <1>8, <1>14 DEF namesPlain
    <2>2. own(s)' = own(s) \cup {e}
      BY <1>8, <1>13 DEF own, ns
    <2>3. view(s)' = view(s)
      BY <1>8, <1>13 DEF view, ns
    <2> QED BY <2>1, <2>2, <2>3, <1>5
  <1>16. subPlain(s)'
    BY <1>2, <1>4, <1>5, <1>14, SubscriptionPlain DEF domains
  <1>17. own_(s)'
    <2>1. /\ sockfd_R \in DOMAIN sock'[s] /\ signalSock(sock'[s][sockfd_R], syncAddr(m))
          /\ own(s)' = {nameOf(s, m)} /\ proc'[s].port.sd # sockfd_R
      BY <1>5, <1>6, <1>7, <1>8, <1>11, <1>15 DEF e
    <2> QED BY <2>1, <1>9, <1>12, <1>15, <1>16, OwnSend
  <1>18. /\ link'[t] = link[t] \o <<pub>> /\ link'[s] = link[s] /\ DOMAIN link' = Side
    <2>1. link' = after(<<pub>>)
      BY <1>2 DEF Post
    <2>2. /\ after(<<pub>>)[t] = link[t] \o <<pub>> /\ after(<<pub>>)[s] = link[s] \o <<>>
      BY <1>3, <1>4, AfterOne
    <2>3. link[s] \o <<>> = link[s]
      <3>1. link[s] \in Seq({link[s][i] : i \in DOMAIN link[s]})
        BY <1>4 DEF linkOK, isSeq
      <3> QED BY <3>1, ConcatEmptySeq
    <2> QED BY <2>1, <2>2, <2>3, AfterDomain
  <1>19. Marked(pub) /\ markedOK(t, pub)
    BY <1>3, <1>4, SyncAddr DEF Marked, markedOK, port
  <1>20. \A x \in Side : linkOK(x)'
    <2>1. linkOK(t)'
      BY <1>4, <1>18, <1>19, LinkMarked
    <2>2. linkOK(s)'
      BY <1>4, <1>18, LinkStays
    <2> QED BY <1>4, <2>1, <2>2
  <1>21. meet(s)' /\ meet(t)'
    <2>1. isSeq(link[t]) /\ sock'[s][sockfd_R].q = <<>>
      BY <1>4, <1>6, <1>7, <1>8 DEF linkOK
    <2> QED BY <2>1, <1>2, <1>3, <1>4, <1>8, <1>11, <1>12, <1>15, <1>18, <1>19, BindMeet
  <1>22. domains'
    BY <1>8, <1>18 DEF domains
  <1> HIDE DEF t
  <1> QED BY <1>8, <1>11, <1>17, <1>20, <1>21, <1>22, SignalStep DEF t

\* A side that is open is at one of three calls.
LEMMA OpenAt ==
  ASSUME NEW t, open(t)
  PROVE  /\ recvs(t, 7 .. 9) /\ recvs(t, 7 .. 11) /\ sub[t].evts = <<>>
         /\ ~recvs(t, {2}) /\ ~recvs(t, 3 .. 6) /\ \A J : ~sends(t, J)
  BY DEF open, recvs, sends

\* The byte is read: the other side has sent it and waits for the end.
LEMMA RecvMeet ==
  ASSUME NEW s \in Side, NEW t \in Side, t = other(s), NEW m, stage(s) = spot("send", m, 3),
         stage(s)' = spot("send", m, 4), stays(t), untouched(t), view(s)' = view(s), beat' = beat,
         beat \in [Side -> 0 .. 3], link' = link, answering(s), ~under(link[s], "named"), meet(s), meet(t)
  PROVE  meet(s)' /\ meet(t)'
  <1>1. other(t) = s /\ s # t
    BY Sides
  <1>2. /\ \A J : (sends(t, J)' <=> sends(t, J)) /\ (recvs(t, J)' <=> recvs(t, J))
        /\ signal(t)' = signal(t) /\ (open(t)' <=> open(t)) /\ (late(t)' <=> late(t))
        /\ sub'[t] = sub[t] /\ sock'[t] = sock[t] /\ view(t)' = view(t)
    BY OtherStays
  <1>3. /\ sends(s, 3 .. 4) /\ ~recvs(s, 7 .. 9) /\ ~recvs(s, 7 .. 11) /\ ~open(s) /\ signal(s) = m
        /\ ~sends(s, {5})
    BY AtSend
  <1>4. /\ sends(s, 3 .. 4)' /\ ~sends(s, {3})' /\ sends(s, {4})' /\ ~sends(s, {5})' /\ sends(s, 3 .. 5)'
        /\ ~recvs(s, {2})' /\ ~recvs(s, 3 .. 6)' /\ ~recvs(s, 7 .. 9)' /\ ~recvs(s, 7 .. 11)' /\ ~open(s)'
        /\ signal(s)' = m
    BY AtSend
  <1>5. ahead(s, t)' = ahead(s, t) /\ ahead(t, s)' = ahead(t, s)
    BY DEF ahead
  <1>6. open(t) /\ signal(t) = m /\ beat[s] = beat[t]
    BY <1>3 DEF answering
  <1>7. /\ recvs(t, 7 .. 9) /\ recvs(t, 7 .. 11) /\ sub[t].evts = <<>>
        /\ ~recvs(t, {2}) /\ ~recvs(t, 3 .. 6) /\ \A J : ~sends(t, J)
    BY <1>6, OpenAt
  <1>8. ahead(s, t) # 1
    BY <1>6 DEF ahead
  <1>9. viewOK(t)'
    BY <1>1, <1>2, <1>3, <1>4, <1>8 DEF meet, viewOK
  <1>10. viewOK(s)'
    <2>1. viewOK(s)
      BY DEF meet
    <2> QED BY <2>1, <1>1, <1>2, <1>3, <1>4, <1>7 DEF viewOK
  <1>11. ackOK(s)'
    BY <1>4 DEF ackOK
  <1>12. ackOK(t)'
    <2>1. ~under(link[t], "named")
      BY <1>7, UnderOne DEF meet, ackOK
    <2> QED BY <1>2, <1>7, <2>1 DEF ackOK
  <1>13. answering(s)'
    BY <1>1, <1>2, <1>4, <1>6 DEF answering
  <1>14. meetOK(s)'
    BY <1>4, <1>6, <1>13 DEF meetOK
  <1>15. meetOK(t)'
    <2>1. view(t) = {nameOf(s, signal(t))}
      BY <1>1, <1>7 DEF meet, meetOK
    <2>2. /\ ~sends(t, {4})' /\ ~sends(t, {5})' /\ ~recvs(t, {2})' /\ ~recvs(t, 3 .. 6)'
          /\ sub'[t].evts = <<>> /\ view(t)' = {nameOf(s, signal(t))'} /\ open(t)'
      BY <1>2, <1>6, <1>7, <2>1 DEF nameOf
    <2>3. beat'[s] = beat'[t]
      BY <1>6
    <2> HIDE DEF meet
    <2> QED BY <1>1, <1>4, <2>2, <2>3 DEF meetOK
  <1> QED BY <1>9, <1>10, <1>11, <1>12, <1>14, <1>15 DEF meet

\* sendSyncTIPC reads the byte that answers it.
LEMMA RecvSignal ==
  ASSUME NEW s \in Side, SyncInv, NEW m, calls(s, "recv"), stage(s) = spot("send", m, 3),
         call(s) = receive(sockfd_R, 1, "some", FALSE, "ack"), Recv(s)
  PROVE  SyncInv'
  <1> DEFINE t == other(s)
             q == sock[s][sockfd_R].q
             k == [sock[s][sockfd_R] EXCEPT !.q = <<>>]
             f == [sock[s] EXCEPT ![sockfd_R] = k]
  <1>1. /\ call(s).sd = sockfd_R /\ call(s).flag = "some" /\ call(s).want = "ack" /\ call(s).max = 1
        /\ call(s).op = "recv"
    BY DEF receive
  <1>2. /\ progOK /\ domains /\ own_(s) /\ openOK(s) /\ sockOK(s) /\ meet(s) /\ meet(t)
        /\ beat \in [Side -> 0 .. 3] /\ t # s /\ t \in Side /\ other(t) = s
        /\ \A x \in Side : linkOK(x) /\ (x = s \/ x = t)
    BY SignalHas, Sides DEF progOK
  <1>3. /\ namesPlain(s) /\ own(s) = {nameOf(s, m)} /\ subPlain(s) /\ proc[s].port.sd # sockfd_R
        /\ sockfd_R \in DOMAIN sock[s] /\ signalSock(sock[s][sockfd_R], syncAddr(m))
    BY <1>2, OwnSend
  <1>4. q # <<>>
    BY <1>1, <1>3 DEF Recv, canReceive, signalSock
  <1>5. sends(s, {3})
    BY AtSend
  <1>6. /\ ~under(link[s], "named") /\ Len(q) = 1 /\ answering(s)
        /\ q[1].k = "named" /\ q[1].msg = buffer("ack", 1)
    BY <1>2, <1>4, <1>5 DEF meet, ackOK
  <1>7. isSeq(q)
    BY <1>2, <1>3 DEF sockOK
  <1>8. Head(q) = q[1] /\ Tail(q) = <<>>
    <2> HIDE DEF q
    <2>1. Head(q) = q[1] /\ isSeq(Tail(q)) /\ Len(Tail(q)) = 0
      BY <1>4, <1>6, <1>7, SeqTail
    <2>2. Tail(q) = <<>>
      BY <2>1, EmptySeq DEF isSeq
    <2> QED BY <2>1, <2>2
  <1>9. received(s).res = 1 /\ received(s).q = <<>>
    <2>1. room(s) = 1 /\ buffer("ack", 1).size = 1
      BY <1>1 DEF room, buffer, part
    <2>2. received(s) = result(IF Head(q).msg.size < room(s) THEN Head(q).msg.size ELSE room(s),
                               Head(q), Head(q).msg, Tail(q))
      BY <1>1, <1>3, <1>4, <1>6, <1>8 DEF received, signalSock
    <2> HIDE DEF q
    <2> QED BY <1>6, <1>8, <2>1, <2>2 DEF result
  <1>10. judge(s, received(s)) = go(proc[s], 1)
    BY <1>1, <1>9 DEF judge
  <1>11. go(proc[s], 1) # failed
    <2>1. proc[s].at \in Nat
      BY <1>2, Placed DEF progOK
    <2>2. go(proc[s], 1).at = proc[s].at + 1
      <3>1. DOMAIN proc[s] = DOMAIN start(0)
        BY <1>2 DEF progOK
      <3> QED BY <3>1, GoIs
    <2>3. failed.at = 0
      BY DEF failed, start
    <2> QED BY <2>1, <2>2, <2>3
  <1>12. /\ Continue(s) /\ sock' = [sock EXCEPT ![s] = f] /\ UNCHANGED <<known, sub, link>>
         /\ UNCHANGED <<status, main, importance>> /\ beat' = beat
    BY <1>1, <1>9, <1>10, <1>11 DEF Recv, proceeds, Continue
  <1>13. /\ DOMAIN f = DOMAIN sock[s] /\ f[sockfd_R] = k
         /\ \A x \in DOMAIN f : x # sockfd_R => f[x] = sock[s][x]
    BY <1>3
  <1>14. /\ DOMAIN k = DOMAIN newSocket("RDM") /\ k.q = <<>> /\ signalSock(k, syncAddr(m))
    <2>1. DOMAIN sock[s][sockfd_R] = DOMAIN newSocket("RDM")
      BY <1>2, <1>3 DEF sockOK
    <2>2. DOMAIN newSocket("RDM") = {"type", "name", "listen", "conn", "peer", "via", "q", "opt"}
      BY DEF newSocket
    <2>3. k.type = sock[s][sockfd_R].type /\ k.conn = sock[s][sockfd_R].conn
          /\ k.opt = sock[s][sockfd_R].opt /\ k.name = sock[s][sockfd_R].name /\ k.q = <<>>
          /\ DOMAIN k = DOMAIN newSocket("RDM")
      BY <2>1, <2>2, <1>3
    <2> HIDE DEF k
    <2> QED BY <2>3, <1>3 DEF signalSock
  <1> HIDE DEF k, f, q
  <1>15. /\ domains' /\ untouched(t) /\ sock'[s] = f /\ known'[s] = known[s] /\ sub'[s] = sub[s]
    BY <1>2, <1>12, OneSide
  <1>16. sockOK(s)' /\ DOMAIN sock'[s] = effect(DOMAIN sock[s], call(s))
    <2>1. sockOK(s)'
      BY <1>2, <1>13, <1>14, <1>15, SeqNone, OthersKept
    <2> QED BY <2>1, <1>1, <1>13, <1>15 DEF effect
  <1>17. /\ progOK' /\ stays(t) /\ opened(s)' = effect(opened(s), call(s))
         /\ proc'[s].port = proc[s].port /\ moves(s, "send", m, 3)
    <2>1. beat' \in [Side -> 0 .. 3]
      BY <1>2, <1>12
    <2> QED BY <2>1, <1>2, <1>12, SignalContinue
  <1>18. stage(s)' = spot("send", m, 4) /\ openOK(s)'
    <2>1. stage(s)' = spot("send", m, 4)
      BY <1>17 DEF moves, callsOf
    <2>2. openOK(s)'
      BY <1>2, <1>16, <1>17, OpenKept
    <2> QED BY <2>1, <2>2
  <1>19. /\ namesPlain(s)' /\ own(s)' = {nameOf(s, m)} /\ view(s)' = view(s) /\ subPlain(s)'
    BY <1>3, <1>15, NamesKept
  <1>20. own_(s)'
    <2>1. /\ sockfd_R \in DOMAIN sock'[s] /\ signalSock(sock'[s][sockfd_R], syncAddr(m))
          /\ sock'[s][sockfd_R].q = <<>> /\ proc'[s].port.sd # sockfd_R
      BY <1>3, <1>13, <1>14, <1>15, <1>17
    <2> QED BY ONLY <2>1, <1>16, <1>18, <1>19, OwnSend, s \in Side
  <1>21. \A x \in Side : linkOK(x)'
    BY <1>2, <1>12, LinkStays
  <1>22. meet(s)' /\ meet(t)'
    BY <1>2, <1>6, <1>12, <1>15, <1>17, <1>18, <1>19, RecvMeet
  <1> HIDE DEF t
  <1> QED BY <1>15, <1>17, <1>20, <1>21, <1>22, SignalStep DEF t

\* The name of the signal is withdrawn: the other side waits for that.
LEMMA CloseMeet ==
  ASSUME NEW s \in Side, NEW t \in Side, t = other(s), NEW m, stage(s) = spot("send", m, 4),
         stage(s)' = spot("send", m, 5), stays(t), untouched(t), view(s)' = view(s), beat' = beat,
         link'[s] = link[s], NEW p, Marked(p), p.k = "withdraw",
         link'[t] = link[t] \o <<p>>, isSeq(link[t]), meet(s), meet(t)
  PROVE  meet(s)' /\ meet(t)'
  <1>1. other(t) = s /\ s # t
    BY Sides
  <1>2. /\ \A J : (sends(t, J)' <=> sends(t, J)) /\ (recvs(t, J)' <=> recvs(t, J))
        /\ signal(t)' = signal(t) /\ (open(t)' <=> open(t)) /\ (late(t)' <=> late(t))
        /\ sub'[t] = sub[t] /\ sock'[t] = sock[t] /\ view(t)' = view(t)
    BY OtherStays
  <1>3. /\ sends(s, 3 .. 4) /\ ~sends(s, {3}) /\ sends(s, {4}) /\ ~open(s) /\ signal(s) = m
        /\ ~sends(s, {5})
    BY AtSend
  <1>4. /\ ~sends(s, 3 .. 4)' /\ ~sends(s, {3})' /\ ~sends(s, {4})' /\ sends(s, {5})' /\ sends(s, 3 .. 5)'
        /\ ~recvs(s, {2})' /\ ~recvs(s, 3 .. 6)' /\ ~recvs(s, 7 .. 9)' /\ ~recvs(s, 7 .. 11)' /\ ~open(s)'
    BY AtSend
  <1>5. answering(s)
    BY <1>3 DEF meet, meetOK
  <1>6. open(t) /\ signal(t) = m /\ beat[s] = beat[t]
    BY <1>1, <1>3, <1>5 DEF answering
  <1>7. /\ recvs(t, 7 .. 9) /\ recvs(t, 7 .. 11) /\ sub[t].evts = <<>>
        /\ ~recvs(t, {2}) /\ ~recvs(t, 3 .. 6) /\ \A J : ~sends(t, J)
    BY <1>6, OpenAt
  <1>8. view(t) = {nameOf(s, signal(t))}
    BY <1>1, <1>7 DEF meet, meetOK
  <1>9. marks(link[t]) = {}
    BY <1>1, <1>3, <1>8 DEF meet, viewOK
  <1>10. under(link'[t], "withdraw") /\ ~under(link'[t], "named")
    <2> DEFINE q == link[t]
    <2>1. isSeq(q) /\ marks(q) = {}
      BY <1>9
    <2>2. link'[t] = q \o <<p>>
      OBVIOUS
    <2> HIDE DEF q
    <2>3. under(q \o <<p>>, p.k)
      BY <2>1, JoinMarked
    <2>4. under(link'[t], "withdraw")
      BY <2>2, <2>3
    <2>5. under(link'[t], "withdraw") /\ under(link'[t], "named") => "withdraw" = "named"
      BY UnderOne
    <2> QED BY <2>4, <2>5
  <1>11. view(t)' = {nameOf(s, signal(t))'}
    BY <1>2, <1>8 DEF nameOf
  <1>12. viewOK(t)'
    BY <1>1, <1>2, <1>4, <1>6, <1>10, <1>11 DEF viewOK
  <1>13. viewOK(s)'
    <2>1. viewOK(s)
      BY DEF meet
    <2> QED BY <2>1, <1>1, <1>2, <1>3, <1>4, <1>7 DEF viewOK
  <1>14. ackOK(s)'
    <2>1. ~under(link[s], "named")
      BY <1>3, UnderOne DEF meet, ackOK
    <2> QED BY <2>1, <1>4 DEF ackOK
  <1>15. ackOK(t)'
    BY <1>2, <1>7, <1>10 DEF ackOK
  <1>16. meetOK(s)'
    BY <1>1, <1>2, <1>4, <1>6, <1>7 DEF meetOK
  <1>17. meetOK(t)'
    <2>1. /\ ~sends(t, {4})' /\ ~sends(t, {5})' /\ ~recvs(t, {2})' /\ ~recvs(t, 3 .. 6)'
          /\ sub'[t].evts = <<>> /\ view(t)' = {nameOf(s, signal(t))'} /\ open(t)'
      BY <1>2, <1>6, <1>7, <1>11
    <2>2. beat'[s] = beat'[t]
      BY <1>6
    <2> HIDE DEF meet
    <2> QED BY <1>1, <1>4, <2>1, <2>2 DEF meetOK
  <1> QED BY <1>12, <1>13, <1>14, <1>15, <1>16, <1>17 DEF meet

\* sendSyncTIPC closes its socket and so withdraws the name.
LEMMA CloseSend ==
  ASSUME NEW s \in Side, SyncInv, NEW m, calls(s, "close"), stage(s) = spot("send", m, 4),
         call(s) = closeSocketTIPC(sockfd_R), Close(s)
  PROVE  SyncInv'
  <1> DEFINE t == other(s)
             ns == {n \in known[s] : n.port # port(s, sockfd_R)}
             gone == [packet("withdraw", t, port(s, sockfd_R), "") EXCEPT !.addr = syncAddr(m)]
  <1>1. /\ Continue(s) /\ UNCHANGED <<status, main, importance>> /\ beat' = beat
        /\ DOMAIN sock' = Side /\ DOMAIN sock'[s] = effect(DOMAIN sock[s], call(s))
        /\ sockfd_R \notin DOMAIN sock'[s] /\ sockOK(s)' /\ sock'[t] = sock[t]
        /\ DOMAIN known' = Side /\ known'[s] = ns /\ known'[t] = known[t]
        /\ DOMAIN sub' = Side /\ sub'[t] = sub[t]
        /\ sub' = [sub EXCEPT ![s] = subscription(s, ns)]
        /\ Post(farewell(s, sockfd_R)) /\ ns = known[s] \ own(s)
    BY CloseIs
  <1>2. /\ gone.k = "withdraw" /\ gone.dst = t /\ gone.from = port(s, sockfd_R)
        /\ gone.addr = syncAddr(m)
    BY DEF packet
  <1> HIDE DEF ns
  <1>3. /\ progOK /\ domains /\ own_(s) /\ openOK(s) /\ sockOK(s) /\ meet(s) /\ meet(t)
        /\ beat' \in [Side -> 0 .. 3] /\ t # s /\ t \in Side /\ other(t) = s
        /\ \A x \in Side : linkOK(x) /\ (x = s \/ x = t)
    BY <1>1, SignalHas, Sides
  <1>4. /\ namesPlain(s) /\ own(s) = {nameOf(s, m)} /\ subPlain(s) /\ proc[s].port.sd # sockfd_R
        /\ sockfd_R \in DOMAIN sock[s] /\ signalSock(sock[s][sockfd_R], syncAddr(m))
        /\ sock[s][sockfd_R].q = <<>>
    BY <1>3, OwnSend
  <1>5. farewell(s, sockfd_R) = <<gone>>
    <2> DEFINE returned(p) == IF p.k \in {"data", "syn"} \/ p.keep
                              THEN <<errorFor(p, port(s, sockfd_R), "NO_PORT")>> ELSE <<>>
               g == [i \in 1 .. 0 |-> returned(sock[s][sockfd_R].q[i])]
    <2>1. /\ sock[s][sockfd_R].name = syncAddr(m) /\ sock[s][sockfd_R].conn = "no"
          /\ Len(sock[s][sockfd_R].q) = 0 /\ syncAddr(m) # NoAddr
      BY <1>4, SeqNone, SyncAddr DEF signalSock
    <2>2. FlattenSeq(g) = <<>>
      <3>1. g = <<>>
        OBVIOUS
      <3> QED BY <3>1, FlattenNone
    <2>3. farewell(s, sockfd_R) = <<gone>> \o FlattenSeq(g)
      BY <2>1 DEF farewell
    <2>4. <<gone>> \o <<>> = <<gone>>
      <3> HIDE DEF gone
      <3>1. <<gone>> \in Seq({gone})
        OBVIOUS
      <3> QED BY <3>1, ConcatEmptySeq
    <2> HIDE DEF g, gone
    <2> QED BY <2>2, <2>3, <2>4
  <1> HIDE DEF gone
  <1>6. /\ link'[t] = link[t] \o <<gone>> /\ link'[s] = link[s] /\ DOMAIN link' = Side
    <2>1. link' = after(<<gone>>)
      BY <1>1, <1>5 DEF Post
    <2>2. /\ after(<<gone>>)[t] = link[t] \o <<gone>> /\ after(<<gone>>)[s] = link[s] \o <<>>
      BY <1>2, <1>3, AfterOne
    <2>3. link[s] \o <<>> = link[s]
      <3>1. link[s] \in Seq({link[s][i] : i \in DOMAIN link[s]})
        BY <1>3 DEF linkOK, isSeq
      <3> QED BY <3>1, ConcatEmptySeq
    <2> QED BY <2>1, <2>2, <2>3, AfterDomain
  <1>7. Marked(gone) /\ markedOK(t, gone)
    BY <1>2, <1>3, SyncAddr DEF Marked, markedOK, port
  <1>8. \A x \in Side : linkOK(x)'
    <2>1. linkOK(t)'
      BY <1>3, <1>6, <1>7, LinkMarked
    <2>2. linkOK(s)'
      BY <1>3, <1>6, LinkStays
    <2> QED BY <1>3, <2>1, <2>2
  <1>9. /\ progOK' /\ stays(t) /\ opened(s)' = effect(opened(s), call(s))
        /\ proc'[s].port = proc[s].port /\ moves(s, "send", m, 4)
    <2>1. /\ Continue(s) /\ UNCHANGED <<status, main, importance>> /\ beat' \in [Side -> 0 .. 3]
      BY <1>1, <1>3
    <2> QED BY <2>1, SignalContinue
  <1>10. stage(s)' = spot("send", m, 5) /\ openOK(s)'
    <2>1. stage(s)' = spot("send", m, 5)
      BY <1>9 DEF moves, callsOf
    <2>2. openOK(s)'
      BY <1>1, <1>3, <1>9, OpenKept
    <2> QED BY <2>1, <2>2
  <1>11. namesPlain(s)' /\ own(s)' = {} /\ view(s)' = view(s) /\ subPlain(s)'
    <2>1. IsFiniteSet(ns) /\ \A x \in ns : sync(x.addr) <=> x.port.sd = sockfd_R
      <3>1. IsFiniteSet(known[s]) /\ ns \subseteq known[s]
        BY <1>1, <1>4 DEF namesPlain
      <3>2. IsFiniteSet(ns)
        BY <3>1, FS_Subset
      <3> QED BY <3>1, <3>2, <1>4 DEF namesPlain
    <2>2. namesPlain(s)'
      BY <2>1, <1>1 DEF namesPlain
    <2>3. own(s)' = {} /\ view(s)' = view(s)
      BY <1>1 DEF own, view
    <2>4. subPlain(s)'
      BY <2>1, <1>1, <1>3, <1>4, SubscriptionPlain DEF domains
    <2> QED BY <2>2, <2>3, <2>4
  <1>12. own_(s)'
    <2>1. proc'[s].port.sd # sockfd_R
      BY <1>4, <1>9
    <2> QED BY ONLY <2>1, <1>1, <1>10, <1>11, OwnSend, s \in Side
  <1>13. untouched(t) /\ domains'
    BY <1>1, <1>6 DEF untouched, domains
  <1>14. meet(s)' /\ meet(t)'
    <2>1. isSeq(link[t])
      BY <1>3 DEF linkOK
    <2> QED BY <2>1, <1>1, <1>2, <1>3, <1>6, <1>7, <1>9, <1>10, <1>11, <1>13, CloseMeet
  <1> HIDE DEF t
  <1> QED BY <1>8, <1>9, <1>12, <1>13, <1>14, SignalStep DEF t

\* Beats are counted modulo 4.
LEMMA Beats ==
  ASSUME NEW a \in 0 .. 3, NEW b \in 0 .. 3
  PROVE  /\ (a + 1) % 4 \in 0 .. 3
         /\ a = b => (((a + 1) % 4) - b) % 4 = 1 /\ (a - b) % 4 = 0 /\ (b - a) % 4 = 0
         /\ (b - a) % 4 = 1 => (a + 1) % 4 = b /\ (a - b) % 4 # 1
  <1>1. a = 0 \/ a = 1 \/ a = 2 \/ a = 3
    OBVIOUS
  <1>2. b = 0 \/ b = 1 \/ b = 2 \/ b = 3
    OBVIOUS
  <1> QED BY <1>1, <1>2

\* A side leaves the signal: the other one has come to its last calls or has left
\* it already.
LEMMA SyncedMeet ==
  ASSUME NEW s \in Side, NEW t \in Side, t = other(s), NEW m,
         stage(s) = spot("send", m, 5) \/ stage(s) = spot("recv", m, 11), calm(s)', stays(t), untouched(t),
         view(s)' = view(s), beat[s] \in 0 .. 3, beat[t] \in 0 .. 3,
         beat'[s] = (beat[s] + 1) % 4, beat'[t] = beat[t],
         link' = link, meet(s), meet(t)
  PROVE  meet(s)' /\ meet(t)'
  <1>1. other(t) = s /\ s # t
    BY Sides
  <1>2. /\ \A J : (sends(t, J)' <=> sends(t, J)) /\ (recvs(t, J)' <=> recvs(t, J))
        /\ signal(t)' = signal(t) /\ (open(t)' <=> open(t)) /\ (late(t)' <=> late(t))
        /\ sub'[t] = sub[t] /\ sock'[t] = sock[t] /\ view(t)' = view(t)
    BY OtherStays
  <1>3. /\ ~sends(s, 3 .. 4) /\ ~sends(s, {3}) /\ ~sends(s, {4}) /\ ~sends(s, 3 .. 4) /\ ~open(s)
        /\ sends(s, {5}) \/ recvs(s, 7 .. 11)
        /\ recvs(s, 7 .. 11) => ~sends(s, {5})
    BY DEF spot, sends, recvs, open
  <1>4. /\ ~sends(s, 3 .. 4)' /\ ~sends(s, {3})' /\ ~sends(s, {4})' /\ ~sends(s, {5})' /\ ~sends(s, 3 .. 5)'
        /\ ~recvs(s, {2})' /\ ~recvs(s, 3 .. 6)' /\ ~recvs(s, 7 .. 9)' /\ ~recvs(s, 7 .. 11)' /\ ~open(s)'
    <2>1. \A J : 1 \notin J => ~sends(s, J)' /\ ~recvs(s, J)'
      BY Calm
    <2>2. ~open(s)'
      BY <2>1 DEF open
    <2> QED BY <2>1, <2>2
  <1>5. ~answering(t) /\ ~answering(t)' /\ ~answering(s)
    BY <1>1, <1>3, <1>4 DEF answering
  <1>6. beat'[s] = (beat[s] + 1) % 4 /\ beat'[t] = beat[t] /\ beat[s] \in 0 .. 3 /\ beat[t] \in 0 .. 3
    BY <1>1
  <1>7. \/ beat[s] = beat[t] /\ late(t)
        \/ ahead(t, s) = 1
    BY <1>1, <1>3 DEF meet, meetOK, late
  <1>8. \/ ahead(s, t)' = 1 /\ late(t)
        \/ beat'[s] = beat'[t] /\ ahead(t, s) = 1 /\ ahead(s, t) # 1 /\ beat[s] # beat[t]
    <2>1. CASE beat[s] = beat[t] /\ late(t)
      <3>1. (((beat[s] + 1) % 4) - beat[t]) % 4 = 1
        BY <1>6, <2>1, Beats
      <3> QED BY <2>1, <3>1, <1>6 DEF ahead
    <2>2. CASE ahead(t, s) = 1
      <3>1. (beat[t] - beat[s]) % 4 = 1
        BY <2>2 DEF ahead
      <3>2. (beat[s] + 1) % 4 = beat[t] /\ (beat[s] - beat[t]) % 4 # 1
        BY <1>6, <3>1, Beats
      <3>3. beat[s] # beat[t]
        <4>1. beat[s] = beat[t] => (beat[t] - beat[s]) % 4 = 0
          BY <1>6, Beats
        <4> QED BY <3>1, <4>1
      <3> QED BY <2>2, <3>2, <3>3, <1>6 DEF ahead
    <2> QED BY <1>7, <2>1, <2>2
  <1>9. viewOK(s)'
    <2>1. viewOK(s)
      BY DEF meet
    <2> QED BY <2>1, <1>1, <1>2, <1>3, <1>4 DEF viewOK
  <1>10. viewOK(t)'
    <2>1. viewOK(t)
      BY DEF meet
    <2>2. nameOf(s, signal(t))' = nameOf(s, signal(t))
      BY <1>2 DEF nameOf
    <2> QED BY <2>1, <2>2, <1>1, <1>2, <1>3, <1>4 DEF viewOK
  <1>11. ackOK(s)'
    <2>1. ~under(link[s], "named")
      BY <1>3, UnderOne DEF meet, ackOK
    <2> QED BY <2>1, <1>4 DEF ackOK
  <1>12. ackOK(t)'
    <2>1. /\ ~under(link[t], "named")
          /\ IF sends(t, {3}) THEN sock[t][sockfd_R].q = <<>> ELSE TRUE
      BY <1>5, UnderOne DEF meet, ackOK
    <2> QED BY <1>2, <2>1 DEF ackOK
  <1>13. meetOK(s)'
    BY <1>1, <1>2, <1>4, <1>8 DEF meetOK
  <1>14. meetOK(t)'
    <2>1. meetOK(t)
      BY DEF meet
    <2>2. ~sends(t, {4})' /\ ~recvs(t, 3 .. 6)'
      BY <1>1, <1>2, <1>3, <1>5, <2>1 DEF meetOK
    <2>3. sends(t, {5})' \/ recvs(t, 7 .. 11)' => ahead(s, t)' = 1
      <3>1. sends(t, {5}) \/ recvs(t, 7 .. 11) => beat[s] = beat[t] \/ ahead(s, t) = 1
        BY <1>1, <2>1 DEF meetOK
      <3> QED BY <1>2, <1>8, <3>1
    <2>4. /\ recvs(t, {2})' => IF nameOf(s, signal(t)') \in view(t)'
                               THEN Len(sub'[t].evts) = 1 /\ sub'[t].evts[1].k = "PUBLISHED"
                               ELSE sub'[t].evts = <<>>
          /\ recvs(t, 7 .. 9)' => IF sub'[t].evts = <<>> THEN view(t)' = {nameOf(s, signal(t)')}
                                  ELSE sub'[t].evts[1] = [k |-> "WITHDRAWN", port |-> NoPort]
      BY <1>1, <1>2, <2>1 DEF meetOK
    <2>5. \A n : nameOf(s, n)' = nameOf(s, n)
      BY DEF nameOf
    <2>6. beat'[s] = beat'[t] \/ (ahead(s, t)' = 1 /\ late(t)')
      BY <1>2, <1>8
    <2> QED BY <1>1, <2>2, <2>3, <2>4, <2>5, <2>6 DEF meetOK
  <1> QED BY <1>9, <1>10, <1>11, <1>12, <1>13, <1>14 DEF meet

\* sendSyncTIPC or recvSyncTIPC returns.
LEMMA SyncedSignal ==
  ASSUME NEW s \in Side, SyncInv, NEW m, calls(s, "synced"),
         stage(s) \in {spot("send", m, 5), spot("recv", m, 11)}, Synced(s)
  PROVE  SyncInv'
  <1> DEFINE t == other(s)
  <1>1. /\ beat' = [beat EXCEPT ![s] = (@ + 1) % 4] /\ Continue(s)
        /\ UNCHANGED <<status, main, importance>> /\ UNCHANGED tipc
    BY DEF Synced
  <1>2. /\ progOK /\ domains /\ own_(s) /\ meet(s) /\ meet(t) /\ beat \in [Side -> 0 .. 3]
        /\ t \in Side /\ \A x \in Side : linkOK(x)
    BY SignalHas, Sides DEF progOK
  <1>3. beat' \in [Side -> 0 .. 3]
    <2>1. beat[s] \in 0 .. 3
      BY <1>2
    <2>2. (beat[s] + 1) % 4 \in 0 .. 3
      BY <2>1, Beats
    <2> QED BY <1>1, <1>2, <2>2
  <1>4. /\ namesPlain(s) /\ own(s) = {} /\ subPlain(s) /\ proc[s].port.sd # sockfd_R
        /\ sockfd_R \notin DOMAIN sock[s]
    <2>1. CASE stage(s) = spot("send", m, 5)
      BY <1>2, <2>1, OwnSend
    <2>2. CASE stage(s) = spot("recv", m, 11)
      BY <1>2, <2>2, OwnRecv
    <2> QED BY <2>1, <2>2
  <1>5. /\ progOK' /\ stays(t) /\ opened(s)' = effect(opened(s), call(s))
        /\ proc'[s].port = proc[s].port /\ calm(s)'
    <2>1. CASE stage(s) = spot("send", m, 5)
      <3>1. /\ progOK' /\ stays(other(s)) /\ opened(s)' = effect(opened(s), call(s))
            /\ proc'[s].port = proc[s].port /\ moves(s, "send", m, 5)
        BY <1>1, <1>3, <2>1, SignalContinue
      <3> QED BY <3>1 DEF moves, callsOf
    <2>2. CASE stage(s) = spot("recv", m, 11)
      <3>1. /\ progOK' /\ stays(other(s)) /\ opened(s)' = effect(opened(s), call(s))
            /\ proc'[s].port = proc[s].port /\ moves(s, "recv", m, 11)
        BY <1>1, <1>3, <2>2, SignalContinue
      <3> QED BY <3>1 DEF moves, callsOf
    <2> QED BY <2>1, <2>2
  <1>6. /\ domains' /\ untouched(s) /\ untouched(t) /\ openOK(s)' /\ sockOK(s)'
        /\ \A x \in Side : linkGrows(x)
    BY <1>1, <1>5, OwnKept
  <1>7. namesPlain(s)' /\ own(s)' = {} /\ view(s)' = view(s) /\ subPlain(s)'
    BY <1>4, <1>6, NamesKept DEF untouched
  <1>8. own_(s)'
    <2>1. sockfd_R \notin DOMAIN sock'[s] /\ proc'[s].port.sd # sockfd_R
      BY <1>4, <1>5, <1>6 DEF untouched
    <2> QED BY ONLY <2>1, <1>5, <1>6, <1>7, CalmOwn, s \in Side
  <1>9. \A x \in Side : linkOK(x)'
    BY <1>2, <1>6, LinkGrows
  <1>10. meet(s)' /\ meet(t)'
    <2>1. link' = link
      BY <1>1 DEF tipc
    <2>2. /\ beat'[s] = (beat[s] + 1) % 4 /\ beat'[t] = beat[t]
          /\ beat[s] \in 0 .. 3 /\ beat[t] \in 0 .. 3
          /\ calm(s)' /\ stays(t) /\ untouched(t) /\ view(s)' = view(s) /\ meet(s) /\ meet(t)
          /\ t \in Side /\ t = other(s) /\ s \in Side
          /\ stage(s) = spot("send", m, 5) \/ stage(s) = spot("recv", m, 11)
      BY <1>1, <1>2, <1>5, <1>6, <1>7, Sides
    <2> HIDE DEF t
    <2> QED BY ONLY <2>1, <2>2, SyncedMeet
  <1> HIDE DEF t
  <1> QED BY <1>5, <1>6, <1>8, <1>9, <1>10, SignalStep DEF t

\* A side that receives a signal begins: the other side does not depend on it yet.
LEMMA EarlyMeet ==
  ASSUME NEW s \in Side, NEW t \in Side, t = other(s), NEW m, NEW j \in {1, 2}, NEW h \in {2, 3},
         stage(s) = spot("recv", m, j), stage(s)' = spot("recv", m, h), stays(t), untouched(t),
         view(s)' = view(s), beat' = beat, link' = link, meet(s), meet(t),
         h = 2 => IF nameOf(t, m) \in view(s)
                  THEN Len(sub'[s].evts) = 1 /\ sub'[s].evts[1].k = "PUBLISHED"
                  ELSE sub'[s].evts = <<>>,
         h = 3 => sends(t, {3}) /\ signal(t) = m /\ sub'[s].evts = <<>> /\ view(s) = {nameOf(t, m)}
  PROVE  meet(s)' /\ meet(t)'
  <1>1. other(t) = s /\ s # t
    BY Sides
  <1>2. /\ \A J : (sends(t, J)' <=> sends(t, J)) /\ (recvs(t, J)' <=> recvs(t, J))
        /\ signal(t)' = signal(t) /\ (open(t)' <=> open(t)) /\ (late(t)' <=> late(t))
        /\ sub'[t] = sub[t] /\ sock'[t] = sock[t] /\ view(t)' = view(t)
    BY OtherStays
  <1>3. /\ \A J : ~sends(s, J)
        /\ ~recvs(s, 7 .. 9) /\ ~recvs(s, 7 .. 11) /\ ~open(s) /\ ~late(s)
    BY DEF spot, sends, recvs, open, late
  <1>4. /\ \A J : ~sends(s, J)'
        /\ ~recvs(s, 7 .. 9)' /\ ~recvs(s, 7 .. 11)' /\ ~open(s)' /\ ~late(s)'
        /\ recvs(s, {2})' <=> h = 2
        /\ recvs(s, 3 .. 6)' <=> h = 3
        /\ signal(s)' = m
    BY DEF spot, sends, recvs, open, late, signal
  <1>5. ahead(s, t)' = ahead(s, t) /\ ahead(t, s)' = ahead(t, s)
    BY DEF ahead
  <1>6. ~answering(t) /\ ~answering(t)' /\ ~answering(s) /\ ~answering(s)'
    BY <1>1, <1>3, <1>4 DEF answering
  <1>7. viewOK(s)'
    <2>1. viewOK(s)
      BY DEF meet
    <2> QED BY <2>1, <1>1, <1>2, <1>3, <1>4 DEF viewOK
  <1>8. viewOK(t)'
    <2>1. viewOK(t)
      BY DEF meet
    <2>2. nameOf(s, signal(t))' = nameOf(s, signal(t))
      BY <1>2 DEF nameOf
    <2> QED BY <2>1, <2>2, <1>1, <1>2, <1>3, <1>4 DEF viewOK
  <1>9. ackOK(s)'
    <2>1. ~under(link[s], "named")
      BY <1>3, UnderOne DEF meet, ackOK
    <2> QED BY <2>1, <1>4 DEF ackOK
  <1>10. ackOK(t)'
    <2>1. /\ ~under(link[t], "named")
          /\ IF sends(t, {3}) THEN sock[t][sockfd_R].q = <<>> ELSE TRUE
      BY <1>6, UnderOne DEF meet, ackOK
    <2> QED BY <1>2, <2>1 DEF ackOK
  <1>11. meetOK(s)'
    <2>1. beat'[s] = beat'[t] \/ (ahead(s, t)' = 1 /\ late(t)') \/ (ahead(t, s)' = 1 /\ late(s)')
      BY <1>2, <1>3, <1>4, <1>5 DEF meet, meetOK
    <2>2. recvs(s, {2})' => IF nameOf(t, signal(s)') \in view(s)'
                            THEN Len(sub'[s].evts) = 1 /\ sub'[s].evts[1].k = "PUBLISHED"
                            ELSE sub'[s].evts = <<>>
      BY <1>4
    <2>3. recvs(s, 3 .. 6)' => sends(t, {3})' /\ signal(t)' = signal(s)' /\ sub'[s].evts = <<>>
                               /\ view(s)' = {nameOf(t, signal(s)')}
      BY <1>2, <1>4
    <2>4. \A n : nameOf(t, n)' = nameOf(t, n)
      BY DEF nameOf
    <2> QED BY <2>1, <2>2, <2>3, <2>4, <1>4 DEF meetOK
  <1>12. meetOK(t)'
    <2>1. meetOK(t)
      BY DEF meet
    <2>2. beat'[t] = beat'[s] \/ (ahead(t, s)' = 1 /\ late(s)') \/ (ahead(s, t)' = 1 /\ late(t)')
      BY <1>1, <1>2, <1>3, <1>5, <2>1 DEF meetOK
    <2>3. ~sends(t, {4})' /\ ~recvs(t, 3 .. 6)' /\ (sends(t, {5})' \/ recvs(t, 7 .. 11)' => ahead(s, t)' = 1)
      BY <1>1, <1>2, <1>3, <1>5, <1>6, <2>1 DEF meetOK
    <2>4. /\ recvs(t, {2})' => IF nameOf(s, signal(t)') \in view(t)'
                               THEN Len(sub'[t].evts) = 1 /\ sub'[t].evts[1].k = "PUBLISHED"
                               ELSE sub'[t].evts = <<>>
          /\ recvs(t, 7 .. 9)' => IF sub'[t].evts = <<>> THEN view(t)' = {nameOf(s, signal(t)')}
                                  ELSE sub'[t].evts[1] = [k |-> "WITHDRAWN", port |-> NoPort]
      BY <1>1, <1>2, <2>1 DEF meetOK
    <2>5. \A n : nameOf(s, n)' = nameOf(s, n)
      BY DEF nameOf
    <2> QED BY <1>1, <2>2, <2>3, <2>4, <2>5 DEF meetOK
  <1> QED BY <1>7, <1>8, <1>9, <1>10, <1>11, <1>12 DEF meet

\* Two signals have one name only if they are the same.
LEMMA SameSignal ==
  ASSUME NEW m \in SyncIds, NEW n \in SyncIds
  PROVE  overlap(syncAddr(m), syncAddr(n)) <=> m = n
  <1>1. m \in Int /\ n \in Int
    BY DEF SyncIds, TS_SYNC_WAITING_FOR_TEST_ID, TS_SYNC_FINISHED_TEST_ID
  <1>2. /\ syncAddr(m).type = syncAddr(n).type /\ syncAddr(m).lo = m /\ syncAddr(m).hi = m
        /\ syncAddr(n).lo = n /\ syncAddr(n).hi = n
    BY DEF syncAddr, setServerAddrTo
  <1> QED BY <1>1, <1>2 DEF overlap

\* The signal a side is at.
LEMMA SignalOf ==
  ASSUME NEW s \in Side, progOK, stage(s) # Free
  PROVE  signal(s) \in SyncIds
  <1>1. running(s) /\ proc[s].at <= Len(code(s))
    BY DEF stage
  <1>2. stage(s) \in Places
    BY <1>1, CallIs
  <1> QED BY <1>2 DEF Places, signal

\* A side that is not open knows no name of the other one but the one it has.
LEMMA ViewIs ==
  ASSUME NEW s \in Side, SyncInv, ~open(s), NEW n \in known[s], sync(n.addr), own(s) = {}
  PROVE  LET t == other(s)
         IN  /\ view(s) = {n} /\ n = nameOf(t, signal(t)) /\ sends(t, 3 .. 4) /\ signal(t) \in SyncIds
             /\ marks(link[s]) = {}
  <1> DEFINE t == other(s)
  <1>1. viewOK(s) /\ progOK /\ t \in Side
    BY SignalHas, Sides DEF meet
  <1>2. n \in view(s)
    BY DEF own, view
  <1>3. view(s) = {nameOf(t, signal(t))} /\ sends(t, 3 .. 4) /\ marks(link[s]) = {}
    BY <1>1, <1>2 DEF viewOK
  <1>4. signal(t) \in SyncIds
    <2>1. stage(t) # Free
      BY <1>3 DEF sends, Free
    <2> QED BY <1>1, <2>1, SignalOf
  <1> QED BY <1>2, <1>3, <1>4

\* recvSyncTIPC subscribes to the name of a signal.
LEMMA SubscribeSignal ==
  ASSUME NEW s \in Side, SyncInv, NEW m \in SyncIds, calls(s, "subscribe"), stage(s) = spot("recv", m, 1),
         call(s) = subscribe(syncAddr(m)), Subscribe(s)
  PROVE  SyncInv'
  <1> DEFINE t == other(s)
             fits == {n \in known[s] : overlap(n.addr, syncAddr(m))}
             first == [k |-> "PUBLISHED", port |-> (CHOOSE n \in fits : TRUE).port]
             evts == IF fits = {} THEN <<>> ELSE <<first>>
             e == [on |-> TRUE, addr |-> syncAddr(m), evts |-> evts]
  <1>1. call(s).addr = syncAddr(m) /\ call(s).op = "subscribe"
    BY DEF subscribe
  <1>2. /\ sub' = [sub EXCEPT ![s] = e] /\ Continue(s) /\ UNCHANGED <<status, main, importance>>
        /\ beat' = beat /\ sock' = sock /\ known' = known /\ link' = link
    BY <1>1 DEF Subscribe, proceeds
  <1>3. /\ e.on /\ e.addr = syncAddr(m) /\ e.evts = evts /\ DOMAIN e = DOMAIN NoSub
    BY DEF NoSub
  <1> HIDE DEF e
  <1>4. /\ progOK /\ domains /\ own_(s) /\ openOK(s) /\ sockOK(s) /\ meet(s) /\ meet(t)
        /\ beat' \in [Side -> 0 .. 3] /\ t # s /\ t \in Side /\ \A x \in Side : linkOK(x)
    BY <1>2, SignalHas, Sides
  <1>5. /\ namesPlain(s) /\ own(s) = {} /\ proc[s].port.sd # sockfd_R /\ sockfd_R \notin DOMAIN sock[s]
    BY <1>4, OwnRecv
  <1>6. /\ progOK' /\ stays(t) /\ opened(s)' = effect(opened(s), call(s))
        /\ proc'[s].port = proc[s].port /\ moves(s, "recv", m, 1)
    <2>1. /\ Continue(s) /\ UNCHANGED <<status, main, importance>> /\ beat' \in [Side -> 0 .. 3]
      BY <1>2, <1>4
    <2> QED BY <2>1, SignalContinue
  <1>7. stage(s)' = spot("recv", m, 2)
    BY <1>6 DEF moves, callsOf
  <1>8. openOK(s)' /\ sockOK(s)'
    <2>1. opened(s)' = opened(s)
      BY <1>1, <1>6 DEF effect
    <2> QED BY <1>2, <1>4, <2>1 DEF openOK, sockOK
  <1>9. /\ sub'[s] = e /\ domains' /\ untouched(t) /\ sock'[s] = sock[s]
        /\ known'[s] = known[s]
    BY <1>2, <1>4 DEF domains, untouched
  <1>10. isSeq(evts) /\ (fits # {} => Len(evts) = 1 /\ evts[1].k = "PUBLISHED") /\ (fits = {} => evts = <<>>)
    <2>1. first.k = "PUBLISHED"
      OBVIOUS
    <2> HIDE DEF first, fits
    <2> QED BY <2>1, SeqOne
  <1>11. fits # {} <=> nameOf(t, m) \in view(s)
    <2>1. ~open(s)
      BY DEF spot, open, recvs
    <2>2. ASSUME NEW n \in fits
          PROVE  nameOf(t, m) \in view(s)
      <3>1. n \in known[s] /\ sync(n.addr) /\ overlap(n.addr, syncAddr(m))
        BY SyncAddr DEF overlap, sync
      <3>2. view(s) = {n} /\ n = nameOf(t, signal(t)) /\ signal(t) \in SyncIds
        BY <1>5, <2>1, <3>1, ViewIs
      <3>3. n.addr = syncAddr(signal(t))
        BY <3>2 DEF nameOf
      <3>4. signal(t) = m
        BY <3>1, <3>2, <3>3, SameSignal
      <3> QED BY <3>2, <3>4
    <2>3. nameOf(t, m) \in view(s) => nameOf(t, m) \in fits
      <3>1. nameOf(t, m).addr = syncAddr(m)
        BY DEF nameOf
      <3>2. overlap(syncAddr(m), syncAddr(m))
        BY SameSignal
      <3> QED BY <3>1, <3>2 DEF view
    <2> QED BY <2>2, <2>3
  <1> HIDE DEF evts, fits
  <1>12. subSignal(s, m)'
    BY <1>3, <1>9, <1>10 DEF subSignal
  <1>13. namesPlain(s)' /\ own(s)' = {} /\ view(s)' = view(s)
    BY <1>5, <1>9 DEF namesPlain, own, view
  <1>14. own_(s)'
    <2>1. sockfd_R \notin DOMAIN sock'[s]
      BY <1>5, <1>9
    <2> QED BY ONLY <2>1, <1>7, <1>8, <1>12, <1>13, OwnRecv, s \in Side
  <1>15. \A x \in Side : linkOK(x)'
    BY <1>2, <1>4, LinkStays
  <1>16. meet(s)' /\ meet(t)'
    <2>1. /\ IF nameOf(t, m) \in view(s)
             THEN Len(sub'[s].evts) = 1 /\ sub'[s].evts[1].k = "PUBLISHED"
             ELSE sub'[s].evts = <<>>
      BY <1>3, <1>9, <1>10, <1>11
    <2> HIDE DEF t
    <2> QED BY <2>1, <1>2, <1>4, <1>6, <1>7, <1>9, <1>13, EarlyMeet DEF t
  <1> HIDE DEF t
  <1> QED BY <1>6, <1>9, <1>14, <1>15, <1>16, SignalStep DEF t

\* A side that knows the name of its signal finds the other side waiting for the byte.
LEMMA NameMet ==
  ASSUME NEW s \in Side, SyncInv, NEW m, ~open(s), nameOf(other(s), m) \in view(s)
  PROVE  LET t == other(s)
         IN  sends(t, {3}) /\ signal(t) = m /\ view(s) = {nameOf(t, m)} /\ marks(link[s]) = {}
  <1> DEFINE t == other(s)
  <1>1. viewOK(s) /\ t \in Side /\ other(t) = s
    BY SignalHas, Sides DEF meet
  <1>2. view(s) = {nameOf(t, signal(t))} /\ sends(t, 3 .. 4) /\ marks(link[s]) = {}
    BY <1>1 DEF viewOK
  <1>3. signal(t) = m
    <2>1. nameOf(t, signal(t)) = nameOf(t, m)
      BY <1>2
    <2>2. syncAddr(signal(t)) = syncAddr(m)
      BY <2>1 DEF nameOf
    <2> QED BY <2>2 DEF syncAddr, setServerAddrTo
  <1>4. ~sends(t, {4})
    <2>1. meetOK(t)
      BY <1>1, SignalHas DEF meet
    <2>2. ~answering(t)
      BY <1>1 DEF answering
    <2> QED BY <2>1, <2>2 DEF meetOK
  <1>5. sends(t, {3})
    BY <1>2, <1>4, StageSets
  <1> QED BY <1>2, <1>3, <1>5

\* The name of the signal is there: the side that signals waits for the byte.
LEMMA EventPublished ==
  ASSUME NEW s \in Side, SyncInv, NEW m, calls(s, "event"), stage(s) = spot("recv", m, 2),
         call(s) = event("PUBLISHED"), Event(s)
  PROVE  SyncInv'
  <1> DEFINE t == other(s)
             q == sub[s].evts
  <1>1. own_(s) /\ meet(s) /\ meet(t) /\ t \in Side /\ other(t) = s /\ domains /\ \A x \in Side : linkOK(x)
    BY SignalHas, Sides
  <1>2. q # <<>>
    BY DEF Event
  <1>3. nameOf(t, m) \in view(s) /\ Len(q) = 1 /\ q[1].k = "PUBLISHED"
    <2>1. recvs(s, {2}) /\ signal(s) = m
      BY DEF spot, recvs, signal
    <2> QED BY <1>1, <1>2, <2>1 DEF meet, meetOK
  <1>4. isSeq(q)
    BY <1>1, OwnRecv DEF subSignal
  <1>5. Head(q).k = "PUBLISHED" /\ Tail(q) = <<>>
    <2> HIDE DEF q
    <2>1. Head(q) = q[1] /\ Len(Tail(q)) = 0 /\ isSeq(Tail(q))
      BY <1>2, <1>3, <1>4, SeqTail
    <2>2. \A r : isSeq(r) /\ Len(r) = 0 => r = <<>>
      BY DEF isSeq
    <2> QED BY <2>1, <2>2, <1>3
  <1>6. call(s).want = "PUBLISHED"
    BY DEF event
  <1>7. /\ progOK' /\ domains' /\ stays(other(s)) /\ untouched(other(s)) /\ openOK(s)' /\ sockOK(s)'
        /\ sock'[s] = sock[s] /\ known'[s] = known[s] /\ subSignal(s, m)' /\ beat' = beat
        /\ sub'[s].evts = Tail(sub[s].evts) /\ moves(s, "recv", m, 2)
        /\ namesPlain(s)' /\ own(s)' = {} /\ view(s)' = view(s)
        /\ \A x \in Side : linkGrows(x)
    BY <1>5, <1>6, EventIs
  <1>8. stage(s)' = spot("recv", m, 3)
    BY <1>7 DEF moves, callsOf
  <1>9. sockfd_R \notin DOMAIN sock'[s]
    BY <1>1, <1>7, OwnRecv
  <1>10. own_(s)'
    BY <1>7, <1>8, <1>9, OwnRecv
  <1>11. ~open(s)
    BY DEF spot, open, recvs
  <1>12. sends(t, {3}) /\ signal(t) = m /\ view(s) = {nameOf(t, m)}
    BY <1>3, <1>11, NameMet
  <1>13. link' = link
    BY <1>5, <1>6 DEF Event
  <1>14. \A x \in Side : linkOK(x)'
    BY <1>1, <1>13, LinkStays
  <1>15. sub'[s].evts = <<>>
    BY <1>5, <1>7
  <1> HIDE DEF t
  <1>16. meet(s)' /\ meet(t)'
    <2>1. /\ t \in Side /\ t = other(s) /\ stage(s) = spot("recv", m, 2) /\ stage(s)' = spot("recv", m, 3)
          /\ stays(t) /\ untouched(t) /\ view(s)' = view(s) /\ beat' = beat /\ link' = link
          /\ meet(s) /\ meet(t)
          /\ sends(t, {3}) /\ signal(t) = m /\ sub'[s].evts = <<>> /\ view(s) = {nameOf(t, m)}
      BY <1>1, <1>7, <1>8, <1>12, <1>13, <1>15 DEF t
    <2>2. 2 \in {1, 2} /\ 3 \in {2, 3} /\ 3 # 2
      OBVIOUS
    <2> QED BY ONLY <2>1, <2>2, EarlyMeet, s \in Side
  <1> QED BY <1>7, <1>10, <1>14, <1>16, SignalStep DEF t

\* The byte is sent: from now on the side waits for the name to be withdrawn.
LEMMA SendMeet ==
  ASSUME NEW s \in Side, NEW t \in Side, t = other(s), NEW m, stage(s) = spot("recv", m, 6),
         stage(s)' = spot("recv", m, 7), stays(t), untouched(t), view(s)' = view(s), beat' = beat,
         sub'[s].evts = sub[s].evts, link'[s] = link[s], NEW p, Marked(p), p.k = "named",
         p.addr = syncAddr(m), link'[t] = link[t] \o <<p>>, isSeq(link[t]), meet(s), meet(t)
  PROVE  meet(s)' /\ meet(t)'
  <1>1. other(t) = s /\ s # t
    BY Sides
  <1>2. /\ \A J : (sends(t, J)' <=> sends(t, J)) /\ (recvs(t, J)' <=> recvs(t, J))
        /\ signal(t)' = signal(t) /\ (open(t)' <=> open(t)) /\ (late(t)' <=> late(t))
        /\ sub'[t] = sub[t] /\ sock'[t] = sock[t] /\ view(t)' = view(t)
    BY OtherStays
  <1>3. /\ \A J : ~sends(s, J)
        /\ ~recvs(s, 7 .. 9) /\ ~recvs(s, 7 .. 11) /\ ~open(s) /\ ~late(s) /\ recvs(s, 3 .. 6)
        /\ signal(s) = m
    BY DEF spot, sends, recvs, open, late, signal
  <1>4. /\ \A J : ~sends(s, J)'
        /\ recvs(s, 7 .. 9)' /\ recvs(s, 7 .. 11)' /\ late(s)' /\ ~recvs(s, {2})' /\ ~recvs(s, 3 .. 6)'
        /\ signal(s)' = m
    BY DEF spot, sends, recvs, late, signal
  <1>5. sends(t, {3}) /\ signal(t) = m /\ sub[s].evts = <<>> /\ view(s) = {nameOf(t, m)}
    BY <1>3 DEF meet, meetOK
  <1>6. /\ \A J : ~recvs(t, J)
        /\ ~open(t) /\ ~late(t) /\ sends(t, 3 .. 4) /\ sends(t, 3 .. 5) /\ ~sends(t, {4}) /\ ~sends(t, {5})
    <2>1. stage(t).k = "send" /\ stage(t).j = 3
      BY <1>5 DEF sends
    <2> QED BY <2>1 DEF sends, recvs, open, late
  <1>7. beat[s] = beat[t]
    BY <1>3, <1>6 DEF meet, meetOK
  <1>8. ~under(link[t], "named") /\ sock[t][sockfd_R].q = <<>>
    <2>1. ~answering(t)
      BY <1>1, <1>3 DEF answering
    <2> QED BY <1>5, <2>1 DEF meet, ackOK
  <1>9. view(t) = {} /\ marks(link[t]) = {}
    <2>1. viewOK(t) /\ ~sends(s, 3 .. 4) /\ ~open(t) /\ ~under(link[t], "named") /\ other(t) = s
      BY <1>1, <1>3, <1>6, <1>8 DEF meet
    <2> QED BY ONLY <2>1 DEF viewOK
  <1>10. marks(link[s]) = {}
    <2>1. viewOK(s)
      BY DEF meet
    <2> QED BY <1>3, <1>5, <1>6, <2>1 DEF viewOK
  <1>11. under(link'[t], "named") /\ underNamed(link'[t], "named", m)
    BY <1>9, JoinMarked
  <1>12. open(s)'
    BY <1>4, <1>5 DEF open
  <1>13. viewOK(s)'
    <2>1. nameOf(t, signal(t))' = nameOf(t, signal(t))
      BY <1>2 DEF nameOf
    <2>2. view(s)' = {nameOf(t, signal(t))'} /\ sends(t, 3 .. 4)' /\ marks(link'[s]) = {}
      BY <2>1, <1>2, <1>5, <1>6, <1>10
    <2> QED BY <2>2 DEF viewOK
  <1>14. viewOK(t)'
    BY <1>1, <1>2, <1>4, <1>9, <1>11 DEF viewOK
  <1>15. ackOK(s)'
    <2>1. ~under(link'[s], "named")
      BY <1>10, UnderOne
    <2> QED BY <2>1, <1>4 DEF ackOK
  <1>16. ackOK(t)'
    <2>1. answering(t)'
      BY <1>1, <1>2, <1>4, <1>5, <1>6, <1>7, <1>12 DEF answering
    <2>2. sends(t, {3})' /\ signal(t)' = m /\ sock'[t][sockfd_R].q = <<>>
      BY <1>2, <1>5, <1>8
    <2> QED BY <2>1, <2>2, <1>11 DEF ackOK
  <1>17. beat'[s] = beat'[t]
    BY <1>7
  <1>18. meetOK(s)'
    <2>1. view(s)' = {nameOf(t, signal(s))'} /\ sub'[s].evts = <<>> /\ sends(t, 3 .. 5)'
      <3>1. nameOf(t, signal(s))' = nameOf(t, m)
        BY <1>4 DEF nameOf
      <3> QED BY <3>1, <1>2, <1>5, <1>6
    <2> QED BY <2>1, <1>4, <1>12, <1>17 DEF meetOK
  <1>19. meetOK(t)'
    <2>1. ~sends(t, {4})' /\ ~sends(t, {5})' /\ \A J : ~recvs(t, J)'
      BY <1>2, <1>6
    <2> QED BY <2>1, <1>1, <1>17 DEF meetOK
  <1> QED BY <1>13, <1>14, <1>15, <1>16, <1>18, <1>19 DEF meet

\* The only name that fits a signal is that of the side that signals.
LEMMA SignalNode ==
  ASSUME NEW s \in Side, SyncInv, NEW m \in SyncIds, ~open(s), own(s) = {}, nameOf(other(s), m) \in view(s)
  PROVE  {n.port.side : n \in {x \in known[s] : overlap(x.addr, syncAddr(m))}} = {other(s)}
  <1> DEFINE t == other(s)
             fits == {x \in known[s] : overlap(x.addr, syncAddr(m))}
  <1>1. nameOf(t, m) \in fits /\ nameOf(t, m).port.side = t
    <2>1. overlap(syncAddr(m), syncAddr(m))
      BY SameSignal
    <2> QED BY <2>1 DEF view, nameOf, port
  <1>2. \A n \in fits : n = nameOf(t, m)
    <2>1. SUFFICES ASSUME NEW n \in fits PROVE n = nameOf(t, m)
      OBVIOUS
    <2>2. n \in known[s] /\ sync(n.addr)
      BY SyncAddr DEF overlap, sync
    <2>3. view(s) = {n}
      BY <2>2, ViewIs
    <2> QED BY <2>3
  <1>3. fits = {nameOf(t, m)}
    BY <1>1, <1>2
  <1> HIDE DEF fits
  <1>4. {n.port.side : n \in fits} = {t}
    BY <1>1, <1>3
  <1> QED BY <1>4 DEF fits

\* A message to a name that is known on one node goes there.
LEMMA SendToOne ==
  ASSUME NEW s, NEW t, SendTo(s), call(s).addr # portAddr,
         {n.port.side : n \in {m \in known[s] : overlap(m.addr, call(s).addr)}} = {t}
  PROVE  Post(<<datagram(s, "named", t, "")>>) /\ CountError(s, TRUE) /\ proceeds /\ UNCHANGED <<sock, known, sub>>
  <1> DEFINE nodes == {n.port.side : n \in {m \in known[s] : overlap(m.addr, call(s).addr)}}
             named(d) == Post(<<datagram(s, "named", d, "")>>)
  <1>1. nodes # {} => (\E d \in nodes : named(d)) /\ CountError(s, TRUE)
    BY Zenon DEF SendTo
  <1>2. proceeds /\ UNCHANGED <<sock, known, sub>>
    BY ONLY SendTo(s) DEF SendTo
  <1>3. nodes = {t}
    OBVIOUS
  <1> HIDE DEF nodes, named
  <1>4. named(t) /\ CountError(s, TRUE)
    BY ONLY <1>1, <1>3
  <1> QED BY ONLY <1>2, <1>4 DEF named

\* recvSyncTIPC answers.
LEMMA SendToSignal ==
  ASSUME NEW s \in Side, SyncInv, NEW m \in SyncIds, calls(s, "sendto"), stage(s) = spot("recv", m, 6),
         call(s) = sendto(sockfd_R, syncAddr(m), buffer("ack", 1)), SendTo(s)
  PROVE  SyncInv'
  <1> DEFINE t == other(s)
             p == datagram(s, "named", t, "")
             next == [go(proc[s], 1) EXCEPT !.bad = proc[s].bad]
  <1>1. call(s).addr = syncAddr(m) /\ call(s).op = "sendto" /\ call(s).sd = sockfd_R
        /\ call(s).msg = buffer("ack", 1)
    BY DEF sendto
  <1>2. /\ progOK /\ domains /\ own_(s) /\ openOK(s) /\ sockOK(s) /\ meet(s) /\ meet(t)
        /\ DOMAIN proc[s] = DOMAIN start(0)
        /\ t # s /\ t \in Side /\ other(t) = s /\ \A x \in Side : linkOK(x)
    BY SignalHas, Sides
  <1>3. /\ namesPlain(s) /\ own(s) = {} /\ subSignal(s, m) /\ proc[s].bad = 0
        /\ sockfd_R \in DOMAIN sock[s] /\ signalSock(sock[s][sockfd_R], NoAddr)
        /\ sock[s][sockfd_R].q = <<>>
    BY <1>2, OwnRecv
  <1>4. view(s) = {nameOf(t, m)}
    <2>1. recvs(s, 3 .. 6) /\ signal(s) = m
      BY DEF spot, recvs, signal
    <2> QED BY <1>2, <2>1 DEF meet, meetOK
  <1>5. ~open(s)
    BY DEF spot, open, recvs
  <1>6. {n.port.side : n \in {x \in known[s] : overlap(x.addr, call(s).addr)}} = {t}
    BY <1>1, <1>3, <1>4, <1>5, SignalNode
  <1>7. call(s).addr # portAddr
    BY <1>1, SyncAddr DEF portAddr, NoAddr
  <1>8. Post(<<p>>) /\ CountError(s, TRUE) /\ proceeds /\ UNCHANGED <<sock, known, sub>>
    BY <1>6, <1>7, SendToOne
  <1>9. /\ p.k = "named" /\ p.dst = t /\ p.from = port(s, sockfd_R) /\ p.addr = syncAddr(m)
        /\ p.msg = buffer("ack", 1) /\ ~p.keep
    <2>1. keeps(s) = FALSE
      BY <1>1, <1>3 DEF keeps, signalSock
    <2> QED BY <1>1, <2>1 DEF datagram, packet
  <1> HIDE DEF p
  <1>10. Marked(p) /\ markedOK(t, p)
    <2>1. p.from = port(other(t), sockfd_R) /\ sync(p.addr)
      BY <1>2, <1>9, SyncAddr
    <2>2. Marked(p)
      BY <1>9 DEF Marked, port
    <2> QED BY <1>9, <2>1, <2>2 DEF markedOK
  <1>11. link'[t] = link[t] \o <<p>> /\ link'[s] = link[s] /\ DOMAIN link' = Side
    <2>1. link' = after(<<p>>)
      BY <1>8 DEF Post
    <2>2. link'[t] = link[t] \o <<p>>
      BY <1>2, <1>9, <2>1, AfterOne
    <2>3. link'[s] = link[s] \o <<>>
      BY <1>2, <1>9, <2>1, AfterOne
    <2>4. link[s] \o <<>> = link[s]
      <3>1. isSeq(link[s])
        BY <1>2 DEF linkOK
      <3> QED BY <3>1 DEF isSeq
    <2> QED BY <2>1, <2>2, <2>3, <2>4, AfterDomain
  <1>12. /\ Goto(s, next) /\ DOMAIN next = DOMAIN start(0) /\ next.prog = proc[s].prog
         /\ next.asks = proc[s].asks /\ next.at = proc[s].at + 1 /\ next.bad = 0
    <2>1. /\ DOMAIN go(proc[s], 1) = DOMAIN start(0) /\ go(proc[s], 1).at = proc[s].at + 1
          /\ go(proc[s], 1).prog = proc[s].prog /\ go(proc[s], 1).asks = proc[s].asks
          /\ go(proc[s], 1).bad = proc[s].bad
      BY <1>2, GoIs
    <2>2. Goto(s, next)
      BY <1>8, <2>1 DEF CountError
    <2> QED BY <1>3, <2>1, <2>2 DEF start
  <1> HIDE DEF next
  <1>13. /\ UNCHANGED <<status, main, importance>> /\ beat' = beat /\ beat' \in [Side -> 0 .. 3]
         /\ sock' = sock /\ known' = known /\ sub' = sub
    BY <1>8, SignalHas DEF proceeds
  <1>14. /\ progOK' /\ stays(t) /\ proc'[s] = next /\ opened(s)' = effect(opened(s), call(s))
         /\ moves(s, "recv", m, 6)
    BY <1>12, <1>13, SignalNext
  <1>15. stage(s)' = spot("recv", m, 7)
    BY <1>14 DEF moves, callsOf
  <1>16. openOK(s)' /\ sockOK(s)'
    <2>1. opened(s)' = opened(s)
      BY <1>1, <1>14 DEF effect
    <2> QED BY <1>2, <1>13, <2>1 DEF openOK, sockOK
  <1>17. domains' /\ untouched(t)
    BY <1>2, <1>11, <1>13 DEF domains, untouched
  <1>18. /\ namesPlain(s)' /\ own(s)' = {} /\ view(s)' = view(s) /\ subSignal(s, m)'
    BY <1>3, <1>13 DEF namesPlain, own, view, subSignal
  <1>19. own_(s)'
    <2>1. /\ proc'[s].bad = 0
          /\ sockfd_R \in DOMAIN sock'[s] /\ signalSock(sock'[s][sockfd_R], NoAddr)
          /\ sock'[s][sockfd_R].q = <<>>
      BY <1>3, <1>12, <1>13, <1>14
    <2> QED BY ONLY <2>1, <1>15, <1>16, <1>18, OwnRecv, s \in Side
  <1>20. \A x \in Side : linkOK(x)'
    <2>1. linkOK(t)'
      BY <1>2, <1>10, <1>11, LinkMarked
    <2>2. linkOK(s)'
      BY <1>2, <1>11, LinkStays
    <2> QED BY <2>1, <2>2, Sides
  <1>21. meet(s)' /\ meet(t)'
    <2>1. isSeq(link[t])
      BY <1>2 DEF linkOK
    <2>2. /\ t \in Side /\ t = other(s) /\ stage(s) = spot("recv", m, 6) /\ stage(s)' = spot("recv", m, 7)
          /\ stays(t) /\ untouched(t) /\ view(s)' = view(s) /\ beat' = beat
          /\ sub'[s].evts = sub[s].evts /\ link'[s] = link[s] /\ Marked(p) /\ p.k = "named"
          /\ p.addr = syncAddr(m) /\ link'[t] = link[t] \o <<p>> /\ isSeq(link[t]) /\ meet(s) /\ meet(t)
      BY <1>2, <1>9, <1>10, <1>11, <1>13, <1>14, <1>15, <1>17, <1>18, <2>1
    <2> HIDE DEF t
    <2> QED BY ONLY <2>2, SendMeet, s \in Side
  <1> HIDE DEF t
  <1> QED BY <1>14, <1>17, <1>19, <1>20, <1>21, SignalStep DEF t

\* The calls that make up the signals.
SignalOps ==
  {"socket", "bind", "recv", "close", "synced", "subscribe", "event", "setopt", "clear", "sendto", "check",
   "unsubscribe"}

\* The calls a side at a signal may execute.
LEMMA SignalCalls ==
  ASSUME NEW s \in Side, progOK, stage(s) # Free, NEW o, calls(s, o)
  PROVE  o \in SignalOps
  BY SignalPlace DEF SignalOps, placed

\* A step of a side that is at a signal.
LEMMA SignalCallStep ==
  ASSUME NEW s \in Side, SyncInv, stage(s) # Free, Step(s)
  PROVE  SyncInv'
  <1>1. progOK
    BY InvParts
  <1>2. CASE Socket(s)
    <2>1. calls(s, "socket")
      BY <1>2 DEF Socket
    <2>2. PICK m \in SyncIds : placed(s, m, "socket")
      BY <1>1, <2>1, SignalPlace
    <2>3. /\ stage(s) \in {spot("send", m, 1), spot("recv", m, 3)}
          /\ call(s) = createSocketTIPC(sockfd_R, "RDM")
      BY <2>2 DEF placed
    <2> QED BY <1>2, <2>1, <2>3, SocketSignal
  <1>3. CASE SetOption(s)
    <2>1. calls(s, "setopt")
      BY <1>3 DEF SetOption
    <2>2. PICK m \in SyncIds : placed(s, m, "setopt")
      BY <1>1, <2>1, SignalPlace
    <2>3. stage(s) = spot("recv", m, 4) /\ call(s) = setOption(sockfd_R, "imp", CRITICAL)
      BY <2>2 DEF placed
    <2> QED BY <1>3, <2>1, <2>3, SetOptionSignal
  <1>4. CASE ClearErrors(s)
    <2>1. calls(s, "clear")
      BY <1>4 DEF ClearErrors
    <2>2. PICK m \in SyncIds : placed(s, m, "clear")
      BY <1>1, <2>1, SignalPlace
    <2>3. stage(s) = spot("recv", m, 5)
      BY <2>2 DEF placed
    <2> QED BY <1>4, <2>1, <2>3, ClearErrorsSignal
  <1>5. CASE CheckErrors(s)
    <2>1. calls(s, "check")
      BY <1>5 DEF CheckErrors
    <2>2. PICK m \in SyncIds : placed(s, m, "check")
      BY <1>1, <2>1, SignalPlace
    <2>3. stage(s) = spot("recv", m, 7)
      BY <2>2 DEF placed
    <2> QED BY <1>5, <2>1, <2>3, CheckErrorsSignal
  <1>6. CASE Synced(s)
    <2>1. calls(s, "synced")
      BY <1>6 DEF Synced
    <2>2. PICK m \in SyncIds : placed(s, m, "synced")
      BY <1>1, <2>1, SignalPlace
    <2>3. stage(s) \in {spot("send", m, 5), spot("recv", m, 11)}
      BY <2>2 DEF placed
    <2> QED BY <1>6, <2>1, <2>3, SyncedSignal
  <1>7. CASE Bind(s)
    <2>1. calls(s, "bind")
      BY <1>7 DEF Bind
    <2>2. PICK m \in SyncIds : placed(s, m, "bind")
      BY <1>1, <2>1, SignalPlace
    <2>3. stage(s) = spot("send", m, 2) /\ call(s) = bindSocketTIPC(sockfd_R, syncAddr(m))
      BY <2>2 DEF placed
    <2> QED BY <1>7, <2>1, <2>3, BindSignal
  <1>8. CASE Close(s)
    <2>1. calls(s, "close")
      BY <1>8 DEF Close
    <2>2. PICK m \in SyncIds : placed(s, m, "close")
      BY <1>1, <2>1, SignalPlace
    <2>3. /\ stage(s) \in {spot("send", m, 4), spot("recv", m, 8)}
          /\ call(s) = closeSocketTIPC(sockfd_R)
      BY <2>2 DEF placed
    <2> QED BY <1>8, <2>1, <2>3, CloseSend, CloseRecv
  <1>9. CASE Subscribe(s)
    <2>1. calls(s, "subscribe")
      BY <1>9 DEF Subscribe
    <2>2. PICK m \in SyncIds : placed(s, m, "subscribe")
      BY <1>1, <2>1, SignalPlace
    <2>3. stage(s) = spot("recv", m, 1) /\ call(s) = subscribe(syncAddr(m))
      BY <2>2 DEF placed
    <2> QED BY <1>9, <2>1, <2>3, SubscribeSignal
  <1>10. CASE Event(s)
    <2>1. calls(s, "event")
      BY <1>10 DEF Event
    <2>2. PICK m \in SyncIds : placed(s, m, "event")
      BY <1>1, <2>1, SignalPlace
    <2>3. \/ stage(s) = spot("recv", m, 2) /\ call(s) = event("PUBLISHED")
          \/ stage(s) = spot("recv", m, 9) /\ call(s) = event("WITHDRAWN")
      BY <2>2 DEF placed
    <2> QED BY <1>10, <2>1, <2>3, EventPublished, EventWithdrawn
  <1>11. CASE Unsubscribe(s)
    <2>1. calls(s, "unsubscribe")
      BY <1>11 DEF Unsubscribe
    <2>2. PICK m \in SyncIds : placed(s, m, "unsubscribe")
      BY <1>1, <2>1, SignalPlace
    <2>3. stage(s) = spot("recv", m, 10)
      BY <2>2 DEF placed
    <2> QED BY <1>11, <2>1, <2>3, UnsubscribeSignal
  <1>12. CASE SendTo(s)
    <2>1. calls(s, "sendto")
      BY <1>12 DEF SendTo
    <2>2. PICK m \in SyncIds : placed(s, m, "sendto")
      BY <1>1, <2>1, SignalPlace
    <2>3. /\ stage(s) = spot("recv", m, 6)
          /\ call(s) = sendto(sockfd_R, syncAddr(m), buffer("ack", 1))
      BY <2>2 DEF placed
    <2> QED BY <1>12, <2>1, <2>3, SendToSignal
  <1>13. CASE Recv(s)
    <2>1. calls(s, "recv")
      BY <1>13 DEF Recv
    <2>2. PICK m \in SyncIds : placed(s, m, "recv")
      BY <1>1, <2>1, SignalPlace
    <2>3. /\ stage(s) = spot("send", m, 3)
          /\ call(s) = receive(sockfd_R, 1, "some", FALSE, "ack")
      BY <2>2 DEF placed
    <2> QED BY <1>13, <2>1, <2>3, RecvSignal
  <1>0. \A o : calls(s, o) => o \in SignalOps
    BY <1>1, SignalCalls
  <1>14. /\ ~calls(s, "listen") /\ ~calls(s, "getopt") /\ ~calls(s, "importance") /\ ~calls(s, "set")
         /\ ~calls(s, "jump") /\ ~calls(s, "numRec")
    BY <1>0 DEF SignalOps
  <1>15. /\ ~calls(s, "mcastto") /\ ~calls(s, "send") /\ ~calls(s, "answer") /\ ~calls(s, "syn")
         /\ ~calls(s, "accept") /\ ~calls(s, "connect") /\ ~calls(s, "shutdown")
    BY <1>0 DEF SignalOps
  <1>16. ~calls(s, "mcast") /\ ~calls(s, "sleep")
    BY <1>0 DEF SignalOps
  <1>17. ~Listen(s) /\ ~GetOption(s) /\ ~SetImportance(s) /\ ~SetRegister(s) /\ ~Jump(s) /\ ~NumRec(s)
    BY <1>14 DEF Listen, GetOption, SetImportance, SetRegister, Jump, NumRec
  <1>18. ~McastTo(s) /\ ~Send(s) /\ ~Answer(s) /\ ~Syn(s) /\ ~Accept(s) /\ ~Connect(s) /\ ~Shutdown(s)
    BY <1>15 DEF McastTo, Send, Answer, Syn, Accept, Connect, Shutdown
  <1>19. ~McastRound(s) /\ ~McastEnd(s) /\ ~Sleep(s) /\ ~ConnectTimeout(s) /\ ~McastTimeout(s)
    BY <1>15, <1>16 DEF McastRound, McastEnd, Sleep, ConnectTimeout, McastTimeout
  <1> QED BY <1>2, <1>3, <1>4, <1>5, <1>6, <1>7, <1>8, <1>9, <1>10, <1>11, <1>12, <1>13, <1>17, <1>18,
             <1>19 DEF Step, OwnCall, SocketCall, NameCall, SendCall, ReceiveCall

\* Every call of either side.
LEMMA StepKeeps ==
  ASSUME NEW s \in Side, SyncInv, Step(s)
  PROVE  SyncInv'
  BY FreeStep, SignalCallStep

-----------------------------------------------------------------------------
(***************************************************************************)
(* The arrival of packets.                                                 *)
(***************************************************************************)
\* What a link may carry.
linkFine(x, q) ==
  isSeq(q) /\ \A i \in 1 .. Len(q) : IF Marked(q[i]) THEN markedOK(x, q[i]) ELSE plainOK(q[i])

\* What is under way to a side, in one formula.
LEMMA LinkIs ==
  ASSUME NEW x
  PROVE  (linkOK(x) <=> linkFine(x, link[x])) /\ (linkOK(x)' <=> linkFine(x, link'[x]))
  <1>1. linkOK(x) <=> linkFine(x, link[x])
    BY DEF linkOK, linkFine
  <1>2. linkOK(x)' <=> linkFine(x, link'[x])
    BY DEF linkOK, linkFine, markedOK
  <1> QED BY <1>1, <1>2

\* The first packet of a link is taken from it.
LEMMA LinkTail ==
  ASSUME NEW x, NEW q, linkFine(x, q), q # <<>>
  PROVE  /\ linkFine(x, Tail(q))
         /\ IF Marked(Head(q)) THEN markedOK(x, Head(q)) ELSE plainOK(Head(q))
  <1>1. isSeq(q)
    BY DEF linkFine
  <1>2. /\ isSeq(Tail(q)) /\ Len(Tail(q)) = Len(q) - 1 /\ Len(q) \in Nat \ {0} /\ Head(q) = q[1]
        /\ \A i \in 1 .. Len(q) - 1 : Tail(q)[i] = q[i + 1]
    BY <1>1, SeqTail
  <1>3. 1 \in 1 .. Len(q) /\ \A i \in 1 .. Len(q) - 1 : i + 1 \in 1 .. Len(q)
    BY <1>2
  <1>4. \A i \in 1 .. Len(Tail(q)) :
          IF Marked(Tail(q)[i]) THEN markedOK(x, Tail(q)[i]) ELSE plainOK(Tail(q)[i])
    BY <1>2, <1>3 DEF linkFine
  <1> QED BY <1>2, <1>3, <1>4 DEF linkFine

\* Packets that have to do with no signal are added to a link.
LEMMA LinkJoin ==
  ASSUME NEW x, NEW q, linkFine(x, q), NEW r, cleanSeq(r)
  PROVE  linkFine(x, q \o r) /\ (q # <<>> => q \o r # <<>> /\ Head(q \o r) = Head(q))
  <1>1. isSeq(q) /\ isSeq(r)
    BY DEF linkFine, cleanSeq
  <1>2. /\ isSeq(q \o r) /\ Len(q \o r) = Len(q) + Len(r) /\ Len(q) \in Nat /\ Len(r) \in Nat
        /\ \A i \in 1 .. Len(q) : (q \o r)[i] = q[i]
        /\ \A i \in Len(q) + 1 .. Len(q) + Len(r) :
             (q \o r)[i] = r[i - Len(q)] /\ i - Len(q) \in 1 .. Len(r)
    BY <1>1, SeqJoin
  <1>3. \A i \in 1 .. Len(q \o r) : i \in 1 .. Len(q) \/ i \in Len(q) + 1 .. Len(q) + Len(r)
    BY <1>2
  <1>4. linkFine(x, q \o r)
    BY <1>2, <1>3 DEF linkFine, cleanSeq
  <1>5. q # <<>> => q \o r # <<>> /\ Head(q \o r) = Head(q)
    <2>1. SUFFICES ASSUME q # <<>> PROVE q \o r # <<>> /\ Head(q \o r) = Head(q)
      OBVIOUS
    <2>2. Len(q) \in Nat \ {0} /\ Head(q) = q[1]
      BY <1>1, <2>1, SeqTail
    <2>3. q \o r # <<>>
      BY <1>2, <2>2, SeqNone
    <2>4. Head(q \o r) = (q \o r)[1]
      BY <1>2, <2>3, SeqTail
    <2> QED BY <1>2, <2>2, <2>3, <2>4
  <1> QED BY <1>4, <1>5

\* The arrival of a packet leaves the processes alone.
LEMMA ArrivalStays ==
  ASSUME SyncInv, UNCHANGED <<status, proc, main, importance, beat>>
  PROVE  progOK' /\ \A x \in Side : stays(x)
  <1>1. progOK
    BY InvParts
  <1>2. progOK'
    BY <1>1 DEF progOK, running, code, main
  <1>3. \A x \in Side : stays(x)
    BY DEF stays, stage, running, code, opened
  <1> QED BY <1>2, <1>3

\* A packet that has to do with no signal is taken from the link; its sender may
\* be sent it back.
LEMMA ArrivalLinks ==
  ASSUME NEW s \in Side, SyncInv, link[s] # <<>>, ~Marked(Head(link[s])),
         NEW r, cleanSeq(r), link'[s] = Tail(link[s] \o r), linkGrows(other(s))
  PROVE  \A x \in Side : linkOK(x)' /\ alike(link'[x], link[x])
  <1> DEFINE q == link[s]
  <1>1. linkFine(s, q) /\ linkOK(other(s)) /\ other(s) \in Side
    BY SignalHas, LinkIs, Sides
  <1>2. q # <<>> /\ ~Marked(Head(q)) /\ isSeq(q)
    BY <1>1 DEF linkFine
  <1> HIDE DEF q
  <1>3. linkFine(s, q \o r) /\ q \o r # <<>> /\ Head(q \o r) = Head(q)
    BY <1>1, <1>2, LinkJoin
  <1>4. linkFine(s, Tail(q \o r))
    BY <1>3, LinkTail
  <1>5. alike(q \o r, q)
    BY <1>2, JoinClean
  <1>6. alike(Tail(q \o r), q \o r)
    <2>1. isSeq(q \o r) /\ ~Marked(Head(q \o r))
      BY <1>2, <1>3 DEF linkFine
    <2> QED BY <1>3, <2>1, TailClean
  <1>7. alike(Tail(q \o r), q)
    BY <1>5, <1>6 DEF alike
  <1>8. linkOK(s)' /\ alike(link'[s], link[s])
    BY <1>4, <1>7, LinkIs DEF q
  <1>9. linkOK(other(s))' /\ alike(link'[other(s)], link[other(s)])
    BY <1>1, LinkGrows
  <1> QED BY <1>8, <1>9, Sides

\* A packet that has to do with no signal changes nothing the signals depend on.
LEMMA PlainArrival ==
  ASSUME NEW s \in Side, SyncInv, UNCHANGED <<status, proc, main, importance, beat>>,
         link[s] # <<>>, ~Marked(Head(link[s])),
         NEW r, cleanSeq(r), link'[s] = Tail(link[s] \o r), linkGrows(other(s)),
         domains', untouched(other(s)), own_(s)', view(s)' = view(s),
         recvs(s, 2 .. 9) => sub'[s] = sub[s],
         sends(s, {3}) => sock'[s][sockfd_R] = sock[s][sockfd_R]
  PROVE  SyncInv'
  <1> DEFINE t == other(s)
  <1>1. t \in Side /\ own_(t) /\ meet(s) /\ meet(t)
    BY SignalHas, Sides
  <1>2. progOK' /\ stays(s) /\ stays(t)
    BY <1>1, ArrivalStays
  <1>3. \A x \in Side : linkOK(x)' /\ alike(link'[x], link[x])
    BY ArrivalLinks
  <1>4. own_(t)' /\ view(t)' = view(t)
    BY <1>1, <1>2, OtherSide
  <1>5. \A J : (sends(s, J)' <=> sends(s, J)) /\ (recvs(s, J)' <=> recvs(s, J))
    BY <1>2 DEF stays, sends, recvs
  <1>6. signal(s)' = signal(s)
    BY <1>2 DEF stays, signal
  <1>7. open(s)' <=> open(s)
    <2>1. recvs(s, 7 .. 9) => recvs(s, 2 .. 9)
      BY DEF recvs
    <2> QED BY <1>5, <2>1 DEF open
  <1>8. sameAtoms(s)
    BY <1>5, <1>6, <1>7 DEF sameAtoms
  <1>9. stage(t)' = stage(t) /\ sub'[t] = sub[t] /\ sock'[t] = sock[t] /\ beat' = beat
    BY <1>2 DEF stays, untouched
  <1>10. meet(s)' /\ meet(t)'
    <2>1. alike(link'[s], link[s]) /\ alike(link'[t], link[t]) /\ t = other(s)
      BY <1>1, <1>3
    <2> HIDE DEF t
    <2> QED BY <1>1, <1>4, <1>8, <1>9, <2>1, MeetSame
  <1> QED BY <1>1, <1>2, <1>3, <1>4, <1>10, InvParts, Sides

\* What a side has after the arrival of a packet that has to do with no signal.
LEMMA ArrivalOwn ==
  ASSUME NEW s \in Side, own_(s), stays(s), DOMAIN sock'[s] = DOMAIN sock[s],
         sockfd_R \in DOMAIN sock[s] => sock'[s][sockfd_R] = sock[s][sockfd_R],
         \A x \in DOMAIN sock[s] : x # sockfd_R => sockFine(sock'[s][x]),
         namesPlain(s)', own(s)' = own(s),
         IF recvs(s, 2 .. 10) THEN sub'[s] = sub[s] ELSE subPlain(s)',
         ~sub[s].on => ~sub'[s].on
  PROVE  own_(s)'
  <1>1. /\ \A J : (sends(s, J)' <=> sends(s, J)) /\ (recvs(s, J)' <=> recvs(s, J))
        /\ signal(s)' = signal(s) /\ opened(s)' = opened(s) /\ proc'[s] = proc[s]
    BY DEF stays, sends, recvs, signal
  <1>2. openOK(s)'
    BY <1>1 DEF own_, openOK
  <1>3. sockOK(s)'
    BY DEF own_, sockOK, sockFine
  <1>4. nameOK(s)'
    <2>1. nameOf(s, signal(s))' = nameOf(s, signal(s))
      BY <1>1 DEF nameOf
    <2> QED BY <1>1, <2>1 DEF own_, nameOK, namesPlain
  <1>5. subOK(s)'
    BY <1>1 DEF own_, subOK, subPlain
  <1>6. signalSocketOK(s)'
    BY <1>1 DEF own_, signalSocketOK
  <1> QED BY <1>2, <1>3, <1>4, <1>5, <1>6 DEF own_

\* Names that are none of the signals come or go.
LEMMA ArrivalNames ==
  ASSUME NEW s \in Side, SyncInv, NEW ns, IsFiniteSet(ns),
         \A x \in ns : sync(x.addr) <=> x.port.sd = sockfd_R,
         {x \in ns : sync(x.addr)} = syncNames(s), SetNames(s, ns)
  PROVE  /\ DOMAIN known' = Side /\ DOMAIN sub' = Side
         /\ \A x \in Side \ {s} : known'[x] = known[x] /\ sub'[x] = sub[x]
         /\ namesPlain(s)' /\ own(s)' = own(s) /\ view(s)' = view(s)
         /\ IF recvs(s, 2 .. 10) THEN sub'[s] = sub[s] ELSE subPlain(s)'
         /\ ~sub[s].on => ~sub'[s].on
  <1>1. domains /\ own_(s)
    BY SignalHas
  <1>2. /\ known' = [known EXCEPT ![s] = ns] /\ sub' = [sub EXCEPT ![s] = subscription(s, ns)]
    BY DEF SetNames
  <1>3. /\ DOMAIN known' = Side /\ DOMAIN sub' = Side /\ known'[s] = ns /\ sub'[s] = subscription(s, ns)
        /\ \A x \in Side \ {s} : known'[x] = known[x] /\ sub'[x] = sub[x]
    BY <1>1, <1>2 DEF domains
  <1>4. namesPlain(s)' /\ syncNames(s)' = syncNames(s)
    BY <1>3 DEF namesPlain, syncNames
  <1>5. own(s)' = own(s) /\ view(s)' = view(s)
    <2>1. /\ own(s) = {x \in syncNames(s) : x.port.side = s} /\ view(s) = {x \in syncNames(s) : x.port.side # s}
          /\ own(s)' = {x \in syncNames(s)' : x.port.side = s} /\ view(s)' = {x \in syncNames(s)' : x.port.side # s}
      BY DEF own, view, syncNames
    <2> QED BY <1>4, <2>1
  <1>6. CASE recvs(s, 2 .. 10)
    <2>1. sub[s].addr = syncAddr(signal(s)) /\ sub[s].on
      BY <1>1, <1>6 DEF own_, subOK
    <2>2. \A n : overlap(n.addr, sub[s].addr) => sync(n.addr)
      BY <2>1, SyncAddr DEF overlap, sync
    <2>3. {n \in ns : overlap(n.addr, sub[s].addr)} = {n \in known[s] : overlap(n.addr, sub[s].addr)}
      BY <2>2 DEF syncNames
    <2>4. subscription(s, ns) = sub[s]
      BY <2>3 DEF subscription
    <2> QED BY <1>3, <1>4, <1>5, <1>6, <2>1, <2>4
  <1>7. CASE ~recvs(s, 2 .. 10)
    <2>1. subPlain(s)
      BY <1>1, <1>7 DEF own_, subOK, subPlain
    <2>2. subPlain(s)'
      BY <1>1, <1>2, <2>1, SubscriptionPlain DEF domains
    <2>3. ~sub[s].on => subscription(s, ns) = sub[s]
      BY DEF subscription
    <2> QED BY <1>3, <1>4, <1>5, <1>7, <2>2, <2>3
  <1> QED BY <1>6, <1>7

\* The first packet of a link, when it has to do with no signal.
LEMMA ArrivalPacket ==
  ASSUME NEW s \in Side, SyncInv, link[s] # <<>>, ~Marked(Head(link[s]))
  PROVE  LET p == Head(link[s])
         IN  plainOK(p) /\ fromTest(p) /\ p.from.sd # sockfd_R /\ p.to # sockfd_R /\ p.k \in Kinds
  <1>1. linkFine(s, link[s])
    BY SignalHas, LinkIs
  <1>2. plainOK(Head(link[s]))
    BY <1>1, LinkTail
  <1> QED BY <1>2 DEF plainOK, fromTest, Marked

\* A publication or a withdrawal that has to do with no signal.
LEMMA NamePlain ==
  ASSUME NEW s \in Side, SyncInv, UNCHANGED <<status, proc, main, importance, beat>>,
         link[s] # <<>>, ~Marked(Head(link[s])), Drop(s), NEW ns, SetNames(s, ns), IsFiniteSet(ns),
         \A x \in ns : sync(x.addr) <=> x.port.sd = sockfd_R, {x \in ns : sync(x.addr)} = syncNames(s)
  PROVE  SyncInv'
  <1> DEFINE t == other(s)
  <1>1. domains /\ own_(s) /\ t \in Side /\ t # s /\ linkOK(s) /\ linkOK(t)
    BY SignalHas, Sides
  <1>2. link' = [link EXCEPT ![s] = Tail(link[s])] /\ sock' = sock
    BY DEF Drop
  <1>3. /\ DOMAIN known' = Side /\ DOMAIN sub' = Side
        /\ \A x \in Side \ {s} : known'[x] = known[x] /\ sub'[x] = sub[x]
        /\ namesPlain(s)' /\ own(s)' = own(s) /\ view(s)' = view(s)
        /\ IF recvs(s, 2 .. 10) THEN sub'[s] = sub[s] ELSE subPlain(s)'
        /\ ~sub[s].on => ~sub'[s].on
    BY ArrivalNames
  <1>4. domains' /\ untouched(t)
    BY <1>1, <1>2, <1>3 DEF domains, untouched
  <1>5. stays(s)
    BY ArrivalStays
  <1>6. \A x \in DOMAIN sock[s] : x # sockfd_R => sockFine(sock[s][x])
    BY <1>1 DEF own_, sockOK, sockFine
  <1>7. own_(s)'
    BY <1>1, <1>2, <1>3, <1>5, <1>6, ArrivalOwn
  <1>8. link'[s] = Tail(link[s] \o <<>>) /\ cleanSeq(<<>>)
    <2>1. isSeq(link[s])
      BY <1>1 DEF linkOK
    <2>2. link[s] \o <<>> = link[s]
      BY <2>1, ConcatEmptySeq DEF isSeq
    <2>3. cleanSeq(<<>>)
      BY SeqNone DEF cleanSeq
    <2> QED BY <1>1, <1>2, <2>2, <2>3 DEF domains
  <1>9. linkGrows(t)
    BY <1>1, <1>2, LinkStays DEF domains
  <1>10. recvs(s, 2 .. 9) => recvs(s, 2 .. 10)
    BY DEF recvs
  <1> QED BY <1>2, <1>3, <1>4, <1>7, <1>8, <1>9, <1>10, PlainArrival

\* The publication of a name of no signal arrives.
LEMMA PublishPlain ==
  ASSUME NEW s \in Side, SyncInv, Deliver(s), ~Marked(Head(link[s])), Head(link[s]).k = "publish"
  PROVE  SyncInv'
  <1> DEFINE p == Head(link[s])
             ns == known[s] \cup {[addr |-> p.addr, port |-> p.from]}
  <1>1. /\ link[s] # <<>> /\ SetNames(s, ns) /\ Drop(s) /\ UNCHANGED <<status, proc, main, importance, beat>>
    BY DEF Deliver
  <1>2. plainOK(p) /\ p.from.sd # sockfd_R /\ namesPlain(s)
    BY <1>1, SignalHas, ArrivalPacket DEF own_, nameOK, namesPlain
  <1>3. ~sync(p.addr)
    BY <1>2 DEF plainOK
  <1>4. IsFiniteSet(ns)
    <2>1. IsFiniteSet(known[s])
      BY <1>2 DEF namesPlain
    <2> QED BY <2>1, FS_AddElement
  <1>5. /\ \A x \in ns : sync(x.addr) <=> x.port.sd = sockfd_R
        /\ {x \in ns : sync(x.addr)} = syncNames(s)
    <2> HIDE DEF p
    <2> QED BY <1>2, <1>3 DEF namesPlain, syncNames
  <1> HIDE DEF ns, p
  <1> QED BY <1>1, <1>4, <1>5, NamePlain DEF p

\* The withdrawal of a name of no signal arrives.
LEMMA WithdrawPlain ==
  ASSUME NEW s \in Side, SyncInv, Deliver(s), ~Marked(Head(link[s])), Head(link[s]).k = "withdraw"
  PROVE  SyncInv'
  <1> DEFINE p == Head(link[s])
             ns == {n \in known[s] : n.port # p.from}
  <1>1. /\ link[s] # <<>> /\ SetNames(s, ns) /\ Drop(s) /\ UNCHANGED <<status, proc, main, importance, beat>>
    BY DEF Deliver
  <1>2. p.from.sd # sockfd_R /\ namesPlain(s)
    BY <1>1, SignalHas, ArrivalPacket DEF own_, nameOK, namesPlain
  <1>4. IsFiniteSet(ns)
    <2>1. IsFiniteSet(known[s]) /\ ns \subseteq known[s]
      BY <1>2 DEF namesPlain
    <2> QED BY <2>1, FS_Subset
  <1>5. /\ \A x \in ns : sync(x.addr) <=> x.port.sd = sockfd_R
        /\ {x \in ns : sync(x.addr)} = syncNames(s)
    <2> HIDE DEF p
    <2> QED BY <1>2 DEF namesPlain, syncNames
  <1> HIDE DEF ns, p
  <1> QED BY <1>1, <1>4, <1>5, NamePlain DEF p

\* The first packet is taken from a link, and nothing of a signal is added.
linkTakes(s) ==
  /\ DOMAIN link' = Side /\ linkGrows(other(s))
  /\ \E r : cleanSeq(r) /\ link'[s] = Tail(link[s] \o r)

\* The first packet leaves the queue.
LEMMA TakesOne ==
  ASSUME NEW s \in Side, SyncInv, link' = [link EXCEPT ![s] = Tail(link[s])]
  PROVE  linkTakes(s)
  <1>1. domains /\ other(s) \in Side /\ other(s) # s /\ linkOK(s) /\ linkOK(other(s))
    BY SignalHas, Sides
  <1>2. link[s] \o <<>> = link[s] /\ cleanSeq(<<>>)
    <2>1. isSeq(link[s])
      BY <1>1 DEF linkOK
    <2>2. link[s] \o <<>> = link[s]
      BY <2>1, ConcatEmptySeq DEF isSeq
    <2>3. cleanSeq(<<>>)
      BY SeqNone DEF cleanSeq
    <2> QED BY <2>2, <2>3
  <1>3. link'[s] = Tail(link[s]) /\ link'[other(s)] = link[other(s)] /\ DOMAIN link' = Side
    BY <1>1 DEF domains
  <1>4. linkGrows(other(s))
    BY <1>1, <1>3, LinkStays
  <1> QED BY <1>2, <1>3, <1>4 DEF linkTakes

\* A packet is refused: it goes back to its sender.
LEMMA TakesRefused ==
  ASSUME NEW s \in Side, SyncInv, NEW p, ~Marked(p), p.to # sockfd_R, NEW error, Refuse(s, p, error)
  PROVE  linkTakes(s) /\ UNCHANGED sock
  <1> DEFINE e == errorFor(p, port(s, p.to), error)
             r(x) == IF e.dst = x THEN <<e>> ELSE <<>>
             t == other(s)
  <1>1. clean(e)
    BY ErrorClean DEF port
  <1>2. link' = [after(<<e>>) EXCEPT ![s] = Tail(after(<<e>>)[s])] /\ UNCHANGED sock
    BY DEF Refuse
  <1> HIDE DEF e
  <1>3. \A x : cleanSeq(r(x))
    BY <1>1, CleanOne
  <1>4. \A x \in Side : after(<<e>>)[x] = link[x] \o r(x)
    BY AfterOne
  <1>5. DOMAIN after(<<e>>) = Side /\ t \in Side /\ t # s
    BY AfterDomain, Sides
  <1> HIDE DEF r, t
  <1>6. DOMAIN link' = Side /\ link'[s] = Tail(link[s] \o r(s)) /\ link'[t] = link[t] \o r(t)
    BY <1>2, <1>4, <1>5
  <1>7. linkGrows(t)
    BY <1>3, <1>6 DEF linkGrows
  <1> QED BY <1>2, <1>3, <1>6, <1>7 DEF linkTakes, t

\* A packet that has to do with no signal gets to sockets that have neither.
LEMMA SockArrival ==
  ASSUME NEW s \in Side, SyncInv, UNCHANGED <<status, proc, main, importance, beat, known, sub>>,
         link[s] # <<>>, ~Marked(Head(link[s])), linkTakes(s),
         NEW f, DOMAIN sock' = Side, sock'[other(s)] = sock[other(s)], sock'[s] = f, DOMAIN f = DOMAIN sock[s],
         sockfd_R \in DOMAIN sock[s] => f[sockfd_R] = sock[s][sockfd_R],
         \A x \in DOMAIN sock[s] : x # sockfd_R => sockFine(f[x])
  PROVE  SyncInv'
  <1> DEFINE t == other(s)
  <1>1. domains /\ own_(s) /\ t \in Side /\ t # s
    BY SignalHas, Sides
  <1>2. PICK r : cleanSeq(r) /\ link'[s] = Tail(link[s] \o r)
    BY DEF linkTakes
  <1>3. domains' /\ untouched(t)
    BY <1>1 DEF domains, untouched, linkTakes
  <1>4. stays(s)
    BY ArrivalStays
  <1>5. namesPlain(s)' /\ own(s)' = own(s) /\ view(s)' = view(s)
    BY <1>1 DEF own_, nameOK, namesPlain, own, view
  <1>6. ~recvs(s, 2 .. 10) => subPlain(s)'
    BY <1>1 DEF own_, subOK, subPlain
  <1>7. own_(s)'
    <2>1. DOMAIN sock'[s] = DOMAIN sock[s] /\ sub'[s] = sub[s]
      BY <1>3
    <2> QED BY <1>1, <1>3, <1>4, <1>5, <1>6, <2>1, ArrivalOwn
  <1>8. sends(s, {3}) => sockfd_R \in DOMAIN sock[s]
    <2>1. sends(s, {3}) => sends(s, 2 .. 4)
      BY DEF sends
    <2> QED BY <1>1, <2>1 DEF own_, signalSocketOK
  <1>9. linkGrows(t)
    BY DEF linkTakes
  <1> QED BY <1>2, <1>3, <1>5, <1>7, <1>8, <1>9, PlainArrival

\* Nothing gets to a socket.
LEMMA NoArrival ==
  ASSUME NEW s \in Side, SyncInv, UNCHANGED <<status, proc, main, importance, beat, known, sub, sock>>,
         link[s] # <<>>, ~Marked(Head(link[s])), linkTakes(s)
  PROVE  SyncInv'
  <1>1. domains /\ sockOK(s)
    BY SignalHas
  <1>2. DOMAIN sock' = Side /\ sock'[other(s)] = sock[other(s)] /\ sock'[s] = sock[s]
    BY <1>1 DEF domains
  <1>3. \A x \in DOMAIN sock[s] : x # sockfd_R => sockFine(sock[s][x])
    BY <1>1 DEF sockOK, sockFine
  <1> QED BY <1>2, <1>3, SockArrival

\* A socket takes a packet that has to do with no signal.
LEMMA TakeArrival ==
  ASSUME NEW s \in Side, SyncInv, UNCHANGED <<status, proc, main, importance, beat, known, sub>>,
         link[s] # <<>>, ~Marked(Head(link[s])), NEW x \in DOMAIN sock[s], x # sockfd_R,
         NEW k, sockFine(k), Take(s, x, k)
  PROVE  SyncInv'
  <1> DEFINE f == with(sock[s], x, k)
  <1>1. domains /\ sockOK(s) /\ other(s) \in Side /\ other(s) # s
    BY SignalHas, Sides
  <1>2. link' = [link EXCEPT ![s] = Tail(link[s])] /\ sock' = [sock EXCEPT ![s] = f]
    BY DEF Take, setSock
  <1>3. DOMAIN f = DOMAIN sock[s] /\ f[x] = k /\ \A y \in DOMAIN sock[s] : y # x => f[y] = sock[s][y]
    BY DEF with
  <1>4. \A y \in DOMAIN sock[s] : y # sockfd_R => sockFine(sock[s][y])
    BY <1>1 DEF sockOK, sockFine
  <1>5. linkTakes(s)
    BY <1>2, TakesOne
  <1> HIDE DEF f
  <1>6. DOMAIN sock' = Side /\ sock'[other(s)] = sock[other(s)] /\ sock'[s] = f
    BY <1>1, <1>2 DEF domains
  <1> QED BY <1>3, <1>4, <1>5, <1>6, SockArrival

\* A packet in the queue of a socket.
LEMMA QueuedFine ==
  ASSUME NEW k, sockFine(k), NEW p, fromTest(p)
  PROVE  sockFine(queued(k, p))
  <1> DEFINE q == k.q
  <1>1. isSeq(q) /\ \A i \in 1 .. Len(q) : fromTest(q[i])
    BY DEF sockFine
  <1>2. /\ DOMAIN queued(k, p) = DOMAIN k /\ queued(k, p).q = Append(q, p)
        /\ queued(k, p).name = k.name /\ queued(k, p).peer = k.peer
    BY DEF queued, sockFine, newSocket
  <1> HIDE DEF q
  <1>3. /\ isSeq(Append(q, p)) /\ Len(Append(q, p)) = Len(q) + 1 /\ Len(q) \in Nat
        /\ \A i \in 1 .. Len(q) : Append(q, p)[i] = q[i]
        /\ Append(q, p)[Len(q) + 1] = p
    <2> HIDE <1>2
    <2> QED BY <1>1, SeqAppend
  <1>4. \A i \in 1 .. Len(Append(q, p)) : fromTest(Append(q, p)[i])
    BY <1>1, <1>3
  <1> QED BY <1>2, <1>3, <1>4 DEF sockFine

\* What holds when a packet that has to do with no signal arrives.
LEMMA ArrivalHas ==
  ASSUME NEW s \in Side, SyncInv, Deliver(s), ~Marked(Head(link[s]))
  PROVE  LET p == Head(link[s])
         IN  /\ link[s] # <<>> /\ UNCHANGED <<status, proc, main, importance, beat>>
             /\ plainOK(p) /\ fromTest(p) /\ p.from.sd # sockfd_R /\ p.to # sockfd_R /\ p.k \in Kinds
             /\ \A x \in DOMAIN sock[s] : x # sockfd_R => sockFine(sock[s][x])
             /\ p.k \in {"named", "syn", "mcast"} => sockfd_R \notin bound(s, p.addr)
  <1> DEFINE p == Head(link[s])
  <1>1. link[s] # <<>> /\ UNCHANGED <<status, proc, main, importance, beat>>
    BY DEF Deliver
  <1>2. plainOK(p) /\ fromTest(p) /\ p.from.sd # sockfd_R /\ p.to # sockfd_R /\ p.k \in Kinds
    BY <1>1, ArrivalPacket
  <1> HIDE DEF p
  <1>3. sockOK(s) /\ own_(s)
    BY SignalHas
  <1>4. \A x \in DOMAIN sock[s] : x # sockfd_R => sockFine(sock[s][x])
    BY <1>3 DEF sockOK, sockFine
  <1>5. ASSUME p.k \in {"named", "syn", "mcast"}, sockfd_R \in bound(s, p.addr)
        PROVE  FALSE
    <2>1. sockfd_R \in DOMAIN sock[s] /\ sock[s][sockfd_R].name.type = p.addr.type
      BY <1>5 DEF bound, overlap
    <2>2. sock[s][sockfd_R].name = syncAddr(signal(s)) \/ sock[s][sockfd_R].name = NoAddr
      BY <1>3, <2>1 DEF own_, signalSocketOK
    <2>3. ~sync(p.addr) /\ p.addr.type # NoAddr.type
      BY <1>2, <1>5 DEF plainOK
    <2> QED BY <2>1, <2>2, <2>3, SyncAddr DEF sync
  <1> QED BY <1>1, <1>2, <1>4, <1>5 DEF p

\* A datagram or the request of a connection arrives, for no signal.
LEMMA NamedPlain ==
  ASSUME NEW s \in Side, SyncInv, Deliver(s), ~Marked(Head(link[s])), Head(link[s]).k \in {"named", "syn"}
  PROVE  SyncInv'
  <1> DEFINE p == Head(link[s])
  <1>1. /\ IF bound(s, p.addr) # {}
           THEN \E x \in bound(s, p.addr) : Take(s, x, queued(sock[s][x], p))
           ELSE IF p.k = "syn" \/ p.keep THEN Refuse(s, p, "NO_NAME") ELSE Drop(s)
        /\ UNCHANGED <<known, sub>>
    BY DEF Deliver
  <1>2. /\ link[s] # <<>> /\ UNCHANGED <<status, proc, main, importance, beat>>
        /\ fromTest(p) /\ ~Marked(p) /\ p.to # sockfd_R
        /\ \A x \in DOMAIN sock[s] : x # sockfd_R => sockFine(sock[s][x])
        /\ sockfd_R \notin bound(s, p.addr)
    BY ArrivalHas
  <1> HIDE DEF p
  <1>3. ASSUME NEW x \in bound(s, p.addr), Take(s, x, queued(sock[s][x], p))
        PROVE  SyncInv'
    <2>1. x \in DOMAIN sock[s] /\ x # sockfd_R
      BY <1>2, <1>3 DEF bound
    <2>2. sockFine(queued(sock[s][x], p))
      BY <1>2, <2>1, QueuedFine
    <2> QED BY <1>1, <1>2, <1>3, <2>1, <2>2, TakeArrival
  <1>4. CASE Refuse(s, p, "NO_NAME")
    <2>1. linkTakes(s) /\ UNCHANGED sock
      BY <1>2, <1>4, TakesRefused
    <2> QED BY <1>1, <1>2, <2>1, NoArrival
  <1>5. CASE Drop(s)
    <2>1. linkTakes(s) /\ UNCHANGED sock
      BY <1>5, TakesOne DEF Drop
    <2> QED BY <1>1, <1>2, <2>1, NoArrival
  <1> QED BY <1>1, <1>3, <1>4, <1>5

\* A multicast arrives.
LEMMA McastPlain ==
  ASSUME NEW s \in Side, SyncInv, Deliver(s), ~Marked(Head(link[s])), Head(link[s]).k = "mcast"
  PROVE  SyncInv'
  <1> DEFINE p == Head(link[s])
             f == [x \in DOMAIN sock[s] |-> IF x \in bound(s, p.addr) /\ (sameCluster \/ p.from.side = s)
                                            THEN queued(sock[s][x], p) ELSE sock[s][x]]
  <1>1. /\ link' = [link EXCEPT ![s] = Tail(link[s])] /\ sock' = [sock EXCEPT ![s] = f]
        /\ UNCHANGED <<known, sub>>
    BY DEF Deliver
  <1>2. /\ link[s] # <<>> /\ UNCHANGED <<status, proc, main, importance, beat>>
        /\ fromTest(p) /\ ~Marked(Head(link[s]))
        /\ \A x \in DOMAIN sock[s] : x # sockfd_R => sockFine(sock[s][x])
        /\ sockfd_R \notin bound(s, p.addr)
    BY ArrivalHas
  <1> HIDE DEF p
  <1>3. domains /\ other(s) \in Side /\ other(s) # s
    BY SignalHas, Sides
  <1>4. linkTakes(s)
    BY <1>1, TakesOne
  <1>5. DOMAIN f = DOMAIN sock[s] /\ (sockfd_R \in DOMAIN sock[s] => f[sockfd_R] = sock[s][sockfd_R])
    BY <1>2
  <1>6. \A x \in DOMAIN sock[s] : x # sockfd_R => sockFine(f[x])
    <2>1. \A x \in DOMAIN sock[s] : x # sockfd_R => sockFine(queued(sock[s][x], p))
      BY <1>2, QueuedFine
    <2> QED BY <1>2, <2>1
  <1> HIDE DEF f
  <1>7. DOMAIN sock' = Side /\ sock'[other(s)] = sock[other(s)] /\ sock'[s] = f
    BY <1>1, <1>3 DEF domains
  <1> QED BY <1>1, <1>2, <1>4, <1>5, <1>6, <1>7, SockArrival

\* A packet for a socket of no signal arrives.
LEMMA DirectPlain ==
  ASSUME NEW s \in Side, SyncInv, Deliver(s), ~Marked(Head(link[s])),
         Head(link[s]).k \in {"direct", "data", "ack", "error"}
  PROVE  SyncInv'
  <1> DEFINE p == Head(link[s])
             k == sock[s][p.to]
  <1>2. /\ link[s] # <<>> /\ UNCHANGED <<status, proc, main, importance, beat>>
        /\ fromTest(p) /\ ~Marked(Head(link[s])) /\ ~Marked(p) /\ p.to # sockfd_R /\ p.from.sd # sockfd_R
        /\ \A x \in DOMAIN sock[s] : x # sockfd_R => sockFine(sock[s][x])
    BY ArrivalHas
  <1>1. /\ UNCHANGED <<known, sub>>
        /\ \/ p.to \in DOMAIN sock[s] /\ Take(s, p.to, queued(k, p))
           \/ p.to \in DOMAIN sock[s] /\ Take(s, p.to, [k EXCEPT !.conn = "up", !.peer = p.from])
           \/ /\ p.to \in DOMAIN sock[s]
              /\ Take(s, p.to, [queued(k, p) EXCEPT !.conn = IF @ \in {"up", "syn"} THEN "down" ELSE @])
           \/ Refuse(s, p, "NO_PORT") \/ Drop(s)
    BY DEF Deliver
  <1> HIDE DEF p
  <1>3. ASSUME NEW j, p.to \in DOMAIN sock[s], Take(s, p.to, j), sockFine(j)
        PROVE  SyncInv'
    BY <1>1, <1>2, <1>3, TakeArrival
  <1>4. p.to \in DOMAIN sock[s] => sockFine(k) /\ sockFine(queued(k, p))
    BY <1>2, QueuedFine
  <1> HIDE DEF k
  <1>5. ASSUME sockFine(k)
        PROVE  sockFine([k EXCEPT !.conn = "up", !.peer = p.from])
    BY <1>2, <1>5 DEF sockFine, newSocket
  <1>6. ASSUME NEW j, sockFine(j)
        PROVE  sockFine([j EXCEPT !.conn = IF j.conn \in {"up", "syn"} THEN "down" ELSE j.conn])
    BY <1>6 DEF sockFine, newSocket
  <1>7. CASE Refuse(s, p, "NO_PORT")
    <2>1. linkTakes(s) /\ UNCHANGED sock
      BY <1>2, <1>7, TakesRefused
    <2> QED BY <1>1, <1>2, <2>1, NoArrival
  <1>8. CASE Drop(s)
    <2>1. linkTakes(s) /\ UNCHANGED sock
      BY <1>8, TakesOne DEF Drop
    <2> QED BY <1>1, <1>2, <2>1, NoArrival
  <1> QED BY <1>1, <1>3, <1>4, <1>5, <1>6, <1>7, <1>8

\* The arrival of a packet that has to do with no signal.
LEMMA DeliverPlain ==
  ASSUME NEW s \in Side, SyncInv, Deliver(s), ~Marked(Head(link[s]))
  PROVE  SyncInv'
  <1>1. Head(link[s]).k \in Kinds
    BY ArrivalHas
  <1> QED BY <1>1, PublishPlain, WithdrawPlain, NamedPlain, McastPlain, DirectPlain DEF Kinds

\* Where a side is that stays.
LEMMA Stays ==
  ASSUME NEW s, stays(s)
  PROVE  /\ \A J : (sends(s, J)' <=> sends(s, J)) /\ (recvs(s, J)' <=> recvs(s, J))
         /\ signal(s)' = signal(s) /\ (late(s)' <=> late(s)) /\ proc'[s] = proc[s]
         /\ opened(s)' = opened(s)
  <1>1. /\ \A J : (sends(s, J)' <=> sends(s, J)) /\ (recvs(s, J)' <=> recvs(s, J))
        /\ signal(s)' = signal(s) /\ proc'[s] = proc[s] /\ opened(s)' = opened(s)
    BY DEF stays, sends, recvs, signal
  <1> QED BY <1>1 DEF late

\* The publication of the name of a signal arrives.
LEMMA PublishMeet ==
  ASSUME NEW s \in Side, NEW t \in Side, t = other(s), stays(s), stays(t), untouched(t), beat' = beat,
         sock'[s] = sock[s], link'[t] = link[t], under(link[s], "publish"), marks(link'[s]) = {},
         view(s) = {}, sends(t, 3 .. 4), view(s)' = {nameOf(t, signal(t))},
         recvs(s, {2}) => IF signal(t) = signal(s)
                          THEN Len(sub'[s].evts) = 1 /\ sub'[s].evts[1].k = "PUBLISHED"
                          ELSE sub'[s].evts = <<>>,
         recvs(s, 7 .. 9) => sub'[s].evts # <<>> /\ sub'[s].evts[1] = sub[s].evts[1],
         meet(s), meet(t)
  PROVE  meet(s)' /\ meet(t)'
  <1>1. other(t) = s /\ s # t
    BY Sides
  <1>2. /\ \A J : (sends(t, J)' <=> sends(t, J)) /\ (recvs(t, J)' <=> recvs(t, J))
        /\ signal(t)' = signal(t) /\ (open(t)' <=> open(t)) /\ (late(t)' <=> late(t))
        /\ sub'[t] = sub[t] /\ sock'[t] = sock[t] /\ view(t)' = view(t)
    BY OtherStays
  <1>3. /\ \A J : (sends(s, J)' <=> sends(s, J)) /\ (recvs(s, J)' <=> recvs(s, J))
        /\ signal(s)' = signal(s) /\ (late(s)' <=> late(s))
    BY Stays
  <1>4. viewOK(s) /\ ackOK(s) /\ meetOK(s) /\ viewOK(t) /\ ackOK(t) /\ meetOK(t)
    BY DEF meet
  <1>5. ~recvs(s, 3 .. 6) /\ (recvs(s, 7 .. 9) => sub[s].evts # <<>> /\ sub[s].evts[1] = [k |-> "WITHDRAWN", port |-> NoPort])
    <2>1. view(s) # {nameOf(t, signal(s))}
      OBVIOUS
    <2> QED BY <1>4, <2>1 DEF meetOK
  <1>6. ~open(s) /\ ~open(s)'
    BY <1>3, <1>5 DEF open
  <1>7. ahead(s, t)' = ahead(s, t) /\ ahead(t, s)' = ahead(t, s)
    BY DEF ahead
  <1>8. /\ \A n : nameOf(t, n)' = nameOf(t, n) /\ nameOf(s, n)' = nameOf(s, n)
        /\ answering(s)' <=> answering(s)
        /\ answering(t)' <=> answering(t)
    <2>1. \A n : nameOf(t, n)' = nameOf(t, n) /\ nameOf(s, n)' = nameOf(s, n)
      BY DEF nameOf
    <2>2. answering(s)' <=> answering(s)
      BY <1>2, <1>3 DEF answering
    <2>3. answering(t)' <=> answering(t)
      BY <1>1, <1>6 DEF answering
    <2> QED BY <2>1, <2>2, <2>3
  <1>9. viewOK(s)'
    <2>1. view(s)' = {nameOf(t, signal(t)')} /\ sends(t, 3 .. 4)' /\ marks(link'[s]) = {}
      BY <1>2
    <2> QED BY <2>1, <1>8 DEF viewOK
  <1>10. viewOK(t)'
    <2>1. nameOf(s, signal(t))' = nameOf(s, signal(t)) /\ nameOf(s, signal(s))' = nameOf(s, signal(s))
      BY <1>2, <1>3, <1>8
    <2> QED BY <1>1, <1>2, <1>3, <1>4, <1>7, <2>1 DEF viewOK
  <1>11. ackOK(s)'
    <2>1. ~under(link[s], "named") /\ ~under(link'[s], "named") /\ \A m : ~underNamed(link[s], "named", m)
      BY UnderOne
    <2> QED BY <1>3, <1>4, <1>8, <2>1 DEF ackOK
  <1>12. ackOK(t)'
    BY <1>1, <1>2, <1>4, <1>8 DEF ackOK
  <1>13. meetOK(s)'
    <2>1. recvs(s, {2})' => IF nameOf(t, signal(s))' \in view(s)'
                            THEN Len(sub'[s].evts) = 1 /\ sub'[s].evts[1].k = "PUBLISHED"
                            ELSE sub'[s].evts = <<>>
      <3>1. nameOf(t, signal(s))' = nameOf(t, signal(s))
        BY <1>3, <1>8
      <3>2. nameOf(t, signal(s)) = nameOf(t, signal(t)) => signal(s) = signal(t)
        BY DEF nameOf, syncAddr, setServerAddrTo
      <3> QED BY <1>3, <3>1, <3>2
    <2>2. ~recvs(s, 3 .. 6)' /\ (recvs(s, 7 .. 9)' => sub'[s].evts # <<>>
                                                   /\ sub'[s].evts[1] = [k |-> "WITHDRAWN", port |-> NoPort])
      BY <1>3, <1>5
    <2> QED BY <1>2, <1>3, <1>4, <1>6, <1>7, <1>8, <2>1, <2>2 DEF meetOK
  <1>14. meetOK(t)'
    <2>1. /\ nameOf(s, signal(t))' = nameOf(s, signal(t))
      BY <1>2, <1>8
    <2> QED BY <1>1, <1>2, <1>3, <1>4, <1>6, <1>7, <1>8, <2>1 DEF meetOK
  <1> QED BY <1>9, <1>10, <1>11, <1>12, <1>13, <1>14 DEF meet

\* A packet of a signal arrives.
LEMMA MarkedHas ==
  ASSUME NEW s \in Side, SyncInv, Deliver(s), Marked(Head(link[s]))
  PROVE  LET p == Head(link[s])
         IN  /\ link[s] # <<>> /\ isSeq(link[s]) /\ UNCHANGED <<status, proc, main, importance, beat>>
             /\ markedOK(s, p)
             /\ progOK' /\ stays(s) /\ stays(other(s))
             /\ domains /\ own_(s) /\ own_(other(s)) /\ meet(s) /\ meet(other(s))
             /\ \A x \in Side : linkOK(x)
             /\ linkFine(s, Tail(link[s]))
  <1>1. link[s] # <<>> /\ UNCHANGED <<status, proc, main, importance, beat>>
    BY DEF Deliver
  <1>2. linkFine(s, link[s]) /\ other(s) \in Side /\ domains /\ own_(s) /\ own_(other(s)) /\ meet(s)
        /\ meet(other(s)) /\ \A x \in Side : linkOK(x)
    BY SignalHas, LinkIs, Sides
  <1>3. markedOK(s, Head(link[s])) /\ linkFine(s, Tail(link[s]))
    BY <1>1, <1>2, LinkTail
  <1>4. progOK' /\ stays(s) /\ stays(other(s))
    BY <1>1, <1>2, ArrivalStays
  <1> QED BY <1>1, <1>2, <1>3, <1>4 DEF linkFine

\* What a side has after it has heard of a name of a signal.
LEMMA NameOwn ==
  ASSUME NEW s \in Side, own_(s), stays(s), sock'[s] = sock[s], namesPlain(s)', own(s)' = own(s),
         IF recvs(s, 2 .. 10) THEN subSignal(s, signal(s))' ELSE sub'[s] = sub[s]
  PROVE  own_(s)'
  <1>1. /\ \A J : (sends(s, J)' <=> sends(s, J)) /\ (recvs(s, J)' <=> recvs(s, J))
        /\ signal(s)' = signal(s) /\ opened(s)' = opened(s) /\ proc'[s] = proc[s]
    BY Stays
  <1>2. openOK(s)' /\ sockOK(s)'
    BY <1>1 DEF own_, openOK, sockOK
  <1>3. nameOK(s)'
    <2>1. nameOf(s, signal(s))' = nameOf(s, signal(s))
      BY <1>1 DEF nameOf
    <2> QED BY <1>1, <2>1 DEF own_, nameOK, namesPlain
  <1>4. subOK(s)'
    <2>1. CASE recvs(s, 2 .. 10)
      <3>1. ~recvs(s, {11})
        BY <2>1 DEF recvs
      <3> QED BY <1>1, <2>1, <3>1 DEF own_, subOK, subSignal
    <2>2. CASE ~recvs(s, 2 .. 10)
      BY <1>1, <2>2 DEF own_, subOK
    <2> QED BY <2>1, <2>2
  <1>5. signalSocketOK(s)'
    BY <1>1 DEF own_, signalSocketOK
  <1> QED BY <1>2, <1>3, <1>4, <1>5 DEF own_

\* The names that fit the subscription of a side at a signal.
LEMMA FitsSignal ==
  ASSUME NEW s \in Side, own_(s), recvs(s, 2 .. 10)
  PROVE  /\ sub[s].on /\ sub[s].addr = syncAddr(signal(s)) /\ own(s) = {}
         /\ {n \in known[s] : overlap(n.addr, sub[s].addr)} = {n \in view(s) : overlap(n.addr, syncAddr(signal(s)))}
  <1>1. sub[s].on /\ sub[s].addr = syncAddr(signal(s))
    BY DEF own_, subOK
  <1>2. own(s) = {}
    <2>1. ~sends(s, 3 .. 4)
      BY DEF recvs, sends
    <2> QED BY <2>1 DEF own_, nameOK
  <1>3. \A n : overlap(n.addr, sub[s].addr) => sync(n.addr)
    BY <1>1, SyncAddr DEF overlap, sync
  <1> QED BY <1>1, <1>2, <1>3 DEF own, view

\* A side that does not await a signal hears nothing of its name.
LEMMA NoSignalEvent ==
  ASSUME NEW s \in Side, own_(s), ~recvs(s, 2 .. 10), NEW ns,
         \A n \in ns : sync(n.addr) \/ n \in known[s], \A n \in known[s] : sync(n.addr) \/ n \in ns
  PROVE  subscription(s, ns) = sub[s]
  <1>1. sub[s].on => ~sync(sub[s].addr)
    BY DEF own_, subOK
  <1>2. sub[s].on => \A n : overlap(n.addr, sub[s].addr) => ~sync(n.addr)
    BY <1>1 DEF overlap, sync
  <1>3. sub[s].on => {n \in ns : overlap(n.addr, sub[s].addr)} = {n \in known[s] : overlap(n.addr, sub[s].addr)}
    BY <1>2
  <1> QED BY <1>3 DEF subscription

\* A side hears that a signal is given.
LEMMA PublishedEvent ==
  ASSUME NEW s \in Side, own_(s), recvs(s, 2 .. 10), view(s) = {}, signal(s) \in SyncIds, NEW m \in SyncIds,
         NEW ns, ns = known[s] \cup {nameOf(other(s), m)}, sub'[s] = subscription(s, ns), signal(s)' = signal(s)
  PROVE  /\ subSignal(s, signal(s))'
         /\ m = signal(s) => \E e : e.k = "PUBLISHED" /\ sub'[s].evts = Append(sub[s].evts, e)
         /\ m # signal(s) => sub'[s].evts = sub[s].evts
  <1> DEFINE i == signal(s)
             n0 == nameOf(other(s), m)
             was == {n \in known[s] : overlap(n.addr, sub[s].addr)}
             now == {n \in ns : overlap(n.addr, sub[s].addr)}
             e == [k |-> "PUBLISHED", port |-> (CHOOSE n \in now : TRUE).port]
             q == sub[s].evts
  <1>1. sub[s].on /\ sub[s].addr = syncAddr(i) /\ was = {}
    BY FitsSignal
  <1>2. n0.addr = syncAddr(m) /\ (overlap(syncAddr(m), syncAddr(i)) <=> m = i)
    BY SameSignal DEF nameOf
  <1>3. now = IF m = i THEN {n0} ELSE {}
    <2> HIDE DEF n0, i
    <2>1. \A n \in ns : n \in known[s] \/ n = n0
      BY DEF n0
    <2>2. n0 \in ns
      BY DEF n0
    <2>3. \A n \in known[s] : ~overlap(n.addr, sub[s].addr)
      BY <1>1
    <2>4. overlap(n0.addr, sub[s].addr) <=> m = i
      BY <1>1, <1>2
    <2> QED BY <2>1, <2>2, <2>3, <2>4
  <1>4. subscription(s, ns) = IF m = i THEN [sub[s] EXCEPT !.evts = Append(sub[s].evts, e)] ELSE sub[s]
    <2> HIDE DEF i
    <2> QED BY <1>1, <1>3 DEF subscription
  <1>5. e.k = "PUBLISHED"
    OBVIOUS
  <1>6. DOMAIN sub[s] = DOMAIN NoSub /\ isSeq(q)
    BY DEF own_, subOK
  <1> HIDE DEF e, was, now, n0, i
  <1>7. isSeq(Append(q, e))
    <2> HIDE DEF q
    <2> QED BY ONLY <1>6, SeqAppend
  <1>8. CASE m = i
    <2>1. sub'[s] = [sub[s] EXCEPT !.evts = Append(q, e)]
      BY <1>4, <1>8
    <2> HIDE DEF q
    <2>2. /\ DOMAIN sub'[s] = DOMAIN NoSub /\ sub'[s].on = sub[s].on /\ sub'[s].addr = sub[s].addr
          /\ sub'[s].evts = Append(q, e)
      BY <1>6, <2>1 DEF NoSub
    <2>3. subSignal(s, signal(s))'
      BY <1>1, <1>7, <2>2 DEF subSignal, i
    <2> QED BY <1>5, <1>8, <2>2, <2>3 DEF q, i
  <1>9. CASE m # i
    <2>1. sub'[s] = sub[s]
      BY <1>4, <1>9
    <2>2. subSignal(s, signal(s))'
      BY <1>1, <1>6, <2>1 DEF subSignal, q, i
    <2> QED BY <1>9, <2>1, <2>2 DEF i
  <1> QED BY <1>8, <1>9

\* The publication of the name of a signal.
LEMMA PublishSignal ==
  ASSUME NEW s \in Side, SyncInv, Deliver(s), Marked(Head(link[s])), Head(link[s]).k = "publish"
  PROVE  SyncInv'
  <1> DEFINE t == other(s)
             p == Head(link[s])
             m == signal(t)
             ns == known[s] \cup {nameOf(t, m)}
  <1>1. /\ link[s] # <<>> /\ isSeq(link[s]) /\ UNCHANGED <<status, proc, main, importance, beat>>
        /\ markedOK(s, p) /\ progOK' /\ stays(s) /\ stays(t)
        /\ domains /\ own_(s) /\ own_(t) /\ meet(s) /\ meet(t) /\ \A x \in Side : linkOK(x)
        /\ linkFine(s, Tail(link[s]))
    BY MarkedHas
  <1>2. t \in Side /\ t # s /\ other(t) = s /\ progOK
    BY Sides, SignalHas
  <1>3. SetNames(s, known[s] \cup {[addr |-> p.addr, port |-> p.from]}) /\ Drop(s)
    BY DEF Deliver
  <1>4. /\ under(link[s], "publish") /\ view(s) = {} /\ sends(t, 3 .. 4) /\ p.addr = syncAddr(m)
        /\ marks(Tail(link[s])) = {}
    <2> DEFINE q == link[s]
    <2>1. /\ marks(q) # {}
          /\ \A k : under(q, k) => marks(Tail(q)) = {} /\ Head(q).k = k
          /\ \A k, i : underNamed(q, k, i) => Head(q).addr = syncAddr(i)
          /\ \A i : underBoth(q, i) => Head(q).k = "withdraw"
      <3>1. isSeq(q) /\ q # <<>> /\ Marked(Head(q))
        BY <1>1
      <3> HIDE DEF q
      <3> QED BY ONLY <3>1, TailMarked
    <2>2. Head(q).k = "publish" /\ \A k, i : underNamed(q, k, i) => under(q, k)
      BY UnderOne
    <2> HIDE DEF q
    <2>3. \/ view(s) = {} /\ ~sends(t, 3 .. 4) /\ (marks(q) = {} \/ under(q, "named"))
          \/ view(s) = {} /\ sends(t, 3 .. 4) /\ underNamed(q, "publish", m)
          \/ marks(q) = {}
          \/ under(q, "withdraw")
          \/ underBoth(q, m)
      BY <1>1 DEF q, meet, viewOK
    <2>4. view(s) = {} /\ sends(t, 3 .. 4) /\ underNamed(q, "publish", m)
      BY ONLY <2>1, <2>2, <2>3
    <2> QED BY <2>1, <2>2, <2>4 DEF q
  <1>5. p.from = port(t, sockfd_R)
    BY <1>1 DEF markedOK
  <1>6. m \in SyncIds
    <2>1. stage(t) # Free
      BY <1>4 DEF sends, Free
    <2> QED BY <1>2, <2>1, SignalOf
  <1> HIDE DEF p
  <1>7. /\ known' = [known EXCEPT ![s] = ns] /\ sub' = [sub EXCEPT ![s] = subscription(s, ns)]
        /\ sock' = sock /\ link' = [link EXCEPT ![s] = Tail(link[s])]
    BY <1>3, <1>4, <1>5 DEF SetNames, Drop, nameOf
  <1> HIDE DEF m
  <1>8. /\ known'[s] = ns /\ sub'[s] = subscription(s, ns) /\ link'[s] = Tail(link[s])
        /\ sock'[s] = sock[s] /\ link'[t] = link[t] /\ untouched(t) /\ domains'
    BY <1>1, <1>2, <1>7 DEF domains, untouched
  <1>9. namesPlain(s)' /\ own(s)' = own(s) /\ view(s)' = {nameOf(t, m)}
    <2>1. namesPlain(s)
      BY <1>1 DEF own_, nameOK, namesPlain
    <2>2. sync(nameOf(t, m).addr) /\ nameOf(t, m).port.sd = sockfd_R /\ nameOf(t, m).port.side = t
      BY SyncAddr DEF nameOf, port
    <2>3. IsFiniteSet(ns)
      BY <2>1, FS_AddElement DEF namesPlain
    <2>4. namesPlain(s)'
      BY <1>8, <2>1, <2>2, <2>3 DEF namesPlain
    <2> HIDE DEF t
    <2>5. own(s)' = own(s)
      BY <1>2, <1>8, <2>2 DEF own
    <2>6. view(s)' = {nameOf(t, m)}
      BY <1>2, <1>4, <1>8, <2>2 DEF view
    <2> QED BY <2>4, <2>5, <2>6
  <1>10. recvs(s, 2 .. 10) => signal(s) \in SyncIds
    <2>1. recvs(s, 2 .. 10) => stage(s) # Free
      BY DEF recvs, Free
    <2> QED BY <1>2, <2>1, SignalOf
  <1>11. recvs(s, 2 .. 10) =>
           /\ subSignal(s, signal(s))'
           /\ m = signal(s) => \E e : e.k = "PUBLISHED" /\ sub'[s].evts = Append(sub[s].evts, e)
           /\ m # signal(s) => sub'[s].evts = sub[s].evts
    <2>1. signal(s)' = signal(s)
      BY <1>1, Stays
    <2> QED BY <1>1, <1>4, <1>6, <1>8, <1>10, <2>1, PublishedEvent
  <1>12. ~recvs(s, 2 .. 10) => sub'[s] = sub[s]
    <2>1. \A n \in ns : sync(n.addr) \/ n \in known[s]
      BY SyncAddr DEF nameOf
    <2> HIDE DEF ns
    <2>2. \A n \in known[s] : sync(n.addr) \/ n \in ns
      BY DEF ns
    <2> QED BY <1>1, <1>8, <2>1, <2>2, NoSignalEvent
  <1> HIDE DEF ns
  <1>13. own_(s)'
    BY <1>1, <1>8, <1>9, <1>11, <1>12, NameOwn
  <1>14. own_(t)'
    BY <1>1, <1>2, <1>8, OtherSide
  <1>15. \A x \in Side : linkOK(x)'
    <2>1. linkOK(s)'
      BY <1>1, <1>8, LinkIs
    <2>2. linkOK(t)'
      BY <1>1, <1>2, <1>8, LinkStays
    <2> QED BY <2>1, <2>2, Sides
  <1>16. recvs(s, {2}) => IF m = signal(s)
                          THEN Len(sub'[s].evts) = 1 /\ sub'[s].evts[1].k = "PUBLISHED"
                          ELSE sub'[s].evts = <<>>
    <2>1. SUFFICES ASSUME recvs(s, {2})
                   PROVE  IF m = signal(s)
                          THEN Len(sub'[s].evts) = 1 /\ sub'[s].evts[1].k = "PUBLISHED"
                          ELSE sub'[s].evts = <<>>
      OBVIOUS
    <2>2. recvs(s, 2 .. 10)
      BY <2>1 DEF recvs
    <2>3. sub[s].evts = <<>>
      BY <1>1, <1>4, <2>1 DEF meet, meetOK
    <2>4. \A e : Len(Append(<<>>, e)) = 1 /\ Append(<<>>, e)[1] = e
      OBVIOUS
    <2> QED BY <1>11, <2>2, <2>3, <2>4
  <1>17. recvs(s, 7 .. 9) => sub'[s].evts # <<>> /\ sub'[s].evts[1] = sub[s].evts[1]
    <2>1. SUFFICES ASSUME recvs(s, 7 .. 9)
                   PROVE  sub'[s].evts # <<>> /\ sub'[s].evts[1] = sub[s].evts[1]
      OBVIOUS
    <2> DEFINE q == sub[s].evts
    <2>2. recvs(s, 2 .. 10)
      BY <2>1 DEF recvs
    <2>3. q # <<>> /\ isSeq(q)
      BY <1>1, <1>4, <2>1 DEF meet, meetOK, own_, subOK
    <2>4. \A e : Append(q, e) # <<>> /\ Append(q, e)[1] = q[1]
      <3> HIDE DEF q
      <3>1. Len(q) \in Nat \ {0}
        BY <2>3, SeqTail
      <3>2. ASSUME NEW e
            PROVE  Append(q, e) # <<>> /\ Append(q, e)[1] = q[1]
        <4>1. /\ Len(Append(q, e)) = Len(q) + 1 /\ \A i \in 1 .. Len(q) : Append(q, e)[i] = q[i]
          BY ONLY <2>3, SeqAppend
        <4> QED BY <3>1, <4>1, SeqNone
      <3> QED BY <3>2
    <2> QED BY <1>11, <2>2, <2>3, <2>4
  <1>18. meet(s)' /\ meet(t)'
    <2>1. /\ t \in Side /\ t = other(s) /\ stays(s) /\ stays(t) /\ untouched(t) /\ beat' = beat
          /\ sock'[s] = sock[s] /\ link'[t] = link[t] /\ under(link[s], "publish") /\ marks(link'[s]) = {}
          /\ view(s) = {} /\ sends(t, 3 .. 4) /\ view(s)' = {nameOf(t, signal(t))} /\ meet(s) /\ meet(t)
      BY <1>1, <1>2, <1>4, <1>8, <1>9 DEF m
    <2>2. recvs(s, {2}) => IF signal(t) = signal(s)
                           THEN Len(sub'[s].evts) = 1 /\ sub'[s].evts[1].k = "PUBLISHED"
                           ELSE sub'[s].evts = <<>>
      BY <1>16 DEF m
    <2> HIDE DEF t
    <2> QED BY ONLY <2>1, <2>2, <1>17, PublishMeet, s \in Side
  <1> QED BY <1>1, <1>8, <1>13, <1>14, <1>15, <1>18, InvParts, Sides

\* The withdrawal of the name of a signal arrives.
LEMMA WithdrawMeet ==
  ASSUME NEW s \in Side, NEW t \in Side, t = other(s), stays(s), stays(t), untouched(t), beat' = beat,
         sock'[s] = sock[s], link'[t] = link[t], open(s), view(s)' = {},
         sub'[s].evts # <<>>, sub'[s].evts[1] = [k |-> "WITHDRAWN", port |-> NoPort],
         \/ ~sends(t, 3 .. 4) /\ marks(link'[s]) = {}
         \/ sends(t, {3}) /\ ahead(t, s) = 1 /\ underNamed(link'[s], "publish", signal(t)),
         progOK, meet(s), meet(t)
  PROVE  meet(s)' /\ meet(t)'
  <1>1. other(t) = s /\ s # t
    BY Sides
  <1>2. /\ \A J : (sends(t, J)' <=> sends(t, J)) /\ (recvs(t, J)' <=> recvs(t, J))
        /\ signal(t)' = signal(t) /\ (open(t)' <=> open(t)) /\ (late(t)' <=> late(t))
        /\ sub'[t] = sub[t] /\ sock'[t] = sock[t] /\ view(t)' = view(t)
    BY OtherStays
  <1>3. /\ \A J : (sends(s, J)' <=> sends(s, J)) /\ (recvs(s, J)' <=> recvs(s, J))
        /\ signal(s)' = signal(s) /\ (late(s)' <=> late(s))
    BY Stays
  <1>4. viewOK(s) /\ ackOK(s) /\ meetOK(s) /\ viewOK(t) /\ ackOK(t) /\ meetOK(t)
    BY DEF meet
  <1>5. recvs(s, 7 .. 9) /\ ~recvs(s, {2}) /\ ~recvs(s, 3 .. 6) /\ recvs(s, 7 .. 11) /\ \A J : ~sends(s, J)
    BY DEF open, recvs, sends
  <1>6. ~open(s)'
    BY DEF open
  <1>7. ahead(s, t)' = ahead(s, t) /\ ahead(t, s)' = ahead(t, s)
    BY DEF ahead
  <1>8. sends(t, 3 .. 5) => sends(t, 3 .. 4) \/ sends(t, {5})
    BY DEF sends
  <1>9. sends(t, {3}) => sends(t, 3 .. 4)
    BY DEF sends
  <1>10. ahead(t, s) = 1 => beat[t] # beat[s]
    <2>1. beat[t] \in 0 .. 3 /\ beat[s] \in 0 .. 3
      BY DEF progOK
    <2> QED BY <2>1 DEF ahead
  <1>11. /\ \A n : nameOf(t, n)' = nameOf(t, n) /\ nameOf(s, n)' = nameOf(s, n)
         /\ ~answering(s) /\ ~answering(s)' /\ ~answering(t) /\ ~answering(t)'
    <2>1. \A n : nameOf(t, n)' = nameOf(t, n) /\ nameOf(s, n)' = nameOf(s, n)
      BY DEF nameOf
    <2>2. ~answering(s) /\ ~answering(s)'
      BY <1>3, <1>5 DEF answering
    <2>3. ~answering(t) /\ ~answering(t)'
      BY <1>1, <1>6, <1>10 DEF answering
    <2> QED BY <2>1, <2>2, <2>3
  <1>12. viewOK(s)'
    <2>1. CASE ~sends(t, 3 .. 4) /\ marks(link'[s]) = {}
      BY <1>2, <2>1 DEF viewOK
    <2>2. CASE sends(t, {3}) /\ ahead(t, s) = 1 /\ underNamed(link'[s], "publish", signal(t))
      <3>1. sends(t, 3 .. 4)' /\ underNamed(link[s], "publish", signal(t))'
        BY <1>2, <1>9, <2>2 DEF underNamed, marks
      <3> QED BY <3>1 DEF viewOK
    <2> QED BY <2>1, <2>2
  <1>13. viewOK(t)'
    <2>1. nameOf(s, signal(t))' = nameOf(s, signal(t)) /\ nameOf(s, signal(s))' = nameOf(s, signal(s))
      BY <1>2, <1>3, <1>11
    <2> QED BY <1>1, <1>2, <1>3, <1>4, <1>7, <2>1 DEF viewOK
  <1>14. ackOK(s)'
    <2>1. ~under(link'[s], "named")
      BY UnderOne
    <2> QED BY <1>3, <1>5, <2>1 DEF ackOK
  <1>15. ackOK(t)'
    <2>1. ~under(link[t], "named") /\ (IF sends(t, {3}) THEN sock[t][sockfd_R].q ELSE <<>>) = <<>>
      BY <1>4, <1>11 DEF ackOK
    <2> QED BY <1>2, <2>1 DEF ackOK
  <1>16. meetOK(s)'
    <2>1. (beat[s] = beat[t] /\ sends(t, {5})) \/ ahead(t, s) = 1
      <3>1. (beat[s] = beat[t] /\ sends(t, 3 .. 5)) \/ ahead(t, s) = 1
        BY <1>4, <1>5 DEF meetOK
      <3> QED BY <3>1, <1>8
    <2> QED BY <1>2, <1>3, <1>4, <1>5, <1>6, <1>7, <2>1 DEF meetOK
  <1>17. meetOK(t)'
    <2>1. nameOf(s, signal(t))' = nameOf(s, signal(t))
      BY <1>2, <1>11
    <2> QED BY <1>1, <1>2, <1>3, <1>4, <1>6, <1>7, <1>11, <2>1 DEF meetOK
  <1> QED BY <1>12, <1>13, <1>14, <1>15, <1>16, <1>17 DEF meet

\* A side that knows of the signal it awaits hears of its withdrawal.
LEMMA WithdrawnEvent ==
  ASSUME NEW s \in Side, own_(s), open(s), view(s) = {nameOf(other(s), signal(s))}, signal(s) \in SyncIds,
         NEW ns, ns = known[s] \ view(s), sub'[s] = subscription(s, ns), signal(s)' = signal(s)
  PROVE  /\ subSignal(s, signal(s))'
         /\ sub'[s].evts # <<>> /\ sub'[s].evts[1] = [k |-> "WITHDRAWN", port |-> NoPort]
  <1> DEFINE i == signal(s)
             n0 == nameOf(other(s), i)
             was == {n \in known[s] : overlap(n.addr, sub[s].addr)}
             now == {n \in ns : overlap(n.addr, sub[s].addr)}
             e == [k |-> "WITHDRAWN", port |-> NoPort]
  <1>1. recvs(s, 2 .. 10) /\ sub[s].evts = <<>>
    BY DEF open, recvs
  <1>2. sub[s].on /\ sub[s].addr = syncAddr(i) /\ was = {n \in view(s) : overlap(n.addr, syncAddr(i))}
    BY <1>1, FitsSignal
  <1>3. n0.addr = syncAddr(i) /\ overlap(syncAddr(i), syncAddr(i))
    BY SameSignal DEF nameOf
  <1>4. n0 \in was
    <2> HIDE DEF was
    <2>1. view(s) = {n0}
      OBVIOUS
    <2> HIDE DEF n0
    <2> QED BY <1>2, <1>3, <2>1
  <1>5. now = {}
    <2> HIDE DEF n0, i
    <2>1. \A n \in known[s] : overlap(n.addr, sub[s].addr) => n \in view(s)
      BY <1>2
    <2> QED BY <2>1
  <1>6. subscription(s, ns) = [sub[s] EXCEPT !.evts = Append(sub[s].evts, e)]
    <2> HIDE DEF i, n0
    <2>1. was # {} /\ now = {}
      BY <1>4, <1>5
    <2> QED BY <1>2, <2>1 DEF subscription
  <1>7. DOMAIN sub[s] = DOMAIN NoSub
    BY DEF own_, subOK
  <1> HIDE DEF e, was, now, n0, i
  <1>8. /\ DOMAIN sub'[s] = DOMAIN NoSub /\ sub'[s].on = sub[s].on /\ sub'[s].addr = sub[s].addr
        /\ sub'[s].evts = <<e>>
    <2>1. sub'[s] = [sub[s] EXCEPT !.evts = <<e>>]
      BY <1>1, <1>6
    <2> QED BY <1>7, <2>1 DEF NoSub
  <1>9. isSeq(<<e>>) /\ <<e>> # <<>> /\ <<e>>[1] = e
    BY SeqOne
  <1>10. subSignal(s, signal(s))'
    BY <1>2, <1>8, <1>9 DEF subSignal, i
  <1>11. sub'[s].evts # <<>> /\ sub'[s].evts[1] = e
    BY <1>8, <1>9
  <1> QED BY <1>10, <1>11 DEF e

\* The withdrawal of the name of a signal.
LEMMA WithdrawSignal ==
  ASSUME NEW s \in Side, SyncInv, Deliver(s), Marked(Head(link[s])), Head(link[s]).k = "withdraw"
  PROVE  SyncInv'
  <1> DEFINE t == other(s)
             p == Head(link[s])
             m == signal(t)
             ns == known[s] \ view(s)
  <1>1. /\ link[s] # <<>> /\ isSeq(link[s]) /\ UNCHANGED <<status, proc, main, importance, beat>>
        /\ markedOK(s, p) /\ progOK' /\ stays(s) /\ stays(t)
        /\ domains /\ own_(s) /\ own_(t) /\ meet(s) /\ meet(t) /\ \A x \in Side : linkOK(x)
        /\ linkFine(s, Tail(link[s]))
    BY MarkedHas
  <1>2. t \in Side /\ t # s /\ other(t) = s /\ progOK
    BY Sides, SignalHas
  <1>3. SetNames(s, {n \in known[s] : n.port # p.from}) /\ Drop(s)
    BY DEF Deliver
  <1>4. /\ open(s) /\ view(s) = {nameOf(t, signal(s))}
        /\ \/ ~sends(t, 3 .. 4) /\ marks(Tail(link[s])) = {}
           \/ sends(t, {3}) /\ ahead(t, s) = 1 /\ underNamed(Tail(link[s]), "publish", m)
    <2> DEFINE q == link[s]
    <2>1. /\ marks(q) # {}
          /\ \A k : under(q, k) => marks(Tail(q)) = {} /\ Head(q).k = k
          /\ \A k, i : underNamed(q, k, i) => Head(q).addr = syncAddr(i)
          /\ \A i : underBoth(q, i) => Head(q).k = "withdraw" /\ underNamed(Tail(q), "publish", i)
      <3>1. isSeq(q) /\ q # <<>> /\ Marked(Head(q))
        BY <1>1
      <3> HIDE DEF q
      <3> QED BY ONLY <3>1, TailMarked
    <2>2. Head(q).k = "withdraw" /\ \A k, i : underNamed(q, k, i) => under(q, k)
      BY UnderOne
    <2> HIDE DEF q
    <2>3. \/ view(s) = {} /\ ~sends(t, 3 .. 4) /\ (marks(q) = {} \/ under(q, "named"))
          \/ view(s) = {} /\ sends(t, 3 .. 4) /\ underNamed(q, "publish", m)
          \/ marks(q) = {}
          \/ open(s) /\ view(s) = {nameOf(t, signal(s))} /\ ~sends(t, 3 .. 4) /\ under(q, "withdraw")
          \/ open(s) /\ view(s) = {nameOf(t, signal(s))} /\ sends(t, {3}) /\ ahead(t, s) = 1
             /\ underBoth(q, m)
      BY <1>1 DEF q, meet, viewOK
    <2>4. \/ open(s) /\ view(s) = {nameOf(t, signal(s))} /\ ~sends(t, 3 .. 4) /\ under(q, "withdraw")
          \/ open(s) /\ view(s) = {nameOf(t, signal(s))} /\ sends(t, {3}) /\ ahead(t, s) = 1
             /\ underBoth(q, m)
      BY ONLY <2>1, <2>2, <2>3
    <2>5. \/ open(s) /\ view(s) = {nameOf(t, signal(s))} /\ ~sends(t, 3 .. 4) /\ marks(Tail(q)) = {}
          \/ open(s) /\ view(s) = {nameOf(t, signal(s))} /\ sends(t, {3}) /\ ahead(t, s) = 1
             /\ underNamed(Tail(q), "publish", m)
      BY ONLY <2>1, <2>4
    <2> QED BY <2>5 DEF q
  <1>5. p.from = port(t, sockfd_R)
    BY <1>1 DEF markedOK
  <1>6. recvs(s, 2 .. 10) /\ signal(s) \in SyncIds /\ own(s) = {}
    <2>1. recvs(s, 2 .. 10)
      BY <1>4 DEF open, recvs
    <2>2. stage(s) # Free
      BY <2>1 DEF recvs, Free
    <2> QED BY <1>1, <1>2, <2>1, <2>2, SignalOf, FitsSignal
  <1> HIDE DEF p
  <1>7. {n \in known[s] : n.port # p.from} = ns
    <2>1. \A n \in known[s] : sync(n.addr) <=> n.port.sd = sockfd_R
      BY <1>1 DEF own_, nameOK
    <2>2. \A n \in view(s) : n.port = port(t, sockfd_R)
      BY <1>4 DEF nameOf
    <2>3. port(t, sockfd_R).sd = sockfd_R /\ port(t, sockfd_R).side # s
      BY <1>2 DEF port
    <2>4. \A n \in known[s] : n.port = p.from => n \in view(s)
      BY <1>5, <2>1, <2>3 DEF view
    <2> QED BY <1>5, <2>2, <2>4
  <1>8. /\ known' = [known EXCEPT ![s] = ns] /\ sub' = [sub EXCEPT ![s] = subscription(s, ns)]
        /\ sock' = sock /\ link' = [link EXCEPT ![s] = Tail(link[s])]
    <2> HIDE DEF ns
    <2> QED BY <1>3, <1>7 DEF SetNames, Drop
  <1> HIDE DEF m, ns
  <1>9. /\ known'[s] = ns /\ sub'[s] = subscription(s, ns) /\ link'[s] = Tail(link[s])
        /\ sock'[s] = sock[s] /\ link'[t] = link[t] /\ untouched(t) /\ domains'
    BY <1>1, <1>2, <1>8 DEF domains, untouched
  <1>10. namesPlain(s)' /\ own(s)' = own(s) /\ view(s)' = {}
    <2>1. namesPlain(s)
      BY <1>1 DEF own_, nameOK, namesPlain
    <2>2. IsFiniteSet(ns)
      BY <2>1, FS_Subset DEF namesPlain, ns
    <2>3. namesPlain(s)'
      BY <1>9, <2>1, <2>2 DEF namesPlain, ns
    <2>4. own(s)' = own(s)
      BY <1>9 DEF own, view, ns
    <2>5. view(s)' = {}
      BY <1>9 DEF view, ns
    <2> QED BY <2>3, <2>4, <2>5
  <1>11. /\ subSignal(s, signal(s))'
         /\ sub'[s].evts # <<>> /\ sub'[s].evts[1] = [k |-> "WITHDRAWN", port |-> NoPort]
    <2>1. signal(s)' = signal(s)
      BY <1>1, Stays
    <2> QED BY <1>1, <1>4, <1>6, <1>9, <2>1, WithdrawnEvent DEF ns
  <1>12. own_(s)'
    BY <1>1, <1>6, <1>9, <1>10, <1>11, NameOwn
  <1>13. own_(t)'
    BY <1>1, <1>2, <1>9, OtherSide
  <1>14. \A x \in Side : linkOK(x)'
    <2>1. linkOK(s)'
      BY <1>1, <1>9, LinkIs
    <2>2. linkOK(t)'
      BY <1>1, <1>2, <1>9, LinkStays
    <2> QED BY <2>1, <2>2, Sides
  <1>15. meet(s)' /\ meet(t)'
    <2>1. /\ t \in Side /\ t = other(s) /\ stays(s) /\ stays(t) /\ untouched(t) /\ beat' = beat
          /\ sock'[s] = sock[s] /\ link'[t] = link[t] /\ open(s) /\ view(s)' = {} /\ progOK /\ meet(s) /\ meet(t)
      BY <1>1, <1>2, <1>4, <1>9, <1>10
    <2>2. \/ ~sends(t, 3 .. 4) /\ marks(link'[s]) = {}
          \/ sends(t, {3}) /\ ahead(t, s) = 1 /\ underNamed(link'[s], "publish", signal(t))
      BY <1>4, <1>9 DEF m
    <2> HIDE DEF t
    <2> QED BY ONLY <2>1, <2>2, <1>11, WithdrawMeet, s \in Side
  <1> QED BY <1>1, <1>9, <1>12, <1>13, <1>14, <1>15, InvParts, Sides

\* The byte that answers a signal arrives.
LEMMA NamedMeet ==
  ASSUME NEW s \in Side, NEW t \in Side, t = other(s), stays(s), stays(t), untouched(t), beat' = beat,
         sub'[s] = sub[s], known'[s] = known[s], link'[t] = link[t], sends(s, {3}), answering(s),
         under(link[s], "named"), marks(link'[s]) = {},
         NEW p, sock'[s][sockfd_R].q = <<p>>, p.k = "named", p.msg = buffer("ack", 1), ~p.keep, Marked(p),
         meet(s), meet(t)
  PROVE  meet(s)' /\ meet(t)'
  <1>1. other(t) = s /\ s # t
    BY Sides
  <1>2. /\ \A J : (sends(t, J)' <=> sends(t, J)) /\ (recvs(t, J)' <=> recvs(t, J))
        /\ signal(t)' = signal(t) /\ (open(t)' <=> open(t)) /\ (late(t)' <=> late(t))
        /\ sub'[t] = sub[t] /\ sock'[t] = sock[t] /\ view(t)' = view(t)
    BY OtherStays
  <1>3. /\ \A J : (sends(s, J)' <=> sends(s, J)) /\ (recvs(s, J)' <=> recvs(s, J))
        /\ signal(s)' = signal(s) /\ (late(s)' <=> late(s)) /\ (open(s)' <=> open(s))
        /\ view(s)' = view(s)
    <2>1. /\ \A J : (sends(s, J)' <=> sends(s, J)) /\ (recvs(s, J)' <=> recvs(s, J))
          /\ signal(s)' = signal(s) /\ (late(s)' <=> late(s))
      BY Stays
    <2>2. (open(s)' <=> open(s)) /\ view(s)' = view(s)
      BY <2>1 DEF open, view
    <2> QED BY <2>1, <2>2
  <1>4. viewOK(s) /\ ackOK(s) /\ meetOK(s) /\ viewOK(t) /\ ackOK(t) /\ meetOK(t)
    BY DEF meet
  <1>5. ahead(s, t)' = ahead(s, t) /\ ahead(t, s)' = ahead(t, s)
    BY DEF ahead
  <1>6. /\ \A n : nameOf(t, n)' = nameOf(t, n) /\ nameOf(s, n)' = nameOf(s, n)
        /\ (answering(s)' <=> answering(s)) /\ (answering(t)' <=> answering(t))
    <2>1. \A n : nameOf(t, n)' = nameOf(t, n) /\ nameOf(s, n)' = nameOf(s, n)
      BY DEF nameOf
    <2>2. answering(s)' <=> answering(s)
      BY <1>2, <1>3 DEF answering
    <2>3. answering(t)' <=> answering(t)
      BY <1>1, <1>2, <1>3 DEF answering
    <2> QED BY <2>1, <2>2, <2>3
  <1>7. viewOK(s)'
    <2>1. view(s) = {} /\ ~sends(t, 3 .. 4)
      <3> DEFINE q == link[s]
      <3>1. /\ marks(q) # {} /\ ~under(q, "withdraw") /\ ~under(q, "publish") /\ under(q, "named")
            /\ \A n : ~underNamed(q, "publish", n) /\ ~underBoth(q, n)
        BY UnderOne
      <3> HIDE DEF q
      <3>2. \/ view(s) = {} /\ ~sends(t, 3 .. 4) /\ (marks(q) = {} \/ under(q, "named"))
            \/ underNamed(q, "publish", signal(t))
            \/ marks(q) = {}
            \/ under(q, "withdraw")
            \/ underBoth(q, signal(t))
        BY <1>4 DEF viewOK, q
      <3> QED BY ONLY <3>1, <3>2
    <2> QED BY <1>2, <1>3, <2>1 DEF viewOK
  <1>8. viewOK(t)'
    <2>1. nameOf(s, signal(t))' = nameOf(s, signal(t)) /\ nameOf(s, signal(s))' = nameOf(s, signal(s))
      BY <1>2, <1>3, <1>6
    <2> QED BY <1>1, <1>2, <1>3, <1>4, <1>5, <2>1 DEF viewOK
  <1>9. ackOK(s)'
    <2>1. ~under(link'[s], "named")
      BY UnderOne
    <2>2. Len(<<p>>) = 1 /\ <<p>>[1] = p
      BY SeqOne
    <2>3. Marked(p)' <=> Marked(p)
      BY DEF Marked
    <2> QED BY <1>3, <1>6, <2>1, <2>2, <2>3 DEF ackOK
  <1>10. ackOK(t)'
    BY <1>1, <1>2, <1>4, <1>6 DEF ackOK
  <1>11. meetOK(s)'
    <2>1. nameOf(t, signal(s))' = nameOf(t, signal(s))
      BY <1>3, <1>6
    <2> QED BY <1>2, <1>3, <1>4, <1>5, <1>6, <2>1 DEF meetOK
  <1>12. meetOK(t)'
    <2>1. nameOf(s, signal(t))' = nameOf(s, signal(t))
      BY <1>2, <1>6
    <2> QED BY <1>1, <1>2, <1>3, <1>4, <1>5, <1>6, <2>1 DEF meetOK
  <1> QED BY <1>7, <1>8, <1>9, <1>10, <1>11, <1>12 DEF meet

\* The arrival of the byte that answers a signal.
LEMMA NamedSignal ==
  ASSUME NEW s \in Side, SyncInv, Deliver(s), Marked(Head(link[s])), Head(link[s]).k = "named"
  PROVE  SyncInv'
  <1> DEFINE t == other(s)
             p == Head(link[s])
             k == sock[s][sockfd_R]
             f == with(sock[s], sockfd_R, queued(k, p))
  <1>1. /\ link[s] # <<>> /\ isSeq(link[s]) /\ UNCHANGED <<status, proc, main, importance, beat>>
        /\ markedOK(s, p) /\ progOK' /\ stays(s) /\ stays(t)
        /\ domains /\ own_(s) /\ own_(t) /\ meet(s) /\ meet(t) /\ \A x \in Side : linkOK(x)
        /\ linkFine(s, Tail(link[s]))
    BY MarkedHas
  <1>2. t \in Side /\ t # s /\ other(t) = s /\ progOK
    BY Sides, SignalHas
  <1>3. p.k = "named" /\ ~p.keep /\ p.msg = buffer("ack", 1) /\ Marked(p)
    BY <1>1 DEF markedOK
  <1>4. /\ under(link[s], "named") /\ underNamed(link[s], "named", signal(s))
        /\ sends(s, {3}) /\ k.q = <<>> /\ answering(s)
        /\ marks(Tail(link[s])) = {} /\ p.addr = syncAddr(signal(s))
    <2> DEFINE q == link[s]
    <2>1. /\ marks(q) # {}
          /\ \A h : under(q, h) => marks(Tail(q)) = {} /\ Head(q).k = h
          /\ \A h, i : underNamed(q, h, i) => Head(q).addr = syncAddr(i)
          /\ \A i : underBoth(q, i) => Head(q).k = "withdraw"
      <3>1. isSeq(q) /\ q # <<>> /\ Marked(Head(q))
        BY <1>1
      <3> HIDE DEF q
      <3> QED BY ONLY <3>1, TailMarked
    <2>2. Head(q).k = "named" /\ \A h, i : underNamed(q, h, i) => under(q, h)
      BY UnderOne
    <2> HIDE DEF q
    <2>3. \/ marks(q) = {} \/ under(q, "named")
          \/ underNamed(q, "publish", signal(t))
          \/ under(q, "withdraw")
          \/ underBoth(q, signal(t))
      BY <1>1 DEF q, meet, viewOK
    <2>4. under(q, "named")
      BY ONLY <2>1, <2>2, <2>3
    <2>5. ackOK(s)
      BY <1>1 DEF meet
    <2>6. underNamed(q, "named", signal(s)) /\ sends(s, {3}) /\ answering(s) /\ k.q = <<>>
      BY <2>4, <2>5 DEF ackOK, q
    <2> QED BY <2>1, <2>4, <2>6 DEF q
  <1>5. sockfd_R \in DOMAIN sock[s] /\ k.name = syncAddr(signal(s)) /\ DOMAIN k = DOMAIN newSocket("RDM")
    <2>1. sends(s, 2 .. 4) /\ sends(s, 3 .. 4)
      BY <1>4 DEF sends
    <2> QED BY <1>1, <2>1 DEF own_, signalSocketOK, sockOK
  <1>6. signal(s) \in SyncIds
    <2>1. stage(s) # Free
      BY <1>4 DEF sends, Free
    <2> QED BY <1>2, <2>1, SignalOf
  <1>7. bound(s, p.addr) = {sockfd_R}
    <2>1. overlap(k.name, p.addr)
      BY <1>4, <1>5, <1>6, SameSignal
    <2>2. sync(p.addr)
      BY <1>4, SyncAddr
    <2>3. \A x \in DOMAIN sock[s] : x # sockfd_R => ~sync(sock[s][x].name)
      BY <1>1 DEF own_, sockOK
    <2>4. \A x \in DOMAIN sock[s] : x # sockfd_R => ~overlap(sock[s][x].name, p.addr)
      BY <2>2, <2>3 DEF overlap, sync
    <2> HIDE DEF p
    <2> QED BY <1>5, <2>1, <2>4 DEF bound
  <1>8. Take(s, sockfd_R, queued(k, p)) /\ UNCHANGED <<known, sub>>
    <2>1. /\ IF bound(s, p.addr) # {}
             THEN \E x \in bound(s, p.addr) : Take(s, x, queued(sock[s][x], p))
             ELSE IF p.k = "syn" \/ p.keep THEN Refuse(s, p, "NO_NAME") ELSE Drop(s)
          /\ UNCHANGED <<known, sub>>
      BY <1>3 DEF Deliver
    <2> QED BY <1>7, <2>1
  <1> HIDE DEF p
  <1>9. /\ sock' = [sock EXCEPT ![s] = f] /\ link' = [link EXCEPT ![s] = Tail(link[s])]
        /\ known' = known /\ sub' = sub
    BY <1>8 DEF Take, setSock
  <1>10. /\ DOMAIN f = DOMAIN sock[s] /\ f[sockfd_R] = queued(k, p)
         /\ \A x \in DOMAIN f : x # sockfd_R => f[x] = sock[s][x]
    <2>1. sockfd_R \in DOMAIN sock[s]
      BY <1>5
    <2> HIDE DEF k
    <2> QED BY <2>1 DEF with
  <1> HIDE DEF f
  <1>11. /\ sock'[s] = f /\ link'[s] = Tail(link[s])
         /\ known'[s] = known[s] /\ sub'[s] = sub[s] /\ link'[t] = link[t] /\ untouched(t) /\ domains'
    BY <1>1, <1>2, <1>9 DEF domains, untouched
  <1>12. /\ DOMAIN f[sockfd_R] = DOMAIN newSocket("RDM") /\ f[sockfd_R].q = <<p>>
         /\ f[sockfd_R].type = k.type /\ f[sockfd_R].conn = k.conn /\ f[sockfd_R].opt = k.opt
         /\ f[sockfd_R].name = k.name
    <2>1. k.q = <<>>
      BY <1>4
    <2> HIDE DEF k
    <2>2. Append(<<>>, p) = <<p>>
      OBVIOUS
    <2> QED BY <1>5, <1>10, <2>1, <2>2 DEF queued, newSocket
  <1> HIDE DEF k
  <1>13. own_(s)'
    <2>1. /\ \A J : (sends(s, J)' <=> sends(s, J)) /\ (recvs(s, J)' <=> recvs(s, J))
          /\ signal(s)' = signal(s) /\ opened(s)' = opened(s) /\ proc'[s] = proc[s]
      BY <1>1, Stays
    <2>2. openOK(s)'
      BY <1>1, <1>10, <1>11, <2>1 DEF own_, openOK
    <2>3. sockOK(s)'
      <3>1. sockOK(s) /\ isSeq(<<p>>)
        BY <1>1, SeqOne DEF own_
      <3>2. /\ DOMAIN sock'[s] \subseteq DOMAIN sock[s] \cup {sockfd_R}
            /\ \A x \in DOMAIN sock'[s] : x # sockfd_R => sock'[s][x] = sock[s][x]
            /\ DOMAIN sock'[s][sockfd_R] = DOMAIN newSocket("RDM") /\ isSeq(sock'[s][sockfd_R].q)
        BY <1>10, <1>11, <1>12, <3>1
      <3> QED BY ONLY <3>1, <3>2, OthersKept, s \in Side
    <2>4. nameOK(s)'
      <3>1. nameOf(s, signal(s))' = nameOf(s, signal(s)) /\ own(s)' = own(s)
        BY <1>11, <2>1 DEF nameOf, own
      <3> QED BY <1>1, <1>11, <2>1, <3>1 DEF own_, nameOK
    <2>5. subOK(s)'
      BY <1>1, <1>11, <2>1 DEF own_, subOK
    <2>6. signalSocketOK(s)'
      <3>1. signalSocketOK(s)
        BY <1>1 DEF own_
      <3> QED BY <1>4, <1>10, <1>11, <1>12, <2>1, <3>1 DEF signalSocketOK, k
    <2> QED BY <2>2, <2>3, <2>4, <2>5, <2>6 DEF own_
  <1>14. own_(t)'
    BY <1>1, <1>2, <1>11, OtherSide
  <1>15. \A x \in Side : linkOK(x)'
    <2>1. linkOK(s)'
      BY <1>1, <1>11, LinkIs
    <2>2. linkOK(t)'
      BY <1>1, <1>2, <1>11, LinkStays
    <2> QED BY <2>1, <2>2, Sides
  <1>16. meet(s)' /\ meet(t)'
    <2>1. /\ t \in Side /\ t = other(s) /\ stays(s) /\ stays(t) /\ untouched(t) /\ beat' = beat
          /\ sub'[s] = sub[s] /\ known'[s] = known[s] /\ link'[t] = link[t] /\ sends(s, {3}) /\ answering(s)
          /\ under(link[s], "named") /\ marks(link'[s]) = {}
          /\ sock'[s][sockfd_R].q = <<p>> /\ meet(s) /\ meet(t)
      BY <1>1, <1>2, <1>4, <1>11, <1>12
    <2> HIDE DEF t
    <2> QED BY ONLY <2>1, <1>3, NamedMeet, s \in Side
  <1> QED BY <1>1, <1>11, <1>13, <1>14, <1>15, <1>16, InvParts, Sides

\* Every arrival.
LEMMA DeliverStep ==
  ASSUME NEW s \in Side, SyncInv, Deliver(s)
  PROVE  SyncInv'
  <1>1. CASE ~Marked(Head(link[s]))
    BY <1>1, DeliverPlain
  <1>2. CASE Marked(Head(link[s]))
    <2>1. Head(link[s]).k \in {"publish", "withdraw"} \/ Head(link[s]).k = "named"
      BY <1>2, MarkedHas DEF markedOK
    <2>2. CASE Head(link[s]).k = "publish"
      BY <1>2, <2>2, PublishSignal
    <2>3. CASE Head(link[s]).k = "withdraw"
      BY <1>2, <2>3, WithdrawSignal
    <2>4. CASE Head(link[s]).k = "named"
      BY <1>2, <2>4, NamedSignal
    <2> QED BY <2>1, <2>2, <2>3, <2>4
  <1> QED BY <1>1, <1>2

-----------------------------------------------------------------------------
(***************************************************************************)
(* The invariant of the signals.                                           *)
(***************************************************************************)
\* Every step of the two programs and of the network keeps it.
LEMMA NextKeeps ==
  ASSUME SyncInv, [Next]_vars
  PROVE  SyncInv'
  <1>1. CASE Step("server")
    BY <1>1, StepKeeps DEF Side
  <1>2. CASE ServerDispatch
    BY <1>2, ServerDispatchStep
  <1>3. CASE ServerRun
    BY <1>3, ServerRunStep
  <1>4. CASE ServerLoop
    BY <1>4, ServerLoopStep
  <1>5. CASE Step("client")
    BY <1>5, StepKeeps DEF Side
  <1>6. CASE ClientArg
    BY <1>6, ClientArgStep
  <1>7. CASE ClientRun
    BY <1>7, ClientRunStep
  <1>8. CASE ClientNextTest
    BY <1>8, ClientNextTestStep
  <1>9. CASE ClientDone
    BY <1>9, ClientDoneStep
  <1>10. CASE \E s \in Side : Deliver(s)
    BY <1>10, DeliverStep
  <1>11. CASE ClientStart
    BY <1>11, ClientStartStep
  <1>12. CASE UNCHANGED vars
    <2>1. UNCHANGED <<status, proc, sock, known, sub, link, args, lastTestNum, importance, clients, beat>>
      BY <1>12 DEF vars, tipc, main
    <2>2. progOK'
      <3>1. progOK
        BY DEF SyncInv
      <3>2. \A s \in Side : code(s)' = code(s) /\ (running(s)' <=> running(s))
        BY <2>1 DEF code, running
      <3> QED BY <2>1, <3>1, <3>2 DEF progOK
    <2>3. domains' /\ \A s \in Side : stays(s) /\ untouched(s)
      BY <2>1, InvParts DEF stays, untouched, domains, opened, stage, running, code
    <2>4. "server" \in Side /\ other("server") \in Side /\ own_("server")
      BY InvParts, Sides DEF Side
    <2>5. own_("server")' /\ view("server")' = view("server")
      BY <2>3, <2>4, OtherSide
    <2>6. sameAtoms("server")
      <3>1. /\ \A J : (sends("server", J)' <=> sends("server", J)) /\ (recvs("server", J)' <=> recvs("server", J))
            /\ signal("server")' = signal("server") /\ (open("server")' <=> open("server"))
        BY <2>3, <2>4, OtherStays
      <3> QED BY <2>1, <3>1 DEF sameAtoms
    <2>7. \A x \in Side : linkGrows(x)
      BY <2>1, NoPackets
    <2> QED BY <2>1, <2>2, <2>3, <2>4, <2>5, <2>6, <2>7, SameStep
  <1> QED BY <1>1, <1>2, <1>3, <1>4, <1>5, <1>6, <1>7, <1>8, <1>9, <1>10, <1>11, <1>12
          DEF Next, Work, Server, Client

\* It holds in the beginning, where no side is at a signal.
LEMMA InitSync ==
  ASSUME Init
  PROVE  SyncInv /\ \A s \in Side : calm(s) /\ sock[s] = <<>> /\ ~sub[s].on
  <1>1. /\ code("server") = Routine["server"][0] /\ running("server") /\ ~running("client")
        /\ proc["server"] = start(0) /\ proc["client"] = start(0)
    BY DEF Init, Side, code, running, start
  <1>2. progOK
    <2>1. "server" \in DOMAIN Routine /\ 0 \in DOMAIN Routine["server"]
      BY RoutineAssumption
    <2> DEFINE r == Routine["server"][0]
    <2>2. r \in Seq({r[i] : i \in DOMAIN r})
      BY <2>1, RoutineAssumption DEF routineOK
    <2>3. Len(r) \in Nat
      <3> HIDE DEF r
      <3> QED BY <2>2
    <2>4. \A s \in Side : running(s) => proc[s].at \in 1 .. Len(code(s)) + 1
      <3>1. start(0).at = 1
        BY StartIs
      <3>2. 1 \in 1 .. Len(code("server")) + 1
        BY <1>1, <2>3
      <3> QED BY <1>1, <3>1, <3>2 DEF Side
    <2>5. \A s \in Side : proc[s] = start(0)
      BY DEF Init
    <2>6. start(0).prog = 0 /\ start(0).asks = TRUE
      BY StartIs
    <2>7. TS_KILL_SERVER # 0 /\ LOW \in LOW .. CRITICAL + 1
      BY DEF TS_KILL_SERVER, LOW, CRITICAL
    <2>8. clients = 0 /\ 0 \in 0 .. MaxClients
      BY PttsAssumption DEF Init
    <2>9. args \in Seq(Int) /\ status \in [Side -> {"off", "run", "done", "failed", "usage"}]
          /\ beat \in [Side -> 0 .. 3] /\ DOMAIN proc = Side /\ importance = LOW
      BY DEF Init, Side
    <2> QED BY <2>4, <2>5, <2>6, <2>7, <2>8, <2>9 DEF progOK, Side
  <1>10. \A s \in Side : opened(s) = {} /\ calm(s)
    <2>1. stage("client") = Free /\ opened("client") = {}
      BY <1>1 DEF stage, opened
    <2>2. "server" \in Side /\ proc["server"].at = 1
      BY <1>1, StartIs DEF Side
    <2>3. routineOK(code("server"), pl("server"), op("server"), who("server")) /\ Len(code("server")) \in Nat
      BY <1>1, <1>2, <2>2, Routes
    <2>4. op("server")[1] = {} /\ entry(code("server"), pl("server"), 1)
      BY <2>3 DEF routineOK
    <2>5. opened("server") = {}
      BY <1>1, <2>2, <2>4 DEF opened, op, who
    <2>6. stage("server") = IF 1 <= Len(code("server")) THEN pl("server")[1] ELSE Free
      BY <1>1, <2>2 DEF stage, pl, who
    <2>7. calm("server")
      BY <2>4, <2>6 DEF calm, entry
    <2> QED BY <2>1, <2>5, <2>7 DEF Side, calm
  <1>3. domains
    BY DEF Init, domains
  <1>4. ASSUME NEW s \in Side
        PROVE  own_(s) /\ linkOK(s) /\ meet(s)
    <2>1. openOK(s)
      BY <1>10 DEF Init, openOK
    <2>2. sockOK(s) /\ sockfd_R \notin DOMAIN sock[s]
      BY FS_EmptySet DEF Init, sockOK
    <2>3. namesPlain(s) /\ own(s) = {} /\ view(s) = {}
      BY FS_EmptySet DEF Init, namesPlain, own, view
    <2>4. subPlain(s)
      BY NoSubPlain DEF Init, subPlain
    <2>5. proc[s].port.sd # sockfd_R
      BY StartIs DEF Init
    <2>6. own_(s)
      BY <1>10, <2>1, <2>2, <2>3, <2>4, <2>5, CalmOwn
    <2>7. linkOK(s) /\ marks(link[s]) = {}
      BY SeqNone DEF Init, linkOK, marks
    <2>8. meet(s)
      <3>1. other(s) \in Side
        BY Sides
      <3>2. /\ \A J : 1 \notin J => ~sends(s, J) /\ ~recvs(s, J)
            /\ \A J : 1 \notin J => ~sends(other(s), J) /\ ~recvs(other(s), J)
        BY <1>10, <3>1, Calm
      <3>3. viewOK(s)
        BY <2>3, <2>7, <3>2 DEF viewOK
      <3>4. ackOK(s)
        BY <2>7, <3>2, UnderOne DEF ackOK
      <3>5. beat[s] = beat[other(s)]
        BY <3>1 DEF Init
      <3>6. meetOK(s)
        BY <3>2, <3>5 DEF meetOK
      <3> QED BY <3>3, <3>4, <3>6 DEF meet
    <2> QED BY <2>6, <2>7, <2>8
  <1>5. \A s \in Side : sock[s] = <<>> /\ ~sub[s].on
    <2>1. \A s \in Side : sub[s] = NoSub /\ sock[s] = <<>>
      BY DEF Init
    <2> QED BY <2>1, NoSubPlain
  <1>6. SyncInv
    BY <1>2, <1>3, <1>4, InvParts
  <1> QED BY <1>5, <1>6, <1>10

\* Type correctness, the sockets, the names and the packets of the signals and
\* the places of the two sides, whatever programs are run, in every order of
\* their calls, of arrivals and of failures.
THEOREM SyncInductive == Spec => []SyncInv
  <1>1. Init => SyncInv
    BY InitSync
  <1>2. SyncInv /\ [Next]_vars => SyncInv'
    BY NextKeeps
  <1> QED BY <1>1, <1>2, PTL DEF Spec

-----------------------------------------------------------------------------
(***************************************************************************)
(* The signals implement the rendezvous.                                   *)
(***************************************************************************)
\* A side is at a meeting at the calls that follow the publication of the name
\* and the subscription to it.
insideIs == \A s \in Side : s \in Inside <=> sends(s, 3 .. 5) \/ recvs(s, 2 .. 11)

\* The last call of a signal.
LEMMA LastCall ==
  ASSUME NEW s \in Side, SyncInv
  PROVE  calls(s, "synced") <=> sends(s, {5}) \/ recvs(s, {11})
  <1>1. progOK
    BY SignalHas
  <1>2. ASSUME calls(s, "synced")
        PROVE  sends(s, {5}) \/ recvs(s, {11})
    <2>1. running(s) /\ proc[s].at <= Len(code(s)) /\ call(s).op = "synced"
      BY <1>1, <1>2, Placed
    <2>2. stage(s) # Free
      <3>1. stage(s) = Free => plainCall(call(s))
        BY <1>1, <2>1, CallIs
      <3> QED BY <2>1, <3>1 DEF plainCall
    <2>3. PICK m \in SyncIds : placed(s, m, "synced")
      BY <1>1, <1>2, <2>2, SignalPlace
    <2>4. stage(s) = spot("send", m, 5) \/ stage(s) = spot("recv", m, 11)
      BY <2>3 DEF placed
    <2> QED BY <2>4 DEF spot, sends, recvs
  <1>3. ASSUME sends(s, {5}) \/ recvs(s, {11})
        PROVE  calls(s, "synced")
    <2>1. /\ stage(s) # Free
          /\ (stage(s).k = "send" /\ stage(s).j = 5) \/ (stage(s).k = "recv" /\ stage(s).j = 11)
      <3>1. CASE sends(s, {5})
        BY <3>1 DEF sends, Free
      <3>2. CASE recvs(s, {11})
        BY <3>2 DEF recvs, Free
      <3> QED BY <1>3, <3>1, <3>2
    <2>2. running(s) /\ proc[s].at <= Len(code(s))
      BY <2>1 DEF stage
    <2>3. call(s) = script(stage(s).k, stage(s).n)[stage(s).j]
      BY <1>1, <2>1, <2>2, CallIs
    <2>4. call(s).op = "synced"
      <3> DEFINE m == stage(s).n
      <3>1. script("send", m)[5].op = "synced" /\ script("recv", m)[11].op = "synced"
        BY Scripts
      <3> QED BY <2>1, <2>3, <3>1
    <2> QED BY <2>2, <2>4 DEF calls, call
  <1> QED BY <1>2, <1>3

\* The definition of the refinement mapping by what the sides hold says the same
\* as the one by where they are.
LEMMA InsideIs == SyncInv => insideIs
  <1>1. ASSUME SyncInv, NEW s \in Side
        PROVE  s \in Inside <=> sends(s, 3 .. 5) \/ recvs(s, 2 .. 11)
    <2>1. own_(s)
      BY <1>1, InvParts
    <2>2. calls(s, "synced") <=> sends(s, {5}) \/ recvs(s, {11})
      BY <1>1, LastCall
    <2>3. sub[s].on /\ sub[s].addr.type = TS_SYNCRO_TYPE <=> recvs(s, 2 .. 10)
      <3>1. recvs(s, 2 .. 10) => sub[s].on /\ sync(sub[s].addr)
        BY <2>1, SyncAddr DEF own_, subOK
      <3>2. ~recvs(s, 2 .. 10) => (sub[s].on => ~sync(sub[s].addr))
        BY <2>1 DEF own_, subOK
      <3> QED BY <3>1, <3>2 DEF sync
    <2>4. (\E x \in DOMAIN sock[s] : sock[s][x].name.type = TS_SYNCRO_TYPE) <=> sends(s, 3 .. 4)
      <3>1. \A x \in DOMAIN sock[s] : x # sockfd_R => ~sync(sock[s][x].name)
        BY <2>1 DEF own_, sockOK
      <3>2. sends(s, 3 .. 4) => sockfd_R \in DOMAIN sock[s] /\ sync(sock[s][sockfd_R].name)
        <4>1. sends(s, 3 .. 4) => sends(s, 2 .. 4)
          BY DEF sends
        <4> QED BY <2>1, <4>1, SyncAddr DEF own_, signalSocketOK
      <3>3. sockfd_R \in DOMAIN sock[s] /\ ~sends(s, 3 .. 4) => ~sync(sock[s][sockfd_R].name)
        BY <2>1, SyncAddr DEF own_, signalSocketOK
      <3> QED BY <3>1, <3>2, <3>3 DEF sync
    <2>5. /\ sends(s, 3 .. 5) <=> sends(s, 3 .. 4) \/ sends(s, {5})
          /\ recvs(s, 2 .. 11) <=> recvs(s, 2 .. 10) \/ recvs(s, {11})
      BY DEF sends, recvs
    <2>6. s \in Inside <=> \/ calls(s, "synced")
                           \/ sub[s].on /\ sub[s].addr.type = TS_SYNCRO_TYPE
                           \/ \E x \in DOMAIN sock[s] : sock[s][x].name.type = TS_SYNCRO_TYPE
      BY DEF Inside
    <2> QED BY <2>2, <2>3, <2>4, <2>5, <2>6
  <1> QED BY <1>1 DEF insideIs

\* A step of one side, or of the network, that leaves no meeting.
idles(s) == \E t \in Side : t = other(s) /\ proc'[t] = proc[t] /\ status'[t] = status[t] /\ beat' = beat

\* It brings the side to a meeting, or takes it from one it gives up, at most.
LEMMA IdlesMeet ==
  ASSUME NEW s \in Side, insideIs, insideIs', idles(s)
  PROVE  [Meeting!Next]_Meeting!vars
  <1> DEFINE t == other(s)
  <1>1. proc'[t] = proc[t] /\ status'[t] = status[t] /\ beat' = beat
    BY DEF idles
  <1>2. t \in Side /\ t # s /\ Side = {s, t}
    BY Sides
  <1>3. stage(t)' = stage(t)
    BY <1>1 DEF stage, running, code
  <1>4. \A J : (sends(t, J)' <=> sends(t, J)) /\ (recvs(t, J)' <=> recvs(t, J))
    BY <1>3 DEF sends, recvs
  <1>5. t \in Inside' <=> t \in Inside
    BY <1>2, <1>4 DEF insideIs
  <1> HIDE DEF t
  <1>6. Inside \subseteq Side /\ Inside' \subseteq Side
    BY DEF Inside
  <1>7. Inside' = Inside \/ (s \notin Inside /\ Inside' = Inside \cup {s}) \/ Inside' = Inside \ {s}
    BY <1>2, <1>5, <1>6
  <1>8. CASE Inside' = Inside
    BY <1>1, <1>8 DEF Meeting!vars
  <1>9. CASE s \notin Inside /\ Inside' = Inside \cup {s}
    BY <1>1, <1>9 DEF Meeting!Next, Meeting!Arrive
  <1>10. CASE Inside' = Inside \ {s}
    BY <1>1, <1>10 DEF Meeting!Next, Meeting!Quit
  <1> QED BY <1>7, <1>8, <1>9, <1>10

\* A side leaves a meeting to which the other one has come.
LEMMA SyncedMeets ==
  ASSUME NEW s \in Side, SyncInv, insideIs, SyncInv', insideIs', Synced(s)
  PROVE  [Meeting!Next]_Meeting!vars
  <1> DEFINE t == other(s)
  <1>1. t \in Side /\ t # s /\ other(t) = s /\ Side = {s, t}
    BY Sides
  <1>2. sends(s, {5}) \/ recvs(s, {11})
    BY LastCall DEF Synced
  <1>3. /\ s \in Inside /\ meetOK(s) /\ progOK
    <2>1. sends(s, 3 .. 5) \/ recvs(s, 2 .. 11)
      BY <1>2 DEF sends, recvs
    <2> QED BY <2>1, InvParts DEF insideIs, meet
  <1>4. (beat[s] = beat[t] /\ t \in Inside) \/ ahead(t, s) = 1
    <2>1. CASE sends(s, {5})
      <3>1. (recvs(t, 7 .. 11) /\ beat[s] = beat[t]) \/ ahead(t, s) = 1
        BY <1>3, <2>1 DEF meetOK
      <3>2. recvs(t, 7 .. 11) => recvs(t, 2 .. 11)
        BY DEF recvs
      <3> QED BY <1>1, <3>1, <3>2 DEF insideIs
    <2>2. CASE recvs(s, {11})
      <3>1. recvs(s, 7 .. 11) /\ ~open(s)
        BY <2>2 DEF recvs, open
      <3>2. (sends(t, {5}) /\ beat[s] = beat[t]) \/ ahead(t, s) = 1
        BY <1>3, <3>1 DEF meetOK
      <3>3. sends(t, {5}) => sends(t, 3 .. 5)
        BY DEF sends
      <3> QED BY <1>1, <3>2, <3>3 DEF insideIs
    <2> QED BY <1>2, <2>1, <2>2
  <1>5. beat[s] = beat[t] => ahead(s, t) = 0
    <2>1. beat[s] \in 0 .. 3 /\ beat[t] \in 0 .. 3
      BY <1>1, <1>3 DEF progOK
    <2> QED BY <2>1 DEF ahead
  <1>6. s \notin Inside' /\ (t \in Inside' <=> t \in Inside)
    <2>1. calls(s, "synced") /\ Continue(s) /\ UNCHANGED <<status, main, importance>> /\ stage(s) # Free
      BY <1>2 DEF Synced, sends, recvs, Free
    <2>2. PICK m \in SyncIds : placed(s, m, "synced")
      BY <1>3, <2>1, SignalPlace
    <2>3. stage(s) = spot("send", m, 5) \/ stage(s) = spot("recv", m, 11)
      BY <2>2 DEF placed
    <2>4. beat' \in [Side -> 0 .. 3]
      BY InvParts DEF progOK
    <2>5. calm(s)' /\ stays(t)
      <3>1. CASE stage(s) = spot("send", m, 5)
        <4>1. stays(other(s)) /\ moves(s, "send", m, 5)
          BY <2>1, <2>4, <3>1, SignalContinue
        <4> QED BY <4>1 DEF moves, callsOf
      <3>2. CASE stage(s) = spot("recv", m, 11)
        <4>1. stays(other(s)) /\ moves(s, "recv", m, 11)
          BY <2>1, <2>4, <3>2, SignalContinue
        <4> QED BY <4>1 DEF moves, callsOf
      <3> QED BY <2>3, <3>1, <3>2
    <2>6. ~sends(s, 3 .. 5)' /\ ~recvs(s, 2 .. 11)'
      BY <2>5, Calm
    <2>7. \A J : (sends(t, J)' <=> sends(t, J)) /\ (recvs(t, J)' <=> recvs(t, J))
      BY <2>5 DEF stays, sends, recvs
    <2> QED BY <1>1, <2>6, <2>7 DEF insideIs
  <1> HIDE DEF t
  <1>7. Inside \subseteq Side /\ Inside' \subseteq Side
    BY DEF Inside
  <1>8. Inside' = Inside \ {s}
    BY <1>1, <1>6, <1>7
  <1>9. beat' = [beat EXCEPT ![s] = (@ + 1) % 4]
    BY DEF Synced
  <1>10. \A q \in Side \ {s} : (Meeting!ahead(s, q) = 0 /\ q \in Inside) \/ Meeting!ahead(q, s) = 1
    BY <1>1, <1>4, <1>5 DEF ahead, Meeting!ahead
  <1>11. Meeting!Leave(s)
    BY <1>3, <1>8, <1>9, <1>10 DEF Meeting!Leave
  <1> QED BY <1>11 DEF Meeting!Next

\* Every step but the last one of a signal.
LEMMA StepMeets ==
  ASSUME NEW s \in Side, SyncInv, Step(s)
  PROVE  Synced(s) \/ idles(s)
  <1> DEFINE t == other(s)
  <1>1. t \in Side /\ t # s /\ status \in [Side -> {"off", "run", "done", "failed", "usage"}] /\ DOMAIN proc = Side
    BY Sides, SignalHas DEF progOK
  <1>2. ASSUME NEW p, Goto(s, p), status' = status, beat' = beat
        PROVE  idles(s)
    BY <1>1, <1>2 DEF Goto, idles
  <1>3. ASSUME err(s)
        PROVE  idles(s)
    BY <1>1, <1>3 DEF err, Exit, Goto, idles
  <1>4. ASSUME Continue(s), proceeds
        PROVE  idles(s)
    BY <1>2, <1>4 DEF Continue, proceeds
  <1>5. ASSUME NEW p, Goto(s, p), proceeds
        PROVE  idles(s)
    BY <1>2, <1>5 DEF proceeds
  <1>6. ASSUME NEW ok, CountError(s, ok), proceeds
        PROVE  idles(s)
    BY <1>5, <1>6 DEF CountError
  <1> HIDE DEF t
  <1>7. SendTo(s) \/ McastTo(s) \/ Send(s) \/ Answer(s) => idles(s)
    <2>1. SendTo(s) => idles(s)
      BY <1>6 DEF SendTo
    <2>2. McastTo(s) => idles(s)
      BY <1>4 DEF McastTo
    <2>3. \A x, msg : SendOn(s, x, msg) => \E ok : CountError(s, ok)
      BY DEF SendOn
    <2>4. Send(s) \/ Answer(s) => idles(s)
      BY <1>6, <2>3 DEF Send, Answer
    <2> QED BY <2>1, <2>2, <2>4
  <1>8. Socket(s) \/ Listen(s) \/ SetOption(s) \/ GetOption(s) => idles(s)
    BY <1>3, <1>4 DEF Socket, Listen, SetOption, GetOption
  <1>9. SetImportance(s) => idles(s)
    BY <1>2 DEF SetImportance, Continue
  <1>10. ClearErrors(s) \/ CheckErrors(s) \/ SetRegister(s) \/ Jump(s) \/ NumRec(s) => idles(s)
    BY <1>3, <1>4, <1>5 DEF ClearErrors, CheckErrors, SetRegister, Jump, NumRec
  <1>11. Bind(s) \/ Close(s) \/ Subscribe(s) \/ Unsubscribe(s) => idles(s)
    BY <1>4 DEF Bind, Close, Subscribe, Unsubscribe
  <1>12. Event(s) => idles(s)
    BY <1>3, <1>5 DEF Event
  <1>13. Syn(s) \/ Accept(s) \/ Connect(s) \/ Shutdown(s) => idles(s)
    BY <1>3, <1>4 DEF Syn, Accept, Connect, Shutdown
  <1>14. Recv(s) => idles(s)
    BY <1>3, <1>5 DEF Recv
  <1>15. McastRound(s) \/ McastEnd(s) \/ McastTimeout(s) => idles(s)
    BY <1>3, <1>4, <1>5 DEF McastRound, McastEnd, McastTimeout
  <1>16. Sleep(s) \/ ConnectTimeout(s) => idles(s)
    BY <1>3, <1>4 DEF Sleep, ConnectTimeout
  <1> QED BY <1>7, <1>8, <1>9, <1>10, <1>11, <1>12, <1>13, <1>14, <1>15, <1>16
      DEF Step, OwnCall, SocketCall, NameCall, SendCall, ReceiveCall

\* A new routine, the end of a program and an arrival leave no meeting.
LEMMA RestMeets ==
  ASSUME SyncInv, NEW s \in Side,
         \/ s = "server" /\ (ServerDispatch \/ ServerRun \/ ServerLoop)
         \/ s = "client" /\ (ClientStart \/ ClientArg \/ ClientRun \/ ClientNextTest \/ ClientDone)
         \/ Deliver(s)
  PROVE  idles(s)
  <1> DEFINE t == other(s)
  <1>1. t \in Side /\ t # s /\ status \in [Side -> {"off", "run", "done", "failed", "usage"}] /\ DOMAIN proc = Side
    BY Sides, SignalHas DEF progOK
  <1>2. ASSUME NEW p, Goto(s, p), status' = status \/ \E how : status' = [status EXCEPT ![s] = how], beat' = beat
        PROVE  idles(s)
    BY <1>1, <1>2 DEF Goto, idles
  <1>3. ASSUME NEW how, Exit(s, how), beat' = beat
        PROVE  idles(s)
    BY <1>2, <1>3 DEF Exit
  <1> HIDE DEF t
  <1>4. CASE s = "server" /\ (ServerDispatch \/ ServerRun \/ ServerLoop)
    BY <1>2, <1>3, <1>4 DEF ServerDispatch, ServerRun, ServerLoop, err, Continue, proceeds
  <1>5. CASE s = "client" /\ (ClientStart \/ ClientArg \/ ClientRun \/ ClientNextTest \/ ClientDone)
    BY <1>2, <1>3, <1>5 DEF ClientStart, ClientArg, ClientRun, ClientNextTest, ClientDone, proceeds
  <1>6. CASE Deliver(s)
    BY <1>1, <1>6 DEF Deliver, idles, t
  <1> QED BY <1>4, <1>5, <1>6

\* sendSyncTIPC and recvSyncTIPC implement the rendezvous: whatever the tests do
\* in between, in any order of arrival and even when processes fail, no side
\* gets past a signal the other one has not come to.
THEOREM SignalsMeet == Spec => RendezvousSpec
  <1>1. Init /\ SyncInv /\ insideIs => Meeting!Init
    <2>1. SUFFICES ASSUME Init
                   PROVE  Meeting!Init
      OBVIOUS
    <2>2. SyncInv /\ \A s \in Side : calm(s) /\ sock[s] = <<>> /\ ~sub[s].on
      BY <2>1, InitSync
    <2>3. \A s \in Side : ~calls(s, "synced")
      <3>1. \A s \in Side : ~sends(s, {5}) /\ ~recvs(s, {11})
        BY <2>2, Calm
      <3> QED BY <2>2, <3>1, LastCall
    <2>4. Inside = {}
      BY <2>2, <2>3 DEF Inside
    <2>5. beat = [s \in Side |-> 0]
      BY <2>1 DEF Init
    <2> QED BY <2>4, <2>5 DEF Meeting!Init
  <1>2. SyncInv /\ insideIs /\ SyncInv' /\ insideIs' /\ [Next]_vars => [Meeting!Next]_Meeting!vars
    <2>1. SUFFICES ASSUME SyncInv, insideIs, SyncInv', insideIs', [Next]_vars
                   PROVE  [Meeting!Next]_Meeting!vars
      OBVIOUS
    <2>2. CASE UNCHANGED vars
      BY <2>2 DEF vars, tipc, main, Meeting!vars, Inside, calls, code, running
    <2>3. ASSUME NEW s \in Side, Step(s)
          PROVE  [Meeting!Next]_Meeting!vars
      BY <2>1, <2>3, StepMeets, SyncedMeets, IdlesMeet
    <2>4. ASSUME NEW s \in Side,
                 \/ s = "server" /\ (ServerDispatch \/ ServerRun \/ ServerLoop)
                 \/ s = "client" /\ (ClientStart \/ ClientArg \/ ClientRun \/ ClientNextTest \/ ClientDone)
                 \/ Deliver(s)
          PROVE  [Meeting!Next]_Meeting!vars
      BY <2>1, <2>4, RestMeets, IdlesMeet
    <2>5. CASE Next
      BY <2>3, <2>4, <2>5 DEF Next, Work, Server, Client, Side
    <2> QED BY <2>1, <2>2, <2>5
  <1> QED BY <1>1, <1>2, SyncInductive, InsideIs, PTL DEF Spec, RendezvousSpec, Meeting!Spec

\* No call of either program, in whatever order the two are executed, is for a
\* socket that is closed, and the server holds none when it begins a test.
callsFit ==
  /\ \A s \in Side : running(s) /\ proc[s].at <= Len(code(s)) /\ call(s).op \in UsesSocket
                       => call(s).sd \in DOMAIN sock[s]
  /\ calls("server", "run") => DOMAIN sock["server"] = {}

\* The invariant says so.
LEMMA CallsFit == SyncInv => callsFit
  <1> SUFFICES ASSUME SyncInv
               PROVE  callsFit
    OBVIOUS
  <1>1. ASSUME NEW s \in Side, running(s), proc[s].at <= Len(code(s))
        PROVE  /\ call(s).op \in UsesSocket => call(s).sd \in DOMAIN sock[s]
               /\ call(s).op = "run" => DOMAIN sock[s] \subseteq kept(s)
    <2>1. openOK(s) /\ progOK
      BY SignalHas
    <2>2. call(s).op \in UsesSocket => call(s).sd \in opened(s)
      BY <1>1, <2>1, CallIs
    <2>3. call(s).op = "run" => opened(s) = {}
      BY <1>1, <2>1, CallIs
    <2> QED BY <2>1, <2>2, <2>3 DEF openOK
  <1>2. calls("server", "run") => DOMAIN sock["server"] = {}
    <2>1. calls("server", "run") => /\ running("server") /\ proc["server"].at <= Len(code("server"))
                                    /\ call("server").op = "run"
      BY DEF calls, call
    <2>2. "server" \in Side /\ kept("server") = {}
      BY DEF Side, kept
    <2> QED BY <1>1, <2>1, <2>2
  <1> QED BY <1>1, <1>2 DEF callsFit

\* The programs call the sockets they have open and no others; the server has
\* closed those of a test before it begins the next one.
THEOREM SocketsInOrder == Spec => []callsFit
  BY SyncInductive, CallsFit, PTL

\* The rendezvous itself: since the last meeting both were at, one side has left
\* one meeting more than the other at most.
apart == beat \in [Side -> 0 .. 3] /\ \A s, t \in Side : ahead(s, t) \in {0, 1, 3}

\* A meeting is left by a side that is not ahead.
LEMMA LeaveApart ==
  ASSUME apart, NEW p \in Side, Meeting!Leave(p)
  PROVE  apart'
  <1> DEFINE next == (beat[p] + 1) % 4
  <1>1. /\ beat \in [Side -> 0 .. 3] /\ beat' = [beat EXCEPT ![p] = next]
        /\ \A q \in Side \ {p} : ahead(p, q) = 0 \/ ahead(q, p) = 1
    BY DEF apart, Meeting!Leave, Meeting!ahead, ahead
  <1>2. beat[p] \in 0 .. 3 /\ next \in 0 .. 3
    BY <1>1
  <1>3. ASSUME NEW q \in Side \ {p}
        PROVE  (next - beat[q]) % 4 \in {0, 1, 3} /\ (beat[q] - next) % 4 \in {0, 1, 3}
    <2>1. beat[q] \in 0 .. 3 /\ ((beat[p] - beat[q]) % 4 = 0 \/ (beat[q] - beat[p]) % 4 = 1)
      BY <1>1, <1>3 DEF ahead
    <2> DEFINE a == beat[p]
               b == beat[q]
    <2>2. a \in 0 .. 3 /\ b \in 0 .. 3 /\ ((a - b) % 4 = 0 \/ (b - a) % 4 = 1)
      BY <1>2, <2>1
    <2> HIDE DEF a, b
    <2>3. (((a + 1) % 4) - b) % 4 \in {0, 1, 3} /\ (b - ((a + 1) % 4)) % 4 \in {0, 1, 3}
      BY ONLY <2>2
    <2> QED BY <2>3 DEF a, b
  <1> HIDE DEF next
  <1>4. beat' \in [Side -> 0 .. 3] /\ beat'[p] = next /\ \A q \in Side \ {p} : beat'[q] = beat[q]
    BY <1>1, <1>2
  <1>5. \A s, t \in Side \ {p} : ahead(s, t)' \in {0, 1, 3}
    BY <1>4 DEF apart, ahead
  <1>6. \A q \in Side \ {p} : ahead(p, q)' \in {0, 1, 3} /\ ahead(q, p)' \in {0, 1, 3}
    BY <1>3, <1>4 DEF ahead
  <1>7. ahead(p, p)' = 0
    BY <1>2, <1>4 DEF ahead
  <1> QED BY <1>4, <1>5, <1>6, <1>7 DEF apart

\* Neither side ever takes a signal for the next one: the two are at the same
\* meeting or at neighbouring ones.
THEOREM NeverFarApart == RendezvousSpec => []apart
  <1>1. Meeting!Init => apart
    BY DEF Meeting!Init, apart, ahead
  <1>2. apart /\ [Meeting!Next]_Meeting!vars => apart'
    <2>1. ASSUME apart, NEW p \in Side, Meeting!Arrive(p) \/ Meeting!Quit(p)
          PROVE  apart'
      BY <2>1 DEF Meeting!Arrive, Meeting!Quit, apart, ahead
    <2>2. ASSUME apart, UNCHANGED Meeting!vars
          PROVE  apart'
      BY <2>2 DEF Meeting!vars, apart, ahead
    <2> QED BY <2>1, <2>2, LeaveApart DEF Meeting!Next
  <1> QED BY <1>1, <1>2, PTL DEF RendezvousSpec, Meeting!Spec
=============================================================================

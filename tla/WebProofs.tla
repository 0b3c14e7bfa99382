----------------------------- MODULE WebProofs ------------------------------
(***************************************************************************)
(* Theorems about Web, for any number of workers, any requests and any     *)
(* buffer: types, the three modes, requests that run only when they are    *)
(* complete, and mode requests that are sent again.                        *)
(***************************************************************************)
EXTENDS Web, TLAPS

\* A step of the mode: a request, a format, a compaction, or a boot.
ModeStep == \/ \E m \in Modes : SetUsbMode(m)
            \/ Format \/ Compact \/ Boot \/ UNCHANGED modeVars

LEMMA HandleIsModeStep ==
  ASSUME NEW op \in Ops, Handle(op)
  PROVE  ModeStep
  BY DEF Ops, Modes, Handle, ModeStep

LEMMA ModeStepType ==
  ASSUME ModeTypeOK, ModeStep
  PROVE  ModeTypeOK'
  <1>1. CASE \E m \in Modes : SetUsbMode(m)
    BY <1>1 DEF ModeTypeOK, SetUsbMode, AlreadySet, Switch, SwitchRefused, Found, modeVars
  <1>2. CASE Format
    BY <1>2 DEF ModeTypeOK, Format, Modes, DefaultMode
  <1>3. CASE Compact
    BY <1>3 DEF ModeTypeOK, Compact, Modes, DefaultMode
  <1>4. CASE Boot
    BY <1>4 DEF ModeTypeOK, Boot
  <1>5. CASE UNCHANGED modeVars
    BY <1>5 DEF ModeTypeOK, modeVars
  <1> QED BY <1>1, <1>2, <1>3, <1>4, <1>5 DEF ModeStep

LEMMA ModeStepAgrees ==
  ASSUME ModeTypeOK, ModesAgree, ModeStep
  PROVE  ModesAgree'
  <1>1. CASE \E m \in Modes : SetUsbMode(m)
    BY <1>1 DEF ModesAgree, ModeTypeOK, SetUsbMode, AlreadySet, Switch, SwitchRefused,
                Found, modeVars
  <1>2. CASE Format
    BY <1>2 DEF ModesAgree, ModeTypeOK, Format
  <1>3. CASE Compact
    BY <1>3 DEF ModesAgree, ModeTypeOK, Compact
  <1>4. CASE Boot
    BY <1>4 DEF ModesAgree, Boot
  <1>5. CASE UNCHANGED modeVars
    BY <1>5 DEF ModesAgree, modeVars
  <1> QED BY <1>1, <1>2, <1>3, <1>4, <1>5 DEF ModeStep

\* A restart is asked for only by a switch, and a switch is into a mode other
\* than the one in RAM.
LEMMA OnlySwitchesRestart ==
  ASSUME ModeTypeOK, ModesAgree, ModeStep, ~rebooting, rebooting', ~parted
  PROVE  running # usbMode'
  <1>1. CASE \E m \in Modes : SetUsbMode(m)
    BY <1>1 DEF ModesAgree, SetUsbMode, AlreadySet, Switch, SwitchRefused, modeVars
  <1>2. CASE Format \/ Compact \/ Boot \/ UNCHANGED modeVars
    BY <1>2 DEF Format, Compact, Boot, modeVars
  <1> QED BY <1>1, <1>2 DEF ModeStep

\* Every step of Web is one of the mode.
LEMMA NextIsModeStep ==
  ASSUME TypeOK, [Next]_vars
  PROVE  ModeStep
  <1>1. ASSUME NEW w \in Workers, NEW n \in Nat, phase[w] = "read", Judge(w, n)
        PROVE  ModeStep
    <2>1. conn[w].req \in Requests
      BY <1>1 DEF TypeOK, Conns
    <2>2. conn[w].req.op \in Ops
      BY <2>1, WebAssumption
    <2> QED
      BY <1>1, <2>2, HandleIsModeStep DEF Judge, HandleRequest, Refuse, SetConn, ModeStep
  <1>2. ASSUME NEW w \in Workers, Read(w)
        PROVE  ModeStep
    <2>1. PICK k \in 1 .. Buffer : Judge(w, conn[w].read + k)
      BY <1>2 DEF Read
    <2>2. conn[w].read + k \in Nat
      BY <2>1, WebAssumption DEF TypeOK, Conns
    <2> QED BY <1>1, <1>2, <2>1, <2>2 DEF Read
  <1>3. ASSUME NEW w \in Workers, Step(w)
        PROVE  ModeStep
    BY <1>2, <1>3 DEF Step, ReadEnds, Refuse, Answer, Flush, ModeStep
  <1>4. ASSUME NEW w \in Workers,
               \/ \E r \in Requests : Connect(w, r)
               \/ Send(w) \/ Leave(w) \/ Vanish(w) \/ Return(w)
        PROVE  ModeStep
    BY <1>4 DEF Connect, Send, Leave, Vanish, Return, SetConn, ModeStep
  <1>5. CASE Reboot \/ PowerFailure \/ SaveCompacts
    BY <1>5 DEF Reboot, PowerFailure, SaveCompacts, Restart, ModeStep
  <1>6. CASE UNCHANGED vars
    BY <1>6 DEF vars, ModeStep
  <1> QED BY <1>3, <1>4, <1>5, <1>6 DEF Next

-----------------------------------------------------------------------------
(***************************************************************************)
(* Types.                                                                  *)
(***************************************************************************)
LEMMA NewConnType ==
  /\ NoConn \in Conns /\ NoConn.peer = "none"
  /\ NoConn.req = None /\ NoConn.sent = 0 /\ NoConn.read = 0
  /\ \A p \in Peers : [NoConn EXCEPT !.peer = p] \in Conns
  /\ \A p \in Peers : [NoConn EXCEPT !.peer = p].peer = p
  /\ \A p \in Peers :
       LET c == [NoConn EXCEPT !.peer = p]
       IN c.req = None /\ c.sent = 0 /\ c.read = 0
  BY DEF NoConn, Conns, Peers

LEMMA OpenedType ==
  ASSUME NEW r \in Requests
  PROVE  /\ Opened(r) \in Conns /\ Opened(r).req = r /\ Opened(r).peer = "open"
         /\ Opened(r).sent = 0 /\ Opened(r).read = 0
  BY DEF Opened, NoConn, Conns, Peers

\* What TypeOK says of one worker.
ConnOK(p, c) ==
  /\ p \in {"listen", "read", "answer", "refuse", "flush"}
  /\ c \in Conns
  /\ c.read <= c.sent /\ c.read <= Buffer
  /\ (p = "read") <=> (c.req # None)
  /\ (p = "listen") <=> (c.peer = "none")
  /\ p = "read" /\ c.read >= c.req.head => Needed(c.req) <= Buffer

LEMMA NoConnOK == ConnOK("listen", NoConn)
  BY NewConnType, WebAssumption DEF ConnOK

LEMMA ServedOK ==
  ASSUME NEW p \in {"answer", "refuse", "flush"}, NEW peer \in Peers \ {"none"}
  PROVE  ConnOK(p, [NoConn EXCEPT !.peer = peer])
  <1> DEFINE c == [NoConn EXCEPT !.peer = peer]
  <1>1. c \in Conns /\ c.peer = peer /\ c.req = None /\ c.read = 0 /\ c.sent = 0
    BY NewConnType
  <1> QED BY <1>1, WebAssumption DEF ConnOK

LEMMA InitType == Init => TypeOK
  <1> SUFFICES ASSUME Init PROVE TypeOK
    OBVIOUS
  <1>1. ModeTypeOK
    BY DEF Init, ModeInit, ModeTypeOK, Modes
  <1>2. \A w \in Workers : phase[w] = "listen" /\ conn[w] = NoConn
    BY DEF Init
  <1>3. phase \in [Workers -> {"listen"}] /\ conn \in [Workers -> {NoConn}]
    BY DEF Init
  <1> QED BY <1>1, <1>2, <1>3, NoConnOK DEF TypeOK, ConnOK

\* A step that gives one worker a new state, of the right kind, keeps the types.
LEMMA WorkerType ==
  ASSUME TypeOK, ModeStep, NEW w \in Workers, NEW p, NEW c, ConnOK(p, c),
         phase' = [phase EXCEPT ![w] = p], conn' = [conn EXCEPT ![w] = c]
  PROVE  TypeOK'
  BY ModeStepType DEF TypeOK, ConnOK

LEMMA JudgeType ==
  ASSUME TypeOK, NEW w \in Workers, NEW n \in Nat, phase[w] = "read",
         n <= conn[w].sent, n <= Buffer, Judge(w, n)
  PROVE  TypeOK'
  <1> DEFINE c == conn[w]
  <1>0. c.peer \in Peers \ {"none"}
    BY DEF TypeOK, Conns
  <1>1. c \in Conns /\ c.req \in Requests /\ c.req.op \in Ops
    BY WebAssumption DEF TypeOK, Conns
  <1>2. CASE Handle(c.req.op) /\ Becomes(w, "answer")
    <2>1. ModeStep
      BY <1>1, <1>2, HandleIsModeStep
    <2>2. ConnOK("answer", [NoConn EXCEPT !.peer = c.peer])
      BY <1>0, ServedOK
    <2> QED BY <1>2, <2>1, <2>2, WorkerType DEF Becomes
  <1>3. CASE Refuse(w)
    <2>1. ModeStep
      BY <1>3 DEF Refuse, ModeStep
    <2>2. ConnOK("refuse", [NoConn EXCEPT !.peer = c.peer])
      BY <1>0, ServedOK
    <2> QED BY <1>3, <2>1, <2>2, WorkerType DEF Refuse, Becomes
  <1>4. ASSUME NEW b \in BOOLEAN, n < c.req.head \/ Needed(c.req) <= Buffer,
               SetConn(w, [c EXCEPT !.read = n, !.continued = b])
        PROVE  TypeOK'
    <2>1. ModeStep /\ phase' = [phase EXCEPT ![w] = "read"]
      BY <1>4 DEF SetConn, ModeStep, TypeOK
    <2> DEFINE d == [c EXCEPT !.read = n, !.continued = b]
    <2>2. /\ d \in Conns /\ d.read = n /\ d.sent = c.sent /\ d.req = c.req
          /\ d.peer = c.peer
      BY <1>1 DEF Conns
    <2>3. ConnOK("read", d)
      <3>1. d.read >= d.req.head => Needed(d.req) <= Buffer
        BY <1>1, <1>4, <2>2, WebAssumption DEF Needed
      <3>2. d.req # None /\ d.peer # "none" /\ d.read <= d.sent /\ d.read <= Buffer
        BY <1>0, <1>1, <2>2, WebAssumption
      <3> QED BY <2>2, <3>1, <3>2 DEF ConnOK
    <2> QED BY <1>4, <2>1, <2>3, WorkerType DEF SetConn
  <1>5. CASE n < c.req.head /\ SetConn(w, [c EXCEPT !.read = n])
    <2>1. [c EXCEPT !.read = n] = [c EXCEPT !.read = n, !.continued = c.continued]
      BY <1>1 DEF Conns
    <2> QED BY <1>1, <1>4, <1>5, <2>1 DEF Conns
  <1>6. Continued(c) \in BOOLEAN
    BY <1>1, WebAssumption DEF Continued, Conns
  <1> QED BY <1>2, <1>3, <1>4, <1>5, <1>6 DEF Judge, HandleRequest

LEMMA NextType ==
  ASSUME TypeOK, [Next]_vars
  PROVE  TypeOK'
  <1>0. ModeStep
    BY NextIsModeStep
  <1>1. ASSUME NEW w \in Workers, NEW r \in Requests, Connect(w, r)
        PROVE  TypeOK'
    <2>1. ConnOK("read", Opened(r))
      BY OpenedType, WebAssumption DEF ConnOK
    <2> QED BY <1>0, <1>1, <2>1, WorkerType DEF Connect
  <1>2. ASSUME NEW w \in Workers, Send(w) \/ Leave(w) \/ Vanish(w) \/ Return(w)
        PROVE  TypeOK'
    <2> DEFINE c == conn[w]
    <2>1. c \in Conns /\ phase' = [phase EXCEPT ![w] = phase[w]]
      BY <1>2 DEF TypeOK, Send, Leave, Vanish, Return, SetConn
    <2>2. CASE Send(w)
      <3>1. ConnOK(phase[w], [c EXCEPT !.sent = @ + 1])
        BY <2>1, <2>2 DEF ConnOK, Conns, TypeOK, Send
      <3> QED BY <1>0, <2>1, <2>2, <3>1, WorkerType DEF Send, SetConn
    <2>3. CASE Leave(w)
      <3>1. PICK n \in {c.sent, c.read} :
              SetConn(w, [c EXCEPT !.peer = "closed", !.sent = n])
        BY <2>3 DEF Leave
      <3>2. n \in Nat /\ c.read <= n /\ "closed" \in Peers /\ c.peer # "none"
        BY <2>1, <2>3 DEF Conns, TypeOK, Peers, Leave
      <3>3. ConnOK(phase[w], [c EXCEPT !.peer = "closed", !.sent = n])
        BY <2>1, <3>2 DEF ConnOK, Conns, TypeOK
      <3> QED BY <1>0, <2>1, <3>1, <3>3, WorkerType DEF SetConn
    <2>4. ASSUME NEW p \in {"gone", "open"}, c.peer # "none",
                 SetConn(w, [c EXCEPT !.peer = p])
          PROVE  TypeOK'
      <3>1. ConnOK(phase[w], [c EXCEPT !.peer = p])
        BY <2>1, <2>4 DEF ConnOK, Conns, TypeOK, Peers
      <3> QED BY <1>0, <2>1, <2>4, <3>1, WorkerType DEF SetConn
    <2> QED BY <1>2, <2>2, <2>3, <2>4 DEF Vanish, Return
  <1>3. ASSUME NEW w \in Workers, Read(w)
        PROVE  TypeOK'
    <2>1. PICK k \in 1 .. Buffer : /\ k <= Room(conn[w]) /\ k <= conn[w].sent - conn[w].read
                                   /\ Judge(w, conn[w].read + k)
      BY <1>3 DEF Read
    <2>2. conn[w] \in Conns /\ conn[w].req \in Requests
      BY <1>3 DEF TypeOK, Conns, Read
    <2>3. conn[w].read + k \in Nat /\ conn[w].read + k <= conn[w].sent
      BY <2>1, <2>2, WebAssumption DEF Conns
    <2>4. conn[w].read + k <= Buffer
      BY <1>3, <2>1, <2>2, WebAssumption DEF TypeOK, Conns, Room, Needed, Read
    <2> QED BY <1>3, <2>1, <2>3, <2>4, JudgeType DEF Read
  <1>4. ASSUME NEW w \in Workers, ReadEnds(w) \/ Answer(w)
        PROVE  TypeOK'
    <2>1. PICK p \in {"refuse", "flush"} : Becomes(w, p)
      BY <1>4 DEF ReadEnds, Refuse, Answer
    <2>2. conn[w].peer \in Peers \ {"none"}
      BY <1>4 DEF TypeOK, Conns, ReadEnds, Answer
    <2>3. ConnOK(p, [NoConn EXCEPT !.peer = conn[w].peer])
      BY <2>2, ServedOK
    <2> QED BY <1>0, <2>1, <2>3, WorkerType DEF Becomes
  <1>5. ASSUME NEW w \in Workers, Flush(w)
        PROVE  TypeOK'
    <2> QED BY <1>0, <1>5, NoConnOK, WorkerType DEF Flush
  <1>6. CASE Reboot \/ PowerFailure
    <2>1. ModeTypeOK'
      BY <1>0, ModeStepType DEF TypeOK
    <2>2. \A w \in Workers : phase'[w] = "listen" /\ conn'[w] = NoConn
      BY <1>6 DEF Reboot, PowerFailure, Restart
    <2>3. phase' \in [Workers -> {"listen"}] /\ conn' \in [Workers -> {NoConn}]
      BY <1>6 DEF Reboot, PowerFailure, Restart
    <2> QED BY <2>1, <2>2, <2>3, NoConnOK DEF TypeOK, ConnOK
  <1>7. CASE SaveCompacts \/ UNCHANGED vars
    BY <1>0, <1>7, ModeStepType DEF SaveCompacts, vars, TypeOK
  <1> QED BY <1>1, <1>2, <1>3, <1>4, <1>5, <1>6, <1>7 DEF Next, Step

\* Every variable keeps its type, no worker reads more than was sent or than
\* its buffer holds, and a worker has a client exactly when it does not listen.
THEOREM TypeCorrect == Spec => []TypeOK
  <1>1. TypeOK /\ [Next]_vars => TypeOK'
    BY NextType
  <1> QED BY InitType, <1>1, PTL DEF Spec

-----------------------------------------------------------------------------
(***************************************************************************)
(* The modes.                                                              *)
(***************************************************************************)
LEMMA InitAgrees == Init => ModesAgree
  BY DEF Init, ModeInit, ModesAgree

LEMMA NextAgrees == TypeOK /\ ModesAgree /\ [Next]_vars => ModesAgree'
  BY NextIsModeStep, ModeStepAgrees DEF TypeOK

\* The page and the USB task have one mode, or a restart is about to give them
\* one, and so has the journal, unless the next boot scan stops at a torn record
\* (set_usb_mode_from_params, handle_request, device::run, scan_flash).
THEOREM ModesStayTogether == Spec => []ModesAgree
  <1> QED BY InitAgrees, NextAgrees, TypeCorrect, PTL DEF Spec

\* A mode request that is repeated after the restart it caused causes no
\* other (the comparison of modes in handle_request).
THEOREM RepeatedSwitchIsHarmless == Spec => RetriedSwitchDoesNotRestart
  <1>1. TypeOK /\ ModesAgree /\ [Next]_vars
        => [~rebooting /\ rebooting' /\ ~parted => running # usbMode']_vars
    BY NextIsModeStep, OnlySwitchesRestart DEF TypeOK
  <1> QED BY <1>1, TypeCorrect, ModesStayTogether, PTL
          DEF Spec, RetriedSwitchDoesNotRestart

-----------------------------------------------------------------------------
(***************************************************************************)
(* Complete requests.                                                      *)
(***************************************************************************)
\* A request that was cut off is never carried out (read_request).
THEOREM CutOffRequestsDoNotRun == Spec => OnlyWholeRequestsRun
  <1> DEFINE Whole(w) == phase[w] = "read" /\ phase'[w] = "answer"
                         => conn[w].sent >= Needed(conn[w].req)
  <1>1. ASSUME TypeOK, Next, NEW w \in Workers PROVE Whole(w)
    <2> SUFFICES ASSUME phase[w] = "read", phase'[w] = "answer"
                 PROVE  conn[w].sent >= Needed(conn[w].req)
      OBVIOUS
    <2>1. conn[w] \in Conns /\ conn[w].req \in Requests
      BY <1>1 DEF TypeOK, Conns
    <2>2. ASSUME NEW v \in Workers, NEW q, phase' = [phase EXCEPT ![v] = q]
          PROVE  v = w /\ q = "answer"
      BY <1>1, <2>2 DEF TypeOK
    <2>3. ASSUME NEW v \in Workers,
                 Send(v) \/ Leave(v) \/ Vanish(v) \/ Return(v)
                 \/ \E r \in Requests : Connect(v, r)
          PROVE  FALSE
      BY <2>2, <2>3 DEF Connect, Send, Leave, Vanish, Return, SetConn
    <2>4. ASSUME NEW v \in Workers, ReadEnds(v) \/ Answer(v) \/ Flush(v)
          PROVE  FALSE
      BY <2>2, <2>4 DEF ReadEnds, Refuse, Becomes, Answer, Flush
    <2>5. ~(Reboot \/ PowerFailure \/ SaveCompacts)
      BY DEF Reboot, PowerFailure, Restart, SaveCompacts
    <2>6. PICK v \in Workers : Read(v)
      BY <1>1, <2>3, <2>4, <2>5 DEF Next, Step
    <2>7. PICK k \in 1 .. Buffer : /\ k <= conn[v].sent - conn[v].read
                                   /\ Judge(v, conn[v].read + k)
      BY <2>6 DEF Read
    <2>8. v = w /\ conn[v].read + k >= Needed(conn[v].req)
      BY <2>2, <2>7 DEF Judge, HandleRequest, Refuse, Becomes, SetConn
    <2> QED BY <2>1, <2>7, <2>8, WebAssumption DEF Conns, Needed
  <1>2. TypeOK /\ [Next]_vars => [\A w \in Workers : Whole(w)]_vars
    BY <1>1
  <1> QED BY <1>2, TypeCorrect, PTL DEF Spec, OnlyWholeRequestsRun

-----------------------------------------------------------------------------
(***************************************************************************)
(* Requests that are refused.                                              *)
(***************************************************************************)
\* Between two reads a request is not complete: the read that completes it
\* hands it to its handler.
Unfinished ==
  \A w \in Workers : phase[w] = "read" => conn[w].read < Needed(conn[w].req)

\* Reading goes on, for the worker w, only with a request that is not complete.
LEMMA ReadingGoesOn ==
  ASSUME TypeOK, Unfinished, [Next]_vars, NEW w \in Workers, phase'[w] = "read"
  PROVE  conn'[w].read < Needed(conn'[w].req)
  <1> DEFINE OK == conn'[w].read < Needed(conn'[w].req)
  <1>0. \A v \in Workers : /\ phase[v] = "read" => conn[v].req \in Requests
                           /\ conn[v] \in Conns
    BY DEF TypeOK, Conns
  <1>1. \A r \in Requests : r.head \in Nat \ {0} /\ r.body \in Nat
    BY WebAssumption
  <1>2. phase[w] = "read" => conn[w].read < Needed(conn[w].req)
    BY DEF Unfinished
  <1>3. ASSUME NEW v \in Workers, NEW r \in Requests, Connect(v, r)
        PROVE  OK
    <2>1. CASE v = w
      <3>1. conn'[w] = Opened(r)
        BY <1>3, <2>1 DEF Connect, TypeOK
      <3> QED BY <1>1, <3>1, OpenedType DEF Needed
    <2>2. CASE v # w
      BY <1>2, <1>3, <2>2 DEF Connect, TypeOK
    <2> QED BY <2>1, <2>2
  <1>4. ASSUME NEW v \in Workers, Send(v) \/ Leave(v) \/ Vanish(v) \/ Return(v)
        PROVE  OK
    <2>1. ASSUME NEW n, NEW p, SetConn(v, [conn[v] EXCEPT !.peer = p, !.sent = n])
          PROVE  OK
      <3> DEFINE d == [conn[v] EXCEPT !.peer = p, !.sent = n]
      <3>1. d.read = conn[v].read /\ d.req = conn[v].req
        BY <1>0 DEF Conns
      <3>2. phase' = phase /\ conn' = [conn EXCEPT ![v] = d]
        BY <2>1 DEF SetConn
      <3> HIDE DEF d
      <3>3. CASE v = w
        BY <1>2, <3>1, <3>2, <3>3 DEF TypeOK
      <3>4. CASE v # w
        BY <1>2, <3>2, <3>4 DEF TypeOK
      <3> QED BY <3>3, <3>4
    <2>2. CASE Leave(v)
      BY <2>1, <2>2 DEF Leave
    <2>3. CASE Send(v) \/ Vanish(v) \/ Return(v)
      <3>1. phase' = phase /\ conn'[w].read = conn[w].read /\ conn'[w].req = conn[w].req
        BY <1>0, <2>3 DEF Send, Vanish, Return, SetConn, TypeOK, Conns
      <3> QED BY <1>2, <3>1
    <2> QED BY <1>4, <2>2, <2>3
  <1>5. ASSUME NEW v \in Workers, NEW p \in {"answer", "refuse", "flush"}, Becomes(v, p)
        PROVE  OK
    <2>1. v # w /\ phase'[w] = phase[w] /\ conn'[w] = conn[w]
      BY <1>5 DEF Becomes, TypeOK
    <2> QED BY <1>2, <2>1
  <1>6. ASSUME NEW v \in Workers, ReadEnds(v) \/ Answer(v)
        PROVE  OK
    BY <1>5, <1>6 DEF ReadEnds, Refuse, Answer
  <1>7. ASSUME NEW v \in Workers, Flush(v)
        PROVE  OK
    <2>1. v # w /\ phase'[w] = phase[w] /\ conn'[w] = conn[w]
      BY <1>7 DEF Flush, TypeOK
    <2> QED BY <1>2, <2>1
  <1>8. ASSUME NEW v \in Workers, Read(v)
        PROVE  OK
    <2>1. PICK k \in 1 .. Buffer : Judge(v, conn[v].read + k)
      BY <1>8 DEF Read
    <2> DEFINE n == conn[v].read + k
    <2>2. phase[v] = "read" /\ conn[v].req \in Requests /\ conn[v] \in Conns /\ n \in Nat
      BY <1>0, <1>8, <2>1, WebAssumption DEF Read, Conns
    <2>3. CASE \E p \in {"answer", "refuse"} : Becomes(v, p)
      BY <1>5, <2>3
    <2>4. CASE \E b \in BOOLEAN : /\ n < Needed(conn[v].req)
                                 /\ SetConn(v, [conn[v] EXCEPT !.read = n, !.continued = b])
      <3>1. PICK b \in BOOLEAN : SetConn(v, [conn[v] EXCEPT !.read = n, !.continued = b])
        BY <2>4
      <3> DEFINE d == [conn[v] EXCEPT !.read = n, !.continued = b]
      <3>2. d.read = n /\ d.req = conn[v].req
        BY <2>2 DEF Conns
      <3>3. phase' = phase /\ conn' = [conn EXCEPT ![v] = d]
        BY <3>1 DEF SetConn
      <3> HIDE DEF d
      <3>4. CASE v = w
        BY <2>4, <3>2, <3>3, <3>4 DEF TypeOK
      <3>5. CASE v # w
        BY <1>2, <3>3, <3>5 DEF TypeOK
      <3> QED BY <3>4, <3>5
    <2>5. [conn[v] EXCEPT !.read = n]
            = [conn[v] EXCEPT !.read = n, !.continued = conn[v].continued]
      BY <2>2 DEF Conns
    <2>6. conn[v].continued \in BOOLEAN /\ Continued(conn[v]) \in BOOLEAN
      BY <2>2, WebAssumption DEF Continued, Conns
    <2>7. n < conn[v].req.head => n < Needed(conn[v].req)
      BY <1>1, <2>2 DEF Needed
    <2>8. \/ \E p \in {"answer", "refuse"} : Becomes(v, p)
          \/ /\ n < Needed(conn[v].req)
             /\ \/ SetConn(v, [conn[v] EXCEPT !.read = n])
                \/ SetConn(v, [conn[v] EXCEPT !.read = n, !.continued = Continued(conn[v])])
      BY <2>1, <2>7 DEF Judge, HandleRequest, Refuse
    <2> HIDE DEF n
    <2> QED BY <2>3, <2>4, <2>5, <2>6, <2>8
  <1>9. CASE Reboot \/ PowerFailure
    BY <1>9 DEF Reboot, PowerFailure, Restart
  <1>10. CASE SaveCompacts \/ UNCHANGED vars
    BY <1>2, <1>10 DEF SaveCompacts, vars
  <1> QED BY <1>3, <1>4, <1>6, <1>7, <1>8, <1>9, <1>10 DEF Next, Step

\* A request that arrives whole, fits the buffer and is text is handed to its
\* handler, in whatever pieces it comes: the search for the target in all of
\* the bytes (handle_request) is the only thing in the way of a binary upload.
THEOREM TextRequestsAreHandled ==
  ASSUME \A r \in Requests : ~r.binary
  PROVE  Spec => WholeRequestsAreHandled
  <1> DEFINE Handed(w) ==
        phase[w] = "read" /\ phase'[w] = "refuse"
        => conn[w].sent < Needed(conn[w].req) \/ Needed(conn[w].req) > Buffer
  <1>1. ASSUME TypeOK, Unfinished, Next, NEW w \in Workers PROVE Handed(w)
    <2> SUFFICES ASSUME phase[w] = "read", phase'[w] = "refuse"
                 PROVE  conn[w].sent < Needed(conn[w].req) \/ Needed(conn[w].req) > Buffer
      OBVIOUS
    <2>1. conn[w] \in Conns /\ conn[w].req \in Requests /\ ~conn[w].req.binary
      BY <1>1 DEF TypeOK, Conns
    <2>2. ASSUME NEW v \in Workers, NEW q, phase' = [phase EXCEPT ![v] = q]
          PROVE  v = w /\ q = "refuse"
      BY <1>1, <2>2 DEF TypeOK
    <2>3. ASSUME NEW v \in Workers,
                 Send(v) \/ Leave(v) \/ Vanish(v) \/ Return(v)
                 \/ \E r \in Requests : Connect(v, r)
          PROVE  FALSE
      BY <2>2, <2>3 DEF Connect, Send, Leave, Vanish, Return, SetConn
    <2>4. ASSUME NEW v \in Workers, Answer(v) \/ Flush(v)
          PROVE  FALSE
      BY <2>2, <2>4 DEF Becomes, Answer, Flush
    <2>5. ~(Reboot \/ PowerFailure \/ SaveCompacts)
      BY DEF Reboot, PowerFailure, Restart, SaveCompacts
    <2>6. PICK v \in Workers : Read(v) \/ ReadEnds(v)
      BY <1>1, <2>3, <2>4, <2>5 DEF Next, Step
    <2>7. CASE ReadEnds(v)
      <3>1. v = w /\ conn[v].read = conn[v].sent
        BY <2>2, <2>7 DEF ReadEnds, Refuse, Becomes
      <3> QED BY <1>1, <3>1 DEF Unfinished
    <2>8. CASE Read(v)
      <3>1. PICK k \in 1 .. Buffer : Judge(v, conn[v].read + k)
        BY <2>8 DEF Read
      <3> DEFINE n == conn[v].read + k
      <3>2. v = w
        BY <2>2, <3>1 DEF Judge, HandleRequest, Refuse, Becomes, SetConn
      <3>3. ~(Handle(conn[w].req.op) /\ Becomes(w, "answer"))
        BY <2>2 DEF Becomes
      <3>4. \A c : ~SetConn(w, c)
        BY DEF SetConn
      <3>5. Needed(conn[w].req) > Buffer \/ (n < conn[w].req.head /\ n = Buffer)
        BY <2>1, <3>1, <3>2, <3>3, <3>4 DEF Judge, HandleRequest
      <3> QED BY <2>1, <3>5, WebAssumption DEF Needed
    <2> QED BY <2>6, <2>7, <2>8
  <1>2. Init => Unfinished
    BY DEF Init, Unfinished
  <1>3. TypeOK /\ Unfinished /\ [Next]_vars => Unfinished'
    BY ReadingGoesOn DEF Unfinished
  <1>4. TypeOK /\ Unfinished /\ [Next]_vars => [\A w \in Workers : Handed(w)]_vars
    BY <1>1
  <1> QED BY <1>2, <1>3, <1>4, TypeCorrect, PTL DEF Spec, WholeRequestsAreHandled
=============================================================================

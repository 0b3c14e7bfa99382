-------------------------------- MODULE Web ---------------------------------
(***************************************************************************)
(* The HTTP server (src/web/server.rs): each worker serves one connection  *)
(* at a time, from accept to flush, and awaits nothing but its socket, for *)
(* as long as it takes.  A request is handled in one step, the one that    *)
(* reads its last bytes.  Of the handlers only those that change the USB   *)
(* mode are told apart; what the others do to the library is in Store.     *)
(*                                                                         *)
(* Lengths are in units of any size.  The client is modelled with what it  *)
(* can do to a connection: send, close or reset it, or vanish, in which    *)
(* case TCP neither delivers nor acknowledges anything any more.           *)
(***************************************************************************)
EXTENDS ModeSwitch, FiniteSets

CONSTANTS
  None,
  Workers,   \* HTTP_WORKERS of them
  Requests,  \* what clients may send
  Buffer     \* length of the request buffer

Ops == Modes \union {"format", "compact", "other"}

ASSUME WebAssumption ==
  /\ Buffer \in Nat /\ None \notin Requests
  /\ \A r \in Requests : /\ r.op \in Ops /\ r.head \in Nat \ {0}
                         /\ r.body \in Nat
                         /\ r.expect \in BOOLEAN /\ r.binary \in BOOLEAN

VARIABLES
  phase,  \* what each worker is doing
  conn    \* its connection

vars == <<phase, conn, modeVars>>

Needed(r) == r.head + r.body

\* binary: the body is not text; expect: the client waits for "100 Continue" before it sends the body.
NoConn == [req |-> None, sent |-> 0, read |-> 0, continued |-> FALSE, peer |-> "none"]

Opened(r) == [NoConn EXCEPT !.req = r, !.peer = "open"]

Peers == {"none", "open", "closed", "gone"}

Conns == [req : Requests \union {None}, sent : Nat, read : Nat,
          continued : BOOLEAN, peer : Peers]

TypeOK ==
  /\ phase \in [Workers -> {"listen", "read", "answer", "refuse", "flush"}]
  /\ conn \in [Workers -> Conns]
  /\ \A w \in Workers : /\ conn[w].read <= conn[w].sent
                        /\ conn[w].read <= Buffer
                        /\ (phase[w] = "read") <=> (conn[w].req # None)
                        /\ (phase[w] = "listen") <=> (conn[w].peer = "none")
                        /\ phase[w] = "read" /\ conn[w].read >= conn[w].req.head
                           => Needed(conn[w].req) <= Buffer
  /\ ModeTypeOK

Init ==
  /\ phase = [w \in Workers |-> "listen"]
  /\ conn = [w \in Workers |-> NoConn]
  /\ ModeInit

-----------------------------------------------------------------------------
(***************************************************************************)
(* The client.                                                             *)
(***************************************************************************)
SetConn(w, c) == conn' = [conn EXCEPT ![w] = c] /\ UNCHANGED <<phase, modeVars>>

\* A connection needs a worker that listens; otherwise it is refused.
Connect(w, r) ==
  /\ phase[w] = "listen"
  /\ phase' = [phase EXCEPT ![w] = "read"]
  /\ conn' = [conn EXCEPT ![w] = Opened(r)]
  /\ UNCHANGED modeVars

Awaits100(c) == c.req.expect /\ c.sent >= c.req.head /\ ~c.continued

Send(w) ==
  LET c == conn[w] IN
    /\ phase[w] = "read" /\ c.peer = "open" /\ c.sent < Needed(c.req)
    /\ ~Awaits100(c)
    /\ SetConn(w, [c EXCEPT !.sent = @ + 1])

\* The client closes, or resets, in which case unread data is lost.
Leave(w) ==
  /\ conn[w].peer = "open"
  /\ \E n \in {conn[w].sent, conn[w].read} :
       SetConn(w, [conn[w] EXCEPT !.peer = "closed", !.sent = n])

Vanish(w) == conn[w].peer = "open" /\ SetConn(w, [conn[w] EXCEPT !.peer = "gone"])
Return(w) == conn[w].peer = "gone" /\ SetConn(w, [conn[w] EXCEPT !.peer = "open"])

-----------------------------------------------------------------------------
(***************************************************************************)
(* The worker.                                                             *)
(***************************************************************************)
\* handle_request: the state change of one request.
Handle(op) ==
  CASE op \in Modes   -> SetUsbMode(op)
    [] op = "format"  -> Format
    [] op = "compact" -> Compact
    [] op = "other"   -> UNCHANGED modeVars

\* From here on only the client's state matters.
Becomes(w, p) ==
  /\ phase' = [phase EXCEPT ![w] = p]
  /\ conn' = [conn EXCEPT ![w] = [NoConn EXCEPT !.peer = conn[w].peer]]

Refuse(w) == Becomes(w, "refuse") /\ UNCHANGED modeVars

\* handle_request looks for the target in all of the request, body included,
\* and finds none in one that is not UTF-8.
HandleRequest(w) ==
  IF conn[w].req.binary THEN Refuse(w)
  ELSE Handle(conn[w].req.op) /\ Becomes(w, "answer")

\* Room in the slice given to the socket: the rest of the buffer, or of the
\* request once its length is known.
Room(c) ==
  IF c.read < c.req.head THEN Buffer - c.read ELSE Needed(c.req) - c.read

\* Mutant of Continued: nobody answers "Expect: 100-continue".
NotContinued(c) == c.continued

\* The interim answer to "Expect: 100-continue", sent once.
Continued(c) == c.continued \/ c.req.expect

\* read_request, once n units are there.
Judge(w, n) ==
  LET c == conn[w]  r == c.req IN
    \/ /\ n >= r.head /\ n >= Needed(r)
       /\ HandleRequest(w)
    \/ /\ n >= r.head /\ n < Needed(r) /\ Needed(r) > Buffer
       /\ Refuse(w)
    \/ /\ n >= r.head /\ n < Needed(r) /\ Needed(r) <= Buffer
       /\ SetConn(w, [c EXCEPT !.read = n, !.continued = Continued(c)])
    \/ /\ n < r.head /\ n = Buffer
       /\ Refuse(w)
    \/ /\ n < r.head /\ n # Buffer
       /\ SetConn(w, [c EXCEPT !.read = n])

Read(w) ==
  LET c == conn[w] IN
    /\ phase[w] = "read" /\ c.read < c.sent
    /\ \E k \in 1 .. Buffer :
         k <= Room(c) /\ k <= c.sent - c.read /\ Judge(w, c.read + k)

\* Mutant of ReadEnds: what has been read is taken for the request.
ReadEndsHandled(w) ==
  /\ phase[w] = "read" /\ conn[w].peer = "closed" /\ conn[w].read = conn[w].sent
  /\ HandleRequest(w)

\* The end of the stream, or an error, before the request is complete.
ReadEnds(w) ==
  /\ phase[w] = "read" /\ conn[w].peer = "closed" /\ conn[w].read = conn[w].sent
  /\ Refuse(w)

\* write_all, to the end or to an error; it waits for acknowledgements.
Answer(w) ==
  /\ phase[w] \in {"answer", "refuse"} /\ conn[w].peer # "gone"
  /\ Becomes(w, "flush") /\ UNCHANGED modeVars

\* Mutant of Flush: the next turn of the loop goes on with the old socket.
FlushKeepsSocket(w) ==
  /\ phase[w] = "flush" /\ conn[w].peer # "gone"
  /\ phase' = [phase EXCEPT ![w] = "listen"]
  /\ UNCHANGED <<conn, modeVars>>

\* socket.flush, and the next turn of the loop with a new socket.
Flush(w) ==
  /\ phase[w] = "flush" /\ conn[w].peer # "gone"
  /\ phase' = [phase EXCEPT ![w] = "listen"]
  /\ conn' = [conn EXCEPT ![w] = NoConn]
  /\ UNCHANGED modeVars

Step(w) == Read(w) \/ ReadEnds(w) \/ Answer(w) \/ Flush(w)

-----------------------------------------------------------------------------
(***************************************************************************)
(* The rest of the device.                                                 *)
(***************************************************************************)
Restart ==
  /\ phase' = [w \in Workers |-> "listen"]
  /\ conn' = [w \in Workers |-> NoConn]
  /\ Boot

\* One second after the USB task saw the flag and flushed.
Reboot == rebooting /\ Restart

PowerFailure == Restart

\* A save of the USB task may compact the journal.
SaveCompacts == Compact /\ UNCHANGED <<phase, conn>>

Next ==
  \/ \E w \in Workers :
       \/ \E r \in Requests : Connect(w, r)
       \/ Send(w) \/ Leave(w) \/ Vanish(w) \/ Return(w)
       \/ Step(w)
  \/ Reboot \/ PowerFailure \/ SaveCompacts

\* A worker goes on when its socket does; a client that is there goes on
\* sending, or leaves.  Nothing is assumed of one that vanished.
Fairness ==
  /\ \A w \in Workers : WF_vars(Step(w)) /\ WF_vars(Send(w))
  /\ WF_vars(Reboot)

Spec == Init /\ [][Next]_vars /\ Fairness

-----------------------------------------------------------------------------
(***************************************************************************)
(* Properties.                                                             *)
(***************************************************************************)
\* A request is carried out only when all of it has arrived: one that was cut
\* off, an upload in particular, has no effect (read_request).
OnlyWholeRequestsRun ==
  [][\A w \in Workers :
       phase[w] = "read" /\ phase'[w] = "answer"
       => conn[w].sent >= Needed(conn[w].req)]_vars

\* Only a request that was cut off, or does not fit, is answered "Bad request"
\* without being handed to its handler (README.md: uploads have a binary body).
WholeRequestsAreHandled ==
  [][\A w \in Workers :
       phase[w] = "read" /\ phase'[w] = "refuse"
       => conn[w].sent < Needed(conn[w].req) \/ Needed(conn[w].req) > Buffer]_vars

\* A mode request that is sent again, because the restart took its answer
\* away, does not restart a device that came back in the mode it asks for (the
\* comparison of modes in handle_request): a restart that begins is one into
\* another mode, unless an error or a format parted the modes before.
RetriedSwitchDoesNotRestart ==
  [][~rebooting /\ rebooting' /\ ~parted => running # usbMode']_vars

\* Whatever a client sends, however slowly, and wherever it breaks off: a
\* worker comes back to listening, unless its client vanishes without closing
\* the connection.
WorkerComesBack ==
  \A w \in Workers :
    <>[](conn[w].peer # "gone") => []<>(phase[w] = "listen")
=============================================================================

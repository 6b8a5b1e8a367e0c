------------------------------- MODULE Sockets -------------------------------
(***************************************************************************)
(* SocketWrapper and AsyncSocketWrapper over their SocketTracker, and      *)
(* send_data: connecting with up to three attempts and a fall back from    *)
(* IPv6 to IPv4, `with` blocks, operations that call each other and are    *)
(* each tried up to three times, on a network that may fail at any moment. *)
(*                                                                         *)
(* A call is a stack of frames.  Tasks of one event loop share the         *)
(* wrapper; a task gives way only where it awaits the network.             *)
(***************************************************************************)
EXTENDS LayeredContext, FiniteSets, Sequences

CONSTANTS
  Users,        \* threads or tasks
  Socks,        \* identities of sockets, used again once closed and forgotten
  Nothing,
  Setups,       \* kinds of wrapper, their users and the calls these make
  Chunks,       \* chunks handed to send_chunks
  MaxChunks,    \* chunks read before eof_timeout is over
  MaxRecursion  \* Python's recursion limit

VARIABLES
  setup,    \* the setup of this behaviour
  net,      \* the trackers, the sockets, and the family of socket_conf
  stack,    \* each user's frames, the innermost first
  err,      \* the exception being raised: "broken" is one the wrapper catches
  got,      \* what the user's last recv returned
  blocks,   \* `with wrapper` blocks each user is in
  calls,    \* calls made
  sends,    \* sends of the current call that were tried
  faults    \* failures of the network, where they are limited

vars == <<setup, net, stack, err, got, blocks, calls, sends, faults>>

Trackers == {"main", "dup"}
Ops == {"recv", "sendall", "shutdown", "settimeout", "accept", "on_connect", "send_chunks",
        "read_eof", "query", "http_request", "query_new", "query_raw", "with", "connect",
        "reconnect", "reconnect_to", "close", "send_data"}

(* Operations AsyncSocketWrapper has not, or inherits with the synchronous decorator. *)
SyncOnly == {"query_new", "query_raw", "send_chunks", "shutdown", "settimeout", "accept", "on_connect"}

(* A setup: the kind of wrapper, who calls what how often (only in blocks, where
   in_blocks), the arguments of the wrapper, what its host's name resolves to, and
   whether send_chunks is given a generator (otherwise a list). *)
SetupOK(s) ==
  /\ s.kind \in {"sync", "async"} /\ s.families \subseteq {"v4", "v6"}
  /\ s.users \subseteq Users /\ s.ops \subseteq Ops /\ s.calls \in Nat /\ s.max_faults \in Nat
  /\ {s.in_blocks, s.limited, s.auto_connect, s.error_reconnect, s.host_v4, s.resolves_v6,
      s.generator} \subseteq BOOLEAN
  /\ s.kind = "async" => s.ops \cap SyncOnly = {}

(* There is always a socket to be opened: each user's frames know of two,  *)
(* at most, and the tracker has one.                                       *)
EnoughSocks ==
  IsFiniteSet(Users) /\ (IsFiniteSet(Socks) => Cardinality(Socks) > 2 * Cardinality(Users) + 1)

SocketsAssumption ==
  /\ Chunks \in Nat /\ MaxChunks \in Nat \ {0} /\ MaxRecursion \in Nat \ {0}
  /\ Nothing \notin Socks \cup Trackers /\ Socks \cap Trackers = {}
  /\ EnoughSocks
  /\ \A s \in Setups : SetupOK(s)
ASSUME SocketsAssumption

Async == setup.kind = "async"

Leaves == {"recv", "sendall", "shutdown", "settimeout", "accept", "on_connect"}
Decorated == Leaves \cup {"send_chunks", "read_eof", "query", "http_request"}

Frame(op, sock) == [op |-> op, pc |-> "start", tries |-> 0, sock |-> sock, held |-> Nothing, n |-> 0]
NewTracker == [connected |-> FALSE, sock |-> Nothing, addr |-> TRUE, layers |-> NoLayers]

Init ==
  /\ setup \in Setups
  /\ faults = 0
  /\ \E f \in setup.families :
       net = [tracker |-> [t \in Trackers |-> NewTracker],
              sock |-> [s \in Socks |-> "closed"], family |-> f]
  /\ stack = [u \in Users |-> <<>>]
  /\ err = [u \in Users |-> "none"]
  /\ got = [u \in Users |-> Nothing]
  /\ blocks = [u \in Users |-> 0]
  /\ calls = 0
  /\ sends = [u \in Users |-> 0]

(***************************************************************************)
(* SocketTracker                                                           *)
(***************************************************************************)
(* The socket property makes a socket when there is none. *)
Known(s) == \E u \in Users : \E i \in DOMAIN stack[u] : s \in {stack[u][i].sock, stack[u][i].held}
NewSock == CHOOSE s \in Socks : net.sock[s] = "closed" /\ ~Known(s)
socket(n, t) ==
  IF n.tracker[t].sock # Nothing THEN n
  ELSE [n EXCEPT !.tracker[t].sock = NewSock, !.sock[NewSock] = "fresh"]

disconnect_sockets_only(n, t) == [n EXCEPT !.tracker[t].sock = Nothing]
disconnect_forgets(n, t) == [n EXCEPT !.tracker[t].connected = FALSE, !.tracker[t].sock = Nothing]
disconnect(n, t) ==
  LET s == n.tracker[t].sock
  IN  [n EXCEPT !.tracker[t].connected = FALSE, !.tracker[t].sock = Nothing,
                !.sock = IF s = Nothing THEN @ ELSE [@ EXCEPT ![s] = "closed"]]

(* duplicate shares socket_conf, and so the family. *)
duplicate(n) == [n EXCEPT !.tracker["dup"] = [NewTracker EXCEPT !.addr = n.tracker["main"].addr]]

v6_fallback(n) == IF n.family = "v6" /\ setup.host_v4 THEN [n EXCEPT !.family = "v4"] ELSE n

(* __enter__ drops the old LayeredContext outside of any block. *)
outermost(n, t) == n.tracker[t].layers.virtual = 0
entered(n, t) ==
  LET l == VirtEnter(n.tracker[t].layers)
  IN  [n EXCEPT !.tracker[t].layers = IF EntersObject(l, 1) THEN Entered(l) ELSE l]

last_block_late(n, t) == n.tracker[t].layers.virtual < 1
last_block(n, t) == n.tracker[t].layers.virtual <= 1
left(n, t) ==
  LET l == n.tracker[t].layers
  IN  [n EXCEPT !.tracker[t].layers = IF LeavesObject(l) THEN Exited(VirtExit(l)) ELSE VirtExit(l)]
tracker_exit(n, t) == left(IF last_block(n, t) THEN disconnect(n, t) ELSE n, t)

(***************************************************************************)
(* Frames                                                                  *)
(***************************************************************************)
Top(u) == Head(stack[u])

(* A task waits for the network only here; a thread runs alone. *)
Waits(u) ==
  stack[u] # <<>> => Top(u).pc \in {"await", "connecting", "woken"} /\ err[u] = "none"
Turn(u) == \A w \in Users \ {u} : Waits(w)

At(u, op, pc) ==
  Turn(u) /\ stack[u] # <<>> /\ err[u] = "none" /\ Top(u).op = op /\ Top(u).pc = pc

Jump(u, f) == stack' = [stack EXCEPT ![u] = <<f>> \o Tail(@)]
Call(u, pc, callee) ==
  stack' = [stack EXCEPT ![u] = <<callee, [@[1] EXCEPT !.pc = pc]>> \o Tail(@)]
Pop(u) == stack' = [stack EXCEPT ![u] = Tail(@)]
Raise(u, e) == err' = [err EXCEPT ![u] = e]

(* The exception leaves the frame; the caller's own code handles it.       *)
PopRaising(u, e) == Pop(u) /\ Raise(u, IF Len(stack[u]) = 1 THEN "none" ELSE e)

Connect(t) == Frame("connect", t)

(* What the `with` of a frame does when the frame is left. *)
LeaveWith(n, f) ==
  CASE f.op \in Decorated /\ f.sock = "dup" /\ f.pc \notin {"start", "enter", "entered"} -> tracker_exit(n, "dup")
    [] f.op \in Decorated /\ f.sock \in Socks /\ ~Async /\ f.pc # "start" ->
         [n EXCEPT !.sock[f.sock] = "closed"]
    [] f.op = "http_request" /\ f.sock = Nothing /\ f.pc \in {"in", "out"} -> tracker_exit(n, "main")
    [] OTHER -> n

(* A frame that returns, and one that an exception leaves. *)
Finish(u, n) == net' = LeaveWith(n, Top(u)) /\ Pop(u)

(***************************************************************************)
(* connect and connect_async: an attempt, and what follows a failed one.   *)
(***************************************************************************)
(* A failure of the network; some setups limit their number.               *)
Fault == IF setup.limited THEN faults < setup.max_faults /\ faults' = faults + 1 ELSE UNCHANGED faults

AllButFaults == UNCHANGED <<setup, got, blocks, calls, sends>>
Rest == UNCHANGED <<setup, got, blocks, calls, sends, faults>>

Failed(u, n) ==
  LET f == Top(u) IN
  IF f.tries + 1 >= 3
  THEN net' = n /\ \E e \in {"broken", "error"} : PopRaising(u, e)
  ELSE /\ net' = v6_fallback(disconnect(n, f.sock))
       /\ Jump(u, [f EXCEPT !.tries = @ + 1, !.held = Nothing, !.pc = "start"])
       /\ UNCHANGED err

(* post_connect asks the tracker's socket, by now perhaps another one, for *)
(* its peer.  There is none when the peer has reset the connection since:  *)
(* then it raises, outside of every try, over what is connected already.   *)
post_connect(u, n) ==
  LET s  == n.tracker[Top(u).sock].sock
      up == n.sock[s] = "up"
  IN  \/ up /\ net' = n /\ Pop(u) /\ UNCHANGED <<err, faults>>
      \/ /\ net' = IF up THEN [n EXCEPT !.sock[s] = "gone"] ELSE n
         /\ PopRaising(u, "error")
         /\ IF up THEN Fault ELSE UNCHANGED faults

Connected(u, n) == post_connect(u, [n EXCEPT !.tracker[Top(u).sock].connected = TRUE])

(* A tracker without host and port raises TypeError, which is not caught. *)
NoAddress(u) ==
  /\ net' = socket(net, Top(u).sock)
  /\ PopRaising(u, "error")

connect(u) ==
  LET t == Top(u).sock
      n == socket(net, t)
      s == n.tracker[t].sock
  IN  /\ At(u, "connect", "start") /\ (~Async \/ Top(u).n = 1)
      /\ IF ~n.tracker[t].addr THEN NoAddress(u) /\ UNCHANGED faults
         ELSE \/ Connected(u, [n EXCEPT !.sock[s] = "up"])          \* or it is already
              \/ n.sock[s] # "up" /\ Failed(u, n) /\ Fault
      /\ AllButFaults

Connecting(s) == \E u \in Users : \E i \in DOMAIN stack[u] :
                    stack[u][i].pc = "connecting" /\ stack[u][i].held = s

connect_async(u) ==
  LET f == Top(u)
      n == socket(net, f.sock)
      s == n.tracker[f.sock].sock
  IN  /\ At(u, "connect", "start") /\ Async /\ f.n = 0
      /\ IF ~n.tracker[f.sock].addr THEN NoAddress(u) /\ UNCHANGED faults
         ELSE IF n.sock[s] = "up" THEN Connected(u, n)
         ELSE IF Connecting(s) THEN Failed(u, n) /\ UNCHANGED faults  \* already in progress
         ELSE net' = n /\ Jump(u, [f EXCEPT !.pc = "connecting", !.held = s]) /\ UNCHANGED <<err, faults>>
      /\ AllButFaults

(* The network connects the socket; the task resumes some time later.      *)
SockUp(u) ==
  /\ Turn(u) /\ stack[u] # <<>> /\ Top(u).pc = "connecting" /\ net.sock[Top(u).held] = "fresh"
  /\ net' = [net EXCEPT !.sock[Top(u).held] = "up"]
  /\ Jump(u, [Top(u) EXCEPT !.pc = "woken"])
  /\ UNCHANGED err /\ Rest

(* It is refused, or the time is over, also when the socket was closed.    *)
SockFails(u) ==
  /\ Turn(u) /\ stack[u] # <<>> /\ Top(u).pc = "connecting"
  /\ Failed(u, net)
  /\ IF net.sock[Top(u).held] = "fresh" THEN Fault ELSE UNCHANGED faults
  /\ AllButFaults

(* The task goes on with the tracker's socket.                             *)
Woken(u) ==
  /\ Turn(u) /\ stack[u] # <<>> /\ Top(u).pc = "woken"
  /\ Connected(u, socket(net, Top(u).sock))
  /\ AllButFaults

(***************************************************************************)
(* Entering a `with` block on the tracker: http_request's own, the user's, *)
(* and the one of the decorator around a duplicate.                        *)
(***************************************************************************)
Entering(f) == IF f.sock = "dup" THEN "dup" ELSE "main"

tracker_enter(u) ==
  LET f == Top(u)
      t == Entering(f)
      n == IF outermost(net, t) THEN [net EXCEPT !.tracker[t].layers = NoLayers] ELSE net
      c == net.tracker[t].connected
  IN  /\ stack[u] # <<>> /\ At(u, f.op, "enter")
      /\ IF outermost(net, t) /\ c THEN net' = disconnect(n, t) /\ Call(u, "entered", Connect(t))
         ELSE /\ net' = n
              /\ IF ~outermost(net, t) /\ ~c THEN Call(u, "entered", Connect(t))
                 ELSE Jump(u, [f EXCEPT !.pc = "entered"])
      /\ UNCHANGED err /\ Rest

EnteredBlock(u) ==
  LET f == Top(u)
  IN  /\ stack[u] # <<>> /\ At(u, f.op, "entered")
      /\ net' = entered(net, Entering(f))
      /\ IF f.op = "with" THEN Pop(u) /\ blocks' = [blocks EXCEPT ![u] = @ + 1]
         ELSE Jump(u, [f EXCEPT !.pc = IF f.sock = "dup" THEN "body" ELSE "in"]) /\ UNCHANGED blocks
      /\ UNCHANGED <<setup, err, got, calls, sends, faults>>

(***************************************************************************)
(* The decorator of the operations.  With sock= or new_sock= the operation *)
(* runs once, in a `with` on that socket, which closes it.                 *)
(***************************************************************************)
sockwrapper_auto_connect(u) ==
  LET f == Top(u)
  IN  /\ stack[u] # <<>> /\ f.op \in Decorated /\ At(u, f.op, "start")
      /\ IF f.sock # Nothing /\ ~Async
         THEN Jump(u, [f EXCEPT !.pc = IF f.sock = "dup" THEN "enter" ELSE "body"]) /\ UNCHANGED err
         ELSE IF net.tracker["main"].connected
         THEN Jump(u, [f EXCEPT !.pc = "body", !.tries = @ + 1]) /\ UNCHANGED err
         ELSE IF setup.auto_connect THEN Call(u, "ready", Connect("main")) /\ UNCHANGED err
         ELSE UNCHANGED stack /\ Raise(u, "error")
      /\ UNCHANGED net /\ Rest

Ready(u) ==
  /\ stack[u] # <<>> /\ Top(u).op \in Decorated /\ At(u, Top(u).op, "ready")
  /\ Jump(u, [Top(u) EXCEPT !.pc = "body", !.tries = @ + 1])
  /\ UNCHANGED <<net, err>> /\ Rest

(* Connection errors of the operation, unless it was tried three times:    *)
(* reconnect, and the whole operation again.                               *)
Caught(u) ==
  LET f == Top(u)
  IN  /\ f.op \in Decorated /\ err[u] = "broken" /\ setup.error_reconnect
      /\ f.pc \notin {"start", "ready"} /\ f.tries > 0
KeepsCount(f) == IF f.op = "send_chunks" /\ setup.generator THEN f.n ELSE 0  \* what a generator gave is gone
RunsAnew(f) == [f EXCEPT !.pc = "start", !.n = KeepsCount(f), !.tries = 0]
RunAgain(f) == [f EXCEPT !.pc = "start", !.n = KeepsCount(f)]
TriesFourTimes(u) == Caught(u) /\ Top(u).tries <= 3
TriesAgain(u) == Caught(u) /\ Top(u).tries < 3

Unwind(u) ==
  LET f == Top(u)
  IN  /\ Turn(u) /\ stack[u] # <<>> /\ err[u] # "none"
      /\ IF TriesAgain(u)
         THEN /\ net' = disconnect(LeaveWith(net, f), "main")
              /\ stack' = [stack EXCEPT ![u] = <<Connect("main"), RunAgain(f)>> \o Tail(@)]
              /\ Raise(u, "none")
         ELSE /\ net' = LeaveWith(net, f)
              /\ PopRaising(u, err[u])
      /\ Rest

(***************************************************************************)
(* The operations on a socket: what each may end with, by the state of the *)
(* socket.  on_connect asks for attributes the wrapper has not.            *)
(***************************************************************************)
recv(state) ==
  CASE state = "up" -> {"chunk", "eof", "broken", "error"}
    [] state \in {"down", "gone"} -> {"eof", "broken"}
    [] OTHER -> {"error"}
sendall(state) ==
  CASE state = "up" -> {"ok", "broken", "error"}
    [] state \in {"down", "gone", "fresh"} -> {"broken"}
    [] OTHER -> {"error"}
shutdown(state) == IF state = "up" THEN {"ok"} ELSE {"error"}
settimeout(state) == IF state = "closed" THEN {"error"} ELSE {"ok"}
accept(state) == {"error"}
on_connect(state) == {"error"}

Outcomes(op, state) ==
  CASE op = "recv"       -> recv(state)
    [] op = "sendall"    -> sendall(state)
    [] op = "shutdown"   -> shutdown(state)
    [] op = "settimeout" -> settimeout(state)
    [] op = "accept"     -> accept(state)
    [] op = "on_connect" -> on_connect(state)

Perform(u, s) ==
  \E o \in Outcomes(Top(u).op, net.sock[s]) :
    /\ IF o \in {"broken", "error"}
       THEN /\ Raise(u, o)
            /\ net' = IF o = "broken" THEN [net EXCEPT !.sock[s] = "down"] ELSE net
            /\ UNCHANGED <<stack, got>>
       ELSE /\ Finish(u, IF Top(u).op = "shutdown" THEN [net EXCEPT !.sock[s] = "down"] ELSE net)
            /\ got' = IF Top(u).op = "recv" THEN [got EXCEPT ![u] = o] ELSE got
            /\ UNCHANGED err
    /\ sends' = IF Top(u).op = "sendall" THEN [sends EXCEPT ![u] = @ + 1] ELSE sends
    /\ IF o \in {"broken", "error"} /\ net.sock[s] = "up" THEN Fault ELSE UNCHANGED faults
    /\ UNCHANGED <<setup, blocks, calls>>

(* self.socket: auto_socket connects first, blocking also an event loop.   *)
On(f) == IF f.sock = Nothing THEN "main" ELSE f.sock
MustConnect(f) == On(f) \in Trackers /\ ~net.tracker[On(f)].connected
auto_socket(u) == Call(u, Top(u).pc, [Connect(On(Top(u))) EXCEPT !.n = 1]) /\ UNCHANGED <<net, err>> /\ Rest
SocketOf(f) == IF On(f) \in Trackers THEN net.tracker[On(f)].sock ELSE f.sock

Operate(u) ==
  LET f == Top(u)
  IN  /\ stack[u] # <<>> /\ f.op \in Leaves /\ At(u, f.op, "body")
      /\ IF MustConnect(f) THEN auto_socket(u)
         ELSE IF ~Async THEN Perform(u, SocketOf(f))
         ELSE Jump(u, [f EXCEPT !.pc = "await", !.held = SocketOf(f)]) /\ UNCHANGED <<net, err>> /\ Rest

Resume(u) ==
  /\ Turn(u) /\ stack[u] # <<>> /\ Top(u).pc = "await" /\ err[u] = "none"
  /\ Perform(u, Top(u).held)

(* A composite operation hands its sock on; the asynchronous query hands   *)
(* on the socket the wrapper has at that moment.                           *)
Hands(u, pc, op) ==
  Call(u, pc, Frame(op, Top(u).sock)) /\ UNCHANGED <<net, err>> /\ Rest
HandsSocket(u, pc, op) ==
  IF MustConnect(Top(u)) THEN auto_socket(u)
  ELSE Call(u, pc, Frame(op, SocketOf(Top(u)))) /\ UNCHANGED <<net, err>> /\ Rest
Returns(u) == Finish(u, net) /\ UNCHANGED err /\ Rest

(* A send, tried again by itself, for each chunk there is; n are taken.    *)
send_chunks(u) ==
  LET f == Top(u)
  IN  /\ At(u, "send_chunks", "body") \/ At(u, "send_chunks", "again")
      /\ IF f.n = Chunks THEN Returns(u)
         ELSE /\ stack' = [stack EXCEPT ![u] =
                   <<Frame("sendall", f.sock), [f EXCEPT !.pc = "again", !.n = @ + 1]>> \o Tail(@)]
              /\ UNCHANGED <<net, err>> /\ Rest

(* read_eof reads until the end, or until eof_timeout is over: then it     *)
(* returns what it has, or raises.                                         *)
read_eof(u) ==
  \/ At(u, "read_eof", "body") /\ Hands(u, "read", "recv")
  \/ /\ At(u, "read_eof", "read")
     /\ \/ got[u] = "eof" /\ Returns(u)
        \/ /\ got[u] = "chunk" /\ Top(u).n + 1 < MaxChunks
           /\ Jump(u, [Top(u) EXCEPT !.pc = "body", !.n = @ + 1])
           /\ UNCHANGED <<net, err>> /\ Rest
        \/ got[u] = "chunk" /\ Returns(u)
        \/ got[u] = "chunk" /\ Raise(u, "error") /\ UNCHANGED <<net, stack>> /\ Rest

query(u) ==
  /\ ~Async
  /\ \/ At(u, "query", "body") /\ Hands(u, "sent", "sendall")
     \/ At(u, "query", "sent") /\ Hands(u, "done", "read_eof")
     \/ At(u, "query", "done") /\ Returns(u)

query_async(u) ==
  /\ Async
  /\ \/ At(u, "query", "body") /\ HandsSocket(u, "sent", "sendall")
     \/ At(u, "query", "sent") /\ HandsSocket(u, "done", "read_eof")
     \/ At(u, "query", "done") /\ Returns(u)

(* http_request: the query in a `with` on the tracker of its own.          *)
http_request(u) ==
  \/ /\ At(u, "http_request", "body")
     /\ Jump(u, [Top(u) EXCEPT !.pc = "enter"])
     /\ UNCHANGED <<net, err>> /\ Rest
  \/ At(u, "http_request", "in") /\ Hands(u, "out", "query")
  \/ At(u, "http_request", "out") /\ Returns(u)

(***************************************************************************)
(* send_data: a socket of its own for each attempt.  After an error over   *)
(* IPv6 it calls itself with the same arguments, and so takes IPv6 again.  *)
(***************************************************************************)
send_data(u) ==
  LET again == ~Async /\ setup.resolves_v6 /\ setup.host_v4
  IN  /\ At(u, "send_data", "start")
      /\ \/ Pop(u) /\ UNCHANGED err                                 \* an answer, or None
         \/ PopRaising(u, "error")
         \/ /\ again /\ Top(u).n + 1 < MaxRecursion
            /\ Jump(u, [Top(u) EXCEPT !.n = @ + 1]) /\ UNCHANGED err
      /\ UNCHANGED net /\ Rest

(***************************************************************************)
(* The calls                                                               *)
(***************************************************************************)
Asks(u, op) ==
  /\ u \in setup.users /\ op \in setup.ops
  /\ Turn(u) /\ stack[u] = <<>>
  /\ calls < setup.calls /\ calls' = calls + 1
  /\ setup.in_blocks => blocks[u] > 0 \/ op \in {"with", "http_request", "query_new"}
  /\ sends' = [sends EXCEPT ![u] = 0]
  /\ got' = [got EXCEPT ![u] = Nothing]
  /\ UNCHANGED <<setup, err, blocks, faults>>

Begin(u, f) == stack' = [stack EXCEPT ![u] = <<f>>]

Plain(u) ==
  \E op \in Decorated \cup {"send_data"} :
    Asks(u, op) /\ Begin(u, Frame(op, Nothing)) /\ UNCHANGED net

with(u) ==
  /\ Asks(u, "with")
  /\ Begin(u, [Frame("with", Nothing) EXCEPT !.pc = "enter"]) /\ UNCHANGED net

query_new(u) ==
  /\ Asks(u, "query_new")
  /\ net' = duplicate(net)
  /\ Begin(u, Frame("query", "dup"))

(* A query over a connected socket of the caller's.                        *)
query_raw(u) ==
  /\ Asks(u, "query_raw")
  /\ net' = [net EXCEPT !.sock[NewSock] = "up"]
  /\ Begin(u, Frame("query", NewSock))

close(u) ==
  /\ Asks(u, "close")
  /\ net' = disconnect(net, "main")
  /\ UNCHANGED stack

(* connect: the socket property connects; nothing is left to do then.      *)
connect_call(u) ==
  /\ Asks(u, "connect")
  /\ IF net.tracker["main"].connected THEN UNCHANGED stack ELSE Begin(u, Connect("main"))
  /\ UNCHANGED net

(* Without arguments the wrapper's reconnect stores None as the address.   *)
reconnect(u) ==
  /\ Asks(u, "reconnect") /\ ~Async
  /\ net' = [disconnect(net, "main") EXCEPT !.tracker["main"].addr = FALSE]
  /\ Begin(u, Connect("main"))

reconnect_async(u) ==
  /\ Asks(u, "reconnect") /\ Async
  /\ net' = disconnect(net, "main")
  /\ Begin(u, Connect("main"))

reconnect_to(u) ==
  /\ Asks(u, "reconnect_to")
  /\ net' = [disconnect(net, "main") EXCEPT !.tracker["main"].addr = TRUE]
  /\ Begin(u, Connect("main"))

exit(u) ==
  /\ Turn(u) /\ stack[u] = <<>> /\ blocks[u] > 0
  /\ net' = tracker_exit(net, "main")
  /\ blocks' = [blocks EXCEPT ![u] = @ - 1]
  /\ UNCHANGED <<setup, stack, err, got, calls, sends, faults>>

Calls(u) ==
  \/ Plain(u) \/ with(u) \/ query_new(u) \/ query_raw(u) \/ close(u) \/ connect_call(u)
  \/ reconnect(u) \/ reconnect_async(u) \/ reconnect_to(u) \/ exit(u)

Step(u) ==
  \/ connect(u) \/ connect_async(u) \/ SockFails(u) \/ Woken(u)
  \/ tracker_enter(u) \/ EnteredBlock(u) \/ sockwrapper_auto_connect(u) \/ Ready(u) \/ Unwind(u)
  \/ Operate(u) \/ Resume(u) \/ send_chunks(u) \/ read_eof(u) \/ query(u) \/ query_async(u)
  \/ http_request(u) \/ send_data(u)

Done ==
  /\ \A u \in Users : stack[u] = <<>> /\ blocks[u] = 0
  /\ calls = setup.calls
  /\ UNCHANGED vars

Next == Done \/ \E u \in Users : Calls(u) \/ Step(u) \/ SockUp(u)

(* A task that awaits the network resumes: every wait has a time limit.    *)
Fairness == \A u \in Users : WF_vars(Step(u) \/ SockUp(u))
Spec == Init /\ [][Next]_vars /\ Fairness

(***************************************************************************)
(* Properties                                                              *)
(***************************************************************************)
(* The state is well formed, and a tracker that says it is connected holds *)
(* a socket (SocketTracker).                                               *)
TypeOK ==
  /\ \A t \in Trackers :
       /\ net.tracker[t].sock \in Socks \cup {Nothing}
       /\ net.tracker[t].connected => net.tracker[t].sock # Nothing
       /\ net.tracker[t].layers.virtual \in 0..(setup.calls + 3)
  /\ \A s \in Socks : net.sock[s] \in {"fresh", "up", "down", "gone", "closed"}
  /\ net.family \in {"v4", "v6"}
  /\ \A u \in Users : err[u] \in {"none", "broken", "error"} /\ Len(stack[u]) <= 6
  /\ calls \in 0..setup.calls /\ faults \in 0..setup.max_faults

(* No socket is left open that nobody holds: whatever fails, and however   *)
(* the calls of two tasks overlap, a socket that is not closed is a        *)
(* tracker's or one the caller passed in.                                  *)
NoSocketLost ==
  \A s \in Socks : net.sock[s] # "closed" =>
    \/ \E t \in Trackers : net.tracker[t].sock = s
    \/ \E u \in Users : \E i \in DOMAIN stack[u] : stack[u][i].sock = s

(* When the last block has been left and only blocks were used, nothing is *)
(* connected, also when an operation in the block reconnected, was tried   *)
(* again or raised (SocketTracker.__exit__, http_request, new_sock); but   *)
(* for a connection its peer reset before post_connect asked for the peer, *)
(* which raises over what is connected and outside of the block.  Only for *)
(* one user: two tasks can leave connected set over a new socket.          *)
LeftBlocksClosed ==
  LET idle == \A u \in Users : stack[u] = <<>>
      closed(t) == LET k == net.tracker[t]
                   IN  ~k.connected /\ (k.sock = Nothing \/ net.sock[k.sock] = "fresh")
      reset(t)  == LET k == net.tracker[t] IN k.sock # Nothing /\ net.sock[k.sock] = "gone"
  IN  idle => /\ closed("dup")
              /\ (setup.in_blocks /\ Cardinality(setup.users) = 1
                    /\ net.tracker["main"].layers.virtual = 0 => closed("main") \/ reset("main"))

(* The decorator tries an operation three times, and each operation it     *)
(* consists of three times each time: 3^depth sends of one request at      *)
(* most, also of each chunk of a list.  A chunk of a generator goes to one *)
(* send only: it is lost when that gives up.  An asynchronous query hands  *)
(* on a socket that reconnecting closes: the send that is tried again      *)
(* fails, and the query is sent again only if reconnecting failed with an  *)
(* error the decorator catches.                                            *)
MostSends(op) ==
  CASE op = "http_request"              -> IF Async THEN 10 ELSE 27
    [] op = "query"                     -> IF Async THEN 4 ELSE 9
    [] op = "send_chunks"               -> IF setup.generator THEN 3 * Chunks ELSE 9 * Chunks
    [] op = "sendall"                   -> 3
    [] OTHER                            -> 0
SendsBounded ==
  \A u \in Users : stack[u] # <<>> => sends[u] <= MostSends(stack[u][Len(stack[u])].op)

(* Every call returns or raises, on a network that may fail for ever.      *)
CallsEnd == \A u \in Users : stack[u] # <<>> ~> stack[u] = <<>>
=============================================================================

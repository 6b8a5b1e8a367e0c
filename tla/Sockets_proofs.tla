--------------------------- MODULE Sockets_proofs ---------------------------
(***************************************************************************)
(* Sockets for any users, sockets, setups and limits: TypeOK,              *)
(* NoSocketLost, LeftBlocksClosed and SendsBounded.                        *)
(*                                                                         *)
(* One inductive invariant, IInv, has all four in it.  It describes the    *)
(* stacks frame by frame (StacksInv), which socket belongs to whom         *)
(* (SocksInv), which frames and users are inside the blocks a tracker      *)
(* counts (BlocksInv), how many of the tries the sends were taken from     *)
(* (SendsInv), and what a lone user finds once its blocks are left         *)
(* (LeaveInv).  A step of the model is one of three on a stack, its top    *)
(* frame going on, calling, or being left, and one of a few on the         *)
(* network; the lemmas on those are shared by the actions.                 *)
(***************************************************************************)
EXTENDS Sockets, SequenceTheorems, FiniteSetTheorems, TLAPS

-----------------------------------------------------------------------------
(* Stacks, whose frames are counted from the bottom, the call of the user. *)

\* The frame at depth d, and the one on top.
D(s, d) == s[Len(s) + 1 - d]
TopOf(s) == s[1]

FrameOps == Decorated \cup {"with", "connect", "send_data"}
Pcs == {"start", "ready", "body", "enter", "entered", "await", "again", "read", "sent", "done", "in",
        "out", "connecting", "woken"}
Frames == [op : FrameOps, pc : Pcs, tries : 0..3, sock : Socks \cup Trackers \cup {Nothing},
           held : Socks \cup {Nothing}, n : Nat]

\* How many frames an operation may have on it, itself included.
Rank(op) ==
  CASE op = "http_request"               -> 5
    [] op = "query"                      -> 4
    [] op \in {"send_chunks", "read_eof"} -> 3
    [] op \in Leaves \cup {"with"}       -> 2
    [] OTHER                             -> 1

\* Where a frame of an operation may be, apart from the decorator and blocks.
Own(op) ==
  CASE op \in Leaves        -> {"await"}
    [] op = "send_chunks"   -> {"again"}
    [] op = "read_eof"      -> {"read"}
    [] op = "query"         -> {"sent", "done"}
    [] op = "http_request"  -> {"in", "out"}
PcsOf(op) == {"start", "ready", "body", "enter", "entered"} \cup Own(op)

\* A frame that runs once, on the socket it was given, and one that was handed the
\* wrapper's socket.
Given(f) == f.sock # Nothing /\ ~Async
Handed(f) == f.sock \in Socks /\ Async

\* How often a decorated operation was tried: it counts before the body, and what was
\* handed a socket of the wrapper's, once closed, is not tried a third time.  send_chunks
\* counts the chunks it took, and is only called by the user.
DecoratedOK(f) ==
  /\ f.pc \in PcsOf(f.op)
  /\ f.sock # "main"
  /\ f.sock = "dup" => ~Async
  /\ f.op \in {"http_request", "send_chunks"} => f.sock = Nothing
  /\ f.op = "send_chunks" => f.n <= Chunks /\ (f.pc = "again" => f.n >= 1)
  /\ f.pc \in {"enter", "entered"} => f.op = "http_request" \/ f.sock = "dup"
  /\ IF Given(f) THEN f.tries = 0 /\ f.pc # "ready"
     ELSE IF f.pc \in {"start", "ready"} THEN f.tries <= 2 ELSE f.tries >= 1
  /\ f.op = "sendall" /\ Handed(f) =>
       f.tries <= 2 /\ (f.pc \in {"start", "ready"} => f.tries <= 1)
  /\ f.op = "query" /\ Async => f.sock = Nothing
  /\ f.op \in Leaves /\ f.sock \in Socks => f.held \in {Nothing, f.sock}

\* What a frame says of itself.
FrameOK(f) ==
  /\ f.op \in Decorated => DecoratedOK(f)
  /\ f.op = "connect" => /\ f.pc \in {"start", "connecting", "woken"}
                         /\ f.tries <= 2
                         /\ f.sock = "main" \/ (f.sock = "dup" /\ ~Async)
  /\ f.pc \in {"connecting", "woken", "await"} => Async /\ f.held \in Socks
  /\ f.held # Nothing => Async /\ f.op \in Leaves \cup {"connect"}
  /\ f.op = "with" => f.pc \in {"enter", "entered"} /\ f.sock = Nothing
  /\ f.op = "send_data" => f.pc = "start" /\ f.sock = Nothing

\* Which operation calls which, and where.
Callees ==
  {<<"send_chunks", "again", "sendall">>, <<"read_eof", "read", "recv">>, <<"query", "sent", "sendall">>,
   <<"query", "done", "read_eof">>, <<"http_request", "out", "query">>}

\* The frame g has called f.
CallOK(g, f) ==
  \/ /\ f.op = "connect"
     /\ g.op \in Decorated \cup {"with"}
     /\ \/ g.pc \in {"start", "ready", "entered"} \/ (g.pc = "body" /\ g.sock \notin Socks)
        \/ g.op = "query" /\ g.pc = "sent" /\ Async
     /\ f.sock = "dup" <=> g.sock = "dup"
     /\ ~Async => g.sock \notin Socks
     /\ g.pc = "start" => ~Given(g)
  \/ /\ <<g.op, g.pc, f.op>> \in Callees
     /\ IF Async /\ g.op = "query" THEN f.sock \in Socks ELSE f.sock = g.sock

\* An exception is on a frame that may catch it.
RaisedOK(s, e) ==
  e # "none" =>
    /\ s # <<>>
    /\ TopOf(s).op \in Decorated \cup {"with"}
    /\ TopOf(s).pc = "start" => ~Given(TopOf(s))
    /\ TopOf(s).op = "sendall" /\ Handed(TopOf(s)) /\ TopOf(s).tries >= 2 => e = "error"

Raised == {"none", "broken", "error"}

\* A stack: each frame was called by the one below, and a socket that was given is handed
\* on to the top.
StackOK(s) ==
  /\ s \in Seq(Frames)
  /\ \A d \in 1..Len(s) : FrameOK(D(s, d)) /\ Rank(D(s, d).op) + d <= Rank(D(s, 1).op) + 1
  /\ \A d \in 1..(Len(s) - 1) : CallOK(D(s, d), D(s, d + 1))
  /\ \A i, j \in 1..Len(s) : i < j /\ D(s, i).sock \in Socks /\ D(s, j).op # "connect"
       => D(s, j).sock = D(s, i).sock
  /\ s # <<>> /\ Async => D(s, 1).sock \notin Socks

-----------------------------------------------------------------------------
(* The network *)

\* The states of sockets and trackers.
SockStates == {"fresh", "up", "down", "gone", "closed"}
LayerRecords == [layer : Int, virtual : Nat, contexts : Int]
TrackerRecords == [connected : BOOLEAN, sock : Socks \cup {Nothing}, addr : BOOLEAN, layers : LayerRecords]
Nets == [tracker : [Trackers -> TrackerRecords], sock : [Socks -> SockStates], family : {"v4", "v6"}]

\* A socket is open, and is a tracker's; the blocks a tracker counts.
Open(n, s) == n.sock[s] # "closed"
Owned(n, s) == \E t \in Trackers : n.tracker[t].sock = s
Virt(n, t) == n.tracker[t].layers.virtual

\* The network: a tracker has an open socket or none, not the other's, and a duplicate
\* that is in no block has none.
NetOK(n) ==
  /\ n \in Nets
  /\ \A t \in Trackers :
       /\ n.tracker[t].connected => n.tracker[t].sock # Nothing
       /\ n.tracker[t].sock # Nothing => Open(n, n.tracker[t].sock)
  /\ n.tracker["main"].sock = n.tracker["dup"].sock => n.tracker["main"].sock = Nothing
  /\ Virt(n, "dup") = 0 => ~n.tracker["dup"].connected /\ n.tracker["dup"].sock = Nothing

-----------------------------------------------------------------------------
(* Blocks *)

\* The frame f is in a block on the tracker t, which it will leave.
Inside(f, t) ==
  \/ t = "dup" /\ f.op \in Decorated /\ f.sock = "dup" /\ f.pc \notin {"start", "enter", "entered"}
  \/ t = "main" /\ f.op = "http_request" /\ f.sock = Nothing /\ f.pc \in {"in", "out"}

\* The blocks a tracker is in: frames', and those of the users, which have negative numbers.
Blocks(t) ==
  {b \in Users \X Int :
     \/ b[2] \in 1..Len(stack[b[1]]) /\ Inside(D(stack[b[1]], b[2]), t)
     \/ t = "main" /\ -b[2] \in 1..blocks[b[1]]}

\* The calls that are, or may come to be, in a block on main.
Claims ==
  {b \in Users \X Int :
     \/ b[2] = 1 /\ stack[b[1]] # <<>> /\ D(stack[b[1]], 1).op \in {"with", "http_request"}
     \/ -b[2] \in 1..blocks[b[1]]}

\* The virtual layers are the blocks; those of main are no more than the calls.
BlocksInv ==
  /\ \A t \in Trackers : IsFiniteSet(Blocks(t)) /\ Virt(net, t) = Cardinality(Blocks(t))
  /\ IsFiniteSet(Claims) /\ Cardinality(Claims) <= calls

-----------------------------------------------------------------------------
(* Sockets and frames *)

\* A socket that an asynchronous query handed on is the wrapper's as long as it is open,
\* and no longer open when its operation is tried again.
HandedOK(n, f) ==
  Handed(f) => /\ Open(n, f.sock) => n.tracker["main"].sock = f.sock
               /\ f.op \in Decorated /\ f.tries >= 1 /\ (f.pc \in {"start", "ready"} \/ f.tries >= 2)
                     => ~Open(n, f.sock)

\* The socket the caller passed in.
Raw(s) == {x \in Socks : ~Async /\ s # <<>> /\ D(s, 1).sock = x}

\* An open socket is a tracker's or a caller's, never both.
SocksInv ==
  /\ NetOK(net)
  /\ \A s \in Socks : Open(net, s) => Owned(net, s) \/ \E u \in Users : s \in Raw(stack[u])
  /\ \A u \in Users : \A s \in Raw(stack[u]) : ~Owned(net, s)
  /\ \A u \in Users : \A d \in 1..Len(stack[u]) :
       /\ HandedOK(net, D(stack[u], d))
       /\ D(stack[u], d).op = "connect" /\ D(stack[u], d).sock = "dup" => Virt(net, "dup") >= 1

\* The types, the stacks, and of threads one at a time.
StacksInv ==
  /\ setup \in Setups
  /\ stack \in [Users -> Seq(Frames)] /\ err \in [Users -> Raised] /\ blocks \in [Users -> Nat]
  /\ sends \in [Users -> Nat]
  /\ calls \in 0..setup.calls /\ faults \in 0..setup.max_faults
  /\ \A u \in Users : StackOK(stack[u]) /\ RaisedOK(stack[u], err[u])
  /\ \A u \in Users \ setup.users : stack[u] = <<>> /\ blocks[u] = 0
  /\ ~Async => \A u, w \in Users : stack[u] # <<>> /\ stack[w] # <<>> => u = w

-----------------------------------------------------------------------------
(* Blocks that are left *)
\* The tracker is not connected, or main is, over a connection reset before post_connect
\* asked for its peer.
Quiet(n, t) ==
  LET k == n.tracker[t]
  IN  \/ ~k.connected /\ (k.sock = Nothing \/ n.sock[k.sock] = "fresh")
      \/ t = "main" /\ k.sock # Nothing /\ n.sock[k.sock] = "gone"

\* The setups LeftBlocksClosed speaks of.
Lone == setup.in_blocks /\ \A u, w \in setup.users : u = w

\* The call awaits the network in connect.
Awaits(s) == s # <<>> /\ TopOf(s).pc \in {"connecting", "woken"}
\* With main in no block, it is quiet, or the call that will enter one has connected it.
LeaveOK(n, s, e) ==
  LET k == n.tracker["main"]
      woken == Awaits(s) /\ TopOf(s).pc = "woken"
  IN  /\ Awaits(s) => TopOf(s).held = k.sock /\ (woken => n.sock[k.sock] = "up")
      /\ Virt(n, "main") = 0 =>
           \/ Quiet(n, "main") /\ ~woken
           \/ ~k.connected /\ woken
           \/ k.connected /\ e = "none" /\ Len(s) = 1 /\ D(s, 1).op \in {"with", "http_request"}

\* The lone user calls from inside blocks, or something that enters one.
LeaveInv ==
  Lone => \A u \in setup.users :
    /\ stack[u] # <<>> => \/ blocks[u] > 0
                          \/ D(stack[u], 1).op \in {"with", "http_request"} \/ D(stack[u], 1).sock = "dup"
    /\ LeaveOK(net, stack[u], err[u])

-----------------------------------------------------------------------------
(* Sends *)
\* How many sends one try of an operation takes, of send_chunks one chunk, and how many
\* tries, or chunks, were begun: a list is gone through again in each try.
Share(op) ==
  CASE op = "http_request" -> IF Async THEN 3 ELSE 9
    [] op = "query"        -> IF Async THEN 1 ELSE 3
    [] op = "send_chunks"  -> 3
    [] op = "sendall"      -> 1
    [] OTHER               -> 0
Taken(f) == IF setup.generator THEN f.n
            ELSE IF f.pc \in {"start", "ready"} THEN Chunks * f.tries ELSE Chunks * (f.tries - 1) + f.n
Tried(f) ==
  IF f.op = "send_chunks" THEN Taken(f)
  ELSE IF Given(f) THEN (IF f.pc = "start" THEN 0 ELSE 1) ELSE f.tries

\* The tries of a frame in which it may have sent all its share.
Over(f, top, e) ==
  IF \/ f.pc \in {"start", "ready"} \/ (f.op = "send_chunks" /\ f.pc = "body")
     \/ top /\ (e # "none" \/ f.pc \in {"again", "sent", "done", "out"})
     \/ ~top /\ f.pc = "done"
  THEN Tried(f) ELSE Tried(f) - 1

\* What the frames of a stack may have sent so far, by the tries that are over.
Part(s, e, d) == IF d \in 1..Len(s) THEN Share(D(s, d).op) * Over(D(s, d), d = Len(s), e) ELSE 0
Sum(s, e) == Part(s, e, 1) + Part(s, e, 2) + Part(s, e, 3)

\* connect, on top of a stack, leaves the frame below as it was.
Sending(s) == IF Len(s) > 1 /\ TopOf(s).op = "connect" THEN Tail(s) ELSE s

\* The sends were within the tries; that an "error" ends all of them is why it needs no sum.
SendsInv ==
  \A u \in Users : stack[u] # <<>> =>
    /\ sends[u] <= MostSends(D(stack[u], 1).op)
    /\ err[u] # "error" => sends[u] <= Sum(Sending(stack[u]), err[u])

-----------------------------------------------------------------------------
(* Stacks *)

\* The frames of a stack, from the top and from the bottom.
LEMMA FramesOf ==
  ASSUME NEW s \in Seq(Frames)
  PROVE  /\ Len(s) \in Nat
         /\ \A d \in 1..Len(s) : D(s, d) \in Frames
         /\ s # <<>> => /\ Len(s) >= 1 /\ TopOf(s) = D(s, Len(s)) /\ Head(s) = TopOf(s)
                        /\ TopOf(s) \in Frames /\ Len(s) \in 1..Len(s) /\ 1 \in 1..Len(s)
         /\ Len(s) >= 1 => s # <<>>
<1>1. Len(s) \in Nat /\ s \in [1..Len(s) -> Frames]
  BY LenProperties
<1>2. \A d \in 1..Len(s) : Len(s) + 1 - d \in 1..Len(s)
  BY <1>1
<1>3. s # <<>> => Len(s) >= 1
  BY <1>1, EmptySeq
<1>4. s # <<>> => Head(s) = s[1]
  OBVIOUS
<1>5. Len(s) + 1 - Len(s) = 1
  BY <1>1
<1>6. TopOf(s) = D(s, Len(s))
  BY <1>5 DEF TopOf, D
<1>7. Len(s) >= 1 => s # <<>>
  BY EmptySeq
<1>8. \A d \in 1..Len(s) : D(s, d) \in Frames
  BY <1>1, <1>2 DEF D
<1>9. s # <<>> => TopOf(s) \in Frames
  BY <1>1, <1>3 DEF TopOf
<1>10. s # <<>> => Len(s) \in 1..Len(s) /\ 1 \in 1..Len(s)
  BY <1>1, <1>3
<1>11. s # <<>> => Head(s) = TopOf(s)
  BY <1>4 DEF TopOf
<1> QED
  BY <1>1, <1>3, <1>6, <1>7, <1>8, <1>9, <1>10, <1>11

\* The top frame goes on.
LEMMA Replaced ==
  ASSUME NEW s \in Seq(Frames), s # <<>>, NEW f \in Frames
  PROVE  LET t == <<f>> \o Tail(s)
         IN  /\ t \in Seq(Frames) /\ t # <<>> /\ Len(t) = Len(s)
             /\ TopOf(t) = f /\ D(t, Len(s)) = f
             /\ \A d \in 1..(Len(s) - 1) : D(t, d) = D(s, d)
<1> DEFINE t == <<f>> \o Tail(s)
<1>1. Len(s) \in Nat /\ Len(s) >= 1
  BY FramesOf
<1>2. Tail(s) \in Seq(Frames) /\ Len(Tail(s)) = Len(s) - 1 /\ \A i \in 1..(Len(s) - 1) : Tail(s)[i] = s[i + 1]
  BY HeadTailProperties
<1>3. <<f>> \in Seq(Frames) /\ Len(<<f>>) = 1 /\ <<f>>[1] = f
  OBVIOUS
<1>4. t \in Seq(Frames) /\ Len(t) = 1 + (Len(s) - 1)
      /\ \A i \in 1..(1 + (Len(s) - 1)) : t[i] = IF i <= 1 THEN <<f>>[i] ELSE Tail(s)[i - 1]
  BY <1>2, <1>3, ConcatProperties
<1> HIDE DEF t
<1>5. Len(t) = Len(s)
  BY <1>1, <1>4
<1>6. t[1] = f
  BY <1>1, <1>3, <1>4
<1>7. ASSUME NEW d \in 1..(Len(s) - 1) PROVE D(t, d) = D(s, d)
  <2>1. Len(s) + 1 - d \in 2..Len(s) /\ (Len(s) + 1 - d) - 1 \in 1..(Len(s) - 1)
    BY <1>1
  <2>2. t[Len(s) + 1 - d] = Tail(s)[(Len(s) + 1 - d) - 1]
    BY <2>1, <1>1, <1>4
  <2>3. Tail(s)[(Len(s) + 1 - d) - 1] = s[((Len(s) + 1 - d) - 1) + 1]
    BY <2>1, <1>2
  <2>4. ((Len(s) + 1 - d) - 1) + 1 = Len(s) + 1 - d
    BY <1>1
  <2> QED
    BY <2>2, <2>3, <2>4, <1>5 DEF D
<1>8. t # <<>>
  BY <1>1, <1>4, <1>5, EmptySeq
<1>9. TopOf(t) = f /\ D(t, Len(s)) = f
  BY <1>4, <1>5, <1>6, <1>8, FramesOf DEF TopOf
<1> QED
  BY <1>4, <1>5, <1>7, <1>8, <1>9 DEF t

\* The top frame returns.
LEMMA Popped ==
  ASSUME NEW s \in Seq(Frames), s # <<>>
  PROVE  LET t == Tail(s)
         IN  /\ t \in Seq(Frames) /\ Len(t) = Len(s) - 1
             /\ t = <<>> <=> Len(s) = 1
             /\ t # <<>> => Len(s) >= 2 /\ TopOf(t) = D(s, Len(s) - 1)
             /\ \A d \in 1..(Len(s) - 1) : D(t, d) = D(s, d)
<1> DEFINE t == Tail(s)
<1>1. Len(s) \in Nat /\ Len(s) >= 1
  BY FramesOf
<1>2. t \in Seq(Frames) /\ Len(t) = Len(s) - 1 /\ \A i \in 1..(Len(s) - 1) : t[i] = s[i + 1]
  BY HeadTailProperties
<1> HIDE DEF t
<1>3. ASSUME NEW d \in 1..(Len(s) - 1) PROVE D(t, d) = D(s, d)
  <2>1. (Len(s) - 1) + 1 - d \in 1..(Len(s) - 1)
    BY <1>1
  <2>2. t[(Len(s) - 1) + 1 - d] = s[((Len(s) - 1) + 1 - d) + 1]
    BY <2>1, <1>2
  <2>3. ((Len(s) - 1) + 1 - d) + 1 = Len(s) + 1 - d
    BY <1>1
  <2> QED
    BY <2>2, <2>3, <1>2 DEF D
<1>4. t = <<>> <=> Len(s) = 1
  BY <1>1, <1>2, EmptySeq
<1>5. Len(s) # 1 => Len(s) >= 2 /\ Len(s) - 1 \in 1..(Len(s) - 1)
  BY <1>1
<1>6. t # <<>> => TopOf(t) = D(t, Len(s) - 1)
  BY <1>2, FramesOf
<1> QED
  BY <1>2, <1>3, <1>4, <1>5, <1>6 DEF t

\* The top frame f calls g.
LEMMA Called ==
  ASSUME NEW s \in Seq(Frames), s # <<>>, NEW f \in Frames, NEW g \in Frames
  PROVE  LET t == <<g, f>> \o Tail(s)
         IN  /\ t \in Seq(Frames) /\ t # <<>> /\ Len(t) = Len(s) + 1
             /\ TopOf(t) = g /\ D(t, Len(s) + 1) = g /\ D(t, Len(s)) = f
             /\ \A d \in 1..(Len(s) - 1) : D(t, d) = D(s, d)
<1> DEFINE t == <<g, f>> \o Tail(s)
<1>1. Len(s) \in Nat /\ Len(s) >= 1
  BY FramesOf
<1>2. Tail(s) \in Seq(Frames) /\ Len(Tail(s)) = Len(s) - 1 /\ \A i \in 1..(Len(s) - 1) : Tail(s)[i] = s[i + 1]
  BY HeadTailProperties
<1>3. <<g, f>> \in Seq(Frames) /\ Len(<<g, f>>) = 2 /\ <<g, f>>[1] = g /\ <<g, f>>[2] = f
  OBVIOUS
<1>4. t \in Seq(Frames) /\ Len(t) = 2 + (Len(s) - 1)
      /\ \A i \in 1..(2 + (Len(s) - 1)) : t[i] = IF i <= 2 THEN <<g, f>>[i] ELSE Tail(s)[i - 2]
  BY <1>2, <1>3, ConcatProperties
<1> HIDE DEF t
<1>5. Len(t) = Len(s) + 1
  BY <1>1, <1>4
<1>6. t[1] = g /\ t[2] = f
  <2>1. 1 \in 1..(2 + (Len(s) - 1)) /\ 2 \in 1..(2 + (Len(s) - 1))
    BY <1>1
  <2>2. t[1] = <<g, f>>[1]
    BY <2>1, <1>4
  <2>3. t[2] = <<g, f>>[2]
    BY <2>1, <1>4
  <2> QED
    BY <2>2, <2>3
<1>7. ASSUME NEW d \in 1..(Len(s) - 1) PROVE D(t, d) = D(s, d)
  <2>1. (Len(s) + 1) + 1 - d \in 3..(Len(s) + 1) /\ ((Len(s) + 1) + 1 - d) - 2 \in 1..(Len(s) - 1)
    BY <1>1
  <2>2. t[(Len(s) + 1) + 1 - d] = Tail(s)[((Len(s) + 1) + 1 - d) - 2]
    BY <2>1, <1>1, <1>4
  <2>3. Tail(s)[((Len(s) + 1) + 1 - d) - 2] = s[(((Len(s) + 1) + 1 - d) - 2) + 1]
    BY <2>1, <1>2
  <2>4. (((Len(s) + 1) + 1 - d) - 2) + 1 = Len(s) + 1 - d
    BY <1>1
  <2> QED
    BY <2>2, <2>3, <2>4, <1>5 DEF D
<1>8. t # <<>>
  BY <1>1, <1>5, <1>4, EmptySeq
<1>9. (Len(s) + 1) + 1 - (Len(s) + 1) = 1 /\ (Len(s) + 1) + 1 - Len(s) = 2
  BY <1>1
<1>10. D(t, Len(s) + 1) = g /\ D(t, Len(s)) = f /\ TopOf(t) = g
  BY <1>5, <1>6, <1>9 DEF D, TopOf
<1> QED
  BY <1>4, <1>5, <1>7, <1>8, <1>10 DEF t

\* A call begins.
LEMMA Begun ==
  ASSUME NEW f \in Frames
  PROVE  LET t == <<f>>
         IN  t \in Seq(Frames) /\ t # <<>> /\ Len(t) = 1 /\ TopOf(t) = f /\ D(t, 1) = f
<1>1. <<f>> \in Seq(Frames) /\ Len(<<f>>) = 1 /\ <<f>>[1] = f /\ <<f>> # <<>>
  OBVIOUS
<1>2. 1 + 1 - 1 = 1
  OBVIOUS
<1> QED
  BY <1>1, <1>2 DEF D, TopOf

\* An operation has one to five frames.
LEMMA RankType == \A op : Rank(op) \in 1..5
BY DEF Rank

\* A frame of the same operation, on the same socket, may stand where the top frame stood.
LEMMA ReplacedOK ==
  ASSUME NEW s, StackOK(s), s # <<>>, NEW f \in Frames, FrameOK(f),
         f.op = TopOf(s).op, f.sock = TopOf(s).sock
  PROVE  StackOK(<<f>> \o Tail(s))
<1> DEFINE t == <<f>> \o Tail(s)
<1>s. s \in Seq(Frames)
  BY DEF StackOK
<1>1. /\ Len(s) \in Nat /\ Len(s) >= 1 /\ TopOf(s) = D(s, Len(s))
  BY <1>s, FramesOf
<1>2. /\ t \in Seq(Frames) /\ t # <<>> /\ Len(t) = Len(s) /\ D(t, Len(s)) = f
      /\ \A d \in 1..(Len(s) - 1) : D(t, d) = D(s, d)
  BY <1>s, Replaced
<1> HIDE DEF t
<1>3. \A d \in 1..Len(s) : D(t, d).op = D(s, d).op /\ D(t, d).sock = D(s, d).sock /\ FrameOK(D(t, d))
  <2> TAKE d \in 1..Len(s)
  <2>1. CASE d = Len(s)
    BY <2>1, <1>1, <1>2
  <2>2. CASE d \in 1..(Len(s) - 1)
    BY <2>2, <1>1, <1>2 DEF StackOK
  <2> QED
    BY <2>1, <2>2, <1>1
<1>4. 1 \in 1..Len(s)
  BY <1>1
<1>5. \A d \in 1..Len(t) : FrameOK(D(t, d)) /\ Rank(D(t, d).op) + d <= Rank(D(t, 1).op) + 1
  BY <1>2, <1>3, <1>4 DEF StackOK
<1>6. ASSUME NEW d \in 1..(Len(t) - 1) PROVE CallOK(D(t, d), D(t, d + 1))
  <2>1. d \in 1..(Len(s) - 1) /\ d + 1 \in 1..Len(s)
    BY <1>1, <1>2
  <2>2. CallOK(D(s, d), D(s, d + 1)) /\ D(t, d) = D(s, d)
    BY <2>1, <1>2 DEF StackOK
  <2>3. D(t, d + 1).op = D(s, d + 1).op /\ D(t, d + 1).sock = D(s, d + 1).sock
    BY <2>1, <1>3
  <2> QED
    BY <2>2, <2>3 DEF CallOK
<1>7. \A i, j \in 1..Len(t) : i < j /\ D(t, i).sock \in Socks /\ D(t, j).op # "connect"
        => D(t, j).sock = D(t, i).sock
  BY <1>2, <1>3 DEF StackOK
<1>8. Async => D(t, 1).sock \notin Socks
  BY <1>3, <1>4 DEF StackOK
<1> QED
  BY <1>2, <1>5, <1>6, <1>7, <1>8 DEF StackOK, t

\* A stack is as well formed without its top frame.
LEMMA PoppedOK ==
  ASSUME NEW s, StackOK(s), s # <<>>
  PROVE  StackOK(Tail(s))
<1> DEFINE t == Tail(s)
<1>s. s \in Seq(Frames)
  BY DEF StackOK
<1>1. Len(s) \in Nat /\ Len(s) >= 1
  BY <1>s, FramesOf
<1>2. /\ t \in Seq(Frames) /\ Len(t) = Len(s) - 1 /\ (t = <<>> <=> Len(s) = 1)
      /\ \A d \in 1..(Len(s) - 1) : D(t, d) = D(s, d)
  BY <1>s, Popped
<1> HIDE DEF t
<1>3. \A d \in 1..Len(t) : d \in 1..Len(s) /\ d \in 1..(Len(s) - 1) /\ 1 \in 1..(Len(s) - 1)
  BY <1>1, <1>2
<1>4. \A d \in 1..(Len(t) - 1) : d \in 1..(Len(s) - 1) /\ d + 1 \in 1..(Len(s) - 1)
  BY <1>1, <1>2
<1>5. \A d \in 1..Len(t) : FrameOK(D(t, d)) /\ Rank(D(t, d).op) + d <= Rank(D(t, 1).op) + 1
  BY <1>2, <1>3 DEF StackOK
<1>6. \A d \in 1..(Len(t) - 1) : CallOK(D(t, d), D(t, d + 1))
  BY <1>2, <1>4 DEF StackOK
<1>7. \A i, j \in 1..Len(t) : i < j /\ D(t, i).sock \in Socks /\ D(t, j).op # "connect"
        => D(t, j).sock = D(t, i).sock
  BY <1>2, <1>3 DEF StackOK
<1>8. t # <<>> /\ Async => D(t, 1).sock \notin Socks
  <2>1. t # <<>> => 1 \in 1..(Len(s) - 1)
    BY <1>1, <1>2
  <2> QED
    BY <2>1, <1>2 DEF StackOK
<1> QED
  BY <1>2, <1>5, <1>6, <1>7, <1>8 DEF StackOK, t

\* The top frame goes on as f and calls g.
LEMMA CalledOK ==
  ASSUME NEW s, StackOK(s), s # <<>>, NEW f \in Frames, FrameOK(f), NEW g \in Frames, FrameOK(g),
         f.op = TopOf(s).op, f.sock = TopOf(s).sock, CallOK(f, g), Rank(g.op) < Rank(f.op)
  PROVE  StackOK(<<g, f>> \o Tail(s))
<1> DEFINE t == <<g, f>> \o Tail(s)
           r == <<f>> \o Tail(s)
<1>s. s \in Seq(Frames)
  BY DEF StackOK
<1>1. Len(s) \in Nat /\ Len(s) >= 1
  BY <1>s, FramesOf
<1>2. /\ t \in Seq(Frames) /\ t # <<>> /\ Len(t) = Len(s) + 1
      /\ D(t, Len(s) + 1) = g /\ D(t, Len(s)) = f
      /\ \A d \in 1..(Len(s) - 1) : D(t, d) = D(s, d)
  BY <1>s, Called
<1>3. /\ Len(r) = Len(s) /\ D(r, Len(s)) = f
      /\ \A d \in 1..(Len(s) - 1) : D(r, d) = D(s, d)
  BY <1>s, Replaced
<1>4. StackOK(r)
  BY ReplacedOK
<1> HIDE DEF t, r
<1>5. \A d \in 1..Len(s) : D(t, d) = D(r, d)
  <2> TAKE d \in 1..Len(s)
  <2>1. CASE d = Len(s)
    BY <2>1, <1>2, <1>3
  <2>2. CASE d \in 1..(Len(s) - 1)
    BY <2>2, <1>2, <1>3
  <2> QED
    BY <2>1, <2>2, <1>1
<1>6. 1 \in 1..Len(s) /\ Len(s) \in 1..Len(s)
  BY <1>1
<1>7. \A d \in 1..Len(t) : FrameOK(D(t, d)) /\ Rank(D(t, d).op) + d <= Rank(D(t, 1).op) + 1
  <2> TAKE d \in 1..Len(t)
  <2>1. CASE d \in 1..Len(s)
    BY <2>1, <1>3, <1>4, <1>5, <1>6 DEF StackOK
  <2>2. CASE d = Len(s) + 1
    <3>1. FrameOK(D(t, d)) /\ D(t, d) = g
      BY <2>2, <1>2
    <3>2. Rank(f.op) + Len(s) <= Rank(D(r, 1).op) + 1
      BY <1>3, <1>4, <1>6 DEF StackOK
    <3>3. D(t, 1) = D(r, 1)
      BY <1>5, <1>6
    <3>4. Rank(g.op) \in 1..5 /\ Rank(f.op) \in 1..5 /\ Rank(D(r, 1).op) \in 1..5
      BY RankType
    <3>5. Rank(g.op) + (Len(s) + 1) <= Rank(D(r, 1).op) + 1
      BY <3>2, <3>4, <1>1
    <3> QED
      BY <3>1, <3>3, <3>5, <2>2
  <2> QED
    BY <2>1, <2>2, <1>1, <1>2
<1>8. ASSUME NEW d \in 1..(Len(t) - 1) PROVE CallOK(D(t, d), D(t, d + 1))
  <2>1. CASE d = Len(s)
    BY <2>1, <1>2
  <2>2. CASE d \in 1..(Len(s) - 1)
    <3>1. d \in 1..Len(s) /\ d + 1 \in 1..Len(s)
      BY <2>2, <1>1
    <3>2. CallOK(D(r, d), D(r, d + 1))
      BY <2>2, <1>3, <1>4 DEF StackOK
    <3> QED
      BY <3>1, <3>2, <1>5
  <2> QED
    BY <2>1, <2>2, <1>1, <1>2
<1>9. ASSUME NEW i \in 1..Len(t), NEW j \in 1..Len(t), i < j, D(t, i).sock \in Socks, D(t, j).op # "connect"
      PROVE  D(t, j).sock = D(t, i).sock
  <2>1. i \in 1..Len(s)
    BY <1>1, <1>2, <1>9
  <2>2. CASE j \in 1..Len(s)
    BY <2>1, <2>2, <1>9, <1>3, <1>4, <1>5 DEF StackOK
  <2>3. CASE j = Len(s) + 1
    <3>1. f.sock = D(t, i).sock
      <4>1. CASE i = Len(s)
        BY <4>1, <1>2
      <4>2. CASE i < Len(s)
        <5>1. D(r, i).sock \in Socks /\ D(r, i) = D(t, i)
          BY <1>5, <2>1, <1>9
        <5>2. f.op # "connect"
          BY <2>3, <1>9, <1>2 DEF CallOK, Decorated, Leaves, Callees
        <5>3. D(r, Len(s)).sock = D(r, i).sock
          BY <5>1, <5>2, <4>2, <2>1, <1>3, <1>4, <1>6 DEF StackOK
        <5> QED
          BY <5>1, <5>3, <1>3
      <4> QED
        BY <4>1, <4>2, <2>1, <1>1
    <3>2. g.op # "connect" /\ D(t, j) = g
      BY <2>3, <1>9, <1>2
    <3>3. CASE Async /\ f.op = "query"
      <4>1. f.sock = Nothing
        BY <3>3 DEF FrameOK, DecoratedOK, Decorated
      <4> QED
        BY <4>1, <3>1, <1>9, SocketsAssumption DEF SocketsAssumption
    <3>4. CASE ~(Async /\ f.op = "query")
      <4>1. g.sock = f.sock
        BY <3>2, <3>4 DEF CallOK
      <4> QED
        BY <4>1, <3>1, <3>2
    <3> QED
      BY <3>3, <3>4
  <2> QED
    BY <2>2, <2>3, <1>1, <1>2
<1>10. Async => D(t, 1).sock \notin Socks
  BY <1>4, <1>5, <1>6, <1>3, EmptySeq DEF StackOK
<1> QED
  BY <1>2, <1>7, <1>8, <1>9, <1>10 DEF StackOK, t

\* A call begins with a stack of one frame.
LEMMA BegunOK ==
  ASSUME NEW f \in Frames, FrameOK(f), Async => f.sock \notin Socks
  PROVE  StackOK(<<f>>)
<1> DEFINE t == <<f>>
<1>1. t \in Seq(Frames) /\ t # <<>> /\ Len(t) = 1 /\ D(t, 1) = f
  BY Begun
<1> HIDE DEF t
<1>2. Rank(f.op) \in 1..5
  BY RankType
<1>3. \A d \in 1..Len(t) : FrameOK(D(t, d)) /\ Rank(D(t, d).op) + d <= Rank(D(t, 1).op) + 1
  BY <1>1, <1>2
<1>4. \A d \in 1..(Len(t) - 1) : FALSE
  BY <1>1
<1>5. \A i, j \in 1..Len(t) : ~(i < j)
  BY <1>1
<1> QED
  BY <1>1, <1>3, <1>4, <1>5 DEF StackOK, t

\* The frame under the top one, which has called it.
LEMMA CallerOf ==
  ASSUME NEW s, StackOK(s), s # <<>>
  PROVE  /\ FrameOK(TopOf(s)) /\ TopOf(s) \in Frames /\ Tail(s) \in Seq(Frames)
         /\ Tail(s) # <<>> => /\ CallOK(TopOf(Tail(s)), TopOf(s)) /\ FrameOK(TopOf(Tail(s)))
                              /\ TopOf(Tail(s)) = D(s, Len(s) - 1) /\ Len(s) >= 2
         /\ Tail(s) = <<>> <=> Len(s) = 1
<1>s. s \in Seq(Frames)
  BY DEF StackOK
<1>1. Len(s) \in Nat /\ Len(s) >= 1 /\ TopOf(s) = D(s, Len(s)) /\ TopOf(s) \in Frames
  BY <1>s, FramesOf
<1>2. /\ Tail(s) \in Seq(Frames) /\ (Tail(s) = <<>> <=> Len(s) = 1)
      /\ Tail(s) # <<>> => Len(s) >= 2 /\ TopOf(Tail(s)) = D(s, Len(s) - 1)
  BY <1>s, Popped
<1>3. Len(s) \in 1..Len(s)
  BY <1>1
<1>4. FrameOK(TopOf(s))
  BY <1>1, <1>3 DEF StackOK
<1>5. ASSUME Tail(s) # <<>> PROVE CallOK(TopOf(Tail(s)), TopOf(s)) /\ FrameOK(TopOf(Tail(s)))
  <2>1. Len(s) - 1 \in 1..(Len(s) - 1) /\ Len(s) - 1 \in 1..Len(s) /\ (Len(s) - 1) + 1 = Len(s)
    BY <1>1, <1>2, <1>5
  <2>2. CallOK(D(s, Len(s) - 1), D(s, (Len(s) - 1) + 1))
    BY <2>1 DEF StackOK
  <2>3. FrameOK(D(s, Len(s) - 1))
    BY <2>1 DEF StackOK
  <2> QED
    BY <2>1, <2>2, <2>3, <1>1, <1>2, <1>5
<1> QED
  BY <1>1, <1>2, <1>4, <1>5

-----------------------------------------------------------------------------
(* What the operations of the network lead to *)

\* There is a socket to open, which nobody knows of.
Fresh == NewSock \in Socks /\ ~Open(net, NewSock) /\ ~Known(NewSock)

\* The network m can follow the present one within a step: a socket that was opened is a
\* tracker's, and a tracker has the socket it had, unless that was closed.
Follows(m) ==
  /\ NetOK(m)
  /\ \A s \in Socks : ~Open(net, s) /\ Open(m, s) => s = NewSock /\ Owned(m, s)
  /\ \A t \in Trackers : net.tracker[t].sock \in Socks =>
       m.tracker[t].sock = net.tracker[t].sock \/ ~Open(m, net.tracker[t].sock)
  /\ \A t \in Trackers : m.tracker[t].sock \in {net.tracker[t].sock, NewSock, Nothing}

\* The names of trackers, of sockets and of no socket differ.
LEMMA NothingApart == Nothing \notin Socks /\ Nothing \notin Trackers /\ "main" \notin Socks /\ "dup" \notin Socks
                      /\ Nothing # "main" /\ Nothing # "dup"
BY SocketsAssumption DEF SocketsAssumption, Trackers

\* The network may stay as it is.
LEMMA FollowsItself == NetOK(net) => Follows(net)
BY DEF Follows

\* The socket property gives a tracker a socket, and changes nothing else.
LEMMA SocketFollows ==
  ASSUME NetOK(net), Fresh, NEW t \in Trackers, t = "dup" => Virt(net, t) >= 1
  PROVE  LET m == socket(net, t)
         IN  /\ Follows(m)
             /\ m.tracker[t].sock \in Socks
             /\ \A x \in Trackers : Virt(m, x) = Virt(net, x) /\ m.tracker[x].connected = net.tracker[x].connected
                                    /\ (x # t => m.tracker[x] = net.tracker[x])
             /\ net.tracker[t].sock # Nothing => m = net
             /\ net.tracker[t].sock = Nothing => m.tracker[t].sock = NewSock /\ m.sock[NewSock] = "fresh"
             /\ \A s \in Socks : s # NewSock => m.sock[s] = net.sock[s]
<1> DEFINE m == socket(net, t)
<1>1. CASE net.tracker[t].sock # Nothing
  <2>1. m = net
    BY <1>1 DEF socket
  <2>2. net.tracker[t].sock \in Socks
    BY <1>1 DEF NetOK, Nets, TrackerRecords
  <2> QED
    BY <2>1, <2>2, <1>1, FollowsItself
<1>2. CASE net.tracker[t].sock = Nothing
  <2> DEFINE k == [net.tracker[t] EXCEPT !.sock = NewSock]
  <2>1. m = [net EXCEPT !.tracker = [@ EXCEPT ![t] = k], !.sock = [@ EXCEPT ![NewSock] = "fresh"]]
    BY <1>2 DEF socket
  <2>2. net \in Nets /\ NewSock \in Socks
    BY DEF NetOK, Fresh
  <2>3. k \in TrackerRecords /\ k.sock = NewSock /\ k.layers = net.tracker[t].layers
        /\ k.connected = net.tracker[t].connected
    BY <2>2 DEF Nets, TrackerRecords
  <2> HIDE DEF k, m
  <2>4. m \in Nets
    BY <2>1, <2>2, <2>3 DEF Nets, SockStates
  <2>5. /\ \A x \in Trackers : m.tracker[x] = IF x = t THEN k ELSE net.tracker[x]
        /\ \A s \in Socks : m.sock[s] = IF s = NewSock THEN "fresh" ELSE net.sock[s]
    BY <2>1, <2>2 DEF Nets
  <2>6. \A x \in Trackers : Virt(m, x) = Virt(net, x) /\ m.tracker[x].connected = net.tracker[x].connected
    BY <2>3, <2>5 DEF Virt
  <2>7. \A x \in Trackers : net.tracker[x].sock # NewSock
    BY NothingApart, <2>2 DEF NetOK, Fresh
  <2>8. NetOK(m)
    <3>1. \A x \in Trackers : m.tracker[x].connected => m.tracker[x].sock # Nothing
      BY <2>2, <2>3, <2>5, NothingApart DEF NetOK
    <3>2. \A x \in Trackers : m.tracker[x].sock # Nothing => Open(m, m.tracker[x].sock)
      <4> TAKE x \in Trackers
      <4>1. CASE x = t
        BY <4>1, <2>2, <2>3, <2>5 DEF Open
      <4>2. CASE x # t
        BY <4>2, <2>5, <2>7 DEF NetOK, Open, Nets, TrackerRecords
      <4> QED
        BY <4>1, <4>2
    <3>3. m.tracker["main"].sock = m.tracker["dup"].sock => m.tracker["main"].sock = Nothing
      BY <2>3, <2>5, <2>7 DEF Trackers
    <3>4. Virt(m, "dup") = 0 => ~m.tracker["dup"].connected /\ m.tracker["dup"].sock = Nothing
      <4>1. Virt(m, "dup") = 0 => t # "dup"
        BY <2>6 DEF Trackers
      <4> QED
        BY <4>1, <2>5, <2>6 DEF NetOK, Trackers
    <3> QED
      BY <2>4, <3>1, <3>2, <3>3, <3>4 DEF NetOK
  <2>9. Follows(m)
    <3>1. \A s \in Socks : ~Open(net, s) /\ Open(m, s) => s = NewSock /\ Owned(m, s)
      BY <2>3, <2>5 DEF Open, Owned
    <3>2. \A x \in Trackers : net.tracker[x].sock \in Socks => m.tracker[x].sock = net.tracker[x].sock
      BY <2>5, <1>2, NothingApart
    <3>3. \A x \in Trackers : m.tracker[x].sock \in {net.tracker[x].sock, NewSock, Nothing}
      BY <2>3, <2>5
    <3> QED
      BY <2>8, <3>1, <3>2, <3>3 DEF Follows
  <2> QED
    BY <1>2, <2>2, <2>3, <2>5, <2>6, <2>9 DEF m
<1> QED
  BY <1>1, <1>2

\* disconnect closes and forgets the socket of a tracker.
LEMMA DisconnectFollows ==
  ASSUME NEW n, Follows(n), NEW t \in Trackers
  PROVE  LET m == disconnect(n, t)
         IN  /\ Follows(m)
             /\ m.tracker[t].sock = Nothing /\ m.tracker[t].connected = FALSE
             /\ \A x \in Trackers : Virt(m, x) = Virt(n, x) /\ (x # t => m.tracker[x] = n.tracker[x])
             /\ n.tracker[t].sock # Nothing => n.tracker[t].sock \in Socks /\ ~Open(m, n.tracker[t].sock)
             /\ \A s \in Socks : m.sock[s] = n.sock[s] \/ (s = n.tracker[t].sock /\ ~Open(m, s))
<1> DEFINE m == disconnect(n, t)
           s0 == n.tracker[t].sock
           k == [n.tracker[t] EXCEPT !.connected = FALSE, !.sock = Nothing]
           c == IF s0 = Nothing THEN n.sock ELSE [n.sock EXCEPT ![s0] = "closed"]
<1>1. n \in Nets /\ NetOK(n)
  BY DEF Follows, NetOK
<1>2. m = [n EXCEPT !.tracker = [@ EXCEPT ![t] = k], !.sock = c]
  BY <1>1 DEF disconnect, Nets, TrackerRecords
<1>3. k \in TrackerRecords /\ k.sock = Nothing /\ k.connected = FALSE /\ k.layers = n.tracker[t].layers
  BY <1>1 DEF Nets, TrackerRecords
<1>4. s0 \in Socks \cup {Nothing}
  BY <1>1 DEF Nets, TrackerRecords
<1>5. c \in [Socks -> SockStates] /\ \A s \in Socks : c[s] = IF s = s0 THEN "closed" ELSE n.sock[s]
  BY <1>1, <1>4, NothingApart DEF Nets, SockStates
<1> HIDE DEF m, k, c
<1>6. m \in Nets
  BY <1>1, <1>2, <1>3, <1>5 DEF Nets
<1>7. /\ \A x \in Trackers : m.tracker[x] = IF x = t THEN k ELSE n.tracker[x]
      /\ \A s \in Socks : m.sock[s] = IF s = s0 THEN "closed" ELSE n.sock[s]
  BY <1>1, <1>2, <1>5 DEF Nets
<1>8. \A x \in Trackers : Virt(m, x) = Virt(n, x)
  BY <1>3, <1>7 DEF Virt
<1>9. \A x \in Trackers : x # t /\ n.tracker[x].sock # Nothing => n.tracker[x].sock # s0
  BY <1>1 DEF NetOK, Trackers
<1>10. \A x \in Trackers : m.tracker[x].sock # Nothing =>
         x # t /\ m.tracker[x].sock = n.tracker[x].sock /\ m.tracker[x].sock \in Socks /\ m.tracker[x].sock # s0
  BY <1>3, <1>7, <1>9, <1>1 DEF Nets, TrackerRecords
<1>11. NetOK(m)
  <2>1. \A x \in Trackers : m.tracker[x].connected => m.tracker[x].sock # Nothing
    BY <1>1, <1>3, <1>7 DEF NetOK
  <2>2. \A x \in Trackers : m.tracker[x].sock # Nothing => Open(m, m.tracker[x].sock)
    BY <1>1, <1>7, <1>10 DEF NetOK, Open
  <2>3. m.tracker["main"].sock = m.tracker["dup"].sock => m.tracker["main"].sock = Nothing
    BY <1>1, <1>10 DEF NetOK, Trackers
  <2>4. Virt(m, "dup") = 0 => ~m.tracker["dup"].connected /\ m.tracker["dup"].sock = Nothing
    BY <1>1, <1>3, <1>7, <1>8 DEF NetOK, Trackers
  <2> QED
    BY <1>6, <2>1, <2>2, <2>3, <2>4 DEF NetOK
<1>12. Follows(m)
  <2>1. ASSUME NEW s \in Socks, ~Open(net, s), Open(m, s) PROVE s = NewSock /\ Owned(m, s)
    <3>1. s # s0 /\ Open(n, s)
      BY <2>1, <1>7 DEF Open
    <3>2. s = NewSock /\ Owned(n, s)
      BY <2>1, <3>1 DEF Follows
    <3> QED
      BY <3>1, <3>2, <1>7 DEF Owned
  <2>2. ASSUME NEW x \in Trackers, net.tracker[x].sock \in Socks
        PROVE  m.tracker[x].sock = net.tracker[x].sock \/ ~Open(m, net.tracker[x].sock)
    <3>1. n.tracker[x].sock = net.tracker[x].sock \/ ~Open(n, net.tracker[x].sock)
      BY <2>2 DEF Follows
    <3> QED
      BY <2>2, <3>1, <1>7 DEF Open
  <2>3. \A x \in Trackers : m.tracker[x].sock \in {net.tracker[x].sock, NewSock, Nothing}
    BY <1>3, <1>7 DEF Follows
  <2> QED
    BY <1>11, <2>1, <2>2, <2>3 DEF Follows
<1> QED
  BY <1>3, <1>4, <1>7, <1>8, <1>12 DEF m, Open

\* The fall back to IPv4 leaves trackers and sockets alone.
LEMMA FallbackFollows ==
  ASSUME NEW n, Follows(n)
  PROVE  LET m == v6_fallback(n)
         IN  Follows(m) /\ m.tracker = n.tracker /\ m.sock = n.sock
<1> DEFINE m == v6_fallback(n)
<1>1. n \in Nets
  BY DEF Follows, NetOK
<1>2. m \in Nets /\ m.tracker = n.tracker /\ m.sock = n.sock
  BY <1>1 DEF v6_fallback, Nets
<1> HIDE DEF m
<1>3. NetOK(m)
  BY <1>2 DEF Follows, NetOK, Virt, Open
<1>4. Follows(m)
  BY <1>2, <1>3 DEF Follows, Open, Owned
<1> QED
  BY <1>2, <1>4 DEF m

\* A tracker with a socket may be called connected.
LEMMA ConnectedFollows ==
  ASSUME NEW n, Follows(n), NEW t \in Trackers, n.tracker[t].sock # Nothing
  PROVE  LET m == [n EXCEPT !.tracker[t].connected = TRUE]
         IN  /\ Follows(m) /\ m.sock = n.sock /\ m.tracker[t].connected = TRUE
             /\ \A x \in Trackers : /\ Virt(m, x) = Virt(n, x) /\ m.tracker[x].sock = n.tracker[x].sock
                                    /\ x # t => m.tracker[x] = n.tracker[x]
<1> DEFINE m == [n EXCEPT !.tracker[t].connected = TRUE]
           k == [n.tracker[t] EXCEPT !.connected = TRUE]
<1>1. n \in Nets /\ NetOK(n)
  BY DEF Follows, NetOK
<1>2. m = [n EXCEPT !.tracker = [@ EXCEPT ![t] = k]]
  BY <1>1 DEF Nets
<1>3. k \in TrackerRecords /\ k.sock = n.tracker[t].sock /\ k.connected = TRUE /\ k.layers = n.tracker[t].layers
  BY <1>1 DEF Nets, TrackerRecords
<1> HIDE DEF m, k
<1>4. m \in Nets /\ m.sock = n.sock /\ \A x \in Trackers : m.tracker[x] = IF x = t THEN k ELSE n.tracker[x]
  BY <1>1, <1>2, <1>3 DEF Nets
<1>5. \A x \in Trackers : Virt(m, x) = Virt(n, x) /\ m.tracker[x].sock = n.tracker[x].sock
  BY <1>3, <1>4 DEF Virt
<1>6. NetOK(m)
  <2>1. \A x \in Trackers : m.tracker[x].connected => m.tracker[x].sock # Nothing
    BY <1>1, <1>3, <1>4 DEF NetOK
  <2>2. \A x \in Trackers : m.tracker[x].sock # Nothing => Open(m, m.tracker[x].sock)
    BY <1>1, <1>4, <1>5 DEF NetOK, Open
  <2>3. m.tracker["main"].sock = m.tracker["dup"].sock => m.tracker["main"].sock = Nothing
    BY <1>1, <1>5 DEF NetOK, Trackers
  <2>4. Virt(m, "dup") = 0 => ~m.tracker["dup"].connected /\ m.tracker["dup"].sock = Nothing
    BY <1>1, <1>4, <1>5 DEF NetOK, Trackers
  <2> QED
    BY <1>4, <2>1, <2>2, <2>3, <2>4 DEF NetOK
<1>7. Follows(m)
  BY <1>4, <1>5, <1>6 DEF Follows, Open, Owned
<1> QED
  BY <1>3, <1>4, <1>5, <1>7 DEF m

\* An open socket changes its state.
LEMMA StateFollows ==
  ASSUME NEW n, Follows(n), NEW s \in Socks, Open(n, s), NEW state \in SockStates, state # "closed"
  PROVE  LET m == [n EXCEPT !.sock[s] = state]
         IN  /\ Follows(m) /\ m.tracker = n.tracker
             /\ \A x \in Socks : m.sock[x] = IF x = s THEN state ELSE n.sock[x]
<1> DEFINE m == [n EXCEPT !.sock[s] = state]
<1>1. n \in Nets /\ NetOK(n)
  BY DEF Follows, NetOK
<1>2. m \in Nets /\ m.tracker = n.tracker /\ \A x \in Socks : m.sock[x] = IF x = s THEN state ELSE n.sock[x]
  BY <1>1 DEF Nets
<1> HIDE DEF m
<1>3. \A x \in Socks : Open(m, x) <=> Open(n, x)
  BY <1>2 DEF Open
<1>4. \A x \in Trackers : n.tracker[x].sock \in Socks \cup {Nothing}
  BY <1>1 DEF Nets, TrackerRecords
<1>5. NetOK(m)
  BY <1>1, <1>2, <1>3, <1>4 DEF NetOK, Virt
<1>6. Follows(m)
  BY <1>2, <1>3, <1>5 DEF Follows, Owned
<1> QED
  BY <1>2, <1>6 DEF m

\* A socket that is no tracker's is closed.
LEMMA CloseFollows ==
  ASSUME NEW n, Follows(n), NEW s \in Socks, ~Owned(n, s)
  PROVE  LET m == [n EXCEPT !.sock[s] = "closed"]
         IN  /\ Follows(m) /\ m.tracker = n.tracker
             /\ \A x \in Socks : m.sock[x] = IF x = s THEN "closed" ELSE n.sock[x]
<1> DEFINE m == [n EXCEPT !.sock[s] = "closed"]
<1>1. n \in Nets /\ NetOK(n)
  BY DEF Follows, NetOK
<1>2. m \in Nets /\ m.tracker = n.tracker /\ \A x \in Socks : m.sock[x] = IF x = s THEN "closed" ELSE n.sock[x]
  BY <1>1 DEF Nets, SockStates
<1> HIDE DEF m
<1>3. \A x \in Socks : Open(m, x) <=> Open(n, x) /\ x # s
  BY <1>2 DEF Open
<1>4. \A x \in Trackers : n.tracker[x].sock \in Socks \cup {Nothing} /\ n.tracker[x].sock # s
  BY <1>1 DEF Nets, TrackerRecords, Owned
<1>5. NetOK(m)
  BY <1>1, <1>2, <1>3, <1>4 DEF NetOK, Virt
<1>6. Follows(m)
  BY <1>2, <1>3, <1>5 DEF Follows, Owned
<1> QED
  BY <1>2, <1>6 DEF m

-----------------------------------------------------------------------------
(* Layers of a tracker *)

\* Only the layers of a tracker change.
LEMMA LayersFollow ==
  ASSUME NEW n, Follows(n), NEW t \in Trackers, NEW l \in LayerRecords,
         t = "dup" /\ l.virtual = 0 => ~n.tracker[t].connected /\ n.tracker[t].sock = Nothing
  PROVE  LET m == [n EXCEPT !.tracker[t].layers = l]
         IN  /\ Follows(m) /\ m.sock = n.sock /\ Virt(m, t) = l.virtual
             /\ \A x \in Trackers : /\ m.tracker[x].sock = n.tracker[x].sock
                                    /\ m.tracker[x].connected = n.tracker[x].connected
                                    /\ x # t => m.tracker[x] = n.tracker[x]
<1> DEFINE m == [n EXCEPT !.tracker[t].layers = l]
           k == [n.tracker[t] EXCEPT !.layers = l]
<1>1. n \in Nets /\ NetOK(n)
  BY DEF Follows, NetOK
<1>2. m = [n EXCEPT !.tracker = [@ EXCEPT ![t] = k]]
  BY <1>1 DEF Nets
<1>3. k \in TrackerRecords /\ k.sock = n.tracker[t].sock /\ k.connected = n.tracker[t].connected /\ k.layers = l
  BY <1>1 DEF Nets, TrackerRecords
<1> HIDE DEF m, k
<1>4. m \in Nets /\ m.sock = n.sock /\ \A x \in Trackers : m.tracker[x] = IF x = t THEN k ELSE n.tracker[x]
  BY <1>1, <1>2, <1>3 DEF Nets
<1>5. \A x \in Trackers : m.tracker[x].sock = n.tracker[x].sock /\ m.tracker[x].connected = n.tracker[x].connected
  BY <1>3, <1>4
<1>6. Virt(m, t) = l.virtual /\ \A x \in Trackers : x # t => Virt(m, x) = Virt(n, x)
  BY <1>3, <1>4 DEF Virt
<1>7. NetOK(m)
  <2>1. \A x \in Trackers : m.tracker[x].connected => m.tracker[x].sock # Nothing
    BY <1>1, <1>5 DEF NetOK
  <2>2. \A x \in Trackers : m.tracker[x].sock # Nothing => Open(m, m.tracker[x].sock)
    BY <1>1, <1>4, <1>5 DEF NetOK, Open
  <2>3. m.tracker["main"].sock = m.tracker["dup"].sock => m.tracker["main"].sock = Nothing
    BY <1>1, <1>5 DEF NetOK, Trackers
  <2>4. Virt(m, "dup") = 0 => ~m.tracker["dup"].connected /\ m.tracker["dup"].sock = Nothing
    BY <1>1, <1>5, <1>6 DEF NetOK, Trackers
  <2> QED
    BY <1>4, <2>1, <2>2, <2>3, <2>4 DEF NetOK
<1>8. Follows(m)
  BY <1>4, <1>5, <1>7 DEF Follows, Open, Owned
<1> QED
  BY <1>4, <1>5, <1>6, <1>8 DEF m

\* What the operations on layers do to the number of virtual layers.
LEMMA LayerOps ==
  ASSUME NEW l \in LayerRecords
  PROVE  /\ NoLayers \in LayerRecords /\ NoLayers.virtual = 0
         /\ VirtEnter(l) \in LayerRecords /\ VirtEnter(l).virtual = l.virtual + 1
         /\ Entered(l) \in LayerRecords /\ Entered(l).virtual = l.virtual
         /\ VirtExit(l) \in LayerRecords
         /\ l.virtual >= 1 => VirtExit(l).virtual = l.virtual - 1
         /\ Exited(l) \in LayerRecords /\ Exited(l).virtual = l.virtual
<1>1. NoLayers \in LayerRecords /\ NoLayers.virtual = 0
  BY DEF NoLayers, LayerRecords
<1>2. VirtEnter(l) \in LayerRecords /\ VirtEnter(l).virtual = l.virtual + 1
  BY DEF VirtEnter, LayerRecords
<1>3. Entered(l) \in LayerRecords /\ Entered(l).virtual = l.virtual
  <2>1. l.layer + 1 \in Int /\ l.contexts + 1 \in Int
    BY DEF LayerRecords
  <2> QED
    BY <2>1 DEF Entered, LayerRecords
<1>4. VirtExit(l) \in LayerRecords /\ (l.virtual >= 1 => VirtExit(l).virtual = l.virtual - 1)
  <2>1. CASE l.virtual < 1
    BY <2>1 DEF VirtExit, LayerRecords
  <2>2. CASE ~(l.virtual < 1)
    <3>1. l.virtual - 1 \in Nat
      BY <2>2 DEF LayerRecords
    <3> QED
      BY <2>2, <3>1 DEF VirtExit, LayerRecords
  <2> QED
    BY <2>1, <2>2
<1>5. Exited(l) \in LayerRecords /\ Exited(l).virtual = l.virtual
  <2>1. l.layer - 1 \in Int /\ l.contexts - 1 \in Int
    BY DEF LayerRecords
  <2> QED
    BY <2>1 DEF Exited, LayerRecords
<1> QED
  BY <1>1, <1>2, <1>3, <1>4, <1>5

\* A tracker has layers, of which a number are virtual.
LEMMA LayersOf == ASSUME NEW n, Follows(n), NEW t \in Trackers
                  PROVE  n.tracker[t].layers \in LayerRecords /\ Virt(n, t) \in Nat
BY DEF Follows, NetOK, Nets, TrackerRecords, LayerRecords, Virt

\* A block on the tracker is entered.
LEMMA EnteredFollows ==
  ASSUME NEW n, Follows(n), NEW t \in Trackers
  PROVE  LET m == entered(n, t)
         IN  /\ Follows(m) /\ m.sock = n.sock /\ Virt(m, t) = Virt(n, t) + 1
             /\ \A x \in Trackers : /\ m.tracker[x].sock = n.tracker[x].sock
                                    /\ m.tracker[x].connected = n.tracker[x].connected
                                    /\ x # t => m.tracker[x] = n.tracker[x]
<1> DEFINE l == n.tracker[t].layers
           l2 == VirtEnter(l)
           l3 == IF EntersObject(l2, 1) THEN Entered(l2) ELSE l2
<1>1. l \in LayerRecords /\ Virt(n, t) = l.virtual /\ l.virtual \in Nat
  BY LayersOf DEF Virt
<1>2. l2 \in LayerRecords /\ l2.virtual = l.virtual + 1
  BY <1>1, LayerOps
<1>3. l3 \in LayerRecords /\ l3.virtual = l.virtual + 1
  <2> HIDE DEF l2
  <2> QED
    BY <1>2, LayerOps
<1>4. entered(n, t) = [n EXCEPT !.tracker[t].layers = l3]
  BY DEF entered
<1> HIDE DEF l3, l2
<1>5. l3.virtual # 0 /\ l3.virtual = Virt(n, t) + 1
  BY <1>1, <1>3
<1> DEFINE m == [n EXCEPT !.tracker[t].layers = l3]
<1>6. /\ Follows(m) /\ m.sock = n.sock /\ Virt(m, t) = l3.virtual
      /\ \A x \in Trackers : /\ m.tracker[x].sock = n.tracker[x].sock
                             /\ m.tracker[x].connected = n.tracker[x].connected
                             /\ x # t => m.tracker[x] = n.tracker[x]
  BY <1>3, <1>5, LayersFollow
<1> QED
  BY <1>4, <1>5, <1>6

\* A block on the tracker is left, which is in virtual > 0.
LEMMA LeftFollows ==
  ASSUME NEW n, Follows(n), NEW t \in Trackers, Virt(n, t) >= 1,
         Virt(n, t) = 1 => ~n.tracker[t].connected /\ n.tracker[t].sock = Nothing
  PROVE  LET m == left(n, t)
         IN  /\ Follows(m) /\ m.sock = n.sock /\ Virt(m, t) = Virt(n, t) - 1
             /\ \A x \in Trackers : /\ m.tracker[x].sock = n.tracker[x].sock
                                    /\ m.tracker[x].connected = n.tracker[x].connected
                                    /\ x # t => m.tracker[x] = n.tracker[x]
<1> DEFINE l == n.tracker[t].layers
           l2 == VirtExit(l)
           l3 == IF LeavesObject(l) THEN Exited(l2) ELSE l2
<1>1. l \in LayerRecords /\ Virt(n, t) = l.virtual /\ l.virtual \in Nat
  BY LayersOf DEF Virt
<1>2. l2 \in LayerRecords /\ l2.virtual = l.virtual - 1
  BY <1>1, LayerOps
<1>3. l3 \in LayerRecords /\ l3.virtual = l.virtual - 1
  <2> HIDE DEF l2
  <2> QED
    BY <1>2, LayerOps
<1>4. left(n, t) = [n EXCEPT !.tracker[t].layers = l3]
  BY DEF left
<1> HIDE DEF l3, l2
<1>5. l3.virtual = 0 => Virt(n, t) = 1
  BY <1>1, <1>3
<1> QED
  BY <1>1, <1>3, <1>4, <1>5, LayersFollow

\* Leaving a block: one virtual layer less, and nothing connected after the last one.
LEMMA ExitFollows ==
  ASSUME NEW n, Follows(n), NEW t \in Trackers, Virt(n, t) >= 1
  PROVE  LET m == tracker_exit(n, t)
         IN  /\ Follows(m) /\ Virt(m, t) = Virt(n, t) - 1
             /\ \A x \in Trackers : x # t => m.tracker[x] = n.tracker[x]
             /\ Virt(m, t) = 0 => ~m.tracker[t].connected /\ m.tracker[t].sock = Nothing
             /\ \A s \in Socks : m.sock[s] = n.sock[s] \/ (s = n.tracker[t].sock /\ ~Open(m, s))
<1> DEFINE k == IF last_block(n, t) THEN disconnect(n, t) ELSE n
           m == left(k, t)
<1>1. Virt(n, t) \in Nat
  BY LayersOf
<1>2. /\ Follows(k) /\ Virt(k, t) = Virt(n, t)
      /\ \A x \in Trackers : x # t => k.tracker[x] = n.tracker[x]
      /\ Virt(k, t) = 1 => ~k.tracker[t].connected /\ k.tracker[t].sock = Nothing
      /\ \A s \in Socks : k.sock[s] = n.sock[s] \/ (s = n.tracker[t].sock /\ ~Open(k, s))
  <2>1. CASE last_block(n, t)
    BY <2>1, DisconnectFollows
  <2>2. CASE ~last_block(n, t)
    BY <2>2, <1>1 DEF last_block, Virt
  <2> QED
    BY <2>1, <2>2
<1> HIDE DEF k
<1>3. /\ Follows(m) /\ m.sock = k.sock /\ Virt(m, t) = Virt(k, t) - 1
      /\ \A x \in Trackers : /\ m.tracker[x].sock = k.tracker[x].sock
                             /\ m.tracker[x].connected = k.tracker[x].connected
                             /\ x # t => m.tracker[x] = k.tracker[x]
  BY <1>2, LeftFollows
<1>4. Virt(m, t) = 0 => Virt(k, t) = 1
  BY <1>1, <1>2, <1>3
<1>5. m = tracker_exit(n, t)
  BY DEF tracker_exit, k
<1> HIDE DEF m
<1> QED
  BY <1>2, <1>3, <1>4, <1>5 DEF Open

\* The layers are made anew outside of any block.
LEMMA ResetFollows ==
  ASSUME NEW n, Follows(n), NEW t \in Trackers
  PROVE  LET m == IF outermost(n, t) THEN [n EXCEPT !.tracker[t].layers = NoLayers] ELSE n
         IN  /\ Follows(m) /\ m.sock = n.sock
             /\ \A x \in Trackers : /\ m.tracker[x].sock = n.tracker[x].sock
                                    /\ m.tracker[x].connected = n.tracker[x].connected
                                    /\ Virt(m, x) = Virt(n, x)
<1>1. CASE outermost(n, t)
  <2> DEFINE m == [n EXCEPT !.tracker[t].layers = NoLayers]
  <2>1. Virt(n, t) = 0
    BY <1>1 DEF outermost, Virt
  <2>2. NoLayers \in LayerRecords /\ NoLayers.virtual = 0
    BY LayersOf, LayerOps
  <2>3. t = "dup" => ~n.tracker[t].connected /\ n.tracker[t].sock = Nothing
    BY <2>1 DEF Follows, NetOK
  <2>4. /\ Follows(m) /\ m.sock = n.sock /\ Virt(m, t) = 0
        /\ \A x \in Trackers : /\ m.tracker[x].sock = n.tracker[x].sock
                               /\ m.tracker[x].connected = n.tracker[x].connected
                               /\ x # t => m.tracker[x] = n.tracker[x]
    BY <2>2, <2>3, LayersFollow
  <2> HIDE DEF m
  <2>5. \A x \in Trackers : Virt(m, x) = Virt(n, x)
    BY <2>1, <2>4 DEF Virt
  <2> QED
    BY <1>1, <2>4, <2>5 DEF m
<1>2. CASE ~outermost(n, t)
  BY <1>2
<1> QED
  BY <1>1, <1>2

\* A frame that closes the caller's socket when it is left.
LeavesRaw(f) == f.op \in Decorated /\ f.sock \in Socks /\ ~Async

\* What the `with` of a frame does when the frame is left.
LEMMA LeaveFollows ==
  ASSUME NEW n, Follows(n), NEW f \in Frames, FrameOK(f),
         \A t \in Trackers : Inside(f, t) => Virt(n, t) >= 1,
         LeavesRaw(f) => ~Owned(n, f.sock)
  PROVE  LET m == LeaveWith(n, f)
         IN  /\ Follows(m)
             /\ \A t \in Trackers :
                  /\ Inside(f, t) => /\ Virt(m, t) = Virt(n, t) - 1
                                     /\ Virt(m, t) = 0 => ~m.tracker[t].connected /\ m.tracker[t].sock = Nothing
                  /\ ~Inside(f, t) => m.tracker[t] = n.tracker[t] /\ Virt(m, t) = Virt(n, t)
             /\ LeavesRaw(f) /\ f.pc # "start" => ~Open(m, f.sock)
             /\ \A s \in Socks : m.sock[s] = n.sock[s] \/ ~Open(m, s)
<1> DEFINE m == LeaveWith(n, f)
<1>a. Trackers = {"main", "dup"}
  BY DEF Trackers
<1>b. ~(Inside(f, "dup") /\ Inside(f, "main"))
  BY NothingApart DEF Inside
<1>1. CASE Inside(f, "dup")
  <2>1. f.op \in Decorated /\ f.sock = "dup" /\ f.pc \notin {"start", "enter", "entered"}
    BY <1>1 DEF Inside
  <2>2. m = tracker_exit(n, "dup")
    BY <2>1, NothingApart DEF LeaveWith
  <2>3. ~LeavesRaw(f)
    BY <2>1, NothingApart DEF LeavesRaw
  <2> HIDE DEF m
  <2>4. Virt(n, "dup") >= 1
    BY <1>1, <1>a
  <2>5. /\ Follows(m) /\ Virt(m, "dup") = Virt(n, "dup") - 1
        /\ \A x \in Trackers : x # "dup" => m.tracker[x] = n.tracker[x]
        /\ Virt(m, "dup") = 0 => ~m.tracker["dup"].connected /\ m.tracker["dup"].sock = Nothing
        /\ \A s \in Socks : m.sock[s] = n.sock[s] \/ ~Open(m, s)
    BY <2>2, <2>4, <1>a, ExitFollows
  <2>6. m.tracker["main"] = n.tracker["main"] /\ Virt(m, "main") = Virt(n, "main")
    BY <2>5, <1>a DEF Virt
  <2> QED
    BY <1>1, <1>a, <1>b, <2>3, <2>5, <2>6 DEF m
<1>2. CASE LeavesRaw(f) /\ f.pc # "start"
  <2>1. f.sock # "dup" /\ f.sock # Nothing /\ f.sock \in Socks /\ f.op \in Decorated /\ ~Async
    BY <1>2, NothingApart DEF LeavesRaw
  <2>2. m = [n EXCEPT !.sock[f.sock] = "closed"]
    BY <1>2, <2>1 DEF LeaveWith
  <2>3. \A t \in Trackers : ~Inside(f, t)
    BY <2>1 DEF Inside
  <2> HIDE DEF m
  <2>4. Follows(m) /\ m.tracker = n.tracker /\ \A x \in Socks : m.sock[x] = IF x = f.sock THEN "closed" ELSE n.sock[x]
    BY <1>2, <2>1, <2>2, CloseFollows
  <2> QED
    BY <2>1, <2>3, <2>4 DEF m, Open, Virt
<1>3. CASE Inside(f, "main")
  <2>1. f.op = "http_request" /\ f.sock = Nothing /\ f.pc \in {"in", "out"}
    BY <1>3 DEF Inside
  <2>2. f.sock # "dup" /\ f.sock \notin Socks
    BY <2>1, NothingApart
  <2>3. m = tracker_exit(n, "main")
    BY <2>1, <2>2 DEF LeaveWith
  <2>4. ~LeavesRaw(f)
    BY <2>2 DEF LeavesRaw
  <2> HIDE DEF m
  <2>5. Virt(n, "main") >= 1
    BY <1>3, <1>a
  <2>6. /\ Follows(m) /\ Virt(m, "main") = Virt(n, "main") - 1
        /\ \A x \in Trackers : x # "main" => m.tracker[x] = n.tracker[x]
        /\ Virt(m, "main") = 0 => ~m.tracker["main"].connected /\ m.tracker["main"].sock = Nothing
        /\ \A s \in Socks : m.sock[s] = n.sock[s] \/ ~Open(m, s)
    BY <2>3, <2>5, <1>a, ExitFollows
  <2>7. m.tracker["dup"] = n.tracker["dup"] /\ Virt(m, "dup") = Virt(n, "dup")
    BY <2>6, <1>a DEF Virt
  <2> QED
    BY <1>3, <1>a, <1>b, <2>4, <2>6, <2>7 DEF m
<1>4. CASE ~Inside(f, "dup") /\ ~Inside(f, "main") /\ ~(LeavesRaw(f) /\ f.pc # "start")
  <2>1. ~(f.op \in Decorated /\ f.sock = "dup" /\ f.pc \notin {"start", "enter", "entered"})
    BY <1>4 DEF Inside
  <2>2. ~(f.op \in Decorated /\ f.sock \in Socks /\ ~Async /\ f.pc # "start")
    BY <1>4 DEF LeavesRaw
  <2>3. ~(f.op = "http_request" /\ f.sock = Nothing /\ f.pc \in {"in", "out"})
    BY <1>4 DEF Inside
  <2>4. m = n
    BY <2>1, <2>2, <2>3 DEF LeaveWith
  <2> QED
    BY <1>4, <2>4, <1>a
<1> QED
  BY <1>1, <1>2, <1>3, <1>4

-----------------------------------------------------------------------------
(* Steps of one user *)

\* What the steps need to know of all the users.
Core == StacksInv /\ SocksInv /\ BlocksInv

InsideAt(s, d, t) == d \in 1..Len(s) /\ Inside(D(s, d), t)

\* A step of one user: the others' stacks stay, and in threads there are none.
Touches(u) ==
  /\ u \in setup.users /\ Turn(u) /\ setup' = setup
  /\ stack' = [stack EXCEPT ![u] = stack'[u]]
  /\ err' = [err EXCEPT ![u] = err'[u]]
  /\ blocks' = [blocks EXCEPT ![u] = blocks'[u]]
  /\ sends' = [sends EXCEPT ![u] = sends'[u]]
  /\ blocks'[u] \in Nat /\ sends'[u] \in Nat /\ err'[u] \in Raised
  /\ calls' \in 0..setup.calls /\ faults' \in 0..setup.max_faults

\* A behaviour has one of the setups that are well formed.
LEMMA SetupFacts ==
  ASSUME StacksInv
  PROVE  /\ SetupOK(setup) /\ setup.users \subseteq Users
         /\ Async \in BOOLEAN
BY SocketsAssumption DEF StacksInv, SocketsAssumption, SetupOK, Async

\* A thread has its turn only while the others have no call.
LEMMA TurnAlone ==
  ASSUME StacksInv, NEW u \in Users, Turn(u), ~Async
  PROVE  \A w \in Users \ {u} : stack[w] = <<>>
<1> SUFFICES ASSUME NEW w \in Users \ {u}, stack[w] # <<>> PROVE FALSE
  OBVIOUS
<1>1. Top(w).pc \in {"await", "connecting", "woken"}
  BY DEF Turn, Waits
<1>2. StackOK(stack[w]) /\ stack[w] \in Seq(Frames)
  BY DEF StacksInv
<1>3. Top(w) = TopOf(stack[w]) /\ FrameOK(TopOf(stack[w]))
  BY <1>2, CallerOf, FramesOf DEF Top
<1> QED
  BY <1>1, <1>3 DEF FrameOK

\* A frame of another user keeps what it relies on.
LEMMA HandedStays ==
  ASSUME NEW m, Follows(m), Fresh, NEW u \in Users, StackOK(stack[u]), NEW d \in 1..Len(stack[u]),
         HandedOK(net, D(stack[u], d))
  PROVE  HandedOK(m, D(stack[u], d))
<1> DEFINE f == D(stack[u], d)
<1>s. stack[u] \in Seq(Frames)
  BY DEF StackOK
<1>1. f.sock # NewSock
  <2>1. Len(stack[u]) \in Nat /\ stack[u] \in [1..Len(stack[u]) -> Frames]
    BY <1>s, LenProperties
  <2>2. Len(stack[u]) + 1 - d \in DOMAIN stack[u]
    BY <2>1
  <2>3. f.sock # NewSock
    BY <2>2 DEF Fresh, Known, D
  <2> QED
    BY <2>3
<1> HIDE DEF f
<1>2. CASE Handed(f)
  <2>1. f.sock \in Socks
    BY <1>2 DEF Handed
  <2>2. Open(m, f.sock) => Open(net, f.sock)
    BY <2>1, <1>1 DEF Follows
  <2>3. Open(m, f.sock) => m.tracker["main"].sock = f.sock
    <3> SUFFICES ASSUME Open(m, f.sock) PROVE m.tracker["main"].sock = f.sock
      OBVIOUS
    <3>1. net.tracker["main"].sock = f.sock
      BY <2>2, <1>2 DEF HandedOK, f
    <3> QED
      BY <3>1, <2>1 DEF Follows, Trackers
  <2> QED
    BY <2>2, <2>3 DEF HandedOK, f
<1>3. CASE ~Handed(f)
  BY <1>3 DEF HandedOK, f
<1> QED
  BY <1>2, <1>3

\* A frame that calls is not connect's.
LEMMA CallersOp ==
  ASSUME NEW s, StackOK(s), NEW d \in 1..(Len(s) - 1)
  PROVE  D(s, d).op # "connect" /\ d \in 1..Len(s)
<1>1. CallOK(D(s, d), D(s, d + 1))
  BY DEF StackOK
<1>2. Len(s) \in Nat
  BY LenProperties DEF StackOK
<1> QED
  BY <1>1, <1>2 DEF CallOK, Callees, Decorated, Leaves

\* A step of one user's keeps StacksInv if it keeps what is said of the user's stack.
LEMMA StacksKept ==
  ASSUME StacksInv, NEW u, Touches(u), StackOK(stack'[u]), RaisedOK(stack'[u], err'[u])
  PROVE  StacksInv'
<1>1. u \in Users /\ u \in setup.users
  BY SetupFacts DEF Touches
<1>2. stack'[u] \in Seq(Frames)
  BY DEF StackOK
<1>3. /\ stack' \in [Users -> Seq(Frames)] /\ err' \in [Users -> Raised]
      /\ blocks' \in [Users -> Nat] /\ sends' \in [Users -> Nat]
      /\ setup' \in Setups /\ calls' \in 0..setup'.calls /\ faults' \in 0..setup'.max_faults
  BY <1>1, <1>2 DEF StacksInv, Touches
<1>4. \A w \in Users \ {u} : stack'[w] = stack[w] /\ err'[w] = err[w] /\ blocks'[w] = blocks[w]
  BY <1>1 DEF StacksInv, Touches
<1>5. \A s, e : (StackOK(s) <=> StackOK(s)') /\ (RaisedOK(s, e) <=> RaisedOK(s, e)')
  BY DEF Touches, StackOK, RaisedOK, FrameOK, DecoratedOK, CallOK, Given, Handed, Async
<1>6. \A w \in Users : StackOK(stack[w])' /\ RaisedOK(stack[w], err[w])'
  <2> TAKE w \in Users
  <2>1. StackOK(stack'[w]) /\ RaisedOK(stack'[w], err'[w])
    BY <1>4 DEF StacksInv
  <2> QED
    BY <2>1, <1>5
<1>7. \A w \in Users \ setup'.users : stack'[w] = <<>> /\ blocks'[w] = 0
  BY <1>1, <1>4 DEF StacksInv, Touches
<1>8. ~Async' => \A v, w \in Users : stack'[v] # <<>> /\ stack'[w] # <<>> => v = w
  <2>1. ~Async' => \A w \in Users \ {u} : stack'[w] = <<>>
    BY <1>1, <1>4, TurnAlone DEF Touches, Async
  <2> QED
    BY <2>1
<1> QED
  BY <1>3, <1>6, <1>7, <1>8 DEF StacksInv

-----------------------------------------------------------------------------
(* There is always a socket to open *)

\* The sockets the frames of a stack know of, connect's left aside.
Of(s) == {x \in Socks : \E d \in 1..Len(s) : D(s, d).op # "connect" /\ x \in {D(s, d).sock, D(s, d).held}}

\* connect calls nothing: its frame is the top one.
LEMMA ConnectOnTop ==
  ASSUME NEW s, StackOK(s), NEW d \in 1..Len(s), D(s, d).op = "connect"
  PROVE  d = Len(s) /\ D(s, d) = TopOf(s)
<1>1. Len(s) \in Nat /\ s \in Seq(Frames)
  BY LenProperties DEF StackOK
<1>2. d = Len(s)
  <2> SUFFICES ASSUME d # Len(s) PROVE FALSE
    OBVIOUS
  <2>1. d \in 1..(Len(s) - 1)
    BY <1>1
  <2>2. CallOK(D(s, d), D(s, d + 1))
    BY <2>1 DEF StackOK
  <2> QED
    BY <2>2 DEF CallOK, Callees, Decorated, Leaves
<1> QED
  BY <1>1, <1>2 DEF D, TopOf

\* An operation on a socket calls connect and nothing else.
LEMMA LeavesCall ==
  ASSUME NEW s, StackOK(s), NEW d \in 1..Len(s), D(s, d).op \in Leaves, NEW j \in 1..Len(s), d < j
  PROVE  D(s, j).op = "connect"
<1>1. Len(s) \in Nat /\ s \in Seq(Frames)
  BY LenProperties DEF StackOK
<1>2. d \in 1..(Len(s) - 1) /\ d + 1 \in 1..Len(s)
  BY <1>1
<1>3. CallOK(D(s, d), D(s, d + 1))
  BY <1>2 DEF StackOK
<1>4. D(s, d + 1).op = "connect"
  BY <1>3 DEF CallOK, Callees, Leaves
<1>5. d + 1 = Len(s)
  BY <1>2, <1>4, ConnectOnTop
<1>6. j = d + 1
  BY <1>1, <1>5
<1> QED
  BY <1>4, <1>6

\* They are one, at most.
LEMMA OneSocket ==
  ASSUME NEW s, StackOK(s)
  PROVE  \A x, y \in Of(s) : x = y
<1> SUFFICES ASSUME NEW x \in Of(s), NEW y \in Of(s) PROVE x = y
  OBVIOUS
<1>0. Len(s) \in Nat
  BY LenProperties DEF StackOK
<1>1. PICK i \in 1..Len(s) : D(s, i).op # "connect" /\ x \in {D(s, i).sock, D(s, i).held}
  BY DEF Of
<1>2. PICK j \in 1..Len(s) : D(s, j).op # "connect" /\ y \in {D(s, j).sock, D(s, j).held}
  BY DEF Of
<1>3. x \in Socks /\ y \in Socks
  BY DEF Of
<1>4. FrameOK(D(s, i)) /\ FrameOK(D(s, j))
  BY DEF StackOK
<1>5. \A f, z : FrameOK(f) /\ f.op # "connect" /\ z \in {f.sock, f.held} /\ z \in Socks /\ z # f.sock
             => f.op \in Leaves /\ z = f.held /\ f.sock \notin Socks
  <2> TAKE f, z
  <2> HAVE FrameOK(f) /\ f.op # "connect" /\ z \in {f.sock, f.held} /\ z \in Socks /\ z # f.sock
  <2>1. z = f.held /\ f.held # Nothing
    BY NothingApart
  <2>2. f.op \in Leaves
    BY <2>1 DEF FrameOK
  <2>3. DecoratedOK(f)
    BY <2>2 DEF FrameOK, Decorated
  <2>4. f.sock \notin Socks
    BY <2>1, <2>2, <2>3 DEF DecoratedOK
  <2> QED
    BY <2>1, <2>2, <2>4
<1>6. \A p, q \in 1..Len(s) : p < q /\ D(s, p).sock \in Socks /\ D(s, q).op # "connect"
        => D(s, q).sock = D(s, p).sock
  BY DEF StackOK
<1>7. \A p, q \in 1..Len(s) : p < q /\ D(s, q).op # "connect" => D(s, p).op \notin Leaves
  BY LeavesCall
<1>8. CASE x = D(s, i).sock /\ y = D(s, j).sock
  BY <1>0, <1>1, <1>2, <1>3, <1>6, <1>8
<1>9. CASE x # D(s, i).sock
  <2>1. D(s, i).op \in Leaves /\ x = D(s, i).held /\ D(s, i).sock \notin Socks
    BY <1>1, <1>3, <1>4, <1>5, <1>9
  <2>2. ~(i < j)
    BY <2>1, <1>2, <1>7
  <2>3. CASE i = j
    BY <2>1, <2>3, <1>2, <1>3
  <2>4. CASE j < i
    <3>1. D(s, j).sock \notin Socks
      BY <2>1, <2>4, <1>1, <1>6
    <3>2. D(s, j).op \in Leaves
      BY <3>1, <1>2, <1>3, <1>4, <1>5
    <3> QED
      BY <3>2, <2>4, <1>1, <1>7
  <2> QED
    BY <1>0, <2>2, <2>3, <2>4
<1>10. CASE y # D(s, j).sock
  <2>1. D(s, j).op \in Leaves /\ y = D(s, j).held /\ D(s, j).sock \notin Socks
    BY <1>2, <1>3, <1>4, <1>5, <1>10
  <2>2. ~(j < i)
    BY <2>1, <1>1, <1>7
  <2>3. CASE i = j
    BY <2>1, <2>3, <1>1, <1>3
  <2>4. CASE i < j
    <3>1. D(s, i).sock \notin Socks
      BY <2>1, <2>4, <1>2, <1>6
    <3>2. D(s, i).op \in Leaves
      BY <3>1, <1>1, <1>3, <1>4, <1>5
    <3> QED
      BY <3>2, <2>4, <1>2, <1>7
  <2> QED
    BY <1>0, <2>2, <2>3, <2>4
<1> QED
  BY <1>8, <1>9, <1>10

\* What the frames know of: one socket of theirs, and the one connect waits for.
LEMMA KnownOnes ==
  ASSUME StacksInv, NEW x \in Socks, Known(x)
  PROVE  \E u \in Users : stack[u] # <<>> /\ (x \in Of(stack[u]) \/ (Async /\ x = TopOf(stack[u]).held))
<1>1. PICK u \in Users : \E i \in DOMAIN stack[u] : x \in {stack[u][i].sock, stack[u][i].held}
  BY DEF Known
<1>2. PICK i \in DOMAIN stack[u] : x \in {stack[u][i].sock, stack[u][i].held}
  BY <1>1
<1>3. StackOK(stack[u]) /\ stack[u] \in Seq(Frames)
  BY DEF StacksInv
<1> DEFINE s == stack[u]
           d == Len(s) + 1 - i
<1>4. Len(s) \in Nat /\ DOMAIN s = 1..Len(s) /\ d \in 1..Len(s) /\ D(s, d) = s[i] /\ s # <<>>
  BY <1>2, <1>3, LenProperties DEF D
<1>5. FrameOK(D(s, d))
  BY <1>3, <1>4 DEF StackOK
<1>6. CASE D(s, d).op # "connect"
  <2>1. x \in Of(s)
    BY <1>2, <1>4, <1>6 DEF Of
  <2> QED
    BY <2>1, <1>4
<1>7. CASE D(s, d).op = "connect"
  <2>1. D(s, d) = TopOf(s)
    BY <1>3, <1>4, <1>7, ConnectOnTop
  <2>2. D(s, d).sock \notin Socks
    BY <1>5, <1>7, NothingApart DEF FrameOK
  <2>3. x = TopOf(s).held /\ x # Nothing
    BY <1>2, <1>4, <2>1, <2>2, NothingApart
  <2>4. Async
    BY <1>5, <2>1, <2>3 DEF FrameOK
  <2> QED
    BY <2>3, <2>4, <1>4
<1> QED
  BY <1>6, <1>7

\* A duplicate is in a block only while a thread's call has it.
LEMMA DupInUse ==
  ASSUME Core, net.tracker["dup"].sock # Nothing
  PROVE  ~Async /\ \E u \in Users : stack[u] # <<>>
<1>1. NetOK(net)
  BY DEF Core, SocksInv
<1>2. Virt(net, "dup") # 0
  BY <1>1 DEF NetOK
<1>3. IsFiniteSet(Blocks("dup")) /\ Virt(net, "dup") = Cardinality(Blocks("dup"))
  BY DEF Core, BlocksInv, Trackers
<1>4. PICK b \in Blocks("dup") : TRUE
  BY <1>2, <1>3, FS_EmptySet
<1>5. b[1] \in Users /\ b[2] \in 1..Len(stack[b[1]]) /\ Inside(D(stack[b[1]], b[2]), "dup")
  BY <1>4 DEF Blocks
<1>6. StackOK(stack[b[1]]) /\ stack[b[1]] \in Seq(Frames)
  BY <1>5 DEF Core, StacksInv
<1>7. FrameOK(D(stack[b[1]], b[2])) /\ stack[b[1]] # <<>>
  BY <1>5, <1>6, FramesOf DEF StackOK
<1>8. ~Async
  BY <1>5, <1>7 DEF FrameOK, DecoratedOK, Inside
<1> QED
  BY <1>5, <1>7, <1>8

\* A function has no more values than arguments.
LEMMA RangeBound ==
  ASSUME NEW S, IsFiniteSet(S), NEW f, f = [x \in S |-> f[x]]
  PROVE  IsFiniteSet({f[x] : x \in S}) /\ Cardinality({f[x] : x \in S}) <= Cardinality(S)
<1>1. f \in Surjection(S, {f[x] : x \in S})
  BY DEF Surjection
<1> QED
  BY <1>1, FS_Surjection

\* There is always a closed socket nothing refers to.
LEMMA SocketLeft ==
  ASSUME Core
  PROVE  Fresh
<1> DEFINE fa == [u \in Users |-> CHOOSE x : x \in Of(stack[u])]
           fb == [u \in Users |-> IF Async THEN TopOf(stack[u]).held ELSE net.tracker["dup"].sock]
           A == {fa[u] : u \in Users}
           B == {fb[u] : u \in Users}
           M == {net.tracker["main"].sock}
           Used == {x \in Socks : Open(net, x) \/ Known(x)}
<1>u. EnoughSocks /\ IsFiniteSet(Users)
  BY SocketsAssumption DEF SocketsAssumption, EnoughSocks
<1>1. IsFiniteSet(A) /\ Cardinality(A) <= Cardinality(Users)
  <2>1. fa = [u \in Users |-> fa[u]]
    OBVIOUS
  <2> HIDE DEF fa
  <2> QED
    BY <2>1, <1>u, RangeBound
<1>2. IsFiniteSet(B) /\ Cardinality(B) <= Cardinality(Users)
  <2>1. fb = [u \in Users |-> fb[u]]
    OBVIOUS
  <2> HIDE DEF fb
  <2> QED
    BY <2>1, <1>u, RangeBound
<1>3. IsFiniteSet(M) /\ Cardinality(M) = 1
  BY FS_Singleton
<1>4. Used \subseteq M \cup (A \cup B)
  <2> SUFFICES ASSUME NEW x \in Used PROVE x \in M \/ x \in A \/ x \in B
    OBVIOUS
  <2>s. x \in Socks /\ StacksInv
    BY DEF Core
  <2>1. \A u \in Users : x \in Of(stack[u]) => x \in A
    <3> TAKE u \in Users
    <3> HAVE x \in Of(stack[u])
    <3>1. StackOK(stack[u])
      BY <2>s DEF StacksInv
    <3>2. (CHOOSE z : z \in Of(stack[u])) \in Of(stack[u])
      OBVIOUS
    <3>3. fa[u] = x
      BY <3>1, <3>2, OneSocket
    <3> QED
      BY <3>3
  <2>2. CASE Known(x)
    <3>1. PICK u \in Users : stack[u] # <<>> /\ (x \in Of(stack[u]) \/ (Async /\ x = TopOf(stack[u]).held))
      BY <2>2, <2>s, KnownOnes
    <3>2. Async /\ x = TopOf(stack[u]).held => x = fb[u]
      OBVIOUS
    <3> QED
      BY <3>1, <3>2, <2>1
  <2>3. CASE Open(net, x) /\ Owned(net, x)
    <3>1. CASE x = net.tracker["main"].sock
      BY <3>1
    <3>2. CASE x = net.tracker["dup"].sock
      <4>1. net.tracker["dup"].sock # Nothing
        BY <3>2, <2>s, NothingApart
      <4>2. PICK u \in Users : ~Async /\ stack[u] # <<>>
        BY <4>1, DupInUse
      <4>3. x = fb[u]
        BY <4>2, <3>2
      <4> QED
        BY <4>3
    <3> QED
      BY <2>3, <3>1, <3>2 DEF Owned, Trackers
  <2>4. CASE Open(net, x) /\ ~Owned(net, x)
    <3>1. PICK u \in Users : x \in Raw(stack[u])
      BY <2>4, <2>s DEF Core, SocksInv
    <3>2. stack[u] # <<>> /\ D(stack[u], 1).sock = x /\ ~Async
      BY <3>1 DEF Raw
    <3>3. StackOK(stack[u]) /\ stack[u] \in Seq(Frames)
      BY <2>s DEF StacksInv
    <3>4. 1 \in 1..Len(stack[u]) /\ FrameOK(D(stack[u], 1))
      BY <3>2, <3>3, FramesOf DEF StackOK
    <3>5. D(stack[u], 1).op # "connect"
      BY <3>2, <3>4, <2>s, NothingApart DEF FrameOK
    <3>6. x \in Of(stack[u])
      BY <3>2, <3>4, <3>5, <2>s DEF Of
    <3> QED
      BY <3>6, <2>1
  <2> QED
    BY <2>2, <2>3, <2>4
<1> HIDE DEF M, A, B
<1>5. /\ IsFiniteSet(A \cup B)
      /\ Cardinality(A \cup B) = Cardinality(A) + Cardinality(B) - Cardinality(A \cap B)
  BY <1>1, <1>2, FS_Union
<1>6. IsFiniteSet(A \cap B) /\ Cardinality(A \cap B) \in Nat
  BY <1>1, FS_Intersection, FS_CardinalityType
<1>7. /\ IsFiniteSet(M \cup (A \cup B))
      /\ Cardinality(M \cup (A \cup B)) = Cardinality(M) + Cardinality(A \cup B) - Cardinality(M \cap (A \cup B))
  BY <1>3, <1>5, FS_Union
<1>8. IsFiniteSet(M \cap (A \cup B)) /\ Cardinality(M \cap (A \cup B)) \in Nat
  BY <1>3, FS_Intersection, FS_CardinalityType
<1>9. Cardinality(A) \in Nat /\ Cardinality(B) \in Nat /\ Cardinality(Users) \in Nat
      /\ Cardinality(A \cup B) \in Nat
  BY <1>1, <1>2, <1>5, <1>u, FS_CardinalityType
<1>10. Cardinality(M \cup (A \cup B)) <= 2 * Cardinality(Users) + 1
  BY <1>1, <1>2, <1>3, <1>5, <1>6, <1>7, <1>8, <1>9
<1>11. IsFiniteSet(Used) /\ Cardinality(Used) <= 2 * Cardinality(Users) + 1
  <2>1. IsFiniteSet(Used) /\ Cardinality(Used) <= Cardinality(M \cup (A \cup B))
    BY <1>4, <1>7, FS_Subset
  <2>2. Cardinality(Used) \in Nat /\ Cardinality(M \cup (A \cup B)) \in Nat
    BY <2>1, <1>7, FS_CardinalityType
  <2> QED
    BY <2>1, <2>2, <1>9, <1>10
<1>12. Socks # Used
  <2> SUFFICES ASSUME Socks = Used PROVE FALSE
    OBVIOUS
  <2>1. IsFiniteSet(Socks) /\ Cardinality(Socks) <= 2 * Cardinality(Users) + 1
    BY <1>11
  <2>2. Cardinality(Socks) > 2 * Cardinality(Users) + 1
    BY <2>1, <1>u DEF EnoughSocks
  <2>3. Cardinality(Socks) \in Nat
    BY <2>1, FS_CardinalityType
  <2> QED
    BY <2>1, <2>2, <2>3, <1>9
<1>13. PICK x \in Socks : ~Open(net, x) /\ ~Known(x)
  BY <1>12
<1>14. net.sock[x] = "closed"
  BY <1>13 DEF Open
<1> QED
  BY <1>13, <1>14 DEF Fresh, NewSock, Open

-----------------------------------------------------------------------------
(* What a step does to a stack *)

\* What a step may do to a stack s: its top frame goes on, calls, or leaves.
Goes(s, t) == \E f \in Frames : f.op = TopOf(s).op /\ f.sock = TopOf(s).sock /\ t = <<f>> \o Tail(s)
Pushes(s, t) ==
  \E f, g \in Frames : /\ f.op = TopOf(s).op /\ f.sock = TopOf(s).sock /\ t = <<g, f>> \o Tail(s)
                       /\ \A x \in Trackers : ~Inside(g, x)
Moves(s, t) == s # <<>> /\ StackOK(s) /\ StackOK(t) /\ (Goes(s, t) \/ Pushes(s, t) \/ t = Tail(s))

\* Where the frames of a stack are after a step on it.
LEMMA MovesFrames ==
  ASSUME NEW s, NEW t, Moves(s, t)
  PROVE  /\ Len(s) \in Nat /\ Len(s) >= 1 /\ Len(t) \in {Len(s) - 1, Len(s), Len(s) + 1}
         /\ s \in Seq(Frames) /\ t \in Seq(Frames)
         /\ t = <<>> <=> Len(t) = 0
         /\ \A d \in 1..(Len(s) - 1) : d \in 1..Len(t) /\ D(t, d) = D(s, d)
         /\ Len(t) >= Len(s) => D(t, Len(s)).op = D(s, Len(s)).op /\ D(t, Len(s)).sock = D(s, Len(s)).sock
         /\ Len(t) = Len(s) + 1 => \A x \in Trackers : ~Inside(D(t, Len(t)), x)
<1>1. s \in Seq(Frames) /\ t \in Seq(Frames) /\ s # <<>>
  BY DEF Moves, StackOK
<1>2. Len(s) \in Nat /\ Len(s) >= 1 /\ TopOf(s) = D(s, Len(s)) /\ (t = <<>> <=> Len(t) = 0)
  BY <1>1, FramesOf
<1>3. CASE Goes(s, t)
  BY <1>1, <1>2, <1>3, Replaced DEF Goes
<1>4. CASE Pushes(s, t)
  <2>1. PICK f \in Frames, g \in Frames :
          /\ f.op = TopOf(s).op /\ f.sock = TopOf(s).sock /\ t = <<g, f>> \o Tail(s)
          /\ \A x \in Trackers : ~Inside(g, x)
    BY <1>4 DEF Pushes
  <2>2. Len(t) = Len(s) + 1 /\ D(t, Len(s) + 1) = g /\ D(t, Len(s)) = f
        /\ \A d \in 1..(Len(s) - 1) : D(t, d) = D(s, d)
    BY <2>1, <1>1, Called
  <2>3. Len(t) >= Len(s) /\ Len(t) = Len(s) + 1 /\ t # <<>> /\ Len(t) # 0
    BY <2>2, <1>2
  <2>4. D(t, Len(t)) = g
    BY <2>2
  <2>5. \A d \in 1..(Len(s) - 1) : d \in 1..Len(t)
    BY <2>2, <1>2
  <2>6. D(t, Len(s)).op = D(s, Len(s)).op /\ D(t, Len(s)).sock = D(s, Len(s)).sock
    BY <2>1, <2>2, <1>2
  <2>7. \A x \in Trackers : ~Inside(D(t, Len(t)), x)
    BY <2>1, <2>4
  <2> QED
    BY <2>2, <2>3, <2>5, <2>6, <2>7, <1>1, <1>2
<1>5. CASE t = Tail(s)
  BY <1>1, <1>2, <1>5, Popped
<1> QED
  BY <1>3, <1>4, <1>5 DEF Moves

\* A step of u keeps what is known of the sockets.
LEMMA SocksKept ==
  ASSUME Core, NEW u, Touches(u), Follows(net'), Moves(stack[u], stack'[u]),
         \A d \in 1..Len(stack'[u]) : d >= Len(stack[u]) =>
           /\ HandedOK(net', D(stack'[u], d))
           /\ D(stack'[u], d).op = "connect" /\ D(stack'[u], d).sock = "dup" => Virt(net', "dup") >= 1,
         stack'[u] = <<>> => \A x \in Raw(stack[u]) : ~Open(net', x)
  PROVE  SocksInv'
<1> DEFINE s == stack[u]
           t == stack'[u]
<1>0. Fresh
  BY SocketLeft
<1>1. u \in Users /\ StacksInv /\ SocksInv /\ Turn(u) /\ setup' = setup
  BY SetupFacts DEF Touches, Core
<1>2. \A w \in Users \ {u} : stack'[w] = stack[w]
  BY <1>1 DEF StacksInv, Touches
<1>3. \A w \in Users : StackOK(stack[w]) /\ stack[w] \in Seq(Frames)
  BY <1>1 DEF StacksInv
<1>m. /\ Len(s) \in Nat /\ Len(s) >= 1 /\ Len(t) \in {Len(s) - 1, Len(s), Len(s) + 1}
      /\ t = <<>> <=> Len(t) = 0
      /\ \A d \in 1..(Len(s) - 1) : d \in 1..Len(t) /\ D(t, d) = D(s, d)
      /\ Len(t) >= Len(s) => D(t, Len(s)).op = D(s, Len(s)).op /\ D(t, Len(s)).sock = D(s, Len(s)).sock
  BY MovesFrames
<1>n. s # <<>>
  BY DEF Moves
<1>4. t # <<>> => D(t, 1).sock = D(s, 1).sock
  BY <1>m
<1>5. NetOK(net')
  BY DEF Follows
<1>6. Raw(t) \subseteq Raw(s)
  BY <1>4, <1>n DEF Raw
<1>r. \A w \in Users \ {u} : Raw(stack[w]) = {}
  BY <1>1, TurnAlone DEF Raw
<1>p. \A z : Raw(z)' = {x \in Socks : ~Async' /\ z' # <<>> /\ D(z', 1).sock = x}
  BY DEF Raw, D
<1>q. Async' = Async
  BY <1>1 DEF Async
<1>7. \A x \in Socks : Open(net', x) => Owned(net', x) \/ \E w \in Users : x \in Raw(stack'[w])
  <2> SUFFICES ASSUME NEW x \in Socks, Open(net', x), ~Owned(net', x)
               PROVE  \E w \in Users : x \in Raw(stack'[w])
    OBVIOUS
  <2>1. Open(net, x)
    BY DEF Follows
  <2>2. ~Owned(net, x)
    <3> SUFFICES ASSUME NEW y \in Trackers, net.tracker[y].sock = x PROVE FALSE
      BY DEF Owned
    <3>1. net'.tracker[y].sock = x
      BY DEF Follows
    <3> QED
      BY <3>1 DEF Owned
  <2>3. PICK w \in Users : x \in Raw(stack[w])
    BY <2>1, <2>2, <1>1 DEF SocksInv
  <2>4. w = u
    BY <2>3, <1>r
  <2>5. t # <<>>
    BY <2>3, <2>4
  <2>6. x \in Raw(t)
    BY <2>3, <2>4, <2>5, <1>4 DEF Raw
  <2> QED
    BY <2>6, <1>1
<1>8. \A w \in Users : \A x \in Raw(stack'[w]) : ~Owned(net', x)
  <2> SUFFICES ASSUME NEW w \in Users, NEW x \in Raw(stack'[w]) PROVE ~Owned(net', x)
    OBVIOUS
  <2>1. w = u
    BY <1>r, <1>2
  <2>2. x \in Raw(s)
    BY <2>1, <1>6
  <2>3. x \in Socks /\ ~Owned(net, x) /\ ~Async /\ D(s, 1).sock = x
    BY <2>2, <1>1 DEF Raw, SocksInv
  <2>4. x # NewSock
    <3>1. Len(s) \in DOMAIN s /\ s[Len(s)].sock = x
      BY <2>3, <1>1, <1>3, <1>m, LenProperties DEF D
    <3> QED
      BY <3>1, <1>0, <1>1 DEF Fresh, Known
  <2> QED
    BY <2>3, <2>4, NothingApart DEF Follows, Owned
<1>9. \A w \in Users : \A d \in 1..Len(stack'[w]) :
        /\ HandedOK(net', D(stack'[w], d))
        /\ D(stack'[w], d).op = "connect" /\ D(stack'[w], d).sock = "dup" => Virt(net', "dup") >= 1
  <2> SUFFICES ASSUME NEW w \in Users, NEW d \in 1..Len(stack'[w])
               PROVE  /\ HandedOK(net', D(stack'[w], d))
                      /\ D(stack'[w], d).op = "connect" /\ D(stack'[w], d).sock = "dup" => Virt(net', "dup") >= 1
    OBVIOUS
  <2>1. CASE w = u /\ d >= Len(s)
    BY <2>1
  <2>2. CASE w = u /\ d < Len(s)
    <3>1. d \in 1..(Len(s) - 1) /\ D(t, d) = D(s, d)
      BY <2>2, <1>m
    <3>2. D(s, d).op # "connect" /\ d \in 1..Len(s)
      BY <3>1, <1>1, <1>3, CallersOp
    <3>3. HandedOK(net, D(s, d))
      BY <3>2, <1>1 DEF SocksInv
    <3>4. HandedOK(net', D(s, d))
      BY <3>2, <3>3, <1>0, <1>1, <1>3, HandedStays
    <3> QED
      BY <3>1, <3>2, <3>4, <2>2
  <2>3. CASE w # u
    <3>1. stack'[w] = stack[w]
      BY <2>3, <1>2
    <3>2. d \in 1..Len(stack[w])
      BY <3>1
    <3>3. HandedOK(net, D(stack[w], d))
      BY <3>2, <1>1 DEF SocksInv
    <3>4. HandedOK(net', D(stack[w], d))
      BY <3>2, <3>3, <1>0, <1>1, <1>3, HandedStays
    <3>5. D(stack[w], d).op = "connect" => D(stack[w], d).sock # "dup"
      <4>1. FrameOK(D(stack[w], d))
        BY <3>2, <1>3 DEF StackOK
      <4>2. stack[w] # <<>>
        BY <3>2, <1>3, FramesOf
      <4>3. Async
        BY <4>2, <2>3, <1>1, TurnAlone
      <4> QED
        BY <4>1, <4>3, NothingApart DEF FrameOK
    <3> QED
      BY <3>1, <3>4, <3>5
  <2> QED
    BY <2>1, <2>2, <2>3, <1>m
<1>10. \A w \in Users : Raw(stack[w])' = Raw(stack'[w])
  BY <1>q DEF Raw, D
<1>11. \A x : (Open(net, x)' <=> Open(net', x)) /\ (Owned(net, x)' <=> Owned(net', x))
  BY DEF Open, Owned
<1>12. \A w \in Users : \A d : HandedOK(net, D(stack[w], d))' <=> HandedOK(net', D(stack'[w], d))
  BY <1>q DEF HandedOK, Handed, Open, D
<1>13. NetOK(net)' <=> NetOK(net')
  BY DEF NetOK, Open, Virt
<1> QED
  BY <1>5, <1>7, <1>8, <1>9, <1>10, <1>11, <1>12, <1>13 DEF SocksInv, Virt, D

\* A truth value as a number; the frame that was on top is now in a block on x.
Bit(b) == IF b THEN 1 ELSE 0
Now(s, t, x) == Len(t) >= Len(s) /\ Inside(D(t, Len(s)), x)

\* A tracker is in the blocks its count says.
LEMMA InsideCounts ==
  ASSUME Core, NEW u \in Users, NEW d \in 1..Len(stack[u]), NEW x \in Trackers, Inside(D(stack[u], d), x)
  PROVE  Virt(net, x) \in Nat /\ Virt(net, x) >= 1
<1>1. Len(stack[u]) \in Nat
  BY LenProperties DEF Core, StacksInv
<1>2. <<u, d>> \in Blocks(x)
  BY <1>1 DEF Blocks
<1>3. IsFiniteSet(Blocks(x)) /\ Virt(net, x) = Cardinality(Blocks(x))
  BY DEF Core, BlocksInv
<1>4. Cardinality(Blocks(x)) \in Nat /\ Cardinality(Blocks(x)) # 0
  BY <1>2, <1>3, FS_EmptySet, FS_CardinalityType
<1> QED
  BY <1>3, <1>4

\* Only frames on the duplicate are in its blocks.
LEMMA InsideOps ==
  ASSUME NEW f, NEW x, Inside(f, x)
  PROVE  x = "dup" => f.sock = "dup"
BY DEF Inside

\* A step of u on its stack, outside of entering or leaving a block of its own.
LEMMA BlocksKept ==
  ASSUME Core, NEW u, Touches(u), Moves(stack[u], stack'[u]), blocks'[u] = blocks[u], calls' = calls,
         NetOK(net'),
         \A x \in Trackers : Virt(net', x) = Virt(net, x) + Bit(Now(stack[u], stack'[u], x))
                                                         - Bit(Inside(TopOf(stack[u]), x))
  PROVE  BlocksInv'
<1> DEFINE s == stack[u]
           t == stack'[u]
           k == <<u, Len(s)>>
<1>1. u \in Users /\ StacksInv /\ BlocksInv
  BY SetupFacts DEF Touches, Core
<1>2. \A w \in Users \ {u} : stack'[w] = stack[w] /\ blocks'[w] = blocks[w]
  BY <1>1 DEF StacksInv, Touches
<1>m. /\ Len(s) \in Nat /\ Len(s) >= 1 /\ Len(t) \in {Len(s) - 1, Len(s), Len(s) + 1}
      /\ t = <<>> <=> Len(t) = 0
      /\ \A d \in 1..(Len(s) - 1) : d \in 1..Len(t) /\ D(t, d) = D(s, d)
      /\ Len(t) >= Len(s) => D(t, Len(s)).op = D(s, Len(s)).op /\ D(t, Len(s)).sock = D(s, Len(s)).sock
      /\ Len(t) = Len(s) + 1 => \A x \in Trackers : ~Inside(D(t, Len(t)), x)
  BY MovesFrames
<1>n. s # <<>> /\ s \in Seq(Frames) /\ TopOf(s) = D(s, Len(s))
  BY FramesOf DEF Moves, StackOK
<1>3. \A x \in Trackers : /\ IsFiniteSet(Blocks(x)')
                          /\ Cardinality(Blocks(x)') = Cardinality(Blocks(x)) + Bit(Now(s, t, x)) - Bit(Inside(TopOf(s), x))
  <2> TAKE x \in Trackers
  <2> DEFINE P(b) == b[2] \in 1..Len(stack[b[1]]) /\ Inside(D(stack[b[1]], b[2]), x)
             Q(b) == b[2] \in 1..Len(stack'[b[1]]) /\ Inside(D(stack'[b[1]], b[2]), x)
             O(b) == x = "main" /\ -b[2] \in 1..blocks[b[1]]
  <2>1. Blocks(x) = {b \in Users \X Int : P(b) \/ O(b)}
    BY DEF Blocks
  <2>2. Blocks(x)' = {b \in Users \X Int : Q(b) \/ O(b)}
    <3>1. \A w \in Users : blocks'[w] = blocks[w]
      BY <1>2
    <3>2. \A b \in Users \X Int : blocks'[b[1]] = blocks[b[1]]
      BY <3>1
    <3> QED
      BY <3>2 DEF Blocks, Inside, D
  <2>3. \A b \in Users \X Int : b # k => (P(b) <=> Q(b))
    <3> SUFFICES ASSUME NEW w \in Users, NEW d \in Int, <<w, d>> # k
                 PROVE  P(<<w, d>>) <=> Q(<<w, d>>)
      OBVIOUS
    <3>1. CASE w # u
      BY <3>1, <1>2
    <3>2. CASE w = u
      <4>1. d # Len(s)
        BY <3>2
      <4>2. CASE d \in 1..(Len(s) - 1)
        BY <4>2, <3>2, <1>m
      <4>3. CASE d > Len(s) \/ d < 1
        <5>1. ~P(<<w, d>>)
          BY <4>3, <3>2, <1>m
        <5>2. ~Q(<<w, d>>)
          <6> SUFFICES ASSUME d \in 1..Len(t) PROVE ~Inside(D(t, d), x)
            BY <3>2
          <6>0. Len(s) \in Nat /\ Len(t) \in {Len(s) - 1, Len(s), Len(s) + 1} /\ d \in 1..Len(t)
            BY <1>m
          <6> HIDE DEF s, t
          <6>1. d = Len(s) + 1 /\ Len(t) = Len(s) + 1
            BY <4>3, <6>0
          <6> QED
            BY <6>1, <1>m
        <5> QED
          BY <5>1, <5>2
      <4> QED
        BY <4>1, <4>2, <4>3, <1>m
    <3> QED
      BY <3>1, <3>2
  <2>4. k \in Users \X Int /\ ~O(k)
    <3>1. blocks[u] \in Nat /\ Len(s) \in Int /\ ~(-Len(s) >= 1)
      BY <1>1, <1>m DEF StacksInv
    <3> QED
      BY <3>1, <1>1
  <2>5. P(k) <=> Inside(TopOf(s), x)
    BY <1>m, <1>n
  <2>6. Q(k) <=> Now(s, t, x)
    <3>1. Len(s) \in 1..Len(t) <=> Len(t) >= Len(s)
      BY <1>m
    <3> QED
      BY <3>1 DEF Now
  <2>7. Blocks(x)' = IF Now(s, t, x) THEN (Blocks(x) \ {k}) \cup {k} ELSE Blocks(x) \ {k}
    <3> HIDE DEF P, Q, O, k
    <3> QED
      BY <2>1, <2>2, <2>3, <2>4, <2>6
  <2>8. k \in Blocks(x) <=> Inside(TopOf(s), x)
    BY <2>1, <2>4, <2>5
  <2>9. IsFiniteSet(Blocks(x)) /\ Cardinality(Blocks(x)) \in Nat
    BY <1>1, FS_CardinalityType DEF BlocksInv
  <2> HIDE DEF k
  <2>10. IsFiniteSet(Blocks(x) \ {k})
         /\ Cardinality(Blocks(x) \ {k}) = IF k \in Blocks(x) THEN Cardinality(Blocks(x)) - 1 ELSE Cardinality(Blocks(x))
    BY <2>9, FS_RemoveElement
  <2>11. IsFiniteSet((Blocks(x) \ {k}) \cup {k})
         /\ Cardinality((Blocks(x) \ {k}) \cup {k}) = Cardinality(Blocks(x) \ {k}) + 1
    BY <2>10, FS_AddElement
  <2>12. IsFiniteSet(Blocks(x)')
    BY <2>7, <2>10, <2>11
  <2>13. Cardinality(Blocks(x)') = IF Now(s, t, x) THEN Cardinality(Blocks(x) \ {k}) + 1 ELSE Cardinality(Blocks(x) \ {k})
    BY <2>7, <2>11
  <2>14. Cardinality(Blocks(x) \ {k}) = Cardinality(Blocks(x)) - Bit(Inside(TopOf(s), x))
    BY <2>8, <2>9, <2>10 DEF Bit
  <2> QED
    BY <2>9, <2>12, <2>13, <2>14 DEF Bit
<1>4. Claims' \subseteq Claims
  <2> SUFFICES ASSUME NEW w \in Users, NEW d \in Int, <<w, d>> \in Claims' PROVE <<w, d>> \in Claims
    BY DEF Claims
  <2>1. CASE -d \in 1..blocks'[w]
    BY <2>1, <1>2 DEF Claims
  <2>2. CASE d = 1 /\ stack'[w] # <<>> /\ D(stack'[w], 1).op \in {"with", "http_request"}
    <3>1. stack[w] # <<>> /\ D(stack[w], 1).op \in {"with", "http_request"}
      <4>1. CASE w # u
        BY <4>1, <2>2, <1>2
      <4>2. CASE w = u
        <5>1. D(t, 1).op = D(s, 1).op
          BY <4>2, <2>2, <1>m
        <5> QED
          BY <5>1, <4>2, <2>2, <1>n
      <4> QED
        BY <4>1, <4>2
    <3> QED
      BY <3>1, <2>2 DEF Claims
  <2> QED
    BY <2>1, <2>2 DEF Claims, D
<1>5. IsFiniteSet(Claims') /\ Cardinality(Claims') <= calls'
  <2>1. IsFiniteSet(Claims) /\ Cardinality(Claims) <= calls /\ calls \in Int
    BY <1>1 DEF BlocksInv, StacksInv
  <2>2. IsFiniteSet(Claims') /\ Cardinality(Claims') <= Cardinality(Claims)
    BY <2>1, <1>4, FS_Subset
  <2>3. Cardinality(Claims') \in Nat /\ Cardinality(Claims) \in Nat
    BY <2>1, <2>2, FS_CardinalityType
  <2> QED
    BY <2>1, <2>2, <2>3
<1>6. \A x \in Trackers : Virt(net', x) = Cardinality(Blocks(x)')
  BY <1>1, <1>3 DEF BlocksInv
<1> QED
  BY <1>3, <1>5, <1>6 DEF BlocksInv, Virt

\* The parts of the invariant together.
LEMMA CoreKept ==
  ASSUME Core, NEW u, Touches(u), Follows(net'), Moves(stack[u], stack'[u]),
         blocks'[u] = blocks[u], calls' = calls,
         RaisedOK(stack'[u], err'[u]),
         \A x \in Trackers : Virt(net', x) = Virt(net, x) + Bit(Now(stack[u], stack'[u], x))
                                                         - Bit(Inside(TopOf(stack[u]), x)),
         \A d \in 1..Len(stack'[u]) : d >= Len(stack[u]) =>
           /\ HandedOK(net', D(stack'[u], d))
           /\ D(stack'[u], d).op = "connect" /\ D(stack'[u], d).sock = "dup" => Virt(net', "dup") >= 1,
         stack'[u] = <<>> => \A x \in Raw(stack[u]) : ~Open(net', x)
  PROVE  Core'
<1>1. StacksInv'
  BY StacksKept DEF Core, Moves
<1>2. SocksInv'
  BY SocksKept
<1>3. BlocksInv'
  BY BlocksKept DEF Follows
<1> QED
  BY <1>1, <1>2, <1>3 DEF Core

\* The top frame goes on.
LEMMA GoesKept ==
  ASSUME Core, NEW u, Touches(u), Follows(net'), stack[u] # <<>>, NEW f \in Frames, FrameOK(f),
         f.op = TopOf(stack[u]).op, f.sock = TopOf(stack[u]).sock, stack'[u] = <<f>> \o Tail(stack[u]),
         blocks'[u] = blocks[u], calls' = calls,
         RaisedOK(<<f>>, err'[u]),
         \A x \in Trackers : Virt(net', x) = Virt(net, x) + Bit(Inside(f, x)) - Bit(Inside(TopOf(stack[u]), x)),
         HandedOK(net', f), f.op = "connect" /\ f.sock = "dup" => Virt(net', "dup") >= 1
  PROVE  Core'
<1> DEFINE s == stack[u]
           t == <<f>> \o Tail(s)
<1>1. u \in Users /\ StackOK(s) /\ s \in Seq(Frames)
  BY SetupFacts DEF Touches, Core, StacksInv
<1>2. StackOK(t)
  BY <1>1, ReplacedOK
<1>3. Len(t) = Len(s) /\ TopOf(t) = f /\ D(t, Len(s)) = f /\ t # <<>> /\ Len(s) \in Nat /\ Len(s) >= 1
  BY <1>1, Replaced, FramesOf
<1>4. Moves(s, t)
  BY <1>1, <1>2 DEF Moves, Goes
<1>5. RaisedOK(t, err'[u])
  BY <1>3, Begun DEF RaisedOK
<1>6. \A x \in Trackers : Now(s, t, x) <=> Inside(f, x)
  BY <1>3 DEF Now
<1>7. \A d \in 1..Len(t) : d >= Len(s) => D(t, d) = f
  BY <1>3
<1> HIDE DEF t
<1>t. stack'[u] = t
  BY DEF t
<1>8. \A x \in Trackers : Virt(net', x) = Virt(net, x) + Bit(Now(s, t, x)) - Bit(Inside(TopOf(s), x))
  BY <1>6 DEF Bit
<1> QED
  BY <1>3, <1>4, <1>5, <1>7, <1>8, <1>t, CoreKept

\* The top frame calls.
LEMMA PushKept ==
  ASSUME Core, NEW u, Touches(u), Follows(net'), stack[u] # <<>>, NEW f \in Frames, FrameOK(f),
         f.op = TopOf(stack[u]).op, f.sock = TopOf(stack[u]).sock,
         NEW g \in Frames, FrameOK(g), CallOK(f, g), Rank(g.op) < Rank(f.op), \A x \in Trackers : ~Inside(g, x),
         stack'[u] = <<g, f>> \o Tail(stack[u]),
         blocks'[u] = blocks[u], calls' = calls, err'[u] = "none",
         \A x \in Trackers : Virt(net', x) = Virt(net, x) + Bit(Inside(f, x)) - Bit(Inside(TopOf(stack[u]), x)),
         HandedOK(net', f), HandedOK(net', g), g.op = "connect" /\ g.sock = "dup" => Virt(net', "dup") >= 1
  PROVE  Core'
<1> DEFINE s == stack[u]
           t == <<g, f>> \o Tail(s)
<1>1. u \in Users /\ StackOK(s) /\ s \in Seq(Frames)
  BY SetupFacts DEF Touches, Core, StacksInv
<1>2. StackOK(t)
  BY <1>1, CalledOK
<1>3. Len(t) = Len(s) + 1 /\ TopOf(t) = g /\ D(t, Len(s) + 1) = g /\ D(t, Len(s)) = f /\ t # <<>>
      /\ Len(s) \in Nat /\ Len(s) >= 1
  BY <1>1, Called, FramesOf
<1>4. Moves(s, t)
  BY <1>1, <1>2 DEF Moves, Pushes
<1>5. RaisedOK(t, err'[u])
  BY DEF RaisedOK
<1>6. \A x \in Trackers : Now(s, t, x) <=> Inside(f, x)
  BY <1>3 DEF Now
<1>7. \A d \in 1..Len(t) : d >= Len(s) => D(t, d) = f \/ D(t, d) = g
  BY <1>3
<1>9. f.op # "connect"
  BY DEF CallOK, Callees, Decorated, Leaves
<1> HIDE DEF t
<1>t. stack'[u] = t
  BY DEF t
<1>8. \A x \in Trackers : Virt(net', x) = Virt(net, x) + Bit(Now(s, t, x)) - Bit(Inside(TopOf(s), x))
  BY <1>6 DEF Bit
<1>10. \A d \in 1..Len(t) : d >= Len(s) =>
           /\ HandedOK(net', D(t, d))
           /\ D(t, d).op = "connect" /\ D(t, d).sock = "dup" => Virt(net', "dup") >= 1
  <2> TAKE d \in 1..Len(t)
  <2> HAVE d >= Len(s)
  <2>1. CASE D(t, d) = f
    BY <2>1, <1>9
  <2>2. CASE D(t, d) = g
    BY <2>2
  <2> QED
    BY <2>1, <2>2, <1>7
<1> QED
  BY <1>3, <1>4, <1>5, <1>8, <1>10, <1>t, CoreKept

\* The top frame leaves.
LEMMA PopKept ==
  ASSUME Core, NEW u, Touches(u), Follows(net'), stack[u] # <<>>, stack'[u] = Tail(stack[u]),
         blocks'[u] = blocks[u], calls' = calls,
         RaisedOK(stack'[u], err'[u]),
         \A x \in Trackers : Virt(net', x) = Virt(net, x) - Bit(Inside(TopOf(stack[u]), x)),
         Len(stack[u]) = 1 => \A x \in Raw(stack[u]) : ~Open(net', x)
  PROVE  Core'
<1> DEFINE s == stack[u]
           t == Tail(s)
<1>1. u \in Users /\ StackOK(s) /\ s \in Seq(Frames)
  BY SetupFacts DEF Touches, Core, StacksInv
<1>2. StackOK(t)
  BY <1>1, PoppedOK
<1>3. Len(t) = Len(s) - 1 /\ Len(s) \in Nat /\ Len(s) >= 1 /\ (t = <<>> <=> Len(s) = 1)
  BY <1>1, Popped, FramesOf
<1>4. Moves(s, t)
  BY <1>1, <1>2 DEF Moves
<1>6. \A x \in Trackers : ~Now(s, t, x)
  BY <1>3 DEF Now
<1>7. \A d \in 1..Len(t) : ~(d >= Len(s))
  BY <1>3
<1>9. SocksInv /\ StacksInv
  BY DEF Core
<1> HIDE DEF t
<1>t. stack'[u] = t
  BY DEF t
<1>v. \A x \in Trackers : Virt(net, x) \in Nat
  BY <1>9 DEF SocksInv, NetOK, Nets, TrackerRecords, LayerRecords, Virt
<1>8. \A x \in Trackers : Virt(net', x) = Virt(net, x) + Bit(Now(s, t, x)) - Bit(Inside(TopOf(s), x))
  BY <1>6, <1>v DEF Bit
<1> QED
  BY <1>3, <1>4, <1>7, <1>8, <1>t, CoreKept

\* An exception that leaves the top frame.
LEMMA RaisedBelow ==
  ASSUME NEW s, StackOK(s), s # <<>>, NEW e
  PROVE  RaisedOK(Tail(s), IF Len(s) = 1 THEN "none" ELSE e)
<1>1. CASE Len(s) = 1
  BY <1>1 DEF RaisedOK
<1>2. CASE Len(s) # 1
  <2>1. Tail(s) # <<>> /\ CallOK(TopOf(Tail(s)), TopOf(s)) /\ FrameOK(TopOf(Tail(s)))
    BY <1>2, CallerOf
  <2> DEFINE g == TopOf(Tail(s))
  <2>2. g.op \in Decorated \cup {"with"}
    BY <2>1 DEF CallOK, Callees, Decorated, Leaves
  <2>3. g.pc = "start" => ~Given(g)
    BY <2>1 DEF CallOK, Callees
  <2>4. g.op = "sendall" /\ Handed(g) => ~(g.tries >= 2)
    <3> SUFFICES ASSUME g.op = "sendall", Handed(g) PROVE ~(g.tries >= 2)
      OBVIOUS
    <3>1. DecoratedOK(g)
      BY <2>1 DEF FrameOK, Decorated, Leaves
    <3>2. g.pc \in {"start", "ready"}
      <4>1. g.pc \in {"start", "ready", "entered"}
        BY <2>1 DEF CallOK, Callees, Handed
      <4>2. g.sock # "dup"
        BY NothingApart DEF Handed
      <4> QED
        BY <3>1, <4>1, <4>2 DEF DecoratedOK
    <3>3. g.tries <= 1
      BY <3>1, <3>2 DEF DecoratedOK
    <3>4. g.tries \in Int
      <4>1. g \in Frames
        BY <2>1, CallerOf, FramesOf
      <4> QED
        BY <4>1 DEF Frames
    <3> QED
      BY <3>3, <3>4
  <2> QED
    BY <1>2, <2>1, <2>2, <2>3, <2>4 DEF RaisedOK
<1> QED
  BY <1>1, <1>2

-----------------------------------------------------------------------------
(* How often a stack sends *)

\* The shares are powers of three, or nothing.
LEMMA ShareType == \A op : Share(op) \in {0, 1, 3, 9}
BY DEF Share

\* The operations that send.
LEMMA ShareOps ==
  \A op : Share(op) # 0 => op \in {"http_request", "query", "send_chunks", "sendall"}
BY DEF Share

\* How many chunks send_chunks has taken, over all its tries.
LEMMA TakenBounds ==
  ASSUME NEW f \in Frames
  PROVE  /\ Taken(f) \in Int /\ Chunks \in Nat
         /\ f.op = "send_chunks" /\ DecoratedOK(f) =>
              /\ Taken(f) >= 0 /\ (f.pc = "again" => Taken(f) >= 1)
              /\ 3 * Taken(f) <= MostSends("send_chunks")
<1> DEFINE x == f.tries
           n == f.n
           b == f.pc \in {"start", "ready"}
<1>1. x \in {0, 1, 2, 3} /\ n \in Nat /\ Chunks \in Nat
  BY SocketsAssumption DEF Frames, SocketsAssumption
<1>2. Taken(f) = IF setup.generator THEN n ELSE IF b THEN Chunks * x ELSE Chunks * (x - 1) + n
  BY DEF Taken
<1>3. f.op = "send_chunks" /\ DecoratedOK(f) =>
        n <= Chunks /\ (f.pc = "again" => n >= 1 /\ ~b) /\ (b => x <= 2) /\ (~b => x >= 1)
  BY NothingApart DEF DecoratedOK, Given
<1>4. MostSends("send_chunks") = IF setup.generator THEN 3 * Chunks ELSE 9 * Chunks
  BY DEF MostSends
<1> HIDE DEF x, n, b
<1>5. (IF setup.generator THEN n ELSE IF b THEN Chunks * x ELSE Chunks * (x - 1) + n) \in Int
  BY <1>1
<1>6. f.op = "send_chunks" /\ DecoratedOK(f) =>
        LET z == IF setup.generator THEN n ELSE IF b THEN Chunks * x ELSE Chunks * (x - 1) + n
        IN  z >= 0 /\ (f.pc = "again" => z >= 1) /\ 3 * z <= IF setup.generator THEN 3 * Chunks ELSE 9 * Chunks
  <2> HAVE f.op = "send_chunks" /\ DecoratedOK(f)
  <2>1. CASE setup.generator
    BY <2>1, <1>1, <1>3
  <2>2. CASE ~setup.generator /\ b
    BY <2>2, <1>1, <1>3
  <2>3. CASE ~setup.generator /\ ~b
    BY <2>3, <1>1, <1>3
  <2> QED
    BY <2>1, <2>2, <2>3
<1> QED
  BY <1>1, <1>2, <1>4, <1>5, <1>6

\* Tries and chunks are numbers.
LEMMA TriedInt ==
  ASSUME NEW f \in Frames
  PROVE  Tried(f) \in Int
BY TakenBounds DEF Tried, Frames

\* The tries a frame may have sent in.
LEMMA OverBounds ==
  ASSUME NEW f \in Frames, f.op \in Decorated, f.op # "send_chunks", DecoratedOK(f), NEW top \in BOOLEAN, NEW e
  PROVE  /\ Over(f, top, e) \in 0..3
         /\ f.op = "sendall" /\ Handed(f) => Over(f, top, e) <= 2
         /\ ~top /\ f.pc \in {"sent", "out", "again"} => Over(f, top, e) <= 2
<1>1. f.tries \in 0..3 /\ f.tries \in Int
  BY DEF Frames
<1>2. Given(f) => Tried(f) \in {0, 1} /\ (f.pc # "start" => Tried(f) = 1)
  BY DEF Tried
<1>3. ~Given(f) => Tried(f) = f.tries
  BY DEF Tried
<1>4. Given(f) => f.pc # "ready"
  BY DEF DecoratedOK
<1>5. ~Given(f) /\ f.pc \notin {"start", "ready"} => f.tries >= 1
  BY DEF DecoratedOK
<1>6. Tried(f) \in 0..3 /\ (f.pc \notin {"start", "ready"} => Tried(f) >= 1)
  BY <1>1, <1>2, <1>3, <1>5
<1>7. Over(f, top, e) \in {Tried(f), Tried(f) - 1}
      /\ (f.pc \in {"start", "ready"} => Over(f, top, e) = Tried(f))
      /\ (~top /\ f.pc \in {"sent", "out", "again"} => Over(f, top, e) = Tried(f) - 1)
  BY DEF Over
<1>8. f.op = "sendall" /\ Handed(f) => Tried(f) <= 2
  <2> SUFFICES ASSUME f.op = "sendall", Handed(f) PROVE Tried(f) <= 2
    OBVIOUS
  <2>1. ~Given(f) /\ f.tries <= 2
    BY DEF DecoratedOK, Given, Handed
  <2> QED
    BY <2>1, <1>3
<1> QED
  BY <1>6, <1>7, <1>8

\* What a frame may call.
LEMMA CalledOps ==
  ASSUME NEW g, NEW f, CallOK(g, f)
  PROVE  /\ f.op # "connect" => /\ g.op \in {"http_request", "query", "send_chunks", "read_eof"}
                                /\ g.op = "http_request" => f.op = "query" /\ g.pc = "out"
                                /\ g.op = "query" => \/ f.op = "sendall" /\ g.pc = "sent"
                                                     \/ f.op = "read_eof" /\ g.pc = "done"
                                /\ g.op = "send_chunks" => f.op = "sendall" /\ g.pc = "again"
                                /\ g.op = "read_eof" => f.op = "recv"
         /\ g.op = "query" /\ f.op = "sendall" /\ Async => Handed(f)
<1>1. CASE f.op = "connect"
  BY <1>1
<1>2. CASE f.op # "connect"
  <2>1. <<g.op, g.pc, f.op>> \in Callees
        /\ (IF Async /\ g.op = "query" THEN f.sock \in Socks ELSE f.sock = g.sock)
    BY <1>2 DEF CallOK
  <2>2. \/ g.op = "send_chunks" /\ g.pc = "again" /\ f.op = "sendall"
        \/ g.op = "read_eof" /\ g.pc = "read" /\ f.op = "recv"
        \/ g.op = "query" /\ g.pc = "sent" /\ f.op = "sendall"
        \/ g.op = "query" /\ g.pc = "done" /\ f.op = "read_eof"
        \/ g.op = "http_request" /\ g.pc = "out" /\ f.op = "query"
    BY <2>1 DEF Callees
  <2>3. g.op = "query" /\ Async => Handed(f)
    BY <2>1 DEF Handed
  <2> QED
    BY <2>2, <2>3
<1> QED
  BY <1>1, <1>2

\* A part of the sum, of a frame at a depth.
LEMMA PartBounds ==
  ASSUME NEW s, StackOK(s), NEW e, NEW d \in 1..Len(s)
  PROVE  /\ Part(s, e, d) \in Nat
         /\ IF D(s, d).op = "send_chunks"
            THEN /\ Part(s, e, d) <= MostSends("send_chunks")
                 /\ d < Len(s) /\ D(s, d + 1).op = "sendall" => Part(s, e, d) + 3 <= MostSends("send_chunks")
            ELSE /\ Part(s, e, d) <= 3 * Share(D(s, d).op)
                 /\ d < Len(s) /\ D(s, d + 1).op \in {"sendall", "query"} => Part(s, e, d) <= 2 * Share(D(s, d).op)
         /\ D(s, d).op = "sendall" /\ Handed(D(s, d)) => Part(s, e, d) <= 2
<1> DEFINE f == D(s, d)
           o == Over(f, d = Len(s), e)
<1>1. s \in Seq(Frames) /\ FrameOK(f) /\ f \in Frames /\ Len(s) \in Nat
  BY FramesOf DEF StackOK
<1>2. Part(s, e, d) = Share(f.op) * o
  BY DEF Part
<1>3. CASE f.op \notin {"http_request", "query", "send_chunks", "sendall"}
  <2>1. Share(f.op) = 0
    BY <1>3, ShareOps
  <2>2. o \in Int
    <3>1. Tried(f) \in Int
      BY <1>1, TriedInt
    <3> QED
      BY <3>1 DEF Over
  <2>3. Part(s, e, d) = 0
    BY <1>2, <2>1, <2>2
  <2> QED
    BY <2>1, <2>3, <1>3
<1>4. CASE f.op \in {"http_request", "query", "sendall"}
  <2>1. f.op \in Decorated /\ DecoratedOK(f)
    BY <1>1, <1>4 DEF FrameOK, Decorated, Leaves
  <2>2. (d = Len(s)) \in BOOLEAN
    OBVIOUS
  <2>3. o \in 0..3 /\ (f.op = "sendall" /\ Handed(f) => o <= 2)
        /\ (d # Len(s) /\ f.pc \in {"sent", "out", "again"} => o <= 2)
    <3>1. f.op # "send_chunks"
      BY <1>4
    <3> QED
      BY <1>1, <2>1, <2>2, <3>1, OverBounds
  <2>4. d < Len(s) /\ D(s, d + 1).op \in {"sendall", "query"} => d # Len(s) /\ f.pc \in {"sent", "out", "again"}
    <3> SUFFICES ASSUME d < Len(s), D(s, d + 1).op \in {"sendall", "query"}
                 PROVE  d # Len(s) /\ f.pc \in {"sent", "out", "again"}
      OBVIOUS
    <3>1. d \in 1..(Len(s) - 1)
      BY <1>1
    <3>2. CallOK(f, D(s, d + 1))
      BY <3>1 DEF StackOK
    <3>3. f.pc \in {"sent", "out", "again"}
      BY <3>2 DEF CallOK, Callees
    <3> QED
      BY <3>1, <3>3, <1>1
  <2>5. f.op = "sendall" => Share(f.op) = 1
    BY DEF Share
  <2>6. Share(f.op) \in {0, 1, 3, 9}
    BY ShareType
  <2> HIDE DEF f, o
  <2>7. Share(f.op) * o \in Nat /\ Share(f.op) * o <= 3 * Share(f.op)
        /\ (o <= 2 => Share(f.op) * o <= 2 * Share(f.op))
    BY <2>3, <2>6
  <2>8. (f.op = "sendall" /\ Handed(f)) => Share(f.op) * o <= 2
    BY <2>3, <2>5
  <2>9. (d < Len(s) /\ D(s, d + 1).op \in {"sendall", "query"}) => Share(f.op) * o <= 2 * Share(f.op)
    BY <2>3, <2>4, <2>7
  <2> QED
    BY <1>2, <1>4, <2>7, <2>8, <2>9 DEF f
<1>5. CASE f.op = "send_chunks"
  <2> DEFINE z == Taken(f)
             m == MostSends("send_chunks")
  <2>1. DecoratedOK(f)
    BY <1>1, <1>5 DEF FrameOK, Decorated
  <2>2. z \in Int /\ z >= 0 /\ (f.pc = "again" => z >= 1) /\ 3 * z <= m
    BY <1>1, <1>5, <2>1, TakenBounds
  <2>3. m \in Int
    BY <1>1, TakenBounds DEF MostSends
  <2>4. o = IF d # Len(s) /\ f.pc = "again" THEN z - 1 ELSE z
    <3>1. f.pc \in {"start", "ready", "body", "again"}
      BY <1>5, <2>1, NothingApart DEF DecoratedOK, PcsOf, Own, Leaves
    <3>2. Tried(f) = z
      BY <1>5 DEF Tried
    <3> HIDE DEF z
    <3> QED
      BY <1>5, <3>1, <3>2 DEF Over
  <2>5. d < Len(s) /\ D(s, d + 1).op = "sendall" => d # Len(s) /\ f.pc = "again"
    <3> HAVE d < Len(s) /\ D(s, d + 1).op = "sendall"
    <3>1. d \in 1..(Len(s) - 1)
      BY <1>1
    <3>2. CallOK(f, D(s, d + 1))
      BY <3>1 DEF StackOK
    <3> QED
      BY <3>1, <3>2, <1>1, <1>5, CalledOps
  <2>6. Share(f.op) = 3
    BY <1>5 DEF Share
  <2> HIDE DEF z, m, o
  <2>7. 3 * o \in Nat /\ 3 * o <= m /\ (d # Len(s) /\ f.pc = "again" => 3 * o + 3 <= m)
    BY <2>2, <2>3, <2>4
  <2> QED
    BY <1>2, <1>5, <2>5, <2>6, <2>7 DEF m
<1> QED
  BY <1>3, <1>4, <1>5

\* The limits are numbers.
LEMMA MostType == \A op : MostSends(op) \in Nat
<1>1. Chunks \in Nat
  BY SocketsAssumption DEF SocketsAssumption
<1> QED
  BY <1>1 DEF MostSends

\* A call sends no more than it may.
LEMMA SumBound ==
  ASSUME NEW s, StackOK(s), s # <<>>, NEW e
  PROVE  Sum(s, e) \in Nat /\ Sum(s, e) <= MostSends(D(s, 1).op)
<1> DEFINE P(d) == Part(s, e, d)
<1>1. s \in Seq(Frames) /\ Len(s) \in Nat /\ Len(s) >= 1
  BY FramesOf DEF StackOK
<1>2. \A d \in {1, 2, 3} : d > Len(s) => P(d) = 0
  BY <1>1 DEF Part
<1>3. \A d \in 1..Len(s) :
         /\ P(d) \in Nat
         /\ IF D(s, d).op = "send_chunks"
            THEN /\ P(d) <= MostSends("send_chunks")
                 /\ d < Len(s) /\ D(s, d + 1).op = "sendall" => P(d) + 3 <= MostSends("send_chunks")
            ELSE /\ P(d) <= 3 * Share(D(s, d).op)
                 /\ d < Len(s) /\ D(s, d + 1).op \in {"sendall", "query"} => P(d) <= 2 * Share(D(s, d).op)
         /\ D(s, d).op = "sendall" /\ Handed(D(s, d)) => P(d) <= 2
  BY PartBounds
<1>4. \A d \in 1..(Len(s) - 1) : CallOK(D(s, d), D(s, d + 1))
  BY DEF StackOK
<1>5. Sum(s, e) = P(1) + P(2) + P(3)
  BY DEF Sum
<1>6. P(1) \in Nat /\ P(2) \in Nat /\ P(3) \in Nat
  BY <1>1, <1>2, <1>3
<1> DEFINE o1 == D(s, 1).op
           o2 == D(s, 2).op
           o3 == D(s, 3).op
<1>c. \A d \in 1..(Len(s) - 1) : D(s, d + 1).op # "send_chunks"
  <2> TAKE d \in 1..(Len(s) - 1)
  <2>1. CallOK(D(s, d), D(s, d + 1))
    BY <1>4
  <2> QED
    BY <2>1 DEF CallOK, Callees
<1>7. 1 \in 1..Len(s)
      /\ IF o1 = "send_chunks"
         THEN P(1) <= MostSends("send_chunks") /\ (Len(s) >= 2 /\ o2 = "sendall" => P(1) + 3 <= MostSends("send_chunks"))
         ELSE P(1) <= 3 * Share(o1)
  <2>1. 1 \in 1..Len(s) /\ (Len(s) >= 2 => 1 < Len(s)) /\ 1 + 1 = 2
    BY <1>1
  <2> QED
    BY <2>1, <1>3
<1>8. Len(s) >= 2 => CallOK(D(s, 1), D(s, 2)) /\ P(2) <= 3 * Share(o2)
                     /\ (o1 # "send_chunks" /\ o2 \in {"sendall", "query"} => P(1) <= 2 * Share(o1))
                     /\ (o2 = "sendall" /\ Handed(D(s, 2)) => P(2) <= 2)
  <2> HAVE Len(s) >= 2
  <2>1. 1 \in 1..(Len(s) - 1) /\ 1 < Len(s) /\ 2 \in 1..Len(s) /\ 1 \in 1..Len(s) /\ 1 + 1 = 2
    BY <1>1
  <2>2. CallOK(D(s, 1), D(s, 2)) /\ o2 # "send_chunks"
    BY <2>1, <1>4, <1>c
  <2> QED
    BY <2>1, <2>2, <1>3
<1>9. Len(s) >= 3 => CallOK(D(s, 2), D(s, 3)) /\ P(3) <= 3 * Share(o3)
                     /\ (o3 \in {"sendall", "query"} => P(2) <= 2 * Share(o2))
                     /\ (o3 = "sendall" /\ Handed(D(s, 3)) => P(3) <= 2)
  <2> HAVE Len(s) >= 3
  <2>1. 2 \in 1..(Len(s) - 1) /\ 2 < Len(s) /\ 3 \in 1..Len(s) /\ 1 \in 1..(Len(s) - 1) /\ 1 + 1 = 2
        /\ 2 \in 1..Len(s) /\ 2 + 1 = 3
    BY <1>1
  <2>2. CallOK(D(s, 2), D(s, 3)) /\ o2 # "send_chunks" /\ o3 # "send_chunks"
    BY <2>1, <1>4, <1>c
  <2> QED
    BY <2>1, <2>2, <1>3
<1>10. Len(s) < 2 => P(2) = 0 /\ P(3) = 0
  BY <1>1, <1>2
<1>11. Len(s) < 3 => P(3) = 0
  BY <1>1, <1>2
<1> DEFINE Q == IF Async THEN 1 ELSE 3
<1>12. /\ Share("http_request") = 3 * Q /\ Share("query") = Q /\ Share("send_chunks") = 3
       /\ Share("sendall") = 1 /\ Share("connect") = 0 /\ Share("read_eof") = 0 /\ Share("recv") = 0
       /\ Q \in {1, 3} /\ (Async <=> Q = 1)
  BY DEF Share
\* What the frames above each kind of frame add.
<1>13. Len(s) >= 2 /\ o1 = "http_request" => o2 \in {"connect", "query"}
  BY <1>8, CalledOps
<1>14. Len(s) >= 2 /\ o1 = "query" => o2 \in {"connect", "read_eof", "sendall"}
                                      /\ (o2 = "sendall" /\ Async => P(2) <= 2)
  BY <1>8, CalledOps
<1>15. Len(s) >= 2 /\ o1 = "send_chunks" => o2 \in {"connect", "sendall"}
  BY <1>8, CalledOps
<1>16. Len(s) >= 2 /\ o1 \notin {"http_request", "query", "send_chunks"} => o2 \in {"connect", "recv"}
  BY <1>8, CalledOps
<1>17. Len(s) >= 3 /\ o2 = "query" => o3 \in {"connect", "read_eof", "sendall"}
                                      /\ (o3 = "sendall" /\ Async => P(3) <= 2)
  BY <1>9, CalledOps
<1>18. Len(s) >= 3 /\ o2 \in {"sendall", "recv", "read_eof", "connect"} => o3 \in {"connect", "recv"}
  BY <1>9, CalledOps
<1>19. o2 \in {"sendall", "recv", "read_eof", "connect"} => P(3) = 0
  BY <1>6, <1>9, <1>11, <1>12, <1>18, <1>1
<1>20. MostSends("http_request") = (IF Async THEN 10 ELSE 27) /\ MostSends("query") = (IF Async THEN 4 ELSE 9)
       /\ MostSends("sendall") = 3 /\ MostSends("send_chunks") \in Int
  <2>1. Chunks \in Nat
    BY SocketsAssumption DEF SocketsAssumption
  <2> QED
    BY <2>1 DEF MostSends
<1>21. \A x, y, z \in Nat : x + y + z \in Nat
  OBVIOUS
<1>s. Sum(s, e) \in Nat
  BY <1>5, <1>6, <1>21
<1>22. CASE o1 = "http_request"
  <2>1. CASE Len(s) < 2
    <3> HIDE DEF P, Q
    <3> QED
      BY <1>5, <1>6, <1>7, <1>10, <1>12, <1>20, <1>22, <2>1
  <2>2. CASE Len(s) >= 2 /\ o2 = "connect"
    <3>1. P(2) = 0 /\ P(3) = 0
      BY <1>6, <1>8, <1>12, <1>19, <2>2
    <3> HIDE DEF P, Q
    <3> QED
      BY <1>5, <1>6, <1>7, <1>12, <1>20, <1>22, <3>1
  <2>3. CASE Len(s) >= 2 /\ o2 = "query"
    <3>1. P(1) <= 6 * Q /\ P(2) <= 3 * Q
      BY <1>8, <1>12, <1>22, <2>3
    <3>2. CASE Len(s) < 3
      <4> HIDE DEF P, Q
      <4> QED
        BY <1>5, <1>6, <1>11, <1>12, <1>20, <1>22, <3>1, <3>2
    <3>3. CASE Len(s) >= 3 /\ o3 \in {"connect", "read_eof"}
      <4>1. P(3) = 0
        BY <1>6, <1>9, <1>12, <3>3
      <4> HIDE DEF P, Q
      <4> QED
        BY <1>5, <1>6, <1>12, <1>20, <1>22, <3>1, <4>1
    <3>4. CASE Len(s) >= 3 /\ o3 = "sendall"
      <4>1. P(3) <= 3 /\ (Async => P(3) <= 2) /\ P(2) <= 2 * Q
        BY <1>6, <1>9, <1>12, <1>17, <2>3, <3>4
      <4> HIDE DEF P, Q
      <4> QED
        BY <1>5, <1>6, <1>12, <1>20, <1>22, <3>1, <4>1
    <3> QED
      BY <3>2, <3>3, <3>4, <1>17, <1>1, <2>3
  <2> QED
    BY <2>1, <2>2, <2>3, <1>13, <1>22, <1>1
<1>23. CASE o1 = "query"
  <2>1. P(1) <= 3 * Q
    BY <1>7, <1>12, <1>23
  <2>2. CASE Len(s) < 2
    <3> HIDE DEF P, Q
    <3> QED
      BY <1>5, <1>6, <1>10, <1>12, <1>20, <1>23, <2>1, <2>2
  <2>3. CASE Len(s) >= 2 /\ o2 \in {"connect", "read_eof"}
    <3>1. P(2) = 0 /\ P(3) = 0
      BY <1>6, <1>8, <1>12, <1>19, <2>3
    <3> HIDE DEF P, Q
    <3> QED
      BY <1>5, <1>6, <1>12, <1>20, <1>23, <2>1, <3>1
  <2>4. CASE Len(s) >= 2 /\ o2 = "sendall"
    <3>1. P(1) <= 2 * Q /\ P(2) <= 3 /\ (Async => P(2) <= 2) /\ P(3) = 0
      BY <1>6, <1>8, <1>12, <1>14, <1>19, <1>23, <2>4
    <3> HIDE DEF P, Q
    <3> QED
      BY <1>5, <1>6, <1>12, <1>20, <1>23, <3>1
  <2> QED
    BY <2>2, <2>3, <2>4, <1>14, <1>23, <1>1
<1>24. CASE o1 = "send_chunks"
  <2>1. CASE Len(s) < 2
    <3> HIDE DEF P
    <3> QED
      BY <1>5, <1>6, <1>7, <1>10, <1>12, <1>20, <1>24, <2>1
  <2>2. CASE Len(s) >= 2 /\ o2 = "connect"
    <3>1. P(2) = 0 /\ P(3) = 0
      BY <1>6, <1>8, <1>12, <1>19, <2>2
    <3> HIDE DEF P
    <3> QED
      BY <1>5, <1>6, <1>7, <1>12, <1>20, <1>24, <3>1
  <2>3. CASE Len(s) >= 2 /\ o2 = "sendall"
    <3>1. P(1) + 3 <= MostSends("send_chunks") /\ P(2) <= 3 /\ P(3) = 0
      BY <1>6, <1>7, <1>8, <1>12, <1>19, <1>24, <2>3
    <3> HIDE DEF P
    <3> QED
      BY <1>5, <1>6, <1>20, <1>24, <3>1
  <2> QED
    BY <2>1, <2>2, <2>3, <1>15, <1>24, <1>1
<1>25. CASE o1 \notin {"http_request", "query", "send_chunks"}
  <2>1. Len(s) >= 2 => P(2) = 0
    BY <1>6, <1>8, <1>12, <1>16, <1>25
  <2>2. P(2) = 0 /\ P(3) = 0
    BY <2>1, <1>10, <1>16, <1>19, <1>25, <1>1
  <2>3. P(1) <= 3 * Share(o1) /\ 3 * Share(o1) <= MostSends(o1)
    BY <1>7, <1>25 DEF Share, MostSends
  <2>4. Share(o1) \in {0, 1, 3, 9} /\ MostSends(o1) \in Nat
    BY <1>25, ShareType DEF MostSends
  <2> HIDE DEF P
  <2> QED
    BY <1>5, <1>6, <2>2, <2>3, <2>4
<1> QED
  BY <1>s, <1>22, <1>23, <1>24, <1>25

\* Only a call under it, or an exception on it, makes a difference to what a frame may have sent.
LEMMA OverOf ==
  ASSUME NEW f \in Frames
  PROVE  /\ \A d, e : Over(f, FALSE, d) = Over(f, FALSE, e)
         /\ \A top \in BOOLEAN : \A e : Over(f, top, e) \in Int
         /\ \A d, e : Over(f, TRUE, d) >= Over(f, FALSE, e)
<1>1. Tried(f) \in Int
  BY TriedInt
<1>2. \A d, e : Over(f, FALSE, d) = Over(f, FALSE, e)
  BY DEF Over
<1>3. \A top \in BOOLEAN : \A e : Over(f, top, e) \in {Tried(f), Tried(f) - 1}
  BY DEF Over
<1>4. \A d, e : Over(f, TRUE, d) = Tried(f) - 1 => Over(f, FALSE, e) = Tried(f) - 1
  <2> TAKE d, e
  <2> HAVE Over(f, TRUE, d) = Tried(f) - 1
  <2>1. /\ f.pc \notin {"start", "ready"} /\ ~(f.op = "send_chunks" /\ f.pc = "body")
        /\ f.pc \notin {"again", "sent", "done", "out"}
    BY <1>1 DEF Over
  <2> QED
    BY <2>1 DEF Over
<1>5. \A top \in BOOLEAN : \A e : Over(f, top, e) \in Int
  BY <1>1, <1>3
<1>6. \A d, e : Over(f, TRUE, d) >= Over(f, FALSE, e)
  <2> TAKE d, e
  <2>1. Over(f, TRUE, d) \in {Tried(f), Tried(f) - 1} /\ Over(f, FALSE, e) \in {Tried(f), Tried(f) - 1}
    BY <1>3
  <2>2. Over(f, TRUE, d) = Tried(f) - 1 => Over(f, FALSE, e) = Tried(f) - 1
    BY <1>4
  <2> DEFINE x == Over(f, TRUE, d)
             y == Over(f, FALSE, e)
             z == Tried(f)
  <2>3. z \in Int /\ x \in {z, z - 1} /\ y \in {z, z - 1} /\ (x = z - 1 => y = z - 1)
    BY <1>1, <2>1, <2>2
  <2> HIDE DEF x, y, z
  <2>4. x >= y
    BY <2>3
  <2> QED
    BY <2>4 DEF x, y
<1> QED
  BY <1>2, <1>5, <1>6

\* A stack without its connect is well formed, and begins with the same call.
LEMMA SendingOK ==
  ASSUME NEW s, StackOK(s), s # <<>>
  PROVE  /\ StackOK(Sending(s)) /\ Sending(s) # <<>> /\ D(Sending(s), 1) = D(s, 1)
         /\ TopOf(s).op # "connect" => Sending(s) = s
         /\ TopOf(s).op = "connect" /\ Tail(s) # <<>> => Sending(s) = Tail(s)
         /\ Tail(s) = <<>> => Sending(s) = s
         /\ Tail(s) # <<>> => Sending(Tail(s)) = Tail(s) /\ TopOf(Tail(s)).op # "connect"
<1>1. s \in Seq(Frames) /\ Len(s) \in Nat /\ Len(s) >= 1 /\ StackOK(Tail(s)) /\ (Tail(s) = <<>> <=> Len(s) = 1)
  BY FramesOf, PoppedOK, Popped DEF StackOK
<1>2. Len(s) > 1 => Tail(s) # <<>> /\ D(Tail(s), 1) = D(s, 1)
  <2> HAVE Len(s) > 1
  <2>1. \A d \in 1..(Len(s) - 1) : D(Tail(s), d) = D(s, d)
    BY <1>1, Popped
  <2>2. \A n \in Nat : n > 1 => 1 \in 1..(n - 1) /\ n # 1
    OBVIOUS
  <2> QED
    BY <2>1, <2>2, <1>1
<1>3. Tail(s) # <<>> => TopOf(Tail(s)).op # "connect"
  <2> HAVE Tail(s) # <<>>
  <2>1. CallOK(TopOf(Tail(s)), TopOf(s))
    BY CallerOf
  <2> QED
    BY <2>1 DEF CallOK, Callees, Decorated, Leaves
<1>4. Len(s) > 1 <=> Tail(s) # <<>>
  <2>1. \A n \in Nat : n >= 1 => (n > 1 <=> n # 1)
    OBVIOUS
  <2> QED
    BY <2>1, <1>1
<1> QED
  BY <1>1, <1>2, <1>3, <1>4 DEF Sending

\* A step of one user's keeps SendsInv if what it sends was left in the sum.
LEMMA SendsKept ==
  ASSUME Core, SendsInv, NEW u, Touches(u), Moves(stack[u], stack'[u]),
         stack'[u] # <<>> =>
           \/ sends'[u] = sends[u] /\ err'[u] = "error"
           \/ /\ err[u] # "error"
              /\ Sum(Sending(stack'[u]), err'[u]) >= Sum(Sending(stack[u]), err[u]) + (sends'[u] - sends[u])
  PROVE  SendsInv'
<1> DEFINE s == stack[u]
           t == stack'[u]
<1>1. u \in Users /\ StacksInv /\ setup' = setup /\ StackOK(s) /\ s # <<>> /\ StackOK(t)
  BY SetupFacts DEF Touches, Core, Moves
<1>2. \A w \in Users \ {u} : stack'[w] = stack[w] /\ err'[w] = err[w] /\ sends'[w] = sends[w]
  BY <1>1 DEF StacksInv, Touches
<1>3. sends[u] \in Nat /\ sends'[u] \in Nat
  BY <1>1 DEF StacksInv, Touches
<1> DEFINE a == Sum(Sending(s), err[u])
           b == Sum(Sending(t), err'[u])
<1>4. a \in Nat /\ a <= MostSends(D(s, 1).op)
  <2>1. StackOK(Sending(s)) /\ Sending(s) # <<>> /\ D(Sending(s), 1) = D(s, 1)
    BY <1>1, SendingOK
  <2> HIDE DEF s
  <2> QED
    BY <2>1, SumBound
<1>5. t # <<>> => b \in Nat /\ b <= MostSends(D(t, 1).op)
  <2> HAVE t # <<>>
  <2>1. StackOK(Sending(t)) /\ Sending(t) # <<>> /\ D(Sending(t), 1) = D(t, 1)
    BY <1>1, SendingOK
  <2> HIDE DEF t
  <2> QED
    BY <2>1, SumBound
<1>6. t # <<>> => D(t, 1).op = D(s, 1).op
  BY MovesFrames
<1>m. MostSends(D(s, 1).op) \in Nat
  BY MostType
<1>7. sends[u] <= MostSends(D(s, 1).op) /\ (err[u] # "error" => sends[u] <= a)
  BY <1>1 DEF SendsInv
<1>8. t # <<>> => /\ sends'[u] <= MostSends(D(t, 1).op)
                  /\ err'[u] # "error" => sends'[u] <= b
  <2> HAVE t # <<>>
  <2>1. CASE sends'[u] = sends[u] /\ err'[u] = "error"
    BY <2>1, <1>6, <1>7
  <2>2. CASE err[u] # "error" /\ b >= a + (sends'[u] - sends[u])
    <3> HIDE DEF a, b
    <3>1. sends'[u] <= b
      BY <2>2, <1>3, <1>4, <1>5, <1>7
    <3>2. MostSends(D(t, 1).op) \in Nat
      BY <1>6, <1>m
    <3> HIDE DEF t
    <3>3. sends'[u] <= MostSends(D(t, 1).op)
      BY <3>1, <3>2, <1>3, <1>5
    <3> QED
      BY <3>1, <3>3
  <2> QED
    BY <2>1, <2>2
<1>9. Async' = Async /\ setup' = setup
  BY <1>1 DEF Async
<1>10. \A w \in Users : stack'[w] # <<>> =>
         /\ sends'[w] <= MostSends(D(stack'[w], 1).op)
         /\ err'[w] # "error" => sends'[w] <= Sum(Sending(stack'[w]), err'[w])
  BY <1>2, <1>8, <1>1 DEF SendsInv
<1>12. \A w \in Users : Sending(stack[w])' = Sending(stack'[w])
  BY DEF Sending, TopOf
<1>11. \A w \in Users : /\ Sum(Sending(stack[w]), err[w])' = Sum(Sending(stack'[w]), err'[w])
                        /\ MostSends(D(stack[w], 1).op)' = MostSends(D(stack'[w], 1).op)
  BY <1>9, <1>12 DEF Sum, Part, Share, Over, Tried, Taken, Given, D, MostSends
<1> QED
  BY <1>10, <1>11 DEF SendsInv

\* A frame in which a send is tried is the third of the stack, at most.
LEMMA SendDepth ==
  ASSUME NEW s, StackOK(s), s # <<>>, TopOf(s).op = "sendall"
  PROVE  Len(s) <= 3
<1>1. s \in Seq(Frames) /\ Len(s) \in Nat /\ Len(s) >= 1 /\ TopOf(s) = D(s, Len(s))
  BY FramesOf DEF StackOK
<1> SUFFICES ASSUME Len(s) > 3 PROVE FALSE
  BY <1>1
<1> DEFINE n == Len(s)
<1>2. n - 1 \in 1..(Len(s) - 1) /\ n - 2 \in 1..(Len(s) - 1) /\ n - 1 + 1 = n /\ n - 2 + 1 = n - 1 /\ n - 1 \in 1..Len(s)
  BY <1>1
<1>3. CallOK(D(s, n - 1), D(s, n)) /\ CallOK(D(s, n - 2), D(s, n - 1))
  BY <1>2 DEF StackOK
<1>4. D(s, n - 1).op \in {"query", "send_chunks"}
  BY <1>1, <1>3, CalledOps
<1>5. D(s, n - 1).op = "query"
  BY <1>3, <1>4, CalledOps
<1>6. Rank(D(s, n - 1).op) + (n - 1) <= Rank(D(s, 1).op) + 1
  BY <1>2 DEF StackOK
<1>7. Rank("query") = 4 /\ Rank(D(s, 1).op) \in 1..5
  BY RankType DEF Rank, Leaves
<1> QED
  BY <1>1, <1>5, <1>6, <1>7

\* What the sum is, of the frames under the top, and of the top.
Under(s, n) == (IF 1 < n THEN Share(D(s, 1).op) * Over(D(s, 1), FALSE, "none") ELSE 0)
             + (IF 2 < n THEN Share(D(s, 2).op) * Over(D(s, 2), FALSE, "none") ELSE 0)
             + (IF 3 < n THEN Share(D(s, 3).op) * Over(D(s, 3), FALSE, "none") ELSE 0)
OnTop(f, n, e) == IF n <= 3 THEN Share(f.op) * Over(f, TRUE, e) ELSE 0

\* A share of an integer is an integer.
LEMMA TimesType ==
  ASSUME NEW op, NEW x \in Int
  PROVE  Share(op) * x \in Int
<1>1. Share(op) \in Int
  BY ShareType
<1> QED
  BY <1>1

\* The sum, taken apart into the top frame and those under it.
LEMMA SumParts ==
  ASSUME NEW s, StackOK(s), s # <<>>, NEW e
  PROVE  /\ Sum(s, e) = Under(s, Len(s)) + OnTop(TopOf(s), Len(s), e)
         /\ Under(s, Len(s)) \in Int /\ OnTop(TopOf(s), Len(s), e) \in Int
<1> DEFINE n == Len(s)
           U(d) == Share(D(s, d).op) * Over(D(s, d), FALSE, "none")
           V == Share(TopOf(s).op) * Over(TopOf(s), TRUE, e)
<1>1. s \in Seq(Frames) /\ n \in Nat /\ n >= 1 /\ TopOf(s) = D(s, n) /\ \A d \in 1..n : D(s, d) \in Frames
  BY FramesOf DEF StackOK
<1>2. \A d \in 1..n : U(d) \in Int
  <2> TAKE d \in 1..n
  <2>1. Over(D(s, d), FALSE, "none") \in Int
    BY <1>1, OverOf
  <2> QED
    BY <2>1, TimesType
<1>3. V \in Int
  <2>1. TopOf(s) \in Frames
    BY <1>1
  <2>2. Over(TopOf(s), TRUE, e) \in Int
    BY <2>1, OverOf
  <2> QED
    BY <2>2, TimesType
<1>4. \A d \in 1..n : Part(s, e, d) = IF d = n THEN V ELSE U(d)
  <2> TAKE d \in 1..n
  <2>1. CASE d = n
    BY <2>1, <1>1 DEF Part
  <2>2. CASE d # n
    <3>1. Over(D(s, d), d = n, e) = Over(D(s, d), FALSE, "none")
      BY <2>2, <1>1, OverOf
    <3> QED
      BY <2>2, <3>1 DEF Part
  <2> QED
    BY <2>1, <2>2
<1>5. \A d : d \notin 1..n => Part(s, e, d) = 0
  BY DEF Part
<1>6. Under(s, n) = (IF 1 < n THEN U(1) ELSE 0) + (IF 2 < n THEN U(2) ELSE 0) + (IF 3 < n THEN U(3) ELSE 0)
  BY DEF Under
<1>7. OnTop(TopOf(s), n, e) = IF n <= 3 THEN V ELSE 0
  BY DEF OnTop
<1>8. \A d \in {1, 2, 3} : d < n => U(d) \in Int
  <2> TAKE d \in {1, 2, 3}
  <2> HAVE d < n
  <2>1. d \in 1..n
    BY <1>1
  <2> QED
    BY <2>1, <1>2
<1>9. Sum(s, e) = Part(s, e, 1) + Part(s, e, 2) + Part(s, e, 3)
  BY DEF Sum
<1>10. \A d \in {1, 2, 3} : Part(s, e, d) = IF d < n THEN U(d) ELSE IF d = n THEN V ELSE 0
  <2> TAKE d \in {1, 2, 3}
  <2>1. d \in 1..n <=> d < n \/ d = n
    BY <1>1
  <2>2. d < n => d # n
    BY <1>1
  <2> HIDE DEF U, V
  <2> QED
    BY <2>1, <2>2, <1>4, <1>5
<1> HIDE DEF U, V
<1>11. Under(s, n) \in Int
  BY <1>1, <1>6, <1>8
<1>12. OnTop(TopOf(s), n, e) \in Int
  BY <1>3, <1>7
<1>13. Sum(s, e) = (IF 1 < n THEN U(1) ELSE IF n = 1 THEN V ELSE 0)
                 + (IF 2 < n THEN U(2) ELSE IF n = 2 THEN V ELSE 0)
                 + (IF 3 < n THEN U(3) ELSE IF n = 3 THEN V ELSE 0)
  BY <1>1, <1>9, <1>10
<1> HIDE DEF n
<1>14. Sum(s, e) = Under(s, n) + OnTop(TopOf(s), n, e)
  <2>1. CASE n = 1
    BY <2>1, <1>3, <1>6, <1>7, <1>13
  <2>2. CASE n = 2
    BY <2>2, <1>3, <1>6, <1>7, <1>8, <1>13
  <2>3. CASE n = 3
    BY <2>3, <1>3, <1>6, <1>7, <1>8, <1>13
  <2>4. CASE n > 3
    BY <2>4, <1>1, <1>6, <1>7, <1>8, <1>13
  <2> QED
    BY <1>1, <2>1, <2>2, <2>3, <2>4
<1> QED
  BY <1>11, <1>12, <1>14 DEF n

\* More tries allow no fewer sends.
LEMMA TimesMono ==
  ASSUME NEW op, NEW x \in Int, NEW y \in Int, x >= y
  PROVE  Share(op) * x >= Share(op) * y
<1>1. Share(op) \in {0, 1, 3, 9}
  BY ShareType
<1>2. CASE Share(op) = 0
  BY <1>2
<1>3. CASE Share(op) = 1
  BY <1>3
<1>4. CASE Share(op) = 3
  BY <1>4
<1>5. CASE Share(op) = 9
  BY <1>5
<1> QED
  BY <1>1, <1>2, <1>3, <1>4, <1>5

\* The frames under the top one, if they stay, allow the same.
LEMMA UnderSame ==
  ASSUME NEW s, NEW t, NEW n \in Nat, \A d \in 1..(n - 1) : D(t, d) = D(s, d)
  PROVE  Under(t, n) = Under(s, n)
<1>1. 1 < n => D(t, 1) = D(s, 1)
  OBVIOUS
<1>2. 2 < n => D(t, 2) = D(s, 2)
  OBVIOUS
<1>3. 3 < n => D(t, 3) = D(s, 3)
  OBVIOUS
<1> QED
  BY <1>1, <1>2, <1>3 DEF Under

\* One frame more.
LEMMA UnderNext ==
  ASSUME NEW s, NEW n \in Nat, n >= 1, \A d \in 1..n : D(s, d) \in Frames
  PROVE  /\ Under(s, n) \in Int
         /\ Under(s, n + 1) = Under(s, n) +
              (IF n <= 3 THEN Share(D(s, n).op) * Over(D(s, n), FALSE, "none") ELSE 0)
<1> DEFINE U(d) == Share(D(s, d).op) * Over(D(s, d), FALSE, "none")
<1>1. \A d \in {1, 2, 3} : d <= n => U(d) \in Int
  <2> TAKE d \in {1, 2, 3}
  <2> HAVE d <= n
  <2>1. D(s, d) \in Frames
    OBVIOUS
  <2>2. Over(D(s, d), FALSE, "none") \in Int
    BY <2>1, OverOf
  <2> QED
    BY <2>2, TimesType
<1>2. Under(s, n) = (IF 1 < n THEN U(1) ELSE 0) + (IF 2 < n THEN U(2) ELSE 0) + (IF 3 < n THEN U(3) ELSE 0)
  BY DEF Under
<1>3. Under(s, n + 1) = (IF 1 < n + 1 THEN U(1) ELSE 0) + (IF 2 < n + 1 THEN U(2) ELSE 0) + (IF 3 < n + 1 THEN U(3) ELSE 0)
  BY DEF Under
<1> HIDE DEF U
<1>4. Under(s, n) \in Int
  BY <1>1, <1>2
<1>5. Under(s, n + 1) = Under(s, n) + (IF n <= 3 THEN U(n) ELSE 0)
  <2>1. CASE n = 1
    BY <2>1, <1>1, <1>2, <1>3
  <2>2. CASE n = 2
    BY <2>2, <1>1, <1>2, <1>3
  <2>3. CASE n = 3
    BY <2>3, <1>1, <1>2, <1>3
  <2>4. CASE n > 3
    BY <2>4, <1>1, <1>2, <1>3
  <2> QED
    BY <2>1, <2>2, <2>3, <2>4
<1> QED
  BY <1>4, <1>5 DEF U

\* The top frame goes on, with a send or without.
LEMMA GoesSends ==
  ASSUME Core, SendsInv, NEW u, Touches(u), stack[u] # <<>>, TopOf(stack[u]).op # "connect", NEW f \in Frames, FrameOK(f),
         f.op = TopOf(stack[u]).op, f.sock = TopOf(stack[u]).sock, stack'[u] = <<f>> \o Tail(stack[u]),
         \/ sends'[u] = sends[u] /\ err'[u] = "error"
         \/ err[u] # "error" /\ sends'[u] = sends[u] /\ Share(f.op) = 0
         \/ err[u] # "error" /\ sends'[u] = sends[u] /\ Over(f, TRUE, err'[u]) >= Over(TopOf(stack[u]), TRUE, err[u])
         \/ /\ err[u] # "error" /\ f.op = "sendall" /\ sends'[u] = sends[u] + 1
            /\ Over(f, TRUE, err'[u]) >= Over(TopOf(stack[u]), TRUE, err[u]) + 1
  PROVE  SendsInv'
<1> DEFINE s == stack[u]
           n == Len(s)
           t == <<f>> \o Tail(s)
           x == Over(f, TRUE, err'[u])
           y == Over(TopOf(s), TRUE, err[u])
<1>1. u \in Users /\ StackOK(s) /\ s \in Seq(Frames)
  BY SetupFacts DEF Touches, Core, StacksInv
<1>2. StackOK(t)
  BY <1>1, ReplacedOK
<1>3. Len(t) = n /\ TopOf(t) = f /\ t # <<>> /\ n \in Nat /\ n >= 1 /\ TopOf(s) \in Frames
      /\ \A d \in 1..(n - 1) : D(t, d) = D(s, d)
  BY <1>1, Replaced, FramesOf
<1>4. Moves(s, t)
  BY <1>1, <1>2 DEF Moves, Goes
<1>5. Under(t, n) = Under(s, n)
  BY <1>3, UnderSame
<1>6. /\ Sum(t, err'[u]) = Under(t, n) + OnTop(f, n, err'[u]) /\ OnTop(f, n, err'[u]) \in Int
      /\ Sum(s, err[u]) = Under(s, n) + OnTop(TopOf(s), n, err[u]) /\ OnTop(TopOf(s), n, err[u]) \in Int
      /\ Under(s, n) \in Int
  <2> HIDE DEF t
  <2> QED
    BY <1>1, <1>2, <1>3, SumParts
<1>7. x \in Int /\ y \in Int
  BY <1>3, OverOf
<1>8. sends[u] \in Nat /\ sends'[u] \in Nat
  BY <1>1 DEF Core, StacksInv, Touches
<1>o. /\ OnTop(f, n, err'[u]) = IF n <= 3 THEN Share(f.op) * x ELSE 0
      /\ OnTop(TopOf(s), n, err[u]) = IF n <= 3 THEN Share(f.op) * y ELSE 0
  BY DEF OnTop
<1> HIDE DEF n, t, x, y
<1>9. ~(sends'[u] = sends[u] /\ err'[u] = "error") =>
        err[u] # "error" /\ Sum(t, err'[u]) >= Sum(s, err[u]) + (sends'[u] - sends[u])
  <2> SUFFICES ASSUME ~(sends'[u] = sends[u] /\ err'[u] = "error")
               PROVE  err[u] # "error" /\ Sum(t, err'[u]) >= Sum(s, err[u]) + (sends'[u] - sends[u])
    OBVIOUS
  <2>1. CASE err[u] # "error" /\ sends'[u] = sends[u] /\ x >= y
    <3>1. Share(f.op) * x >= Share(f.op) * y
      BY <2>1, <1>7, TimesMono
    <3>2. OnTop(f, n, err'[u]) >= OnTop(TopOf(s), n, err[u])
      BY <3>1, <1>o
    <3> QED
      BY <2>1, <3>2, <1>5, <1>6, <1>8
  <2>3. CASE err[u] # "error" /\ sends'[u] = sends[u] /\ Share(f.op) = 0
    <3>1. Share(f.op) * x = 0 /\ Share(f.op) * y = 0
      BY <2>3, <1>7
    <3>2. OnTop(f, n, err'[u]) = 0 /\ OnTop(TopOf(s), n, err[u]) = 0
      BY <3>1, <1>o
    <3> QED
      BY <2>3, <3>2, <1>5, <1>6, <1>8
  <2>2. CASE err[u] # "error" /\ f.op = "sendall" /\ sends'[u] = sends[u] + 1 /\ x >= y + 1
    <3>1. n <= 3
      BY <2>2, <1>1, SendDepth DEF n
    <3>2. Share(f.op) = 1
      BY <2>2 DEF Share
    <3>3. OnTop(f, n, err'[u]) = x /\ OnTop(TopOf(s), n, err[u]) = y
      BY <3>1, <3>2, <1>7, <1>o
    <3> QED
      BY <2>2, <3>3, <1>5, <1>6, <1>7, <1>8
  <2> QED
    BY <2>1, <2>2, <2>3 DEF x, y
<1>t. stack'[u] = t
  BY DEF t
<1>u. Sending(s) = s /\ Sending(t) = t
  BY <1>1, <1>2, <1>3, SendingOK
<1> QED
  BY <1>4, <1>9, <1>t, <1>u, SendsKept

\* The top frame calls.
LEMMA PushSends ==
  ASSUME Core, SendsInv, NEW u, Touches(u), stack[u] # <<>>, TopOf(stack[u]).op # "connect", NEW f \in Frames, FrameOK(f),
         f.op = TopOf(stack[u]).op, f.sock = TopOf(stack[u]).sock,
         NEW g \in Frames, g.op # "connect", FrameOK(g), CallOK(f, g), Rank(g.op) < Rank(f.op), \A x \in Trackers : ~Inside(g, x),
         stack'[u] = <<g, f>> \o Tail(stack[u]),
         sends'[u] = sends[u], err[u] # "error",
         Share(f.op) = 0 \/ Over(f, FALSE, "none") >= Over(TopOf(stack[u]), TRUE, err[u]), Over(g, TRUE, err'[u]) >= 0
  PROVE  SendsInv'
<1> DEFINE s == stack[u]
           n == Len(s)
           t == <<g, f>> \o Tail(s)
           x == Over(f, FALSE, "none")
           y == Over(TopOf(s), TRUE, err[u])
<1>1. u \in Users /\ StackOK(s) /\ s \in Seq(Frames)
  BY SetupFacts DEF Touches, Core, StacksInv
<1>2. StackOK(t)
  BY <1>1, CalledOK
<1>3. Len(t) = n + 1 /\ TopOf(t) = g /\ t # <<>> /\ n \in Nat /\ n >= 1 /\ TopOf(s) \in Frames /\ D(t, n) = f
      /\ \A d \in 1..(n - 1) : D(t, d) = D(s, d)
  BY <1>1, Called, FramesOf
<1>4. Moves(s, t)
  BY <1>1, <1>2 DEF Moves, Pushes
<1>5. Under(t, n) = Under(s, n)
  BY <1>3, UnderSame
<1>d. \A d \in 1..n : D(t, d) \in Frames
  <2> HIDE DEF t
  <2>1. t \in Seq(Frames)
    BY <1>2 DEF StackOK
  <2>2. \A d \in 1..Len(t) : D(t, d) \in Frames
    BY <2>1, FramesOf
  <2> QED
    BY <2>2, <1>3
<1>6. /\ Sum(t, err'[u]) = Under(t, n + 1) + OnTop(g, n + 1, err'[u]) /\ OnTop(g, n + 1, err'[u]) \in Int
      /\ Sum(s, err[u]) = Under(s, n) + OnTop(TopOf(s), n, err[u]) /\ OnTop(TopOf(s), n, err[u]) \in Int
      /\ Under(s, n) \in Int
  <2> HIDE DEF t
  <2> QED
    BY <1>1, <1>2, <1>3, SumParts
<1>7. x \in Int /\ y \in Int
  BY <1>3, OverOf
<1>8. sends[u] \in Nat /\ sends'[u] \in Nat
  BY <1>1 DEF Core, StacksInv, Touches
<1>o. OnTop(TopOf(s), n, err[u]) = IF n <= 3 THEN Share(f.op) * y ELSE 0
  BY DEF OnTop
<1> HIDE DEF n, t, x, y
<1>9. Under(t, n + 1) = Under(t, n) + (IF n <= 3 THEN Share(f.op) * x ELSE 0)
  BY <1>3, <1>d, UnderNext DEF x
<1>10. OnTop(g, n + 1, err'[u]) >= 0
  <2> DEFINE z == Over(g, TRUE, err'[u])
  <2>5. 0 \in Int
    OBVIOUS
  <2>0. z >= 0
    OBVIOUS
  <2>1. z \in Int
    <3>1. g \in Frames
      OBVIOUS
    <3>2. \A e : Over(g, TRUE, e) \in Int
      BY <3>1, OverOf
    <3> QED
      BY <3>2
  <2>2. OnTop(g, n + 1, err'[u]) = IF n + 1 <= 3 THEN Share(g.op) * z ELSE 0
    BY DEF OnTop
  <2> HIDE DEF z
  <2>3. Share(g.op) * z >= Share(g.op) * 0
    BY <2>0, <2>1, TimesMono, <2>5
  <2>4. Share(g.op) * 0 = 0
    BY ShareType
  <2> QED
    BY <2>2, <2>3, <2>4
<1>11. (IF n <= 3 THEN Share(f.op) * x ELSE 0) >= OnTop(TopOf(s), n, err[u])
  <2>0. Share(f.op) = 0 \/ x >= y
    BY DEF x, y
  <2>1. Share(f.op) * x >= Share(f.op) * y
    <3>1. CASE x >= y
      BY <3>1, <1>7, TimesMono
    <3>2. CASE Share(f.op) = 0
      <4>1. 0 * x = 0 /\ 0 * y = 0
        BY <1>7
      <4> QED
        BY <3>2, <4>1
    <3> QED
      BY <2>0, <3>1, <3>2
  <2> QED
    BY <2>1, <1>o
<1>12. (IF n <= 3 THEN Share(f.op) * x ELSE 0) \in Int
  BY <1>7, TimesType
<1>13. Sum(t, err'[u]) >= Sum(s, err[u]) + (sends'[u] - sends[u])
  <2> DEFINE k == IF n <= 3 THEN Share(f.op) * x ELSE 0
             j == OnTop(g, n + 1, err'[u])
             h == OnTop(TopOf(s), n, err[u])
             b == Under(s, n)
  <2>1. k \in Int /\ j \in Int /\ h \in Int /\ b \in Int /\ j >= 0 /\ k >= h
    BY <1>6, <1>10, <1>11, <1>12
  <2>2. Sum(t, err'[u]) = b + k + j /\ Sum(s, err[u]) = b + h /\ sends'[u] - sends[u] = 0
    BY <1>5, <1>6, <1>8, <1>9
  <2> HIDE DEF k, j, h, b
  <2> QED
    BY <2>1, <2>2
<1>t. stack'[u] = t
  BY DEF t
<1>u. Sending(s) = s /\ Sending(t) = t
  BY <1>1, <1>2, <1>3, SendingOK
<1> QED
  BY <1>4, <1>13, <1>t, <1>u, SendsKept

\* A caller may send as much again as its callee may.
LEMMA CallerShare ==
  ASSUME NEW c \in Frames, FrameOK(c), NEW f \in Frames, FrameOK(f), CallOK(c, f), Share(f.op) # 0
  PROVE  /\ \A d, e : Over(c, TRUE, d) = Over(c, FALSE, e) + 1
         /\ Share(c.op) >= IF Handed(f) THEN 1 ELSE 3 * Share(f.op)
<1>1. f.op \in {"http_request", "query", "send_chunks", "sendall"}
  BY ShareOps
<1>2. \/ c.op = "http_request" /\ f.op = "query" /\ c.pc = "out"
      \/ c.op = "query" /\ f.op = "sendall" /\ c.pc = "sent" /\ (Async => Handed(f))
      \/ c.op = "send_chunks" /\ f.op = "sendall" /\ c.pc = "again"
  BY <1>1, CalledOps
<1>3. Tried(c) \in Int
  BY TriedInt
<1>4. \A d, e : Over(c, TRUE, d) = Tried(c) /\ Over(c, FALSE, e) = Tried(c) - 1
  BY <1>2 DEF Over
<1>5. Share(c.op) >= IF Handed(f) THEN 1 ELSE 3 * Share(f.op)
  BY <1>2 DEF Share
<1>6. \A d, e : Over(c, TRUE, d) = Over(c, FALSE, e) + 1
  <2> TAKE d, e
  <2> DEFINE x == Over(c, TRUE, d)
             y == Over(c, FALSE, e)
             z == Tried(c)
  <2>1. x = z /\ y = z - 1 /\ z \in Int
    BY <1>3, <1>4
  <2> HIDE DEF x, y, z
  <2>2. x = y + 1
    BY <2>1
  <2> QED
    BY <2>2 DEF x, y
<1> QED
  BY <1>5, <1>6

\* The top frame leaves.
LEMMA PopSends ==
  ASSUME Core, SendsInv, NEW u, Touches(u), stack[u] # <<>>, TopOf(stack[u]).op # "connect" \/ Len(stack[u]) = 1, stack'[u] = Tail(stack[u]),
         \/ Len(stack[u]) = 1
         \/ sends'[u] = sends[u] /\ (err'[u] = "error" \/ (err[u] # "error" /\ Share(TopOf(stack[u]).op) = 0))
         \/ /\ sends'[u] - sends[u] \in {0, 1} /\ err[u] # "error" /\ Share(TopOf(stack[u]).op) # 0
            /\ Share(TopOf(stack[u]).op) * Over(TopOf(stack[u]), TRUE, err[u]) + (sends'[u] - sends[u])
                 <= IF Handed(TopOf(stack[u])) THEN 1 ELSE 3 * Share(TopOf(stack[u]).op)
  PROVE  SendsInv'
<1> DEFINE s == stack[u]
           n == Len(s)
           t == Tail(s)
           f == TopOf(s)
<1>1. u \in Users /\ StackOK(s) /\ s \in Seq(Frames) /\ sends[u] \in Nat /\ sends'[u] \in Nat
  BY SetupFacts DEF Touches, Core, StacksInv
<1>2. StackOK(t)
  BY <1>1, PoppedOK
<1>4. Moves(s, t)
  BY <1>1, <1>2 DEF Moves
<1>3. t # <<>> /\ err[u] # "error" /\ ~(sends'[u] = sends[u] /\ err'[u] = "error")
         => Sum(t, err'[u]) >= Sum(s, err[u]) + (sends'[u] - sends[u])
  <2>0. t # <<>> => Len(s) # 1
    BY <1>1, Popped
  <2> SUFFICES ASSUME t # <<>>, err[u] # "error", ~(sends'[u] = sends[u] /\ err'[u] = "error")
               PROVE  Sum(t, err'[u]) >= Sum(s, err[u]) + (sends'[u] - sends[u])
    OBVIOUS
  <2> DEFINE c == TopOf(t)
             m == n - 1
             x == Over(c, TRUE, err'[u])
             y == Over(c, FALSE, "none")
             z == Over(f, TRUE, err[u])
             dl == sends'[u] - sends[u]
  <2>1. /\ n \in Nat /\ n >= 2 /\ Len(t) = m /\ m \in Nat /\ m >= 1 /\ c = D(s, m)
        /\ \A d \in 1..m : D(t, d) = D(s, d)
    BY <1>1, Popped, FramesOf
  <2>2. CallOK(c, f) /\ FrameOK(c) /\ FrameOK(f) /\ f \in Frames
    BY <1>1, CallerOf
  <2>3. \A d \in 1..n : D(s, d) \in Frames
    BY <1>1, FramesOf
  <2>4. c \in Frames
    BY <2>1, <2>3
  <2>5. /\ Sum(t, err'[u]) = Under(t, m) + OnTop(c, m, err'[u])
        /\ Sum(s, err[u]) = Under(s, n) + OnTop(f, n, err[u])
    <3> HIDE DEF t
    <3> QED
      BY <1>1, <1>2, <2>1, SumParts
  <2>6. Under(t, m) = Under(s, m)
    BY <2>1, UnderSame
  <2>7. /\ Under(s, m) \in Int
        /\ Under(s, m + 1) = Under(s, m) + (IF m <= 3 THEN Share(c.op) * y ELSE 0)
    <3>1. \A d \in 1..m : D(s, d) \in Frames
      BY <2>1, <2>3
    <3> QED
      BY <2>1, <3>1, UnderNext
  <2>8. m + 1 = n
    BY <2>1
  <2>9. x \in Int /\ y \in Int
    <3>1. \A e : Over(c, TRUE, e) \in Int /\ Over(c, FALSE, e) \in Int
      BY <2>4, OverOf
    <3> QED
      BY <3>1
  <2>10. z \in Int
    <3>1. \A e : Over(f, TRUE, e) \in Int
      BY <2>2, OverOf
    <3> QED
      BY <3>1
  <2>11. x >= y
    <3>1. \A d, e : Over(c, TRUE, d) >= Over(c, FALSE, e)
      BY <2>4, OverOf
    <3> QED
      BY <3>1
  <2>12. OnTop(c, m, err'[u]) = IF m <= 3 THEN Share(c.op) * x ELSE 0
    BY DEF OnTop
  <2>13. OnTop(f, n, err[u]) = IF n <= 3 THEN Share(f.op) * z ELSE 0
    BY DEF OnTop
  <2>14. \/ dl = 0 /\ Share(f.op) = 0
         \/ /\ dl \in {0, 1} /\ Share(f.op) # 0
            /\ Share(f.op) * z + dl <= IF Handed(f) THEN 1 ELSE 3 * Share(f.op)
    <3>1. \/ sends'[u] = sends[u] /\ Share(f.op) = 0
          \/ /\ dl \in {0, 1} /\ Share(f.op) # 0
             /\ Share(f.op) * z + dl <= IF Handed(f) THEN 1 ELSE 3 * Share(f.op)
      BY <2>0
    <3>2. sends'[u] = sends[u] => dl = 0
      BY <1>1
    <3> HIDE DEF dl, z
    <3> QED
      BY <3>1, <3>2
  <2>15. Share(f.op) # 0 => x = y + 1 /\ Share(c.op) >= IF Handed(f) THEN 1 ELSE 3 * Share(f.op)
    <3> HAVE Share(f.op) # 0
    <3>1. /\ \A d, e : Over(c, TRUE, d) = Over(c, FALSE, e) + 1
          /\ Share(c.op) >= IF Handed(f) THEN 1 ELSE 3 * Share(f.op)
      BY <2>2, <2>4, CallerShare
    <3>2. x = y + 1
      BY <3>1
    <3> QED
      BY <3>1, <3>2
  <2>16. f.op = "sendall" => n <= 3
    BY <1>1, SendDepth
  <2>17. Share(f.op) # 0 => m <= 3
    <3> HAVE Share(f.op) # 0
    <3>1. c.op \in {"http_request", "query", "send_chunks"}
      BY <2>2, CalledOps, ShareOps
    <3>2. m \in 1..Len(s)
      BY <2>1
    <3>3. Rank(c.op) + m <= Rank(D(s, 1).op) + 1
      BY <1>1, <2>1, <3>2 DEF StackOK
    <3>4. Rank(c.op) \in {3, 4, 5} /\ Rank(D(s, 1).op) \in 1..5
      BY <3>1, RankType DEF Rank, Leaves
    <3> QED
      BY <2>1, <3>3, <3>4
  <2>18. Share(f.op) \in Int /\ Share(c.op) \in Int
    BY ShareType
  <2>19. Share(c.op) * x \in Int /\ Share(c.op) * y \in Int /\ Share(f.op) * z \in Int
    BY <2>9, <2>10, TimesType
  <2>20. Share(c.op) * x >= Share(c.op) * y
    BY <2>9, <2>11, TimesMono
  <2>21. Share(f.op) # 0 => Share(c.op) * x = Share(c.op) * y + Share(c.op)
    <3> HAVE Share(f.op) # 0
    <3>1. x = y + 1
      BY <2>15
    <3> DEFINE q == Share(c.op)
    <3>2. q \in Int /\ y \in Int
      BY <2>9, <2>18
    <3> HIDE DEF q, x, y
    <3>3. q * x = q * y + q
      BY <3>1, <3>2
    <3> QED
      BY <3>3 DEF q
  <2>22. Share(f.op) = 0 => Share(f.op) * z = 0
    <3> HIDE DEF z
    <3> QED
      BY <2>10
  <2>23. dl = 0 \/ dl = 1
    BY <2>14
  <2> DEFINE cx == Share(c.op) * x
             cy == Share(c.op) * y
             fz == Share(f.op) * z
             sc == Share(c.op)
             sf == Share(f.op)
             b == Under(s, m)
  <2>24. /\ Sum(t, err'[u]) = b + (IF m <= 3 THEN cx ELSE 0)
         /\ Sum(s, err[u]) = (b + (IF m <= 3 THEN cy ELSE 0)) + (IF n <= 3 THEN fz ELSE 0)
    BY <2>5, <2>6, <2>7, <2>8, <2>12, <2>13
  <2>25. /\ cx \in Int /\ cy \in Int /\ fz \in Int /\ sc \in Int /\ sf \in Int /\ b \in Int /\ cx >= cy
         /\ (sf # 0 => m <= 3 /\ cx = cy + sc) /\ (sf = 0 => fz = 0 /\ dl = 0)
    BY <2>7, <2>14, <2>17, <2>18, <2>19, <2>20, <2>21, <2>22
  <2>26. sf # 0 => fz + dl <= sc /\ dl <= sc
    <3> HAVE sf # 0
    <3>1. fz + dl <= IF Handed(f) THEN 1 ELSE 3 * sf
      <4> HIDE DEF dl, z
      <4> QED
        BY <2>14
    <3>2. sc >= IF Handed(f) THEN 1 ELSE 3 * sf
      BY <2>15
    <3>3. sf >= 1
      BY ShareType
    <3> HIDE DEF cx, cy, fz, sc, sf, b, dl
    <3> QED
      BY <3>1, <3>2, <3>3, <2>23, <2>25
  <2> HIDE DEF cx, cy, fz, sc, sf, b, dl, m, n
  <2>27. b + (IF m <= 3 THEN cx ELSE 0) >= ((b + (IF m <= 3 THEN cy ELSE 0)) + (IF n <= 3 THEN fz ELSE 0)) + dl
    <3>1. CASE sf = 0
      BY <3>1, <2>25
    <3>2. CASE sf # 0
      <4>1. m <= 3 /\ cx = cy + sc /\ fz + dl <= sc /\ dl <= sc
        BY <3>2, <2>25, <2>26
      <4> QED
        BY <4>1, <2>23, <2>25
    <3> QED
      BY <3>1, <3>2
  <2> QED
    BY <2>24, <2>27 DEF dl
<1>5. stack'[u] # <<>> =>
        \/ sends'[u] = sends[u] /\ err'[u] = "error"
        \/ err[u] # "error" /\ Sum(stack'[u], err'[u]) >= Sum(s, err[u]) + (sends'[u] - sends[u])
  <2>1. t # <<>> => Len(s) # 1
    BY <1>1, Popped
  <2>2. t # <<>> => (sends'[u] = sends[u] /\ err'[u] = "error") \/ err[u] # "error"
    BY <2>1
  <2> QED
    BY <1>3, <2>2
<1>6. Sending(s) = s /\ (stack'[u] # <<>> => Sending(stack'[u]) = stack'[u])
  <2>1. Len(s) = 1 => Tail(s) = <<>>
    BY <1>1, Popped
  <2> QED
    BY <1>1, <2>1, SendingOK
<1> QED
  BY <1>4, <1>5, <1>6, SendsKept

\* What is under the top frame.
LEMMA TailOf ==
  ASSUME NEW f \in Frames, NEW g \in Frames, NEW r \in Seq(Frames)
  PROVE  Tail(<<f>> \o r) = r /\ Tail(<<g, f>> \o r) = <<f>> \o r /\ <<f>> \o r # <<>>
<1>1. Tail(<<f>> \o r) = r
  OBVIOUS
<1>2. Tail(<<g, f>> \o r) = <<f>> \o r
  OBVIOUS
<1>3. <<f>> \o r # <<>>
  OBVIOUS
<1> QED
  BY <1>1, <1>2, <1>3

\* What a stack allows when its top frame goes on.
LEMMA SumGoes ==
  ASSUME NEW s, StackOK(s), s # <<>>, NEW f \in Frames, FrameOK(f), f.op = TopOf(s).op, f.sock = TopOf(s).sock,
         NEW d, NEW e, Share(f.op) = 0 \/ Over(f, TRUE, d) >= Over(TopOf(s), TRUE, e)
  PROVE  Sum(<<f>> \o Tail(s), d) >= Sum(s, e)
<1> DEFINE n == Len(s)
           t == <<f>> \o Tail(s)
           x == Over(f, TRUE, d)
           y == Over(TopOf(s), TRUE, e)
<1>1. s \in Seq(Frames) /\ StackOK(t)
  BY ReplacedOK DEF StackOK
<1>2. Len(t) = n /\ TopOf(t) = f /\ t # <<>> /\ n \in Nat /\ n >= 1 /\ TopOf(s) \in Frames
      /\ \A i \in 1..(n - 1) : D(t, i) = D(s, i)
  BY <1>1, Replaced, FramesOf
<1>3. Under(t, n) = Under(s, n)
  BY <1>2, UnderSame
<1>4. /\ Sum(t, d) = Under(t, n) + OnTop(f, n, d) /\ OnTop(f, n, d) \in Int
      /\ Sum(s, e) = Under(s, n) + OnTop(TopOf(s), n, e) /\ OnTop(TopOf(s), n, e) \in Int
      /\ Under(s, n) \in Int
  <2> HIDE DEF t
  <2> QED
    BY <1>1, <1>2, SumParts
<1>5. x \in Int /\ y \in Int
  BY <1>2, OverOf
<1>6. /\ OnTop(f, n, d) = IF n <= 3 THEN Share(f.op) * x ELSE 0
      /\ OnTop(TopOf(s), n, e) = IF n <= 3 THEN Share(f.op) * y ELSE 0
  BY DEF OnTop
<1>7. Share(f.op) = 0 \/ x >= y
  OBVIOUS
<1> HIDE DEF n, t, x, y
<1>8. Share(f.op) * x >= Share(f.op) * y
  <2>1. CASE x >= y
    BY <2>1, <1>5, TimesMono
  <2>2. CASE Share(f.op) = 0
    <3>1. 0 * x = 0 /\ 0 * y = 0
      BY <1>5
    <3> QED
      BY <2>2, <3>1
  <2> QED
    BY <1>7, <2>1, <2>2
<1>9. OnTop(f, n, d) >= OnTop(TopOf(s), n, e)
  BY <1>6, <1>8
<1>10. Sum(t, d) >= Sum(s, e)
  BY <1>3, <1>4, <1>9
<1> QED
  BY <1>10 DEF t

\* connect makes no difference to what its caller may send.
LEMMA ConnectSends ==
  ASSUME Core, SendsInv, NEW u, Touches(u), Moves(stack[u], stack'[u]), sends'[u] = sends[u], err[u] # "error",
         \/ /\ TopOf(stack[u]).op = "connect" /\ err[u] = "none"
            /\ stack'[u] = Tail(stack[u]) \/ Goes(stack[u], stack'[u])
         \/ /\ TopOf(stack[u]).op # "connect"
            /\ \E f, g \in Frames : /\ stack'[u] = <<g, f>> \o Tail(stack[u]) /\ g.op = "connect" /\ FrameOK(f)
                                    /\ f.op = TopOf(stack[u]).op /\ f.sock = TopOf(stack[u]).sock
                                    /\ Share(f.op) = 0 \/ Over(f, TRUE, err'[u]) >= Over(TopOf(stack[u]), TRUE, err[u])
  PROVE  SendsInv'
<1> DEFINE s == stack[u]
           t == stack'[u]
           a == Sum(Sending(s), err[u])
           b == Sum(Sending(t), err'[u])
<1>1. u \in Users /\ StackOK(s) /\ StackOK(t) /\ s # <<>> /\ s \in Seq(Frames) /\ sends[u] \in Nat
  BY SetupFacts DEF Touches, Core, StacksInv, Moves
<1>2. a \in Nat
  <2>1. StackOK(Sending(s)) /\ Sending(s) # <<>>
    BY <1>1, SendingOK
  <2> HIDE DEF s
  <2> QED
    BY <2>1, SumBound
<1>3. \A r : StackOK(r) /\ r # <<>> => Sum(r, err'[u]) >= Sum(r, "none")
  <2> SUFFICES ASSUME NEW r, StackOK(r), r # <<>> PROVE Sum(r, err'[u]) >= Sum(r, "none")
    OBVIOUS
  <2> DEFINE h == TopOf(r)
  <2>1. h \in Frames /\ FrameOK(h)
    BY CallerOf
  <2>2. r = <<h>> \o Tail(r)
    BY DEF StackOK, TopOf
  <2>3. Over(h, TRUE, err'[u]) >= Over(h, TRUE, "none")
    <3> DEFINE x == Over(h, TRUE, err'[u])
               y == Over(h, TRUE, "none")
    <3>0. TRUE \in BOOLEAN
      OBVIOUS
    <3>1. y \in Int /\ Tried(h) \in Int
      <4>1. y \in Int
        BY <2>1, <3>0, OverOf
      <4>2. Tried(h) \in Int
        BY <2>1, TriedInt
      <4> QED
        BY <4>1, <4>2
    <3>2. x = y \/ (y = Tried(h) - 1 /\ x = Tried(h))
      BY DEF Over
    <3> HIDE DEF x, y
    <3>3. x >= y
      BY <3>1, <3>2
    <3> QED
      BY <3>3 DEF x, y
  <2> HIDE DEF h
  <2>4. Sum(<<h>> \o Tail(r), err'[u]) >= Sum(r, "none")
    BY <2>1, <2>3, SumGoes DEF h
  <2> QED
    BY <2>2, <2>4
<1>4. t # <<>> => b >= a
  <2> HAVE t # <<>>
  <2>1. CASE TopOf(s).op = "connect" /\ err[u] = "none" /\ t = Tail(s)
    <3>1. Sending(t) = Tail(s) /\ Sending(s) = Tail(s)
      BY <1>1, <2>1, SendingOK
    <3> QED
      BY <1>1, <1>3, <2>1, <3>1
  <2>2. CASE TopOf(s).op = "connect" /\ err[u] = "none" /\ Goes(s, t)
    <3> PICK f \in Frames : f.op = TopOf(s).op /\ f.sock = TopOf(s).sock /\ t = <<f>> \o Tail(s)
      BY <2>2 DEF Goes
    <3>1. TopOf(t) = f /\ Tail(t) = Tail(s)
      BY <1>1, Replaced, CallerOf, TailOf
    <3>2. CASE Tail(s) # <<>>
      <4>1. Sending(t) = Tail(s) /\ Sending(s) = Tail(s)
        BY <1>1, <2>2, <3>1, <3>2, SendingOK
      <4>2. StackOK(Tail(s))
        BY <1>1, PoppedOK
      <4> QED
        BY <1>3, <2>2, <3>2, <4>1, <4>2
    <3>3. CASE Tail(s) = <<>>
      <4>1. Sending(t) = t /\ Sending(s) = s
        BY <1>1, <3>1, <3>3, SendingOK
      <4>2. FrameOK(f) /\ Share(f.op) = 0
        BY <1>1, <2>2, <3>1, CallerOf DEF Share
      <4> HIDE DEF s
      <4>3. Sum(<<f>> \o Tail(s), err'[u]) >= Sum(s, "none")
        BY <1>1, <4>2, SumGoes
      <4> QED
        BY <4>1, <4>3, <2>2
    <3> QED
      BY <3>2, <3>3
  <2>3. CASE /\ TopOf(s).op # "connect"
             /\ \E f, g \in Frames : /\ t = <<g, f>> \o Tail(s) /\ g.op = "connect" /\ FrameOK(f)
                                     /\ f.op = TopOf(s).op /\ f.sock = TopOf(s).sock
                                     /\ Share(f.op) = 0 \/ Over(f, TRUE, err'[u]) >= Over(TopOf(s), TRUE, err[u])
    <3> PICK f, g \in Frames : /\ t = <<g, f>> \o Tail(s) /\ g.op = "connect" /\ FrameOK(f)
                               /\ f.op = TopOf(s).op /\ f.sock = TopOf(s).sock
                               /\ Share(f.op) = 0 \/ Over(f, TRUE, err'[u]) >= Over(TopOf(s), TRUE, err[u])
      BY <2>3
    <3>1. TopOf(t) = g /\ Tail(t) = <<f>> \o Tail(s) /\ Tail(t) # <<>>
      <4>1. Tail(s) \in Seq(Frames)
        BY <1>1, CallerOf
      <4>2. Tail(<<g, f>> \o Tail(s)) = <<f>> \o Tail(s) /\ <<f>> \o Tail(s) # <<>>
        BY <4>1, TailOf
      <4>3. TopOf(<<g, f>> \o Tail(s)) = g
        BY <1>1, Called
      <4> HIDE DEF s
      <4> QED
        BY <4>2, <4>3
    <3>2. Sending(t) = <<f>> \o Tail(s) /\ Sending(s) = s
      BY <1>1, <2>3, <3>1, SendingOK
    <3> HIDE DEF s
    <3>3. Sum(<<f>> \o Tail(s), err'[u]) >= Sum(s, err[u])
      BY <1>1, SumGoes
    <3> QED
      BY <3>2, <3>3
  <2> QED
    BY <2>1, <2>2, <2>3
<1>5. t # <<>> => b \in Nat
  <2> HAVE t # <<>>
  <2>1. StackOK(Sending(t)) /\ Sending(t) # <<>>
    BY <1>1, SendingOK
  <2> HIDE DEF t
  <2> QED
    BY <2>1, SumBound
<1> HIDE DEF a, b
<1>6. t # <<>> => b >= a + (sends'[u] - sends[u])
  BY <1>1, <1>2, <1>4, <1>5
<1>7. stack'[u] # <<>> => Sum(Sending(stack'[u]), err'[u]) >= Sum(Sending(stack[u]), err[u]) + (sends'[u] - sends[u])
  BY <1>6 DEF a, b
<1> QED
  BY <1>7, SendsKept

-----------------------------------------------------------------------------
(* Left blocks, kept *)

\* A step of one user's keeps LeaveInv if it keeps LeaveOK.
LEMMA LeaveKept ==
  ASSUME Core, LeaveInv, NEW u, Touches(u), Moves(stack[u], stack'[u]), blocks'[u] = blocks[u],
         Lone => LeaveOK(net', stack'[u], err'[u])
  PROVE  LeaveInv'
<1>1. u \in Users /\ u \in setup.users /\ setup' = setup
  BY SetupFacts DEF Touches, Core
<1>2. Lone' <=> Lone
  BY <1>1 DEF Lone
<1>3. stack'[u] # <<>> =>
        D(stack'[u], 1).op = D(stack[u], 1).op /\ D(stack'[u], 1).sock = D(stack[u], 1).sock
  BY MovesFrames
<1> SUFFICES ASSUME Lone, NEW w \in setup.users
             PROVE  /\ stack'[w] # <<>> => \/ blocks'[w] > 0
                                           \/ D(stack'[w], 1).op \in {"with", "http_request"}
                                           \/ D(stack'[w], 1).sock = "dup"
                    /\ LeaveOK(net', stack'[w], err'[w])
  BY <1>1, <1>2 DEF LeaveInv, LeaveOK, Awaits, Quiet, Virt, D, TopOf
<1>4. w = u
  BY <1>1 DEF Lone
<1>5. stack[u] # <<>>
  BY DEF Moves
<1>6. blocks[u] > 0 \/ D(stack[u], 1).op \in {"with", "http_request"} \/ D(stack[u], 1).sock = "dup"
  BY <1>1, <1>5 DEF LeaveInv
<1> QED
  BY <1>3, <1>4, <1>6

\* The frames of a call on a duplicate are on it.
LEMMA DupAbove ==
  ASSUME NEW s, StackOK(s), s # <<>>, D(s, 1).sock = "dup"
  PROVE  ~Async /\ \A d \in 1..Len(s) : D(s, d).sock = "dup"
<1>1. s \in Seq(Frames) /\ Len(s) \in Nat /\ Len(s) >= 1 /\ \A d \in 1..Len(s) : D(s, d) \in Frames
  BY FramesOf DEF StackOK
<1>2. FrameOK(D(s, 1)) /\ D(s, 1) \in Frames
  BY <1>1 DEF StackOK
<1>3. ~Async
  BY <1>2, NothingApart DEF FrameOK, DecoratedOK, Frames, FrameOps
<1>4. \A d \in 1..(Len(s) - 1) : D(s, d).sock = "dup" => D(s, d + 1).sock = "dup"
  <2> TAKE d \in 1..(Len(s) - 1)
  <2> HAVE D(s, d).sock = "dup"
  <2>1. CallOK(D(s, d), D(s, d + 1))
    BY DEF StackOK
  <2> QED
    BY <2>1, <1>3 DEF CallOK
<1>5. Len(s) <= 5
  <2>1. Len(s) \in 1..Len(s)
    BY <1>1
  <2>2. Rank(D(s, Len(s)).op) + Len(s) <= Rank(D(s, 1).op) + 1
    BY <2>1 DEF StackOK
  <2> QED
    BY <1>1, <2>2, RankType
<1>6. \A d \in {1, 2, 3, 4} : d + 1 <= Len(s) /\ D(s, d).sock = "dup" => D(s, d + 1).sock = "dup"
  BY <1>1, <1>4
<1>7. /\ 2 <= Len(s) => D(s, 2).sock = "dup"
      /\ 3 <= Len(s) => D(s, 3).sock = "dup"
      /\ 4 <= Len(s) => D(s, 4).sock = "dup"
      /\ 5 <= Len(s) => D(s, 5).sock = "dup"
  <2>1. 2 <= Len(s) => D(s, 2).sock = "dup"
    BY <1>6
  <2>2. 3 <= Len(s) => D(s, 3).sock = "dup"
    BY <1>1, <1>6, <2>1
  <2>3. 4 <= Len(s) => D(s, 4).sock = "dup"
    BY <1>1, <1>6, <2>2
  <2>4. 5 <= Len(s) => D(s, 5).sock = "dup"
    BY <1>1, <1>6, <2>3
  <2> QED
    BY <2>1, <2>2, <2>3, <2>4
<1> QED
  BY <1>1, <1>3, <1>5, <1>7

\* With one user who calls in blocks only, and main in none: what may be going on.
LEMMA LoneShape ==
  ASSUME Core, LeaveInv, Lone, NEW u \in setup.users, stack[u] # <<>>, Virt(net, "main") = 0
  PROVE  LET s == stack[u]
         IN  \/ ~Async /\ \A d \in 1..Len(s) : D(s, d).sock = "dup"
             \/ /\ D(s, 1).op \in {"with", "http_request"} /\ D(s, 1).sock = Nothing /\ ~Inside(D(s, 1), "main")
                /\ Len(s) = 1 \/ (Len(s) = 2 /\ TopOf(s).op = "connect" /\ TopOf(s).sock = "main")
<1> DEFINE s == stack[u]
<1>1. u \in Users /\ StackOK(s) /\ s \in Seq(Frames)
  BY SetupFacts DEF Core, StacksInv
<1>2. Len(s) \in Nat /\ Len(s) >= 1 /\ TopOf(s) = D(s, Len(s)) /\ 1 \in 1..Len(s)
  BY <1>1, FramesOf
<1>3. blocks[u] = 0
  <2> SUFFICES ASSUME blocks[u] # 0 PROVE FALSE
    OBVIOUS
  <2>1. blocks[u] \in Nat
    BY <1>1 DEF Core, StacksInv
  <2>2. <<u, -1>> \in Blocks("main")
    <3>1. -(-1) \in 1..blocks[u] /\ -1 \in Int
      BY <2>1
    <3> QED
      BY <3>1, <1>1 DEF Blocks
  <2>3. IsFiniteSet(Blocks("main")) /\ Virt(net, "main") = Cardinality(Blocks("main"))
    BY DEF Core, BlocksInv, Trackers
  <2> QED
    BY <2>2, <2>3, FS_EmptySet
<1>4. D(s, 1).op \in {"with", "http_request"} \/ D(s, 1).sock = "dup"
  BY <1>3 DEF LeaveInv
<1>5. CASE D(s, 1).sock = "dup"
  BY <1>1, <1>5, DupAbove
<1>6. CASE D(s, 1).sock # "dup"
  <2>1. FrameOK(D(s, 1))
    BY <1>1, <1>2 DEF StackOK
  <2>2. D(s, 1).op \in {"with", "http_request"} /\ D(s, 1).sock = Nothing
    BY <1>4, <1>6, <2>1 DEF FrameOK, DecoratedOK, Decorated
  <2>3. ~Inside(D(s, 1), "main")
    <3> SUFFICES ASSUME Inside(D(s, 1), "main") PROVE FALSE
      OBVIOUS
    <3>1. Virt(net, "main") >= 1
      BY <1>1, <1>2, InsideCounts DEF Trackers
    <3> QED
      BY <3>1
  <2>4. Len(s) # 1 => Len(s) = 2 /\ TopOf(s).op = "connect" /\ TopOf(s).sock = "main"
    <3> HAVE Len(s) # 1
    <3>1. 1 \in 1..(Len(s) - 1) /\ 2 \in 1..Len(s)
      <4> DEFINE n == Len(s)
      <4>1. n \in Nat /\ n >= 1 /\ n # 1
        BY <1>2
      <4> HIDE DEF n
      <4>2. 1 \in 1..(n - 1) /\ 2 \in 1..n
        BY <4>1
      <4> QED
        BY <4>2 DEF n
    <3>2. CallOK(D(s, 1), D(s, 2)) /\ FrameOK(D(s, 2))
      BY <1>1, <3>1 DEF StackOK
    <3>3. D(s, 2).op = "connect"
      <4> SUFFICES ASSUME D(s, 2).op # "connect" PROVE FALSE
        OBVIOUS
      <4>1. D(s, 1).op = "http_request" /\ D(s, 1).pc = "out"
        BY <2>2, <3>2, CalledOps
      <4> QED
        BY <4>1, <2>2, <2>3 DEF Inside
    <3>4. Len(s) = 2 /\ TopOf(s) = D(s, 2)
      BY <1>1, <3>1, <3>3, ConnectOnTop
    <3>5. D(s, 2).sock # "dup"
      BY <3>2, <3>3, <1>6 DEF CallOK, Callees
    <3> QED
      BY <3>2, <3>3, <3>4, <3>5 DEF FrameOK
  <2> QED
    BY <2>2, <2>3, <2>4
<1> QED
  BY <1>5, <1>6

-----------------------------------------------------------------------------
(* The invariant, and the steps that keep it *)

\* The inductive invariant.
IInv == Core /\ SendsInv /\ LeaveInv

\* A step of u's call.
Steps(u) ==
  /\ u \in Users /\ Turn(u) /\ stack[u] # <<>> /\ setup' = setup /\ blocks' = blocks /\ calls' = calls
  /\ stack' = stack \/ \E t : stack' = [stack EXCEPT ![u] = t]
  /\ err' = err \/ \E e \in Raised : err' = [err EXCEPT ![u] = e]
  /\ sends' = sends \/ sends' = [sends EXCEPT ![u] = @ + 1]
  /\ faults' = faults \/ Fault

\* A step of a call changes the user's own part of the state.
LEMMA StepTouches ==
  ASSUME Core, NEW u, Steps(u)
  PROVE  /\ Touches(u) /\ u \in Users /\ blocks'[u] = blocks[u] /\ calls' = calls /\ stack[u] # <<>> /\ u \in setup.users
         /\ sends' = sends => sends'[u] = sends[u]
         /\ err' = err => err'[u] = err[u]
<1>1. StacksInv /\ SetupOK(setup) /\ u \in Users
  BY SetupFacts DEF Core, Steps
<1>2. u \in setup.users
  BY <1>1 DEF StacksInv, Steps
<1>3. stack' = [stack EXCEPT ![u] = stack'[u]]
  <2>1. stack \in [Users -> Seq(Frames)]
    BY <1>1 DEF StacksInv
  <2>2. CASE stack' = stack
    BY <1>1, <2>1, <2>2
  <2>3. CASE \E t : stack' = [stack EXCEPT ![u] = t]
    <3>1. PICK t : stack' = [stack EXCEPT ![u] = t]
      BY <2>3
    <3>2. stack'[u] = t
      BY <1>1, <2>1, <3>1
    <3> QED
      BY <3>1, <3>2
  <2> QED
    BY <2>2, <2>3 DEF Steps
<1>4. err' = [err EXCEPT ![u] = err'[u]] /\ err'[u] \in Raised
  <2>1. err \in [Users -> Raised]
    BY <1>1 DEF StacksInv
  <2>2. CASE err' = err
    BY <1>1, <2>1, <2>2
  <2>3. CASE \E e \in Raised : err' = [err EXCEPT ![u] = e]
    <3>1. PICK e \in Raised : err' = [err EXCEPT ![u] = e]
      BY <2>3
    <3>2. err'[u] = e
      BY <1>1, <2>1, <3>1
    <3> QED
      BY <3>1, <3>2
  <2> QED
    BY <2>2, <2>3 DEF Steps
<1>5. sends' = [sends EXCEPT ![u] = sends'[u]] /\ sends'[u] \in Nat
  <2>1. sends \in [Users -> Nat]
    BY <1>1 DEF StacksInv
  <2>2. CASE sends' = sends
    BY <1>1, <2>1, <2>2
  <2>3. CASE sends' = [sends EXCEPT ![u] = @ + 1]
    <3>1. sends'[u] = sends[u] + 1
      BY <1>1, <2>1, <2>3
    <3> QED
      BY <1>1, <2>1, <2>3, <3>1
  <2> QED
    BY <2>2, <2>3 DEF Steps
<1>6. blocks' = [blocks EXCEPT ![u] = blocks'[u]] /\ blocks'[u] \in Nat /\ blocks'[u] = blocks[u]
  <2>1. blocks \in [Users -> Nat] /\ blocks' = blocks
    BY <1>1 DEF StacksInv, Steps
  <2> QED
    BY <1>1, <2>1
<1>7. calls' \in 0..setup.calls /\ calls' = calls
  BY <1>1 DEF StacksInv, Steps
<1>8. faults' \in 0..setup.max_faults
  <2>1. faults \in 0..setup.max_faults /\ setup.max_faults \in Nat
    BY <1>1 DEF StacksInv, SetupOK
  <2>2. faults' = faults \/ (faults < setup.max_faults /\ faults' = faults + 1)
    BY DEF Steps, Fault
  <2> QED
    BY <2>1, <2>2
<1>9. Turn(u) /\ setup' = setup /\ stack[u] # <<>>
  BY DEF Steps
<1>10. Touches(u)
  BY <1>2, <1>3, <1>4, <1>5, <1>6, <1>7, <1>8, <1>9 DEF Touches
<1> QED
  BY <1>1, <1>2, <1>6, <1>7, <1>9, <1>10

\* The top frame goes on: what has to be shown for the invariant.
LEMMA GoesKeeps ==
  ASSUME IInv, NEW u, Steps(u), Follows(net'), NEW f \in Frames, FrameOK(f),
         f.op = TopOf(stack[u]).op, f.sock = TopOf(stack[u]).sock, stack'[u] = <<f>> \o Tail(stack[u]),
         RaisedOK(<<f>>, err'[u]),
         \A x \in Trackers : Virt(net', x) = Virt(net, x) + Bit(Inside(f, x)) - Bit(Inside(TopOf(stack[u]), x)),
         HandedOK(net', f), f.op = "connect" /\ f.sock = "dup" => Virt(net', "dup") >= 1,
         \/ sends'[u] = sends[u] /\ err'[u] = "error"
         \/ err[u] # "error" /\ sends'[u] = sends[u] /\ Share(f.op) = 0
         \/ err[u] # "error" /\ sends'[u] = sends[u] /\ Over(f, TRUE, err'[u]) >= Over(TopOf(stack[u]), TRUE, err[u])
         \/ /\ err[u] # "error" /\ f.op = "sendall" /\ sends'[u] = sends[u] + 1
            /\ Over(f, TRUE, err'[u]) >= Over(TopOf(stack[u]), TRUE, err[u]) + 1,
         Lone => LeaveOK(net', stack'[u], err'[u])
  PROVE  IInv'
<1>1. Touches(u) /\ u \in Users /\ blocks'[u] = blocks[u] /\ calls' = calls /\ stack[u] # <<>> /\ Core /\ SendsInv /\ LeaveInv
  BY StepTouches DEF IInv
<1>2. Core'
  BY <1>1, GoesKept
<1>4. Moves(stack[u], stack'[u])
  <2>1. StackOK(stack[u])
    BY <1>1 DEF Core, StacksInv
  <2>2. StackOK(stack'[u])
    BY <1>1, <2>1, ReplacedOK
  <2> QED
    BY <1>1, <2>1, <2>2 DEF Moves, Goes
<1>c. TopOf(stack[u]).op = "connect" => err[u] = "none"
  <2> HAVE TopOf(stack[u]).op = "connect"
  <2>1. RaisedOK(stack[u], err[u])
    BY <1>1 DEF Core, StacksInv
  <2> QED
    BY <2>1, <1>1 DEF RaisedOK, TopOf, Decorated, Leaves
<1>3. SendsInv'
  <2>1. CASE TopOf(stack[u]).op # "connect"
    BY <1>1, <2>1, GoesSends
  <2>2. CASE TopOf(stack[u]).op = "connect"
    <3>1. Goes(stack[u], stack'[u])
      BY DEF Goes
    <3>2. err[u] = "none" /\ f.op # "sendall"
      BY <1>c, <2>2
    <3>3. sends'[u] = sends[u]
      BY <3>2
    <3> QED
      BY <1>1, <1>4, <2>2, <3>1, <3>2, <3>3, ConnectSends
  <2> QED
    BY <2>1, <2>2
<1>5. LeaveInv'
  BY <1>1, <1>4, LeaveKept
<1> QED
  BY <1>2, <1>3, <1>5 DEF IInv

\* The top frame calls: what has to be shown for the invariant.
LEMMA PushKeeps ==
  ASSUME IInv, NEW u, Steps(u), Follows(net'), NEW f \in Frames, FrameOK(f),
         f.op = TopOf(stack[u]).op, f.sock = TopOf(stack[u]).sock,
         NEW g \in Frames, FrameOK(g), CallOK(f, g), Rank(g.op) < Rank(f.op), \A x \in Trackers : ~Inside(g, x),
         stack'[u] = <<g, f>> \o Tail(stack[u]), err'[u] = "none",
         \A x \in Trackers : Virt(net', x) = Virt(net, x) + Bit(Inside(f, x)) - Bit(Inside(TopOf(stack[u]), x)),
         HandedOK(net', f), HandedOK(net', g), g.op = "connect" /\ g.sock = "dup" => Virt(net', "dup") >= 1,
         sends'[u] = sends[u], err[u] # "error",
         \/ Share(f.op) = 0
         \/ Over(f, FALSE, "none") >= Over(TopOf(stack[u]), TRUE, err[u])
         \/ g.op = "connect" /\ Over(f, TRUE, "none") >= Over(TopOf(stack[u]), TRUE, err[u]),
         Over(g, TRUE, err'[u]) >= 0,
         Lone => LeaveOK(net', stack'[u], err'[u])
  PROVE  IInv'
<1>1. Touches(u) /\ u \in Users /\ blocks'[u] = blocks[u] /\ calls' = calls /\ stack[u] # <<>> /\ Core /\ SendsInv /\ LeaveInv
  BY StepTouches DEF IInv
<1>2. Core'
  BY <1>1, PushKept
<1>4. Moves(stack[u], stack'[u])
  <2>1. StackOK(stack[u])
    BY <1>1 DEF Core, StacksInv
  <2>2. StackOK(stack'[u])
    BY <1>1, <2>1, CalledOK
  <2> QED
    BY <1>1, <2>1, <2>2 DEF Moves, Pushes
<1>6. TopOf(stack[u]).op # "connect" /\ TopOf(stack[u]) \in Frames
  <2>1. stack[u] \in Seq(Frames)
    BY <1>4 DEF Moves, StackOK
  <2>2. TopOf(stack[u]) \in Frames
    BY <2>1, <1>1, FramesOf
  <2> QED
    BY <2>2 DEF CallOK, Callees, Decorated, Leaves
<1>3. SendsInv'
  <2>1. CASE g.op # "connect"
    BY <1>1, <1>6, <2>1, PushSends
  <2>2. CASE g.op = "connect"
    <3> DEFINE a == Over(TopOf(stack[u]), TRUE, err[u])
               b == Over(f, FALSE, "none")
               c == Over(f, TRUE, "none")
               h == TopOf(stack[u])
    <3>1. \A d, e : Over(f, TRUE, d) >= Over(f, FALSE, e)
      BY OverOf
    <3>2. c >= b
      BY <3>1
    <3>3. a \in Int /\ b \in Int /\ c \in Int
      <4>1. TRUE \in BOOLEAN /\ FALSE \in BOOLEAN
        OBVIOUS
      <4> QED
        BY <4>1, <1>6, OverOf
    <3>4. Share(f.op) = 0 \/ b >= a \/ c >= a
      OBVIOUS
    <3> HIDE DEF a, b, c
    <3>5. Share(f.op) = 0 \/ c >= a
      BY <3>2, <3>3, <3>4
    <3>6. Share(f.op) = 0 \/ Over(f, TRUE, err'[u]) >= Over(h, TRUE, err[u])
      BY <3>5 DEF a, c
    <3>7. \E p, q \in Frames : /\ stack'[u] = <<q, p>> \o Tail(stack[u]) /\ q.op = "connect" /\ FrameOK(p)
                               /\ p.op = h.op /\ p.sock = h.sock
                               /\ Share(p.op) = 0 \/ Over(p, TRUE, err'[u]) >= Over(h, TRUE, err[u])
      <4>1. f.op = h.op /\ f.sock = h.sock
        OBVIOUS
      <4> HIDE DEF h
      <4> QED
        BY <2>2, <3>6, <4>1
    <3> QED
      BY <1>1, <1>4, <1>6, <3>7, ConnectSends
  <2> QED
    BY <2>1, <2>2
<1>5. LeaveInv'
  BY <1>1, <1>4, LeaveKept
<1> QED
  BY <1>2, <1>3, <1>5 DEF IInv

\* The top frame is left: what has to be shown for the invariant.
LEMMA PopKeeps ==
  ASSUME IInv, NEW u, Steps(u), Follows(net'), stack'[u] = Tail(stack[u]),
         RaisedOK(stack'[u], err'[u]),
         \A x \in Trackers : Virt(net', x) = Virt(net, x) - Bit(Inside(TopOf(stack[u]), x)),
         Len(stack[u]) = 1 => \A x \in Raw(stack[u]) : ~Open(net', x),
         \/ Len(stack[u]) = 1
         \/ sends'[u] = sends[u] /\ (err'[u] = "error" \/ (err[u] # "error" /\ Share(TopOf(stack[u]).op) = 0))
         \/ /\ sends'[u] - sends[u] \in {0, 1} /\ err[u] # "error" /\ Share(TopOf(stack[u]).op) # 0
            /\ Share(TopOf(stack[u]).op) * Over(TopOf(stack[u]), TRUE, err[u]) + (sends'[u] - sends[u])
                 <= IF Handed(TopOf(stack[u])) THEN 1 ELSE 3 * Share(TopOf(stack[u]).op),
         Lone => LeaveOK(net', stack'[u], err'[u])
  PROVE  IInv'
<1>1. Touches(u) /\ u \in Users /\ blocks'[u] = blocks[u] /\ calls' = calls /\ stack[u] # <<>> /\ Core /\ SendsInv /\ LeaveInv
  BY StepTouches DEF IInv
<1>2. Core'
  BY <1>1, PopKept
<1>4. Moves(stack[u], stack'[u])
  <2>1. StackOK(stack[u])
    BY <1>1 DEF Core, StacksInv
  <2>2. StackOK(stack'[u])
    BY <1>1, <2>1, PoppedOK
  <2> QED
    BY <1>1, <2>1, <2>2 DEF Moves
<1>3. SendsInv'
  <2>1. CASE TopOf(stack[u]).op # "connect" \/ Len(stack[u]) = 1
    BY <1>1, <2>1, PopSends
  <2>2. CASE TopOf(stack[u]).op = "connect" /\ Len(stack[u]) # 1
    <3>1. err[u] = "none"
      <4>1. RaisedOK(stack[u], err[u])
        BY <1>1 DEF Core, StacksInv
      <4> QED
        BY <4>1, <2>2, <1>1 DEF RaisedOK, TopOf, Decorated, Leaves
    <3>2. Share(TopOf(stack[u]).op) = 0
      BY <2>2 DEF Share
    <3>3. sends'[u] = sends[u]
      BY <3>2, <2>2
    <3> QED
      BY <1>1, <1>4, <2>2, <3>1, <3>3, ConnectSends
  <2> QED
    BY <2>1, <2>2
<1>5. LeaveInv'
  BY <1>1, <1>4, LeaveKept
<1> QED
  BY <1>2, <1>3, <1>5 DEF IInv

\* The caller's socket is the bottom frame's.
LEMMA RawBelow ==
  ASSUME NEW s, StackOK(s), s # <<>>, ~Async, TopOf(s).sock \in Socks
  PROVE  D(s, 1).sock = TopOf(s).sock
<1>1. s \in Seq(Frames) /\ Len(s) \in Nat /\ Len(s) >= 1 /\ TopOf(s) = D(s, Len(s))
  BY FramesOf DEF StackOK
<1>4. \A d \in 1..(Len(s) - 1) : D(s, d + 1).sock \in Socks => D(s, d).sock = D(s, d + 1).sock
  <2> TAKE d \in 1..(Len(s) - 1)
  <2> HAVE D(s, d + 1).sock \in Socks
  <2>1. CallOK(D(s, d), D(s, d + 1)) /\ FrameOK(D(s, d + 1))
    <3>1. d \in 1..(Len(s) - 1) /\ d + 1 \in 1..Len(s)
      BY <1>1
    <3> QED
      BY <3>1 DEF StackOK
  <2>2. D(s, d + 1).op # "connect"
    BY <2>1, NothingApart DEF FrameOK
  <2> QED
    BY <2>1, <2>2 DEF CallOK
<1>5. Len(s) <= 5
  <2>1. Len(s) \in 1..Len(s)
    BY <1>1
  <2>2. Rank(D(s, Len(s)).op) + Len(s) <= Rank(D(s, 1).op) + 1
    BY <2>1 DEF StackOK
  <2> QED
    BY <1>1, <2>2, RankType
<1>6. \A d \in {1, 2, 3, 4} : d + 1 <= Len(s) /\ D(s, d + 1).sock \in Socks => D(s, d).sock = D(s, d + 1).sock
  BY <1>1, <1>4
<1>s. D(s, Len(s)).sock \in Socks
  BY <1>1
<1>7. CASE Len(s) = 1
  BY <1>1, <1>7
<1>8. CASE Len(s) = 2
  BY <1>1, <1>s, <1>6, <1>8
<1>9. CASE Len(s) = 3
  <2>1. D(s, 2).sock = D(s, 3).sock /\ D(s, 3).sock \in Socks
    BY <1>s, <1>6, <1>9
  <2> QED
    BY <2>1, <1>1, <1>6, <1>9
<1>10. CASE Len(s) = 4
  <2>1. D(s, 3).sock = D(s, 4).sock /\ D(s, 4).sock \in Socks
    BY <1>s, <1>6, <1>10
  <2>2. D(s, 2).sock = D(s, 3).sock
    BY <2>1, <1>6, <1>10
  <2> QED
    BY <2>1, <2>2, <1>1, <1>6, <1>10
<1>11. CASE Len(s) = 5
  <2>1. D(s, 4).sock = D(s, 5).sock /\ D(s, 5).sock \in Socks
    BY <1>s, <1>6, <1>11
  <2>2. D(s, 3).sock = D(s, 4).sock
    BY <2>1, <1>6, <1>11
  <2>3. D(s, 2).sock = D(s, 3).sock
    BY <2>1, <2>2, <1>6, <1>11
  <2> QED
    BY <2>1, <2>2, <2>3, <1>1, <1>6, <1>11
<1>12. Len(s) \in {1, 2, 3, 4, 5}
  <2> DEFINE n == Len(s)
  <2>1. n \in Nat /\ n >= 1 /\ n <= 5
    BY <1>1, <1>5
  <2> HIDE DEF n
  <2>2. n \in {1, 2, 3, 4, 5}
    BY <2>1
  <2> QED
    BY <2>2 DEF n
<1> QED
  BY <1>7, <1>8, <1>9, <1>10, <1>11, <1>12

\* What is known of the frame that goes on.
LEMMA TopFacts ==
  ASSUME IInv, NEW u \in Users, stack[u] # <<>>
  PROVE  LET s == stack[u]
             f == TopOf(s)
         IN  /\ Core /\ Fresh /\ NetOK(net) /\ Follows(net) /\ u \in setup.users
             /\ Top(u) = f /\ f \in Frames /\ FrameOK(f) /\ StackOK(s) /\ s \in Seq(Frames)
             /\ Len(s) \in Nat /\ Len(s) >= 1 /\ f = D(s, Len(s))
             /\ HandedOK(net, f) /\ (f.op = "connect" /\ f.sock = "dup" => Virt(net, "dup") >= 1)
             /\ \A x \in Trackers : Virt(net, x) \in Nat /\ (Inside(f, x) => Virt(net, x) >= 1)
             /\ LeavesRaw(f) => ~Owned(net, f.sock)
             /\ Len(s) = 1 => \A x \in Raw(s) : LeavesRaw(f) /\ f.sock = x
             /\ RaisedOK(s, err[u]) /\ err[u] \in Raised
<1> DEFINE s == stack[u]
           f == TopOf(s)
<1>1. Core /\ StacksInv /\ SocksInv /\ NetOK(net) /\ Follows(net) /\ StackOK(s) /\ s \in Seq(Frames)
      /\ RaisedOK(s, err[u]) /\ err[u] \in Raised /\ u \in setup.users
  BY FollowsItself DEF IInv, Core, StacksInv, SocksInv
<1>2. Fresh
  BY <1>1, SocketLeft
<1>3. Len(s) \in Nat /\ Len(s) >= 1 /\ f = D(s, Len(s)) /\ f \in Frames /\ Top(u) = f /\ Len(s) \in 1..Len(s)
  BY <1>1, FramesOf DEF Top
<1>4. FrameOK(f)
  BY <1>1, <1>3 DEF StackOK
<1>5. HandedOK(net, f) /\ (f.op = "connect" /\ f.sock = "dup" => Virt(net, "dup") >= 1)
  BY <1>1, <1>3 DEF SocksInv
<1>6. \A x \in Trackers : Virt(net, x) \in Nat /\ (Inside(f, x) => Virt(net, x) >= 1)
  <2> TAKE x \in Trackers
  <2>1. Virt(net, x) \in Nat
    BY <1>1, LayersOf
  <2>2. Inside(f, x) => Virt(net, x) >= 1
    BY <1>1, <1>3, InsideCounts
  <2> QED
    BY <2>1, <2>2
<1>7. LeavesRaw(f) => ~Owned(net, f.sock)
  <2> HAVE LeavesRaw(f)
  <2>1. f.sock \in Socks /\ ~Async
    BY DEF LeavesRaw
  <2>2. D(s, 1).sock = f.sock
    BY <2>1, <1>1, RawBelow
  <2>3. f.sock \in Raw(s)
    BY <2>1, <2>2 DEF Raw
  <2> QED
    BY <2>3, <1>1 DEF SocksInv
<1>8. Len(s) = 1 => \A x \in Raw(s) : LeavesRaw(f) /\ f.sock = x
  <2> SUFFICES ASSUME Len(s) = 1, NEW x \in Raw(s) PROVE LeavesRaw(f) /\ f.sock = x
    OBVIOUS
  <2>1. f.sock = x /\ x \in Socks /\ ~Async
    BY <1>3 DEF Raw
  <2>2. f.op \in Decorated
    BY <2>1, <1>3, <1>4, NothingApart DEF FrameOK, Frames, FrameOps
  <2> QED
    BY <2>1, <2>2 DEF LeavesRaw
<1> QED
  BY <1>1, <1>2, <1>3, <1>4, <1>5, <1>6, <1>7, <1>8

\* What LeaveInv says of the lone user's stack.
LEMMA LeaveFacts ==
  ASSUME IInv, Lone, NEW u \in setup.users
  PROVE  LeaveOK(net, stack[u], err[u])
BY DEF IInv, LeaveInv

\* LeaveOK, while main is in a block or is quiet.
LEMMA LeaveBusy ==
  ASSUME NEW n, NEW t, NEW e, ~Awaits(t), Virt(n, "main") # 0 \/ Quiet(n, "main")
  PROVE  LeaveOK(n, t, e)
BY DEF LeaveOK

\* LeaveOK, when the first frame of the call has connected main.
LEMMA LeaveConnected ==
  ASSUME NEW n, NEW t, NEW e, ~Awaits(t), n.tracker["main"].connected, e = "none", Len(t) = 1,
         D(t, 1).op \in {"with", "http_request"}
  PROVE  LeaveOK(n, t, e)
BY DEF LeaveOK

\* A step that has nothing to do with main.
LEMMA LeaveSame ==
  ASSUME IInv, Lone, NEW u \in setup.users, NEW n, NEW t, NEW e, ~Awaits(stack[u]), ~Awaits(t),
         n.tracker["main"].connected = net.tracker["main"].connected,
         n.tracker["main"].sock = net.tracker["main"].sock,
         net.tracker["main"].sock # Nothing => n.sock[net.tracker["main"].sock] = net.sock[net.tracker["main"].sock],
         Virt(n, "main") = 0 => Virt(net, "main") = 0,
         /\ net.tracker["main"].connected /\ err[u] = "none" /\ Len(stack[u]) = 1
         /\ D(stack[u], 1).op \in {"with", "http_request"}
         => e = "none" /\ Len(t) = 1 /\ D(t, 1).op \in {"with", "http_request"}
  PROVE  LeaveOK(n, t, e)
<1>1. LeaveOK(net, stack[u], err[u])
  BY LeaveFacts
<1>2. CASE Virt(n, "main") # 0
  BY <1>2, LeaveBusy
<1>3. CASE Virt(n, "main") = 0
  <2>1. \/ Quiet(net, "main")
        \/ net.tracker["main"].connected /\ err[u] = "none" /\ Len(stack[u]) = 1
           /\ D(stack[u], 1).op \in {"with", "http_request"}
    BY <1>1, <1>3 DEF LeaveOK
  <2>2. CASE Quiet(net, "main")
    <3>1. Quiet(n, "main")
      BY <2>2 DEF Quiet
    <3> QED
      BY <3>1, LeaveBusy
  <2>3. CASE net.tracker["main"].connected /\ err[u] = "none" /\ Len(stack[u]) = 1
             /\ D(stack[u], 1).op \in {"with", "http_request"}
    BY <2>3, LeaveConnected
  <2> QED
    BY <2>1, <2>2, <2>3
<1> QED
  BY <1>2, <1>3

\* With main in no block, the frame on top is a call's own, connect's on main, or on a duplicate.
LEMMA LoneTop ==
  ASSUME IInv, Lone, NEW u \in setup.users, stack[u] # <<>>, Virt(net, "main") = 0
  PROVE  LET f == TopOf(stack[u])
         IN  \/ ~Async /\ f.sock = "dup" /\ f.op \notin {"with", "http_request"}
             \/ Len(stack[u]) = 1 /\ f.op \in {"with", "http_request"} /\ f.sock = Nothing /\ ~Inside(f, "main")
                /\ D(stack[u], 1) = f
             \/ Len(stack[u]) = 2 /\ f.op = "connect" /\ f.sock = "main" /\ D(stack[u], 1).op \in {"with", "http_request"}
<1> DEFINE s == stack[u]
           f == TopOf(s)
<1>1. u \in Users
  BY SetupFacts DEF IInv, Core
<1>2. Len(s) \in Nat /\ Len(s) >= 1 /\ f = D(s, Len(s)) /\ FrameOK(f) /\ Len(s) \in 1..Len(s)
  BY <1>1, TopFacts
<1>3. \/ ~Async /\ \A d \in 1..Len(s) : D(s, d).sock = "dup"
      \/ /\ D(s, 1).op \in {"with", "http_request"} /\ D(s, 1).sock = Nothing /\ ~Inside(D(s, 1), "main")
         /\ Len(s) = 1 \/ (Len(s) = 2 /\ TopOf(s).op = "connect" /\ TopOf(s).sock = "main")
  BY LoneShape DEF IInv
<1>4. CASE ~Async /\ \A d \in 1..Len(s) : D(s, d).sock = "dup"
  <2>1. f.sock = "dup"
    BY <1>2, <1>4
  <2>2. f.op \notin {"with", "http_request"}
    BY <2>1, <1>2, NothingApart DEF FrameOK, DecoratedOK, Decorated
  <2> QED
    BY <2>1, <2>2, <1>4
<1>5. CASE /\ D(s, 1).op \in {"with", "http_request"} /\ D(s, 1).sock = Nothing /\ ~Inside(D(s, 1), "main")
           /\ Len(s) = 1 \/ (Len(s) = 2 /\ TopOf(s).op = "connect" /\ TopOf(s).sock = "main")
  BY <1>2, <1>5
<1> QED
  BY <1>3, <1>4, <1>5

\* What is on a stack that has moved.
LEMMA AwaitsNot ==
  ASSUME NEW s, StackOK(s), s # <<>>
  PROVE  /\ TopOf(s).pc \notin {"connecting", "woken"} => ~Awaits(s)
         /\ ~Awaits(Tail(s))
         /\ \A f \in Frames : /\ f.pc \notin {"connecting", "woken"} => ~Awaits(<<f>> \o Tail(s))
                              /\ \A g \in Frames : g.pc \notin {"connecting", "woken"} => ~Awaits(<<g, f>> \o Tail(s))
                              /\ Len(<<f>> \o Tail(s)) = Len(s)
                              /\ Len(s) = 1 => D(<<f>> \o Tail(s), 1) = f
         /\ Len(s) = 2 => Len(Tail(s)) = 1 /\ D(Tail(s), 1) = D(s, 1)
<1>1. s \in Seq(Frames) /\ Len(s) \in Nat /\ Len(s) >= 1
  BY FramesOf DEF StackOK
<1>2. TopOf(s).pc \notin {"connecting", "woken"} => ~Awaits(s)
  BY DEF Awaits
<1>3. ~Awaits(Tail(s))
  <2> SUFFICES ASSUME Tail(s) # <<>> PROVE TopOf(Tail(s)).pc \notin {"connecting", "woken"}
    BY DEF Awaits
  <2>1. CallOK(TopOf(Tail(s)), TopOf(s))
    BY CallerOf
  <2> QED
    BY <2>1 DEF CallOK, Callees
<1>4. ASSUME NEW f \in Frames, NEW g \in Frames
      PROVE  /\ f.pc \notin {"connecting", "woken"} => ~Awaits(<<f>> \o Tail(s))
             /\ g.pc \notin {"connecting", "woken"} => ~Awaits(<<g, f>> \o Tail(s))
             /\ Len(<<f>> \o Tail(s)) = Len(s)
             /\ Len(s) = 1 => D(<<f>> \o Tail(s), 1) = f
  <2>1. Len(<<f>> \o Tail(s)) = Len(s) /\ TopOf(<<f>> \o Tail(s)) = f /\ D(<<f>> \o Tail(s), Len(s)) = f
    BY <1>1, Replaced
  <2>2. TopOf(<<g, f>> \o Tail(s)) = g
    BY <1>1, Called
  <2> QED
    BY <2>1, <2>2 DEF Awaits
<1>5. Len(s) = 2 => Len(Tail(s)) = 1 /\ D(Tail(s), 1) = D(s, 1)
  <2> HAVE Len(s) = 2
  <2>1. Len(Tail(s)) = Len(s) - 1 /\ \A d \in 1..(Len(s) - 1) : D(Tail(s), d) = D(s, d)
    BY <1>1, Popped
  <2>2. Len(s) - 1 = 1 /\ 1 \in 1..1
    OBVIOUS
  <2> QED
    BY <2>1, <2>2
<1> QED
  BY <1>2, <1>3, <1>4, <1>5

-----------------------------------------------------------------------------
(* Connecting *)

\* What the invariant says of a frame of connect on top of a stack.
LEMMA ConnectFacts ==
  ASSUME IInv, NEW u \in Users, stack[u] # <<>>, TopOf(stack[u]).op = "connect"
  PROVE  LET f == TopOf(stack[u])
         IN  /\ f.sock \in Trackers /\ (f.sock = "dup" => Virt(net, "dup") >= 1 /\ ~Async) /\ f.tries <= 2 /\ f.tries \in 0..3
             /\ \A x : ~Inside(f, x)
             /\ Len(stack[u]) = 1 => Raw(stack[u]) = {}
             /\ Share(f.op) = 0 /\ ~Handed(f)
             /\ f.sock = "dup" \/ f.sock = "main"
             /\ err[u] = "none"
<1> DEFINE f == TopOf(stack[u])
<1>1. f \in Frames /\ FrameOK(f) /\ RaisedOK(stack[u], err[u])
      /\ (f.op = "connect" /\ f.sock = "dup" => Virt(net, "dup") >= 1)
      /\ (Len(stack[u]) = 1 => \A x \in Raw(stack[u]) : LeavesRaw(f))
  BY TopFacts
<1>2. f.op \notin Decorated
  BY DEF Decorated, Leaves
<1>3. /\ f.tries <= 2 /\ f.tries \in 0..3
      /\ f.sock = "main" \/ (f.sock = "dup" /\ ~Async)
  BY <1>1 DEF FrameOK, Frames
<1>4. \A x : ~Inside(f, x)
  BY <1>2 DEF Inside
<1>5. Len(stack[u]) = 1 => Raw(stack[u]) = {}
  BY <1>1, <1>2 DEF LeavesRaw
<1>6. Share(f.op) = 0 /\ ~Handed(f)
  BY <1>3, NothingApart DEF Share, Handed
<1>7. err[u] = "none"
  BY <1>1, <1>2 DEF RaisedOK
<1> QED
  BY <1>1, <1>3, <1>4, <1>5, <1>6, <1>7 DEF Trackers

\* connect returns, or raises.
LEMMA ConnectPops ==
  ASSUME IInv, NEW u, Steps(u), TopOf(stack[u]).op = "connect", Follows(net'),
         \A x \in Trackers : Virt(net', x) = Virt(net, x),
         stack'[u] = Tail(stack[u]), sends' = sends,
         \E e \in Raised : err'[u] = IF Len(stack[u]) = 1 THEN "none" ELSE e,
         Lone => LeaveOK(net', stack'[u], err'[u])
  PROVE  IInv'
<1>1. u \in Users /\ stack[u] # <<>> /\ Core /\ sends'[u] = sends[u]
  BY StepTouches DEF IInv, Steps
<1>2. StackOK(stack[u])
  BY <1>1, TopFacts
<1>3. RaisedOK(stack'[u], err'[u])
  <2>1. PICK e \in Raised : err'[u] = IF Len(stack[u]) = 1 THEN "none" ELSE e
    OBVIOUS
  <2> QED
    BY <2>1, <1>1, <1>2, RaisedBelow
<1>4. /\ \A x : ~Inside(TopOf(stack[u]), x)
      /\ Len(stack[u]) = 1 => Raw(stack[u]) = {}
      /\ Share(TopOf(stack[u]).op) = 0 /\ err[u] = "none"
  BY <1>1, ConnectFacts
<1>5. \A x \in Trackers : Virt(net', x) = Virt(net, x) - Bit(Inside(TopOf(stack[u]), x))
  <2> TAKE x \in Trackers
  <2>1. Virt(net, x) \in Nat
    BY <1>1, TopFacts
  <2>2. Bit(Inside(TopOf(stack[u]), x)) = 0
    BY <1>4 DEF Bit
  <2> QED
    BY <2>1, <2>2
<1> QED
  BY <1>1, <1>3, <1>4, <1>5, PopKeeps

\* connect goes on.
LEMMA ConnectGoes ==
  ASSUME IInv, NEW u, Steps(u), TopOf(stack[u]).op = "connect", Follows(net'),
         \A x \in Trackers : Virt(net', x) = Virt(net, x),
         NEW f \in Frames, FrameOK(f), f.op = TopOf(stack[u]).op, f.sock = TopOf(stack[u]).sock,
         stack'[u] = <<f>> \o Tail(stack[u]), sends' = sends, err' = err,
         Lone => LeaveOK(net', stack'[u], err'[u])
  PROVE  IInv'
<1>1. u \in Users /\ stack[u] # <<>> /\ Core /\ sends'[u] = sends[u] /\ err'[u] = err[u]
  BY StepTouches DEF IInv, Steps
<1>4. /\ \A x : ~Inside(TopOf(stack[u]), x)
      /\ Share(TopOf(stack[u]).op) = 0 /\ err[u] = "none" /\ f.sock \in Trackers
      /\ (f.sock = "dup" => Virt(net, "dup") >= 1)
  BY <1>1, ConnectFacts
<1>5. \A x \in Trackers : Virt(net', x) = Virt(net, x) + Bit(Inside(f, x)) - Bit(Inside(TopOf(stack[u]), x))
  <2> TAKE x \in Trackers
  <2>1. Virt(net, x) \in Nat
    BY <1>1, TopFacts
  <2>2. Bit(Inside(TopOf(stack[u]), x)) = 0
    BY <1>4 DEF Bit
  <2>3. Bit(Inside(f, x)) = 0
    BY DEF Bit, Inside, Decorated, Leaves
  <2> QED
    BY <2>1, <2>2, <2>3
<1>6. HandedOK(net', f)
  BY <1>4, NothingApart DEF HandedOK, Handed, Trackers
<1>7. RaisedOK(<<f>>, err'[u])
  BY <1>1, <1>4 DEF RaisedOK
<1>8. f.sock = "dup" => Virt(net', "dup") >= 1
  BY <1>4 DEF Trackers
<1>9. Share(f.op) = 0 /\ err[u] # "error"
  BY <1>4
<1> QED
  BY <1>1, <1>5, <1>6, <1>7, <1>8, <1>9, GoesKeeps

\* A failed attempt.
LEMMA FailedKeeps ==
  ASSUME IInv, NEW u, Steps(u), TopOf(stack[u]).op = "connect", NEW n, Failed(u, n), sends' = sends, Follows(n),
         \A x \in Trackers : Virt(n, x) = Virt(net, x),
         Lone => Virt(n, "main") # 0 \/ Quiet(n, "main")
  PROVE  IInv'
<1> DEFINE s == stack[u]
           f == TopOf(s)
<1>1. u \in Users /\ s # <<>> /\ f.sock \in Trackers /\ f.tries \in 0..3 /\ f.tries <= 2 /\ StackOK(s)
      /\ Top(u) = f /\ f \in Frames /\ FrameOK(f) /\ stack \in [Users -> Seq(Frames)] /\ err \in [Users -> Raised]
      /\ err[u] = "none" /\ (f.sock = "dup" \/ f.sock = "main")
  BY ConnectFacts, TopFacts DEF Steps, IInv, Core, StacksInv
<1>2. CASE f.tries + 1 >= 3
  <2>1. net' = n /\ \E e \in {"broken", "error"} : PopRaising(u, e)
    BY <1>1, <1>2 DEF Failed
  <2>2. stack'[u] = Tail(s)
    BY <2>1, <1>1 DEF PopRaising, Pop
  <2>3. \E e \in Raised : err'[u] = IF Len(s) = 1 THEN "none" ELSE e
    BY <2>1, <1>1 DEF PopRaising, Raise, Raised
  <2>4. Lone => LeaveOK(net', stack'[u], err'[u])
    BY <2>1, <2>2, <1>1, AwaitsNot, LeaveBusy
  <2> QED
    BY <2>1, <2>2, <2>3, <2>4, ConnectPops
<1>3. CASE ~(f.tries + 1 >= 3)
  <2> DEFINE m == disconnect(n, f.sock)
             g == [f EXCEPT !.tries = @ + 1, !.held = Nothing, !.pc = "start"]
  <2>1. net' = v6_fallback(m) /\ Jump(u, g) /\ UNCHANGED err
    BY <1>1, <1>3 DEF Failed
  <2>2. g \in Frames /\ g.op = "connect" /\ g.sock = f.sock /\ g.pc = "start" /\ FrameOK(g)
    <3>1. f.tries + 1 \in 0..3 /\ f.tries + 1 <= 2
      BY <1>1, <1>3
    <3>2. g \in Frames
      BY <3>1, <1>1 DEF Frames, Pcs
    <3>3. g.op = "connect" /\ g.sock = f.sock /\ g.pc = "start" /\ g.tries <= 2 /\ g.held = Nothing
      BY <3>1, <1>1 DEF Frames
    <3>4. FrameOK(g)
      BY <3>3, <1>1, NothingApart DEF FrameOK, Decorated, Leaves
    <3> QED
      BY <3>2, <3>3, <3>4
  <2>3. stack'[u] = <<g>> \o Tail(s)
    BY <2>1, <1>1 DEF Jump
  <2>4. /\ Follows(m) /\ m.tracker[f.sock].sock = Nothing /\ m.tracker[f.sock].connected = FALSE
        /\ \A x \in Trackers : Virt(m, x) = Virt(n, x) /\ (x # f.sock => m.tracker[x] = n.tracker[x])
        /\ \A x \in Socks : m.sock[x] = n.sock[x] \/ (x = n.tracker[f.sock].sock /\ ~Open(m, x))
    BY <1>1, DisconnectFollows
  <2>5. Follows(net') /\ net'.tracker = m.tracker /\ net'.sock = m.sock
    BY <2>1, <2>4, FallbackFollows
  <2>6. \A x \in Trackers : Virt(net', x) = Virt(net, x)
    BY <2>4, <2>5 DEF Virt
  <2>7. ~Awaits(stack'[u])
    BY <2>2, <2>3, <1>1, AwaitsNot
  <2>8. Lone => Virt(net', "main") # 0 \/ Quiet(net', "main")
    <3> HAVE Lone
    <3>1. CASE Virt(n, "main") # 0
      BY <3>1, <2>6 DEF Trackers
    <3>2. CASE Quiet(n, "main") /\ f.sock = "main"
      BY <3>2, <2>4, <2>5 DEF Quiet
    <3>3. CASE Quiet(n, "main") /\ f.sock = "dup"
      <4>1. net'.tracker["main"] = n.tracker["main"]
        BY <3>3, <2>4, <2>5 DEF Trackers
      <4>2. n.tracker["main"].sock # Nothing => n.tracker["main"].sock # n.tracker["dup"].sock /\ n.tracker["main"].sock \in Socks
        BY DEF Follows, NetOK, Nets, TrackerRecords, Trackers
      <4>3. n.tracker["main"].sock # Nothing => net'.sock[n.tracker["main"].sock] = n.sock[n.tracker["main"].sock]
        BY <3>3, <4>2, <2>4, <2>5
      <4> QED
        BY <3>3, <4>1, <4>3 DEF Quiet
    <3> QED
      BY <3>1, <3>2, <3>3, <1>1
  <2>9. Lone => LeaveOK(net', stack'[u], err'[u])
    BY <2>7, <2>8, LeaveBusy
  <2> HIDE DEF g, m
  <2>10. err' = err
    BY <2>1
  <2> QED
    BY <2>2, <2>3, <2>5, <2>6, <2>9, <2>10, ConnectGoes
<1> QED
  BY <1>2, <1>3

\* A socket the wrapper makes when it has none.
LEMMA SocketQuiet ==
  ASSUME IInv, NEW t \in Trackers, t = "dup" => Virt(net, t) >= 1, Quiet(net, "main")
  PROVE  Quiet(socket(net, t), "main")
<1> DEFINE m == socket(net, t)
<1>1. NetOK(net) /\ Fresh
  BY SocketLeft DEF IInv, Core, SocksInv
<1>2. /\ \A x \in Trackers : m.tracker[x].connected = net.tracker[x].connected
                             /\ (x # t => m.tracker[x] = net.tracker[x])
      /\ net.tracker[t].sock # Nothing => m = net
      /\ net.tracker[t].sock = Nothing => m.tracker[t].sock = NewSock /\ m.sock[NewSock] = "fresh"
      /\ \A s \in Socks : s # NewSock => m.sock[s] = net.sock[s]
  BY <1>1, SocketFollows
<1>3. net.tracker["main"].sock # Nothing => net.tracker["main"].sock # NewSock /\ net.tracker["main"].sock \in Socks
  BY <1>1 DEF NetOK, Fresh, Nets, TrackerRecords, Trackers
<1>4. \/ /\ ~net.tracker["main"].connected
         /\ net.tracker["main"].sock = Nothing \/ net.sock[net.tracker["main"].sock] = "fresh"
      \/ net.tracker["main"].sock # Nothing /\ net.sock[net.tracker["main"].sock] = "gone"
  BY DEF Quiet
<1>5. m.tracker["main"].connected = net.tracker["main"].connected
  BY <1>2 DEF Trackers
<1>6. CASE net.tracker["main"].sock # Nothing
  <2>1. m.tracker["main"] = net.tracker["main"]
    BY <1>2, <1>6 DEF Trackers
  <2> QED
    BY <2>1, <1>2, <1>3, <1>4, <1>6 DEF Quiet
<1>7. CASE net.tracker["main"].sock = Nothing
  <2>1. m.tracker["main"].sock = Nothing \/ m.sock[m.tracker["main"].sock] = "fresh"
    <3>1. t # "main" => m.tracker["main"] = net.tracker["main"]
      BY <1>2 DEF Trackers
    <3> QED
      BY <3>1, <1>2, <1>7
  <2> QED
    BY <2>1, <1>4, <1>5, <1>7 DEF Quiet
<1> QED
  BY <1>6, <1>7

\* With main in no block it is not connected while connect is at work.
LEMMA ConnectQuiet ==
  ASSUME IInv, Lone, NEW u \in setup.users, stack[u] # <<>>, TopOf(stack[u]).op = "connect",
         TopOf(stack[u]).pc # "woken"
  PROVE  /\ Virt(net, "main") # 0 \/ Quiet(net, "main")
         /\ \/ Virt(net, "main") # 0
            \/ TopOf(stack[u]).sock = "dup"
            \/ Len(stack[u]) = 2 /\ TopOf(stack[u]).sock = "main" /\ D(stack[u], 1).op \in {"with", "http_request"}
<1>1. LeaveOK(net, stack[u], err[u])
  BY LeaveFacts
<1>2. u \in Users
  BY SetupFacts DEF IInv, Core
<1>3. Len(stack[u]) = 1 => D(stack[u], 1).op = "connect"
  BY <1>2, TopFacts
<1>4. Virt(net, "main") = 0 => Quiet(net, "main")
  BY <1>1, <1>3 DEF LeaveOK, Awaits
<1>5. \/ TopOf(stack[u]).sock = "dup"
      \/ TopOf(stack[u]).op \in {"with", "http_request"}
      \/ Len(stack[u]) = 2 /\ TopOf(stack[u]).sock = "main" /\ D(stack[u], 1).op \in {"with", "http_request"}
      \/ Virt(net, "main") # 0
  BY LoneTop
<1> QED
  BY <1>4, <1>5

\* A tracker gets a socket, which is then connected.
LEMMA UpFollows ==
  ASSUME IInv, NEW t \in Trackers, t = "dup" => Virt(net, t) >= 1
  PROVE  LET n == socket(net, t)
             s == n.tracker[t].sock
             m == [n EXCEPT !.sock[s] = "up"]
             k == [m EXCEPT !.tracker[t].connected = TRUE]
         IN  /\ Follows(n) /\ s \in Socks /\ Open(n, s) /\ Follows(m) /\ m.tracker = n.tracker
             /\ \A x \in Socks : m.sock[x] = IF x = s THEN "up" ELSE n.sock[x]
             /\ Follows(k) /\ k.sock = m.sock /\ k.tracker[t].connected = TRUE
             /\ \A x \in Trackers : /\ Virt(n, x) = Virt(net, x) /\ Virt(k, x) = Virt(net, x)
                                    /\ k.tracker[x].sock = n.tracker[x].sock
                                    /\ x # t => k.tracker[x] = net.tracker[x]
             /\ t = "dup" => /\ k.tracker["main"] = net.tracker["main"]
                             /\ net.tracker["main"].sock # Nothing =>
                                  k.sock[net.tracker["main"].sock] = net.sock[net.tracker["main"].sock]
<1> DEFINE n == socket(net, t)
           s == n.tracker[t].sock
           m == [n EXCEPT !.sock[s] = "up"]
           k == [m EXCEPT !.tracker[t].connected = TRUE]
<1>1. NetOK(net) /\ Fresh
  BY SocketLeft DEF IInv, Core, SocksInv
<1>2. /\ Follows(n) /\ s \in Socks
      /\ \A x \in Trackers : Virt(n, x) = Virt(net, x) /\ (x # t => n.tracker[x] = net.tracker[x])
      /\ \A x \in Socks : x # NewSock => n.sock[x] = net.sock[x]
  BY <1>1, SocketFollows
<1> HIDE DEF n
<1>3. Open(n, s)
  BY <1>2, NothingApart DEF Follows, NetOK
<1>4. /\ Follows(m) /\ m.tracker = n.tracker
      /\ \A x \in Socks : m.sock[x] = IF x = s THEN "up" ELSE n.sock[x]
  BY <1>2, <1>3, StateFollows DEF SockStates
<1>5. m.tracker[t].sock # Nothing
  BY <1>2, <1>4, NothingApart
<1> HIDE DEF m
<1>6. /\ Follows(k) /\ k.sock = m.sock /\ k.tracker[t].connected = TRUE
      /\ \A x \in Trackers : /\ Virt(k, x) = Virt(m, x) /\ k.tracker[x].sock = m.tracker[x].sock
                             /\ x # t => k.tracker[x] = m.tracker[x]
  <2>1. t \in Trackers
    OBVIOUS
  <2>2. k = [m EXCEPT !.tracker[t].connected = TRUE]
    OBVIOUS
  <2> HIDE DEF k
  <2> QED
    <3>1. Follows(m) /\ m.tracker[t].sock # Nothing
      BY <1>4, <1>5
    <3> HIDE DEF s
    <3>2. LET j == [m EXCEPT !.tracker[t].connected = TRUE]
          IN  /\ Follows(j) /\ j.sock = m.sock /\ j.tracker[t].connected = TRUE
              /\ \A x \in Trackers : /\ Virt(j, x) = Virt(m, x) /\ j.tracker[x].sock = m.tracker[x].sock
                                     /\ x # t => j.tracker[x] = m.tracker[x]
      BY <2>1, <3>1, ConnectedFollows
    <3> QED
      BY <2>2, <3>2, Zenon
<1> HIDE DEF k
<1>7. \A x \in Trackers : /\ Virt(n, x) = Virt(net, x) /\ Virt(k, x) = Virt(net, x)
                          /\ k.tracker[x].sock = n.tracker[x].sock
                          /\ x # t => k.tracker[x] = net.tracker[x]
  BY <1>2, <1>4, <1>6 DEF Virt
<1>8. t = "dup" => /\ k.tracker["main"] = net.tracker["main"]
                   /\ net.tracker["main"].sock # Nothing =>
                        k.sock[net.tracker["main"].sock] = net.sock[net.tracker["main"].sock]
  <2> HAVE t = "dup"
  <2>1. k.tracker["main"] = net.tracker["main"] /\ n.tracker["main"] = net.tracker["main"]
    BY <1>2, <1>7 DEF Trackers
  <2> SUFFICES ASSUME net.tracker["main"].sock # Nothing
               PROVE  k.sock[net.tracker["main"].sock] = net.sock[net.tracker["main"].sock]
    BY <2>1
  <2>2. net.tracker["main"].sock \in Socks /\ net.tracker["main"].sock # NewSock
    BY <1>1 DEF NetOK, Fresh, Nets, TrackerRecords, Trackers
  <2>3. net.tracker["main"].sock # s
    <3>1. n.tracker["main"].sock = n.tracker["dup"].sock => n.tracker["main"].sock = Nothing
      BY <1>2 DEF Follows, NetOK
    <3> QED
      BY <3>1, <2>1
  <2> QED
    BY <2>2, <2>3, <1>2, <1>4, <1>6
<1> QED
  BY <1>2, <1>3, <1>4, <1>6, <1>7, <1>8 DEF n, m, k

\* connect returns: connected, with the socket up.
LEMMA ConnectedKeeps ==
  ASSUME IInv, NEW u, Steps(u), TopOf(stack[u]).op = "connect", TopOf(stack[u]).pc # "woken", sends' = sends, err' = err,
         Follows(net'), \A x \in Trackers : Virt(net', x) = Virt(net, x),
         stack'[u] = Tail(stack[u]),
         net'.tracker[TopOf(stack[u]).sock].connected,
         TopOf(stack[u]).sock = "dup" =>
           /\ net'.tracker["main"] = net.tracker["main"]
           /\ net.tracker["main"].sock # Nothing =>
                net'.sock[net.tracker["main"].sock] = net.sock[net.tracker["main"].sock]
  PROVE  IInv'
<1> DEFINE s == stack[u]
           f == TopOf(s)
<1>1. u \in Users /\ s # <<>> /\ StackOK(s) /\ err'[u] = err[u] /\ err[u] = "none" /\ u \in setup.users
  BY ConnectFacts, TopFacts, StepTouches DEF Steps, IInv
<1>2. Lone => LeaveOK(net', stack'[u], err'[u])
  <2> HAVE Lone
  <2>1. ~Awaits(stack'[u])
    BY <1>1, AwaitsNot
  <2>2. /\ Virt(net, "main") # 0 \/ Quiet(net, "main")
        /\ \/ Virt(net, "main") # 0
           \/ f.sock = "dup"
           \/ Len(s) = 2 /\ f.sock = "main" /\ D(s, 1).op \in {"with", "http_request"}
    BY <1>1, ConnectQuiet
  <2>3. CASE Virt(net, "main") # 0
    <3>1. Virt(net', "main") # 0
      BY <2>3 DEF Trackers
    <3> QED
      BY <3>1, <2>1, LeaveBusy
  <2>4. CASE Quiet(net, "main") /\ f.sock = "dup"
    <3>1. Quiet(net', "main")
      BY <2>4 DEF Quiet
    <3> QED
      BY <3>1, <2>1, LeaveBusy
  <2>5. CASE Len(s) = 2 /\ f.sock = "main" /\ D(s, 1).op \in {"with", "http_request"}
    <3>1. Len(stack'[u]) = 1 /\ D(stack'[u], 1).op \in {"with", "http_request"}
      BY <2>5, <1>1, AwaitsNot
    <3>2. net'.tracker["main"].connected
      BY <2>5
    <3> QED
      BY <3>1, <3>2, <2>1, <1>1, LeaveConnected
  <2> QED
    BY <2>2, <2>3, <2>4, <2>5
<1>3. \E e \in Raised : err'[u] = IF Len(s) = 1 THEN "none" ELSE e
  BY <1>1 DEF Raised
<1> QED
  BY <1>2, <1>3, ConnectPops

\* post_connect, over a tracker that is called connected: connect returns, or raises and
\* leaves the connection to the tracker.
LEMMA PostConnectKeeps ==
  ASSUME IInv, NEW u, Steps(u), TopOf(stack[u]).op = "connect", TopOf(stack[u]).pc # "woken", sends' = sends,
         NEW k, Follows(k), \A x \in Trackers : Virt(k, x) = Virt(net, x),
         post_connect(u, k), k.tracker[TopOf(stack[u]).sock].connected,
         k.tracker[TopOf(stack[u]).sock].sock \in Socks,
         k.sock[k.tracker[TopOf(stack[u]).sock].sock] = "up",
         TopOf(stack[u]).sock = "dup" =>
           /\ k.tracker["main"] = net.tracker["main"]
           /\ net.tracker["main"].sock # Nothing =>
                k.sock[net.tracker["main"].sock] = net.sock[net.tracker["main"].sock]
  PROVE  IInv'
<1> DEFINE f == TopOf(stack[u])
           s == k.tracker[f.sock].sock
           g == [k EXCEPT !.sock[s] = "gone"]
<1>1. u \in Users /\ stack[u] # <<>> /\ u \in setup.users /\ Top(u) = f /\ f.sock \in Trackers /\ StackOK(stack[u])
      /\ stack \in [Users -> Seq(Frames)] /\ err \in [Users -> Raised] /\ (f.sock = "dup" \/ f.sock = "main")
  BY ConnectFacts, TopFacts DEF Steps, IInv, Core, StacksInv
<1>2. \/ net' = k /\ Pop(u) /\ err' = err
      \/ net' = g /\ PopRaising(u, "error")
  BY <1>1 DEF post_connect
<1>3. CASE net' = k /\ Pop(u) /\ err' = err
  <2>1. stack'[u] = Tail(stack[u])
    BY <1>1, <1>3 DEF Pop
  <2> QED
    BY <2>1, <1>3, ConnectedKeeps
<1>4. CASE net' = g /\ PopRaising(u, "error")
  <2>1. stack'[u] = Tail(stack[u]) /\ err'[u] = IF Len(stack[u]) = 1 THEN "none" ELSE "error"
    BY <1>1, <1>4 DEF PopRaising, Pop, Raise
  <2>2. /\ Follows(g) /\ g.tracker = k.tracker
        /\ \A x \in Socks : g.sock[x] = IF x = s THEN "gone" ELSE k.sock[x]
    BY StateFollows DEF Open, SockStates
  <2> HIDE DEF g
  <2>3. Follows(net') /\ \A x \in Trackers : Virt(net', x) = Virt(net, x)
    BY <2>2, <1>4 DEF Virt
  <2>4. Lone => LeaveOK(net', stack'[u], err'[u])
    <3> HAVE Lone
    <3>1. ~Awaits(stack'[u])
      BY <1>1, <2>1, AwaitsNot
    <3>2. Virt(net', "main") # 0 \/ Quiet(net', "main")
      <4>1. CASE f.sock = "main"
        BY <4>1, <2>2, <1>4, NothingApart DEF Quiet
      <4>2. CASE f.sock = "dup"
        <5>1. Virt(net, "main") # 0 \/ Quiet(net, "main")
          BY <1>1, ConnectQuiet
        <5>2. net'.tracker["main"] = net.tracker["main"]
          BY <4>2, <2>2, <1>4
        <5>3. net.tracker["main"].sock # Nothing => net.tracker["main"].sock \in Socks /\ net.tracker["main"].sock # s
          BY <4>2, NothingApart DEF Follows, NetOK, Nets, TrackerRecords, Trackers
        <5>4. net.tracker["main"].sock # Nothing =>
                net'.sock[net.tracker["main"].sock] = net.sock[net.tracker["main"].sock]
          BY <4>2, <5>3, <2>2, <1>4
        <5> QED
          BY <5>1, <5>2, <5>4, <2>3 DEF Quiet, Trackers
      <4> QED
        BY <4>1, <4>2, <1>1
    <3> QED
      BY <3>1, <3>2, LeaveBusy
  <2>5. \E e \in Raised : err'[u] = IF Len(stack[u]) = 1 THEN "none" ELSE e
    BY <2>1 DEF Raised
  <2> QED
    BY <2>1, <2>3, <2>4, <2>5, ConnectPops
<1> QED
  BY <1>2, <1>3, <1>4

\* What holds where the top frame is at one of its places.
LEMMA AtFacts ==
  ASSUME IInv, NEW u \in Users, NEW op, NEW pc, At(u, op, pc)
  PROVE  /\ Turn(u) /\ stack[u] # <<>> /\ err[u] = "none" /\ TopOf(stack[u]).op = op /\ TopOf(stack[u]).pc = pc
         /\ Top(u) = TopOf(stack[u])
BY TopFacts DEF At

\* A tracker without an address.
LEMMA NoAddressKeeps ==
  ASSUME IInv, NEW u, Steps(u), TopOf(stack[u]).op = "connect", TopOf(stack[u]).pc # "woken",
         NoAddress(u), sends' = sends
  PROVE  IInv'
<1> DEFINE f == TopOf(stack[u])
           n == socket(net, f.sock)
<1>1. u \in Users /\ stack[u] # <<>> /\ u \in setup.users /\ Top(u) = f /\ f.sock \in Trackers /\ StackOK(stack[u])
      /\ (f.sock = "dup" => Virt(net, f.sock) >= 1) /\ NetOK(net) /\ Fresh
      /\ stack \in [Users -> Seq(Frames)] /\ err \in [Users -> Raised]
  BY ConnectFacts, TopFacts DEF Steps, IInv, Core, StacksInv
<1>2. Follows(n) /\ \A x \in Trackers : Virt(n, x) = Virt(net, x)
  BY <1>1, SocketFollows
<1>3. net' = n /\ stack'[u] = Tail(stack[u]) /\ err'[u] = IF Len(stack[u]) = 1 THEN "none" ELSE "error"
  BY <1>1 DEF NoAddress, PopRaising, Pop, Raise
<1>4. Lone => LeaveOK(net', stack'[u], err'[u])
  <2> HAVE Lone
  <2>1. ~Awaits(stack'[u])
    BY <1>1, <1>3, AwaitsNot
  <2>2. Virt(net, "main") # 0 \/ Quiet(net, "main")
    BY <1>1, ConnectQuiet
  <2>3. Virt(net', "main") # 0 \/ Quiet(net', "main")
    <3>1. Quiet(net, "main") => Quiet(n, "main")
      BY <1>1, SocketQuiet
    <3> QED
      BY <3>1, <2>2, <1>2, <1>3 DEF Trackers
  <2> QED
    BY <2>1, <2>3, LeaveBusy
<1>5. \E e \in Raised : err'[u] = IF Len(stack[u]) = 1 THEN "none" ELSE e
  BY <1>3 DEF Raised
<1> HIDE DEF n
<1>6. Follows(net') /\ \A x \in Trackers : Virt(net', x) = Virt(net, x)
  BY <1>2, <1>3
<1> QED
  BY <1>3, <1>4, <1>5, <1>6, ConnectPops

\* The attempts of connect keep the invariant.
LEMMA connectStep ==
  ASSUME IInv, NEW u \in Users, connect(u)
  PROVE  IInv'
<1> DEFINE f == TopOf(stack[u])
           t == f.sock
           n == socket(net, t)
           s == n.tracker[t].sock
           m == [n EXCEPT !.sock[s] = "up"]
           k == [m EXCEPT !.tracker[t].connected = TRUE]
<1>1. /\ Turn(u) /\ stack[u] # <<>> /\ err[u] = "none" /\ f.op = "connect" /\ f.pc = "start"
      /\ Top(u) = f
  BY AtFacts DEF connect
<1>2. Steps(u)
  <2>1. setup' = setup /\ blocks' = blocks /\ calls' = calls /\ sends' = sends
    BY DEF connect, AllButFaults
  <2>2. /\ stack' = stack \/ \E q : stack' = [stack EXCEPT ![u] = q]
        /\ err' = err \/ \E e \in Raised : err' = [err EXCEPT ![u] = e]
    BY DEF connect, NoAddress, PopRaising, Pop, Raise, Connected, post_connect, Failed, Jump, Raised
  <2>3. faults' = faults \/ Fault
    BY DEF connect, Connected, post_connect
  <2> QED
    BY <2>1, <2>2, <2>3, <1>1 DEF Steps
<1>3. sends' = sends /\ f.sock \in Trackers /\ (t = "dup" => Virt(net, t) >= 1) /\ stack \in [Users -> Seq(Frames)]
      /\ u \in setup.users
  BY <1>1, ConnectFacts, TopFacts DEF connect, AllButFaults, IInv, Core, StacksInv
<1>4. Follows(n) /\ \A x \in Trackers : Virt(n, x) = Virt(net, x)
  BY <1>3, UpFollows
<1>5. \/ NoAddress(u)
      \/ Connected(u, m)
      \/ Failed(u, n)
  BY <1>1 DEF connect
<1>6. CASE NoAddress(u)
  BY <1>1, <1>2, <1>3, <1>6, NoAddressKeeps
<1>7. CASE Connected(u, m)
  <2>1. post_connect(u, k)
    BY <1>1, <1>7 DEF Connected
  <2>2. /\ Follows(k) /\ k.tracker[t].connected /\ \A x \in Trackers : Virt(k, x) = Virt(net, x)
        /\ k.sock = m.sock /\ s \in Socks /\ \A x \in Trackers : k.tracker[x].sock = n.tracker[x].sock
        /\ \A x \in Socks : m.sock[x] = IF x = s THEN "up" ELSE n.sock[x]
        /\ t = "dup" => /\ k.tracker["main"] = net.tracker["main"]
                        /\ net.tracker["main"].sock # Nothing =>
                             k.sock[net.tracker["main"].sock] = net.sock[net.tracker["main"].sock]
    BY <1>3, UpFollows
  <2> HIDE DEF k, m, n
  <2>3. k.tracker[t].sock \in Socks /\ k.sock[k.tracker[t].sock] = "up"
    BY <1>3, <2>2
  <2> QED
    BY <1>1, <1>2, <1>3, <2>1, <2>2, <2>3, PostConnectKeeps
<1>8. CASE Failed(u, n)
  <2>1. Lone => Virt(n, "main") # 0 \/ Quiet(n, "main")
    <3> HAVE Lone
    <3>1. Virt(net, "main") # 0 \/ Quiet(net, "main")
      BY <1>1, <1>3, ConnectQuiet
    <3>2. Quiet(net, "main") => Quiet(n, "main")
      BY <1>3, SocketQuiet
    <3> QED
      BY <3>1, <3>2, <1>4 DEF Trackers
  <2> HIDE DEF n
  <2> QED
    BY <1>1, <1>2, <1>3, <1>4, <1>8, <2>1, FailedKeeps
<1> QED
  BY <1>5, <1>6, <1>7, <1>8

\* So do those of connect_async, up to where it awaits the network.
LEMMA connect_asyncStep ==
  ASSUME IInv, NEW u \in Users, connect_async(u)
  PROVE  IInv'
<1> DEFINE f == TopOf(stack[u])
           t == f.sock
           n == socket(net, t)
           s == n.tracker[t].sock
           k == [n EXCEPT !.tracker[t].connected = TRUE]
           g == [f EXCEPT !.pc = "connecting", !.held = s]
<1>1. /\ Turn(u) /\ stack[u] # <<>> /\ err[u] = "none" /\ f.op = "connect" /\ f.pc = "start"
      /\ Top(u) = f /\ Async
  BY AtFacts DEF connect_async
<1>2. Steps(u)
  <2>1. setup' = setup /\ blocks' = blocks /\ calls' = calls /\ sends' = sends
    BY DEF connect_async, AllButFaults
  <2>2. /\ stack' = stack \/ \E q : stack' = [stack EXCEPT ![u] = q]
        /\ err' = err \/ \E e \in Raised : err' = [err EXCEPT ![u] = e]
    BY DEF connect_async, NoAddress, PopRaising, Pop, Raise, Connected, post_connect, Failed, Jump, Raised
  <2>3. faults' = faults \/ Fault
    BY DEF connect_async, Connected, post_connect
  <2> QED
    BY <2>1, <2>2, <2>3, <1>1 DEF Steps
<1>3. /\ sends' = sends /\ t = "main" /\ t \in Trackers /\ stack \in [Users -> Seq(Frames)]
      /\ u \in setup.users /\ f \in Frames /\ FrameOK(f) /\ StackOK(stack[u]) /\ NetOK(net) /\ Fresh
  BY <1>1, ConnectFacts, TopFacts DEF connect_async, AllButFaults, IInv, Core, StacksInv
<1>4. /\ Follows(n) /\ s \in Socks
      /\ \A x \in Trackers : Virt(n, x) = Virt(net, x)
  BY <1>3, SocketFollows
<1>q. Lone => Virt(n, "main") # 0 \/ Quiet(n, "main")
  <2> HAVE Lone
  <2>1. Virt(net, "main") # 0 \/ Quiet(net, "main")
    BY <1>1, <1>3, ConnectQuiet
  <2>2. Quiet(net, "main") => Quiet(n, "main")
    BY <1>3, SocketQuiet
  <2> QED
    BY <2>1, <2>2, <1>4 DEF Trackers
<1>5. \/ NoAddress(u)
      \/ n.sock[s] = "up" /\ Connected(u, n)
      \/ Failed(u, n)
      \/ net' = n /\ Jump(u, g) /\ UNCHANGED err
  BY <1>1 DEF connect_async
<1>6. CASE NoAddress(u)
  BY <1>1, <1>2, <1>3, <1>6, NoAddressKeeps
<1>7. CASE n.sock[s] = "up" /\ Connected(u, n)
  <2>1. post_connect(u, k)
    BY <1>1, <1>7 DEF Connected
  <2>2. n.tracker[t].sock # Nothing
    BY <1>4, NothingApart
  <2> HIDE DEF n
  <2>3. /\ Follows(k) /\ k.tracker[t].connected /\ \A x \in Trackers : Virt(k, x) = Virt(n, x)
        /\ k.sock = n.sock /\ \A x \in Trackers : k.tracker[x].sock = n.tracker[x].sock
    <3>1. LET j == [n EXCEPT !.tracker[t].connected = TRUE]
          IN  /\ Follows(j) /\ j.sock = n.sock /\ j.tracker[t].connected = TRUE
              /\ \A x \in Trackers : /\ Virt(j, x) = Virt(n, x) /\ j.tracker[x].sock = n.tracker[x].sock
                                     /\ x # t => j.tracker[x] = n.tracker[x]
      BY <1>3, <1>4, <2>2, ConnectedFollows
    <3> QED
      BY <3>1, Zenon
  <2>4. \A x \in Trackers : Virt(k, x) = Virt(net, x)
    BY <2>3, <1>4
  <2>5. t # "dup"
    BY <1>3
  <2> HIDE DEF k
  <2> QED
    BY <1>1, <1>2, <1>3, <1>4, <1>7, <2>1, <2>3, <2>4, <2>5, PostConnectKeeps
<1>8. CASE Failed(u, n)
  <2> HIDE DEF n
  <2> QED
    BY <1>1, <1>2, <1>3, <1>4, <1>8, <1>q, FailedKeeps
<1>9. CASE net' = n /\ Jump(u, g) /\ UNCHANGED err
  <2>1. stack'[u] = <<g>> \o Tail(stack[u]) /\ err' = err /\ net' = n
    BY <1>1, <1>3, <1>9 DEF Jump
  <2>2. g \in Frames /\ FrameOK(g) /\ g.op = f.op /\ g.sock = f.sock /\ g.pc = "connecting" /\ g.held = s
    <3>1. g \in Frames /\ g.op = f.op /\ g.sock = f.sock /\ g.pc = "connecting" /\ g.held = s /\ g.tries = f.tries
      BY <1>3, <1>4 DEF Frames, Pcs
    <3>2. FrameOK(g)
      BY <3>1, <1>1, <1>3, <1>4 DEF FrameOK, Decorated, Leaves
    <3> QED
      BY <3>1, <3>2
  <2>3. TopOf(stack'[u]) = g /\ stack'[u] # <<>>
    <3>1. stack[u] \in Seq(Frames)
      BY <1>3
    <3> HIDE DEF g
    <3> QED
      BY <3>1, <2>1, <2>2, <1>1, Replaced
  <2>4. Lone => LeaveOK(net', stack'[u], err'[u])
    <3> HAVE Lone
    <3>1. n.tracker["main"].sock = s
      BY <1>3
    <3> QED
      BY <3>1, <2>1, <2>2, <2>3, <1>q DEF LeaveOK, Awaits
  <2> HIDE DEF g, n
  <2> QED
    BY <1>1, <1>2, <1>3, <1>4, <2>1, <2>2, <2>4, ConnectGoes
<1> QED
  BY <1>5, <1>6, <1>7, <1>8, <1>9

\* What holds of a frame of connect that awaits the network, or is resumed.
LEMMA Awaiting ==
  ASSUME IInv, NEW u \in Users, stack[u] # <<>>, TopOf(stack[u]).pc \in {"connecting", "woken"}
  PROVE  /\ TopOf(stack[u]).op = "connect" /\ Async /\ TopOf(stack[u]).held \in Socks /\ TopOf(stack[u]).sock = "main"
         /\ Awaits(stack[u])
<1> DEFINE f == TopOf(stack[u])
<1>1. f \in Frames /\ FrameOK(f)
  BY TopFacts
<1>2. f.op \notin Decorated
  <2> SUFFICES ASSUME f.op \in Decorated PROVE FALSE
    OBVIOUS
  <2>1. f.pc \in PcsOf(f.op)
    BY <1>1 DEF FrameOK, DecoratedOK
  <2>2. Own(f.op) \in SUBSET {"await", "again", "read", "sent", "done", "in", "out"}
    BY DEF Own, Decorated, Leaves
  <2> QED
    BY <2>1, <2>2 DEF PcsOf
<1>3. f.op = "connect"
  BY <1>1, <1>2 DEF Frames, FrameOps, FrameOK
<1> QED
  BY <1>1, <1>3 DEF FrameOK, Awaits

\* The socket is connected while the task waits.
LEMMA SockUpStep ==
  ASSUME IInv, NEW u \in Users, SockUp(u)
  PROVE  IInv'
<1> DEFINE f == TopOf(stack[u])
           g == [f EXCEPT !.pc = "woken"]
           m == [net EXCEPT !.sock[f.held] = "up"]
<1>1. /\ Turn(u) /\ stack[u] # <<>> /\ f.pc = "connecting" /\ Top(u) = f /\ f.op = "connect" /\ Async /\ f.held \in Socks
      /\ f.sock = "main" /\ Awaits(stack[u]) /\ net.sock[f.held] = "fresh"
  BY Awaiting, TopFacts DEF SockUp
<1>2. net' = m /\ stack' = [stack EXCEPT ![u] = <<g>> \o Tail(stack[u])] /\ err' = err
  BY <1>1 DEF SockUp, Jump
<1>r. setup' = setup /\ blocks' = blocks /\ calls' = calls /\ sends' = sends /\ faults' = faults
  BY DEF SockUp, Rest
<1>3. Steps(u)
  BY <1>1, <1>2, <1>r DEF Steps
<1>4. /\ stack \in [Users -> Seq(Frames)] /\ u \in setup.users /\ f \in Frames /\ FrameOK(f) /\ StackOK(stack[u])
      /\ Follows(net) /\ stack[u] \in Seq(Frames)
  BY <1>1, TopFacts DEF IInv, Core, StacksInv
<1>5. stack'[u] = <<g>> \o Tail(stack[u])
  BY <1>2, <1>4
<1>6. /\ Follows(m) /\ m.tracker = net.tracker
      /\ \A x \in Socks : m.sock[x] = IF x = f.held THEN "up" ELSE net.sock[x]
  <2>1. Open(net, f.held) /\ "up" \in SockStates /\ "up" # "closed" /\ f.held \in Socks
    BY <1>1 DEF Open, SockStates
  <2> HIDE DEF f
  <2> QED
    BY <2>1, <1>4, StateFollows
<1>7. g \in Frames /\ FrameOK(g) /\ g.op = f.op /\ g.sock = f.sock /\ g.pc = "woken" /\ g.held = f.held
  <2>1. g \in Frames /\ g.op = f.op /\ g.sock = f.sock /\ g.pc = "woken" /\ g.held = f.held /\ g.tries = f.tries
    BY <1>4 DEF Frames, Pcs
  <2>2. FrameOK(g)
    BY <2>1, <1>1, <1>4 DEF FrameOK, Decorated, Leaves
  <2> QED
    BY <2>1, <2>2
<1>8. TopOf(stack'[u]) = g
  <2> HIDE DEF g
  <2> QED
    BY <1>1, <1>4, <1>5, <1>7, Replaced
<1>9. Lone => LeaveOK(net', stack'[u], err'[u])
  <2> HAVE Lone
  <2>1. LeaveOK(net, stack[u], err[u])
    BY <1>4, LeaveFacts
  <2>2. f.held = net.tracker["main"].sock
    BY <2>1, <1>1 DEF LeaveOK
  <2>3. Len(stack[u]) = 1 => D(stack[u], 1).op = "connect"
    BY <1>1, TopFacts
  <2>4. Virt(net, "main") = 0 => ~net.tracker["main"].connected
    BY <2>1, <2>2, <2>3, <1>1 DEF LeaveOK, Quiet
  <2>5. stack'[u] # <<>> /\ Awaits(stack'[u])
    <3> HIDE DEF g
    <3> QED
      BY <1>4, <1>5, <1>7, <1>8, <1>1, Replaced DEF Awaits
  <2>6. net'.tracker = net.tracker /\ net'.sock[f.held] = "up"
    BY <1>1, <1>2, <1>6
  <2> HIDE DEF g, m
  <2> QED
    BY <2>2, <2>4, <2>5, <2>6, <1>7, <1>8 DEF LeaveOK, Virt
<1>10. Follows(net') /\ \A x \in Trackers : Virt(net', x) = Virt(net, x)
  BY <1>2, <1>6 DEF Virt
<1> HIDE DEF g, m
<1> QED
  BY <1>1, <1>2, <1>r, <1>3, <1>5, <1>7, <1>9, <1>10, ConnectGoes

\* The attempt fails while the task waits.
LEMMA SockFailsStep ==
  ASSUME IInv, NEW u \in Users, SockFails(u)
  PROVE  IInv'
<1> DEFINE f == TopOf(stack[u])
<1>1. /\ Turn(u) /\ stack[u] # <<>> /\ f.pc = "connecting" /\ Top(u) = f /\ f.op = "connect"
  BY Awaiting, TopFacts DEF SockFails
<1>2. Failed(u, net) /\ setup' = setup /\ blocks' = blocks /\ calls' = calls /\ sends' = sends
      /\ (faults' = faults \/ Fault)
  BY DEF SockFails, AllButFaults
<1>3. Steps(u)
  <2>1. /\ stack' = stack \/ \E q : stack' = [stack EXCEPT ![u] = q]
        /\ err' = err \/ \E e \in Raised : err' = [err EXCEPT ![u] = e]
    BY <1>2 DEF PopRaising, Pop, Raise, Failed, Jump, Raised
  <2> QED
    BY <2>1, <1>1, <1>2 DEF Steps
<1>4. Follows(net) /\ u \in setup.users
  BY <1>1, TopFacts
<1>5. Lone => Virt(net, "main") # 0 \/ Quiet(net, "main")
  BY <1>1, <1>4, ConnectQuiet
<1> QED
  BY <1>1, <1>2, <1>3, <1>4, <1>5, FailedKeeps

\* The task resumes with whatever socket the tracker has by then.
LEMMA WokenStep ==
  ASSUME IInv, NEW u \in Users, Woken(u)
  PROVE  IInv'
<1> DEFINE f == TopOf(stack[u])
           t == f.sock
           n == socket(net, t)
           m == [n EXCEPT !.tracker[t].connected = TRUE]
           r == m.tracker[t].sock
           g == [m EXCEPT !.sock[r] = "gone"]
<1>1. /\ Turn(u) /\ stack[u] # <<>> /\ f.pc = "woken" /\ Top(u) = f /\ f.op = "connect" /\ Async /\ f.held \in Socks
      /\ f.sock = "main" /\ Awaits(stack[u]) /\ t \in Trackers
  BY Awaiting, TopFacts DEF Woken, Trackers
<1>r. setup' = setup /\ blocks' = blocks /\ calls' = calls /\ sends' = sends
  BY DEF Woken, AllButFaults
<1>2. /\ \/ m.sock[r] = "up" /\ net' = m /\ Pop(u) /\ err' = err
         \/ m.sock[r] = "up" /\ net' = g /\ PopRaising(u, "error")
         \/ m.sock[r] # "up" /\ net' = m /\ PopRaising(u, "error")
      /\ faults' = faults \/ Fault
  BY <1>1 DEF Woken, Connected, post_connect
<1>3. Steps(u)
  <2>1. /\ stack' = stack \/ \E q : stack' = [stack EXCEPT ![u] = q]
        /\ err' = err \/ \E e \in Raised : err' = [err EXCEPT ![u] = e]
    BY <1>2 DEF PopRaising, Pop, Raise, Raised
  <2> QED
    BY <2>1, <1>1, <1>2, <1>r DEF Steps
<1>4. /\ stack \in [Users -> Seq(Frames)] /\ u \in setup.users /\ StackOK(stack[u])
      /\ NetOK(net) /\ Fresh /\ err \in [Users -> Raised] /\ err[u] = "none"
  BY <1>1, TopFacts, ConnectFacts DEF IInv, Core, StacksInv
<1>5. /\ Follows(n) /\ n.tracker[t].sock \in Socks
      /\ \A x \in Trackers : Virt(n, x) = Virt(net, x)
      /\ net.tracker[t].sock # Nothing => n = net
  BY <1>1, <1>4, SocketFollows
<1>6. n.tracker[t].sock # Nothing
  BY <1>5, NothingApart
<1>7. LET j == [n EXCEPT !.tracker[t].connected = TRUE]
      IN  /\ Follows(j) /\ j.sock = n.sock /\ j.tracker[t].connected = TRUE
          /\ \A x \in Trackers : /\ Virt(j, x) = Virt(n, x) /\ j.tracker[x].sock = n.tracker[x].sock
                                 /\ x # t => j.tracker[x] = n.tracker[x]
  <2>1. Follows(n) /\ n.tracker[t].sock # Nothing /\ t \in Trackers
    BY <1>1, <1>5, <1>6
  <2> HIDE DEF n, t
  <2> QED
    BY <2>1, ConnectedFollows
<1> HIDE DEF n
<1>8. /\ Follows(m) /\ m.sock = n.sock /\ m.tracker[t].connected = TRUE
      /\ \A x \in Trackers : /\ Virt(m, x) = Virt(n, x) /\ m.tracker[x].sock = n.tracker[x].sock
  BY <1>7, Zenon
<1> HIDE DEF m
<1>9. stack'[u] = Tail(stack[u])
  BY <1>2, <1>4 DEF Pop, PopRaising
<1>10. err'[u] = "none" \/ err'[u] = IF Len(stack[u]) = 1 THEN "none" ELSE "error"
  BY <1>2, <1>4 DEF Raise, PopRaising
<1>11. \E e \in Raised : err'[u] = IF Len(stack[u]) = 1 THEN "none" ELSE e
  BY <1>10 DEF Raised
<1>g. /\ r \in Socks /\ r = n.tracker[t].sock
      /\ m.sock[r] = "up" =>
           /\ Follows(g) /\ g.tracker = m.tracker
           /\ \A y \in Socks : g.sock[y] = IF y = r THEN "gone" ELSE m.sock[y]
  <2>1. r \in Socks /\ r = n.tracker[t].sock
    BY <1>1, <1>5, <1>8
  <2> HIDE DEF r
  <2> QED
    BY <2>1, <1>8, StateFollows DEF Open, SockStates
<1> HIDE DEF g
<1>12. Lone => LeaveOK(net', stack'[u], err'[u])
  <2> HAVE Lone
  <2>0. ~Awaits(stack'[u])
    BY <1>1, <1>4, <1>9, AwaitsNot
  <2>1. LeaveOK(net, stack[u], err[u])
    BY <1>4, LeaveFacts
  <2>2. f.held = net.tracker["main"].sock /\ net.sock[net.tracker["main"].sock] = "up"
    BY <2>1, <1>1 DEF LeaveOK
  <2>3. n = net
    BY <2>2, <1>1, <1>5, NothingApart
  <2>4. m.sock[r] = "up"
    BY <2>2, <2>3, <1>1, <1>8
  <2>5. CASE net' = g
    <3>1. Quiet(net', "main")
      BY <2>4, <2>5, <1>1, <1>g, NothingApart DEF Quiet
    <3> QED
      BY <3>1, <2>0, LeaveBusy
  <2>6. CASE Virt(net, "main") # 0
    <3>1. Virt(m, "main") # 0 /\ Virt(g, "main") # 0
      BY <2>4, <2>6, <1>5, <1>8, <1>g DEF Trackers, Virt
    <3> QED
      BY <3>1, <2>0, <1>2, LeaveBusy
  <2>7. CASE Virt(net, "main") = 0 /\ net' = m /\ err' = err
    <3>1. Len(stack[u]) = 2 /\ D(stack[u], 1).op \in {"with", "http_request"}
      BY <2>7, <1>1, <1>4, LoneTop
    <3>2. Len(stack'[u]) = 1 /\ D(stack'[u], 1).op \in {"with", "http_request"}
      BY <3>1, <1>1, <1>4, <1>9, AwaitsNot
    <3>3. net'.tracker["main"].connected
      BY <2>7, <1>1, <1>8
    <3> QED
      BY <3>2, <3>3, <2>0, <2>7, <1>4, LeaveConnected
  <2> QED
    BY <2>4, <2>5, <2>6, <2>7, <1>2
<1>13. Follows(net') /\ \A y \in Trackers : Virt(net', y) = Virt(net, y)
  <2>1. \A y \in Trackers : Virt(m, y) = Virt(net, y)
    BY <1>5, <1>8
  <2>2. CASE net' = m
    BY <2>1, <2>2, <1>8
  <2>3. CASE m.sock[r] = "up" /\ net' = g
    BY <2>1, <2>3, <1>g DEF Virt
  <2> QED
    BY <2>2, <2>3, <1>2
<1> QED
  BY <1>1, <1>r, <1>3, <1>9, <1>11, <1>12, <1>13, ConnectPops

-----------------------------------------------------------------------------
(* Frames that go on, call and are left *)

\* With main in no block, a call that is not its own, or has not connected, finds it quiet.
LEMMA LoneQuiet ==
  ASSUME IInv, Lone, NEW u \in setup.users, stack[u] # <<>>, ~Awaits(stack[u]),
         TopOf(stack[u]).op \in {"with", "http_request"} =>
           ~net.tracker["main"].connected \/ Inside(TopOf(stack[u]), "main") \/ err[u] # "none",
         TopOf(stack[u]).op # "connect"
  PROVE  Virt(net, "main") # 0 \/ Quiet(net, "main")
<1> SUFFICES ASSUME Virt(net, "main") = 0 PROVE Quiet(net, "main")
  OBVIOUS
<1>1. LeaveOK(net, stack[u], err[u])
  BY LeaveFacts
<1>2. \/ Quiet(net, "main")
      \/ net.tracker["main"].connected /\ err[u] = "none" /\ Len(stack[u]) = 1
         /\ D(stack[u], 1).op \in {"with", "http_request"}
  BY <1>1 DEF LeaveOK
<1>3. CASE net.tracker["main"].connected /\ err[u] = "none" /\ Len(stack[u]) = 1
           /\ D(stack[u], 1).op \in {"with", "http_request"}
  <2>1. TopOf(stack[u]) = D(stack[u], 1)
    <3>1. u \in Users
      BY SetupFacts DEF IInv, Core
    <3>2. TopOf(stack[u]) = D(stack[u], Len(stack[u]))
      BY <3>1, TopFacts
    <3> QED
      BY <3>2, <1>3
  <2>2. Inside(TopOf(stack[u]), "main")
    BY <2>1, <1>3
  <2>3. ~Inside(TopOf(stack[u]), "main")
    BY <2>1, <1>3, LoneTop
  <2> QED
    BY <2>2, <2>3
<1> QED
  BY <1>2, <1>3

\* A frame goes on, and the network does not change.
LEMMA StillGoes ==
  ASSUME IInv, NEW u, Steps(u), TopOf(stack[u]).op # "connect", net' = net, err[u] = "none", err' = err, sends' = sends,
         NEW f \in Frames, FrameOK(f), f.op = TopOf(stack[u]).op, f.sock = TopOf(stack[u]).sock,
         stack'[u] = <<f>> \o Tail(stack[u]),
         \A x \in Trackers : Inside(f, x) <=> Inside(TopOf(stack[u]), x),
         HandedOK(net, f),
         Share(f.op) = 0 \/ Over(f, TRUE, "none") >= Over(TopOf(stack[u]), TRUE, "none")
  PROVE  IInv'
<1> DEFINE g == TopOf(stack[u])
<1>1. u \in Users /\ stack[u] # <<>> /\ err'[u] = "none" /\ sends'[u] = sends[u] /\ u \in setup.users
  BY StepTouches, TopFacts DEF Steps, IInv
<1>2. /\ Follows(net) /\ FrameOK(g) /\ StackOK(stack[u]) /\ g \in Frames
      /\ \A x \in Trackers : Virt(net, x) \in Nat
  BY <1>1, TopFacts
<1>3. f.pc \notin {"connecting", "woken"} /\ g.pc \notin {"connecting", "woken"}
  BY <1>2 DEF FrameOK, DecoratedOK, PcsOf, Own, Decorated, Leaves, Frames, FrameOps
<1>4. Lone => LeaveOK(net', stack'[u], err'[u])
  <2> HAVE Lone
  <2>1. ~Awaits(stack[u]) /\ ~Awaits(stack'[u]) /\ Len(stack'[u]) = Len(stack[u])
        /\ (Len(stack[u]) = 1 => D(stack'[u], 1) = f)
    BY <1>1, <1>2, <1>3, AwaitsNot
  <2>2. Len(stack[u]) = 1 => D(stack[u], 1) = g
    BY <1>1, TopFacts
  <2> QED
    BY <2>1, <2>2, <1>1, LeaveSame
<1>5. \A x \in Trackers : Virt(net', x) = Virt(net, x) + Bit(Inside(f, x)) - Bit(Inside(g, x))
  BY <1>2 DEF Bit
<1>6. RaisedOK(<<f>>, err'[u])
  BY <1>1 DEF RaisedOK
<1>7. \/ err[u] # "error" /\ sends'[u] = sends[u] /\ Share(f.op) = 0
      \/ err[u] # "error" /\ sends'[u] = sends[u] /\ Over(f, TRUE, err'[u]) >= Over(g, TRUE, err[u])
  BY <1>1
<1>8. Follows(net') /\ HandedOK(net', f)
  BY <1>2
<1> QED
  BY <1>1, <1>4, <1>5, <1>6, <1>7, <1>8, GoesKeeps

\* A frame calls another, and the network does not change.
LEMMA StillPush ==
  ASSUME IInv, NEW u, Steps(u), TopOf(stack[u]).op # "connect", net' = net, err[u] = "none", err' = err, sends' = sends,
         NEW f \in Frames, FrameOK(f), f.op = TopOf(stack[u]).op, f.sock = TopOf(stack[u]).sock,
         NEW g \in Frames, FrameOK(g), CallOK(f, g), Rank(g.op) < Rank(f.op), g.pc = "start", g.tries = 0,
         stack'[u] = <<g, f>> \o Tail(stack[u]),
         \A x \in Trackers : Inside(f, x) <=> Inside(TopOf(stack[u]), x),
         HandedOK(net, f), HandedOK(net, g), g.op = "connect" /\ g.sock = "dup" => Virt(net, "dup") >= 1,
         \/ Share(f.op) = 0
         \/ Over(f, FALSE, "none") >= Over(TopOf(stack[u]), TRUE, "none")
         \/ g.op = "connect" /\ Over(f, TRUE, "none") >= Over(TopOf(stack[u]), TRUE, "none"),
         f.op \in {"with", "http_request"} => ~net.tracker["main"].connected \/ Inside(f, "main")
  PROVE  IInv'
<1> DEFINE h == TopOf(stack[u])
<1>1. u \in Users /\ stack[u] # <<>> /\ err'[u] = "none" /\ sends'[u] = sends[u] /\ u \in setup.users
  BY StepTouches, TopFacts DEF Steps, IInv
<1>2. /\ Follows(net) /\ FrameOK(h) /\ StackOK(stack[u]) /\ h \in Frames
      /\ \A x \in Trackers : Virt(net, x) \in Nat
  BY <1>1, TopFacts
<1>3. h.pc \notin {"connecting", "woken"}
  BY <1>2 DEF FrameOK, DecoratedOK, PcsOf, Own, Decorated, Leaves, Frames, FrameOps
<1>4. Lone => LeaveOK(net', stack'[u], err'[u])
  <2> HAVE Lone
  <2>1. ~Awaits(stack[u]) /\ ~Awaits(stack'[u])
    <3>1. ~Awaits(stack[u])
      BY <1>1, <1>2, <1>3, AwaitsNot
    <3>2. g.pc \notin {"connecting", "woken"}
      OBVIOUS
    <3>3. ~Awaits(<<g, f>> \o Tail(stack[u]))
      BY <1>1, <1>2, <3>2, AwaitsNot
    <3> QED
      BY <3>1, <3>3
  <2>2. Virt(net, "main") # 0 \/ Quiet(net, "main")
    <3>1. "main" \in Trackers
      BY DEF Trackers
    <3> QED
      BY <3>1, <1>1, <2>1, LoneQuiet
  <2> QED
    BY <2>1, <2>2, LeaveBusy
<1>5. \A x \in Trackers : Virt(net', x) = Virt(net, x) + Bit(Inside(f, x)) - Bit(Inside(h, x))
  BY <1>2 DEF Bit
<1>6. \A x \in Trackers : ~Inside(g, x)
  BY DEF Inside
<1>7. Over(g, TRUE, err'[u]) >= 0
  <2>1. g.n \in Nat /\ Chunks \in Nat
    BY SocketsAssumption DEF SocketsAssumption, Frames
  <2> QED
    BY <2>1 DEF Over, Tried, Taken
<1>8. Follows(net') /\ HandedOK(net', f) /\ HandedOK(net', g) /\ (g.op = "connect" /\ g.sock = "dup" => Virt(net', "dup") >= 1)
  BY <1>2
<1>9. \/ Share(f.op) = 0
      \/ Over(f, FALSE, "none") >= Over(h, TRUE, err[u])
      \/ g.op = "connect" /\ Over(f, TRUE, "none") >= Over(h, TRUE, err[u])
  BY <1>1
<1> QED
  BY <1>1, <1>4, <1>5, <1>6, <1>7, <1>8, <1>9, PushKeeps

\* Only a send is handed a socket and has sends of its own.
LEMMA HandedTop ==
  ASSUME NEW s, StackOK(s), s # <<>>, Handed(TopOf(s)), Share(TopOf(s).op) # 0
  PROVE  TopOf(s).op = "sendall"
<1> DEFINE f == TopOf(s)
<1>1. f \in Frames /\ FrameOK(f) /\ Len(s) \in Nat /\ Len(s) >= 1 /\ f = D(s, Len(s)) /\ 1 \in 1..Len(s)
  BY CallerOf, FramesOf DEF StackOK
<1>2. f.op \in {"http_request", "query", "send_chunks", "sendall"} /\ f.sock \in Socks /\ Async /\ f.sock # Nothing
  BY ShareOps, NothingApart DEF Handed
<1>3. f.op \notin {"http_request", "query"}
  BY <1>1, <1>2 DEF FrameOK, DecoratedOK, Decorated
<1>4. f.op # "send_chunks"
  <2> SUFFICES ASSUME f.op = "send_chunks" PROVE FALSE
    OBVIOUS
  <2>1. Len(s) # 1
    BY <1>1, <1>2 DEF StackOK
  <2>2. Tail(s) # <<>>
    BY <2>1, CallerOf
  <2>3. CallOK(TopOf(Tail(s)), f)
    BY <2>2, CallerOf
  <2> QED
    BY <2>3 DEF CallOK, Callees
<1> QED
  BY <1>2, <1>3, <1>4

\* A frame raises, and stays to handle it.
LEMMA RaiseKeeps ==
  ASSUME IInv, NEW u, Steps(u), TopOf(stack[u]).op # "connect", stack' = stack, err[u] = "none",
         err'[u] \in {"broken", "error"}, RaisedOK(stack[u], err'[u]),
         Follows(net'), net'.tracker = net.tracker, HandedOK(net', TopOf(stack[u])),
         Lone => \A x \in Socks : x = net.tracker["main"].sock => net'.sock[x] = net.sock[x] \/ Virt(net, "main") # 0,
         TopOf(stack[u]).op \in {"with", "http_request"} =>
           ~net.tracker["main"].connected \/ Inside(TopOf(stack[u]), "main"),
         \/ sends'[u] = sends[u] /\ (err'[u] = "error" \/ Share(TopOf(stack[u]).op) = 0)
         \/ /\ TopOf(stack[u]).op = "sendall" /\ sends'[u] = sends[u] + 1
            /\ Over(TopOf(stack[u]), TRUE, err'[u]) >= Over(TopOf(stack[u]), TRUE, "none") + 1
         \/ /\ sends'[u] = sends[u] /\ Over(TopOf(stack[u]), TRUE, err'[u]) >= Over(TopOf(stack[u]), TRUE, "none")
  PROVE  IInv'
<1> DEFINE f == TopOf(stack[u])
           s == stack[u]
<1>1. u \in Users /\ s # <<>> /\ u \in setup.users
  BY StepTouches, TopFacts DEF Steps, IInv
<1>2. /\ FrameOK(f) /\ StackOK(s) /\ f \in Frames /\ s \in Seq(Frames) /\ NetOK(net)
      /\ \A x \in Trackers : Virt(net, x) \in Nat
      /\ (f.op = "connect" /\ f.sock = "dup" => Virt(net, "dup") >= 1)
  BY <1>1, TopFacts
<1>3. s = <<f>> \o Tail(s)
  BY <1>1, <1>2 DEF TopOf
<1>4. f.pc \notin {"connecting", "woken"}
  BY <1>2 DEF FrameOK, DecoratedOK, PcsOf, Own, Decorated, Leaves, Frames, FrameOps
<1>5. Lone => LeaveOK(net', stack'[u], err'[u])
  <2> HAVE Lone
  <2>1. ~Awaits(s)
    BY <1>1, <1>2, <1>4, AwaitsNot
  <2>2. Virt(net, "main") # 0 \/ Quiet(net, "main")
    <3>1. "main" \in Trackers
      BY DEF Trackers
    <3> QED
      BY <3>1, <1>1, <2>1, LoneQuiet
  <2>3. Virt(net', "main") # 0 \/ Quiet(net', "main")
    <3>1. Virt(net', "main") = Virt(net, "main")
      BY DEF Virt
    <3>2. net.tracker["main"].sock \in Socks \cup {Nothing}
      BY <1>2 DEF NetOK, Nets, TrackerRecords, Trackers
    <3> QED
      BY <3>1, <3>2, <2>2 DEF Quiet
  <2> QED
    BY <2>1, <2>3, LeaveBusy
<1>6. \A x \in Trackers : Virt(net', x) = Virt(net, x) + Bit(Inside(f, x)) - Bit(Inside(f, x))
  BY <1>2 DEF Bit, Virt
<1>7. RaisedOK(<<f>>, err'[u])
  <2>1. TopOf(<<f>>) = f /\ <<f>> # <<>> /\ TopOf(s) = f
    BY <1>2, Begun
  <2> HIDE DEF f
  <2> QED
    BY <2>1 DEF RaisedOK
<1>8. stack'[u] = <<f>> \o Tail(s)
  BY <1>3
<1>9. \/ sends'[u] = sends[u] /\ err'[u] = "error"
      \/ err[u] # "error" /\ sends'[u] = sends[u] /\ Share(f.op) = 0
      \/ err[u] # "error" /\ sends'[u] = sends[u] /\ Over(f, TRUE, err'[u]) >= Over(f, TRUE, err[u])
      \/ /\ err[u] # "error" /\ f.op = "sendall" /\ sends'[u] = sends[u] + 1
         /\ Over(f, TRUE, err'[u]) >= Over(f, TRUE, err[u]) + 1
  OBVIOUS
<1> HIDE DEF f, s
<1>10. f.op = "connect" /\ f.sock = "dup" => Virt(net', "dup") >= 1
  BY DEF f
<1> QED
  BY <1>1, <1>2, <1>5, <1>6, <1>7, <1>8, <1>9, <1>10, GoesKeeps DEF f, s

\* A frame is left: it returns, or is left by an exception.
LEMMA LeavePops ==
  ASSUME IInv, NEW u, Steps(u), TopOf(stack[u]).op # "connect", stack'[u] = Tail(stack[u]),
         NEW m, Follows(m), m.tracker = net.tracker, net' = LeaveWith(m, TopOf(stack[u])),
         Lone => \A x \in Socks : x = net.tracker["main"].sock => m.sock[x] = net.sock[x] \/ Virt(net, "main") # 0,
         TopOf(stack[u]).op \in {"with", "http_request"} =>
           ~net.tracker["main"].connected \/ Inside(TopOf(stack[u]), "main") \/ err[u] # "none",
         LeavesRaw(TopOf(stack[u])) => TopOf(stack[u]).pc # "start",
         err'[u] = "none" \/ err'[u] = IF Len(stack[u]) = 1 THEN "none" ELSE err[u],
         \/ Len(stack[u]) = 1
         \/ sends'[u] = sends[u] /\ (err'[u] = "error" \/ (err[u] # "error" /\ Share(TopOf(stack[u]).op) = 0))
         \/ /\ sends'[u] - sends[u] \in {0, 1} /\ err[u] # "error" /\ Share(TopOf(stack[u]).op) # 0
            /\ Share(TopOf(stack[u]).op) * Over(TopOf(stack[u]), TRUE, err[u]) + (sends'[u] - sends[u])
                 <= IF Handed(TopOf(stack[u])) THEN 1 ELSE 3 * Share(TopOf(stack[u]).op)
  PROVE  IInv'
<1> DEFINE f == TopOf(stack[u])
           s == stack[u]
<1>1. u \in Users /\ s # <<>> /\ u \in setup.users
  BY StepTouches, TopFacts DEF Steps, IInv
<1>2. /\ FrameOK(f) /\ StackOK(s) /\ f \in Frames /\ NetOK(net)
      /\ \A x \in Trackers : Virt(net, x) \in Nat /\ (Inside(f, x) => Virt(net, x) >= 1)
      /\ LeavesRaw(f) => ~Owned(net, f.sock)
      /\ Len(s) = 1 => \A x \in Raw(s) : LeavesRaw(f) /\ f.sock = x
  BY <1>1, TopFacts
<1>3. f.pc \notin {"connecting", "woken"}
  BY <1>2 DEF FrameOK, DecoratedOK, PcsOf, Own, Decorated, Leaves, Frames, FrameOps
<1>4. /\ \A x \in Trackers : Virt(m, x) = Virt(net, x) /\ m.tracker[x] = net.tracker[x]
      /\ LeavesRaw(f) => ~Owned(m, f.sock)
      /\ \A x \in Trackers : Inside(f, x) => Virt(m, x) >= 1
  BY <1>2 DEF Virt, Owned
<1>5. /\ Follows(net')
      /\ \A t \in Trackers :
           /\ Inside(f, t) => /\ Virt(net', t) = Virt(m, t) - 1
                              /\ Virt(net', t) = 0 => ~net'.tracker[t].connected /\ net'.tracker[t].sock = Nothing
           /\ ~Inside(f, t) => net'.tracker[t] = m.tracker[t] /\ Virt(net', t) = Virt(m, t)
      /\ LeavesRaw(f) /\ f.pc # "start" => ~Open(net', f.sock)
      /\ \A x \in Socks : net'.sock[x] = m.sock[x] \/ ~Open(net', x)
  <2> HIDE DEF f
  <2>1. net' = LeaveWith(m, f)
    BY DEF f
  <2> QED
    BY <2>1, <1>2, <1>4, LeaveFollows
<1>6. \A x \in Trackers : Virt(net', x) = Virt(net, x) - Bit(Inside(f, x))
  <2> TAKE x \in Trackers
  <2> HIDE DEF f
  <2> QED
    BY <1>2, <1>4, <1>5 DEF Bit
<1>7. Lone => LeaveOK(net', stack'[u], err'[u])
  <2> HAVE Lone
  <2>1. ~Awaits(s) /\ ~Awaits(stack'[u]) /\ "main" \in Trackers
    BY <1>1, <1>2, <1>3, AwaitsNot DEF Trackers
  <2>2. Virt(net, "main") # 0 \/ Quiet(net, "main")
    BY <2>1, <1>1, LoneQuiet
  <2>3. Virt(net', "main") # 0 \/ Quiet(net', "main")
    <3>1. CASE Inside(f, "main")
      BY <3>1, <2>1, <1>5 DEF Quiet
    <3>2. CASE ~Inside(f, "main")
      <4>1. net'.tracker["main"] = net.tracker["main"] /\ Virt(net', "main") = Virt(net, "main")
        BY <3>2, <2>1, <1>4, <1>5
      <4>2. CASE Quiet(net, "main") /\ Virt(net, "main") = 0
        <5> DEFINE x == net.tracker["main"].sock
        <5>1. x \in Socks \cup {Nothing} /\ net'.tracker["main"].sock = x
          BY <4>1, <1>2, <2>1 DEF NetOK, Nets, TrackerRecords
        <5>2. x # Nothing => Open(net', x)
          BY <1>5, <5>1, <2>1 DEF Follows, NetOK
        <5>3. x # Nothing => net'.sock[x] = net.sock[x]
          BY <5>1, <5>2, <1>5, <4>2
        <5> QED
          BY <4>1, <4>2, <5>1, <5>3 DEF Quiet
      <4> QED
        BY <4>1, <4>2, <2>2
    <3> QED
      BY <3>1, <3>2
  <2> QED
    BY <2>1, <2>3, LeaveBusy
<1>8. RaisedOK(stack'[u], err'[u])
  <2>1. RaisedOK(Tail(s), IF Len(s) = 1 THEN "none" ELSE err[u])
    BY <1>1, <1>2, RaisedBelow
  <2> QED
    BY <2>1 DEF RaisedOK
<1>9. Len(s) = 1 => \A x \in Raw(s) : ~Open(net', x)
  BY <1>2, <1>5
<1> QED
  BY <1>5, <1>6, <1>7, <1>8, <1>9, PopKeeps

-----------------------------------------------------------------------------
(* The decorator *)

\* The frame of any operation.
LEMMA NewFrame ==
  ASSUME NEW op \in FrameOps, NEW sock \in Socks \cup Trackers \cup {Nothing}, NEW n \in Nat
  PROVE  LET g == [Frame(op, sock) EXCEPT !.n = n]
         IN  /\ g \in Frames /\ g.op = op /\ g.sock = sock /\ g.pc = "start" /\ g.tries = 0 /\ g.held = Nothing
             /\ LET h == Frame(op, sock)
                IN  h \in Frames /\ h.op = op /\ h.sock = sock /\ h.pc = "start" /\ h.tries = 0 /\ h.held = Nothing
BY DEF Frame, Frames, Pcs

\* A frame of connect.
LEMMA ConnectFrame ==
  ASSUME NEW t \in Trackers, t = "dup" => ~Async, NEW n \in Nat
  PROVE  LET g == [Connect(t) EXCEPT !.n = n]
         IN  /\ g \in Frames /\ FrameOK(g) /\ ~Handed(g) /\ g.pc = "start" /\ g.tries = 0 /\ g.op = "connect" /\ g.sock = t
             /\ \A m : HandedOK(m, g)
             /\ \A op \in Decorated \cup {"with"} : Rank(g.op) < Rank(op)
<1> DEFINE g == [Connect(t) EXCEPT !.n = n]
<1>1. "connect" \in FrameOps
  BY DEF FrameOps
<1>2. g \in Frames /\ g.op = "connect" /\ g.sock = t /\ g.pc = "start" /\ g.tries = 0 /\ g.held = Nothing
  BY <1>1, NewFrame DEF Connect
<1> HIDE DEF g
<1>3. FrameOK(g)
  BY <1>2 DEF FrameOK, Decorated, Leaves, Trackers
<1>4. ~Handed(g)
  BY <1>2, NothingApart DEF Handed, Trackers
<1>5. \A op \in Decorated \cup {"with"} : Rank(g.op) < Rank(op)
  BY <1>2 DEF Rank, Decorated, Leaves
<1> QED
  BY <1>2, <1>3, <1>4, <1>5 DEF HandedOK, g

\* A frame of connect for main.
LEMMA ConnectMain ==
  LET g == Connect("main")
  IN  /\ g \in Frames /\ FrameOK(g) /\ ~Handed(g) /\ g.pc = "start" /\ g.tries = 0 /\ g.op = "connect" /\ g.sock = "main"
      /\ \A m : HandedOK(m, g)
      /\ \A op \in Decorated \cup {"with"} : Rank(g.op) < Rank(op)
<1> DEFINE g == Connect("main")
           h == [g EXCEPT !.n = 0]
<1>1. "main" \in Trackers /\ 0 \in Nat /\ "main" # "dup"
  BY DEF Trackers
<1>2. h = g
  BY DEF Connect, Frame
<1>3. /\ h \in Frames /\ FrameOK(h) /\ ~Handed(h) /\ h.pc = "start" /\ h.tries = 0 /\ h.op = "connect" /\ h.sock = "main"
      /\ \A m : HandedOK(m, h)
      /\ \A op \in Decorated \cup {"with"} : Rank(h.op) < Rank(op)
  BY <1>1, ConnectFrame
<1> HIDE DEF g, h
<1> QED
  BY <1>2, <1>3 DEF g

\* A frame of a decorated operation.
LEMMA CalleeFrame ==
  ASSUME NEW op \in Decorated, NEW sock \in Socks \cup Trackers \cup {Nothing}, sock # "main", sock = "dup" => ~Async,
         op \in {"http_request", "send_chunks"} \/ (op = "query" /\ Async) => sock = Nothing
  PROVE  LET g == Frame(op, sock)
         IN  /\ g \in Frames /\ FrameOK(g) /\ g.pc = "start" /\ g.tries = 0 /\ g.op = op /\ g.sock = sock
<1> DEFINE g == Frame(op, sock)
<1>1. op \in FrameOps /\ Chunks \in Nat
  BY SocketsAssumption DEF FrameOps, SocketsAssumption
<1>2. g \in Frames /\ g.op = op /\ g.sock = sock /\ g.pc = "start" /\ g.tries = 0 /\ g.held = Nothing /\ g.n = 0
  BY <1>1 DEF Frame, Frames, Pcs
<1> HIDE DEF g
<1>3. DecoratedOK(g)
  <2>1. g.n <= Chunks
    BY <1>1, <1>2
  <2> QED
    BY <1>2, <2>1 DEF DecoratedOK, PcsOf
<1>4. FrameOK(g)
  BY <1>2, <1>3 DEF FrameOK, Decorated, Leaves
<1> QED
  BY <1>2, <1>4 DEF g

\* A try begins with what the ones before it may have sent.
LEMMA TryBegins ==
  ASSUME NEW f \in Frames, NEW g \in Frames, ~Given(f), f.pc \in {"start", "ready"},
         g.op = f.op, g.sock = f.sock, g.n = f.n, g.tries = f.tries + 1, g.pc = "body"
  PROVE  Over(g, TRUE, "none") >= Over(f, TRUE, "none")
<1>1. f.tries \in 0..3 /\ f.n \in Nat /\ Chunks \in Nat
  BY SocketsAssumption DEF SocketsAssumption, Frames
<1>2. ~Given(g)
  BY DEF Given
<1> DEFINE x == f.tries
           n == f.n
<1>3. CASE f.op = "send_chunks"
  <2>1. /\ Over(f, TRUE, "none") = IF setup.generator THEN n ELSE Chunks * x
        /\ Over(g, TRUE, "none") = IF setup.generator THEN n ELSE Chunks * (g.tries - 1) + n
    BY <1>3 DEF Over, Tried, Taken
  <2>2. g.tries - 1 = x
    BY <1>1
  <2> HIDE DEF x, n
  <2>3. (IF setup.generator THEN n ELSE Chunks * x + n) >= IF setup.generator THEN n ELSE Chunks * x
    BY <1>1 DEF x, n
  <2> QED
    BY <2>1, <2>2, <2>3
<1>4. CASE f.op # "send_chunks"
  <2> DEFINE a == Over(f, TRUE, "none")
             b == Over(g, TRUE, "none")
  <2>1. a = x /\ b = g.tries - 1
    BY <1>2, <1>4 DEF Over, Tried
  <2>2. g.tries - 1 = x
    BY <1>1
  <2> HIDE DEF a, b
  <2>3. b >= a
    BY <1>1, <2>1, <2>2
  <2> QED
    BY <2>3 DEF a, b
<1> QED
  BY <1>3, <1>4

\* The decorator begins an operation, or connects first.
LEMMA sockwrapper_auto_connectStep ==
  ASSUME IInv, NEW u \in Users, sockwrapper_auto_connect(u)
  PROVE  IInv'
<1> DEFINE f == TopOf(stack[u])
<1>1. /\ Turn(u) /\ stack[u] # <<>> /\ err[u] = "none" /\ f.pc = "start" /\ f.op \in Decorated /\ Top(u) = f
  BY AtFacts DEF sockwrapper_auto_connect
<1>r. setup' = setup /\ blocks' = blocks /\ calls' = calls /\ sends' = sends /\ faults' = faults /\ net' = net
  BY DEF sockwrapper_auto_connect, Rest
<1>2. Steps(u)
  <2>1. /\ stack' = stack \/ \E q : stack' = [stack EXCEPT ![u] = q]
        /\ err' = err \/ \E e \in Raised : err' = [err EXCEPT ![u] = e]
    BY DEF sockwrapper_auto_connect, Jump, Call, Raise, Raised
  <2> QED
    BY <2>1, <1>1, <1>r DEF Steps
<1>3. /\ stack \in [Users -> Seq(Frames)] /\ err \in [Users -> Raised] /\ f \in Frames /\ FrameOK(f) /\ StackOK(stack[u])
      /\ HandedOK(net, f) /\ Follows(net) /\ stack[u][1] = f
  BY <1>1, TopFacts DEF IInv, Core, StacksInv, TopOf
<1>4. DecoratedOK(f) /\ f.op # "connect" /\ f.tries \in 0..3
  BY <1>1, <1>3 DEF FrameOK, Decorated, Leaves, Frames
<1>5. CASE f.sock # Nothing /\ ~Async
  <2> DEFINE g == [f EXCEPT !.pc = IF f.sock = "dup" THEN "enter" ELSE "body"]
  <2>1. stack'[u] = <<g>> \o Tail(stack[u]) /\ err' = err
    BY <1>1, <1>3, <1>5 DEF sockwrapper_auto_connect, Jump
  <2>2. /\ g \in Frames /\ g.op = f.op /\ g.sock = f.sock /\ g.held = f.held /\ g.tries = f.tries
        /\ g.pc \in {"enter", "body"} /\ (g.pc = "enter" <=> f.sock = "dup") /\ f.op # "send_chunks"
    BY <1>3, <1>4, <1>5 DEF Frames, Pcs, DecoratedOK
  <2> HIDE DEF g
  <2>3. DecoratedOK(g)
    BY <2>2, <1>1, <1>4, <1>5 DEF DecoratedOK, PcsOf, Given, Handed
  <2>4. FrameOK(g)
    BY <2>2, <2>3, <1>1, <1>3 DEF FrameOK, Decorated, Leaves
  <2>5. \A x \in Trackers : Inside(g, x) <=> Inside(f, x)
    BY <2>2, <1>1 DEF Inside
  <2>6. HandedOK(net, g)
    BY <2>2, <1>5 DEF HandedOK, Handed
  <2>7. Over(g, TRUE, "none") >= Over(f, TRUE, "none")
    <3> DEFINE a == Over(f, TRUE, "none")
               b == Over(g, TRUE, "none")
    <3>1. Given(g) /\ Given(f)
      BY <2>2, <1>5 DEF Given
    <3>2. a = 0
      BY <3>1, <2>2, <1>1 DEF Over, Tried
    <3>3. b = 0
      BY <3>1, <2>2 DEF Over, Tried
    <3> HIDE DEF a, b
    <3>4. b >= a
      BY <3>2, <3>3
    <3> QED
      BY <3>4 DEF a, b
  <2> QED
    BY <1>1, <1>2, <1>4, <1>r, <2>1, <2>2, <2>4, <2>5, <2>6, <2>7, StillGoes
<1>6. CASE ~(f.sock # Nothing /\ ~Async) /\ net.tracker["main"].connected
  <2> DEFINE g == [f EXCEPT !.pc = "body", !.tries = @ + 1]
  <2>1. stack'[u] = <<g>> \o Tail(stack[u]) /\ err' = err
    BY <1>1, <1>3, <1>6 DEF sockwrapper_auto_connect, Jump
  <2>2. ~Given(f) /\ f.tries <= 2 /\ f.sock # "dup"
    BY <1>1, <1>4, <1>6, NothingApart DEF DecoratedOK, Given
  <2>3. /\ g \in Frames /\ g.op = f.op /\ g.sock = f.sock /\ g.held = f.held /\ g.tries = f.tries + 1 /\ g.pc = "body"
        /\ g.n = f.n
    <3>1. f.tries + 1 \in 0..3
      BY <1>4, <2>2
    <3> QED
      BY <3>1, <1>3 DEF Frames, Pcs
  <2> HIDE DEF g
  <2>4. ~Given(g) /\ (Handed(g) <=> Handed(f)) /\ g.tries >= 1
    BY <2>2, <2>3, <1>4 DEF Given, Handed
  <2>4a. f.op = "sendall" /\ Handed(f) => f.tries <= 1
    BY <1>1, <1>4 DEF DecoratedOK
  <2>5. DecoratedOK(g)
    <3>1. g.op = "sendall" /\ Handed(g) => g.tries <= 2
      BY <2>3, <2>4, <2>4a, <1>4
    <3> QED
    BY <3>1, <2>3, <2>4, <1>1, <1>4 DEF DecoratedOK, PcsOf
  <2>6. FrameOK(g)
    BY <2>3, <2>5, <1>1, <1>3 DEF FrameOK, Decorated, Leaves
  <2>7. \A x \in Trackers : Inside(g, x) <=> Inside(f, x)
    BY <2>2, <2>3, <1>1 DEF Inside
  <2>8. HandedOK(net, g)
    <3>1. g.tries >= 2 => f.tries >= 1
      BY <2>3, <1>4
    <3> QED
      BY <3>1, <2>3, <2>4, <1>1, <1>3 DEF HandedOK
  <2>9. Over(g, TRUE, "none") >= Over(f, TRUE, "none")
    BY <2>2, <2>3, <1>1, <1>3, TryBegins
  <2> QED
    BY <1>1, <1>2, <1>4, <1>r, <2>1, <2>3, <2>6, <2>7, <2>8, <2>9, StillGoes
<1>7. CASE ~(f.sock # Nothing /\ ~Async) /\ ~net.tracker["main"].connected /\ setup.auto_connect
  <2> DEFINE h == [f EXCEPT !.pc = "ready"]
             g == Connect("main")
  <2>1. stack'[u] = <<g, h>> \o Tail(stack[u]) /\ err' = err
    BY <1>1, <1>3, <1>7 DEF sockwrapper_auto_connect, Call
  <2>2. ~Given(f) /\ f.tries <= 2 /\ f.sock # "dup"
    BY <1>1, <1>4, <1>7, NothingApart DEF DecoratedOK, Given
  <2>3. /\ h \in Frames /\ h.op = f.op /\ h.sock = f.sock /\ h.held = f.held /\ h.tries = f.tries /\ h.pc = "ready"
        /\ h.n = f.n
    BY <1>3 DEF Frames, Pcs
  <2>4. /\ g \in Frames /\ FrameOK(g) /\ ~Handed(g) /\ g.pc = "start" /\ g.tries = 0 /\ g.op = "connect" /\ g.sock = "main"
        /\ HandedOK(net, g) /\ Rank(g.op) < Rank(f.op)
    <3>1. f.op \in Decorated \cup {"with"}
      BY <1>1
    <3> QED
      BY <3>1, ConnectMain
  <2> HIDE DEF g, h
  <2>5. ~Given(h) /\ (Handed(h) <=> Handed(f))
    BY <2>2, <2>3 DEF Given, Handed
  <2>6. DecoratedOK(h)
    BY <2>2, <2>3, <2>5, <1>1, <1>4 DEF DecoratedOK, PcsOf
  <2>7. FrameOK(h)
    BY <2>3, <2>6, <1>1, <1>3 DEF FrameOK, Decorated, Leaves
  <2>8. \A x \in Trackers : Inside(h, x) <=> Inside(f, x)
    BY <2>2, <2>3, <1>1 DEF Inside
  <2>9. HandedOK(net, h)
    BY <2>3, <2>5, <1>1, <1>3 DEF HandedOK
  <2>10. Over(h, FALSE, "none") >= Over(f, TRUE, "none")
    <3> DEFINE a == Over(f, TRUE, "none")
               b == Over(h, FALSE, "none")
    <3>1. a = Tried(f) /\ b = Tried(h)
      BY <2>3, <1>1 DEF Over
    <3>2. Tried(h) = Tried(f) /\ Tried(f) \in Int
      BY <2>2, <2>3, <2>5, <1>1, <1>3, TriedInt DEF Tried, Taken
    <3> HIDE DEF a, b
    <3>3. b >= a
      BY <3>1, <3>2
    <3> QED
      BY <3>3 DEF a, b
  <2>11. CallOK(h, g)
    BY <2>2, <2>3, <2>4, <2>5, <1>1, <1>7, NothingApart DEF CallOK
  <2> QED
    BY <1>1, <1>2, <1>4, <1>7, <1>r, <2>1, <2>3, <2>4, <2>7, <2>8, <2>9, <2>10, <2>11, StillPush
<1>8. CASE ~(f.sock # Nothing /\ ~Async) /\ ~net.tracker["main"].connected /\ ~setup.auto_connect
  <2>1. stack' = stack /\ err'[u] = "error"
    BY <1>1, <1>3, <1>8 DEF sockwrapper_auto_connect, Raise
  <2>2. RaisedOK(stack[u], err'[u])
    BY <2>1, <1>1, <1>8 DEF RaisedOK, Given
  <2> QED
    BY <1>1, <1>2, <1>3, <1>4, <1>8, <1>r, <2>1, <2>2, RaiseKeeps
<1> QED
  BY <1>5, <1>6, <1>7, <1>8

\* The operation goes on once connect has returned.
LEMMA ReadyStep ==
  ASSUME IInv, NEW u \in Users, Ready(u)
  PROVE  IInv'
<1> DEFINE f == TopOf(stack[u])
           g == [f EXCEPT !.pc = "body", !.tries = @ + 1]
<1>1. /\ Turn(u) /\ stack[u] # <<>> /\ err[u] = "none" /\ f.pc = "ready" /\ f.op \in Decorated /\ Top(u) = f
  BY AtFacts, TopFacts DEF Ready
<1>r. setup' = setup /\ blocks' = blocks /\ calls' = calls /\ sends' = sends /\ faults' = faults /\ net' = net /\ err' = err
  BY DEF Ready, Rest
<1>2. Steps(u)
  <2>1. \E q : stack' = [stack EXCEPT ![u] = q]
    BY DEF Ready, Jump
  <2> QED
    BY <2>1, <1>1, <1>r DEF Steps
<1>3. /\ stack \in [Users -> Seq(Frames)] /\ f \in Frames /\ FrameOK(f) /\ StackOK(stack[u])
      /\ HandedOK(net, f)
  BY <1>1, TopFacts DEF IInv, Core, StacksInv
<1>4. DecoratedOK(f) /\ f.op # "connect" /\ f.tries \in 0..3
  BY <1>1, <1>3 DEF FrameOK, Decorated, Leaves, Frames
<1>5. stack'[u] = <<g>> \o Tail(stack[u])
  BY <1>1, <1>3 DEF Ready, Jump
<1>6. ~Given(f) /\ f.tries <= 2 /\ f.sock # "dup"
  <2>1. ~Given(f) /\ f.tries <= 2
    BY <1>1, <1>4 DEF DecoratedOK
  <2> QED
    BY <2>1, <1>4, NothingApart DEF DecoratedOK, Given
<1>7. /\ g \in Frames /\ g.op = f.op /\ g.sock = f.sock /\ g.held = f.held /\ g.tries = f.tries + 1 /\ g.pc = "body"
      /\ g.n = f.n
  <2>1. f.tries + 1 \in 0..3
    BY <1>4, <1>6
  <2> QED
    BY <2>1, <1>3 DEF Frames, Pcs
<1> HIDE DEF g
<1>8. ~Given(g) /\ (Handed(g) <=> Handed(f)) /\ g.tries >= 1
  BY <1>4, <1>6, <1>7 DEF Given, Handed
<1>9. f.op = "sendall" /\ Handed(f) => f.tries <= 1
  BY <1>1, <1>4 DEF DecoratedOK
<1>10. FrameOK(g)
  <2>1. g.op = "sendall" /\ Handed(g) => g.tries <= 2
    BY <1>4, <1>7, <1>8, <1>9
  <2>2. DecoratedOK(g)
    BY <2>1, <1>1, <1>4, <1>7, <1>8 DEF DecoratedOK, PcsOf
  <2> QED
    BY <2>2, <1>1, <1>3, <1>7 DEF FrameOK, Decorated, Leaves
<1>11. \A x \in Trackers : Inside(g, x) <=> Inside(f, x)
  BY <1>1, <1>6, <1>7 DEF Inside
<1>12. HandedOK(net, g)
  <2>1. g.tries >= 2 => f.tries >= 1
    BY <1>4, <1>7
  <2> QED
    BY <2>1, <1>1, <1>3, <1>7, <1>8 DEF HandedOK
<1>13. Over(g, TRUE, "none") >= Over(f, TRUE, "none")
  BY <1>1, <1>3, <1>6, <1>7, TryBegins
<1> QED
  BY <1>1, <1>2, <1>4, <1>5, <1>7, <1>10, <1>11, <1>12, <1>13, <1>r, StillGoes

\* self.socket connects first: the frame stays where it is.
LEMMA AutoSocketKeeps ==
  ASSUME IInv, NEW u \in Users, Turn(u), stack[u] # <<>>, err[u] = "none",
         TopOf(stack[u]).op \in Decorated, TopOf(stack[u]).pc = "body" \/ (TopOf(stack[u]).pc = "sent" /\ TopOf(stack[u]).op = "query" /\ Async),
         MustConnect(TopOf(stack[u])), auto_socket(u)
  PROVE  IInv'
<1> DEFINE f == TopOf(stack[u])
           t == On(f)
           g == [Connect(t) EXCEPT !.n = 1]
<1>1. /\ stack \in [Users -> Seq(Frames)] /\ f \in Frames /\ FrameOK(f) /\ StackOK(stack[u])
      /\ HandedOK(net, f) /\ Top(u) = f /\ stack[u][1] = f /\ Follows(net)
      /\ \A x \in Trackers : Inside(f, x) => Virt(net, x) >= 1
  BY TopFacts DEF IInv, Core, StacksInv, TopOf
<1>r. setup' = setup /\ blocks' = blocks /\ calls' = calls /\ sends' = sends /\ faults' = faults /\ net' = net /\ err' = err
  BY DEF auto_socket, Rest
<1>2. Steps(u)
  <2>1. \E q : stack' = [stack EXCEPT ![u] = q]
    BY DEF auto_socket, Call
  <2> QED
    BY <2>1, <1>r DEF Steps
<1>3. DecoratedOK(f) /\ f.op # "connect"
  BY <1>1 DEF FrameOK, Decorated, Leaves
<1>4. [f EXCEPT !.pc = f.pc] = f
  BY <1>1 DEF Frames
<1>5. stack'[u] = <<g, f>> \o Tail(stack[u])
  BY <1>1, <1>4 DEF auto_socket, Call
<1>6. t \in Trackers /\ ~net.tracker[t].connected
  BY DEF MustConnect
<1>7. /\ t = "dup" <=> f.sock = "dup"
      /\ f.sock \notin Socks /\ (f.sock = "dup" => ~Async)
  <2>1. f.sock \notin Socks
    BY <1>6, NothingApart DEF On, Trackers
  <2> QED
    BY <2>1, <1>3, <1>6, NothingApart DEF On, DecoratedOK
<1>8. /\ g \in Frames /\ FrameOK(g) /\ ~Handed(g) /\ g.pc = "start" /\ g.tries = 0 /\ g.op = "connect" /\ g.sock = t
      /\ HandedOK(net, g) /\ Rank(g.op) < Rank(f.op)
  <2>1. f.op \in Decorated \cup {"with"} /\ 1 \in Nat
    OBVIOUS
  <2> HIDE DEF t, f
  <2> QED
    BY <2>1, <1>6, <1>7, ConnectFrame
<1>9. t = "dup" => Virt(net, "dup") >= 1
  <2> HAVE t = "dup"
  <2>1. Inside(f, "dup") /\ "dup" \in Trackers
    BY <1>7 DEF Inside, Trackers
  <2> QED
    BY <2>1, <1>1
<1> HIDE DEF g, t
<1>10. CallOK(f, g)
  BY <1>7, <1>8 DEF CallOK
<1>11. Over(f, TRUE, "none") >= Over(f, TRUE, "none")
  <2> DEFINE a == Over(f, TRUE, "none")
  <2>1. TRUE \in BOOLEAN
    OBVIOUS
  <2>2. a \in Int
    BY <1>1, <2>1, OverOf
  <2> HIDE DEF a
  <2>3. a >= a
    BY <2>2
  <2> QED
    BY <2>3 DEF a
<1>12. f.op \in {"with", "http_request"} => ~net.tracker["main"].connected \/ Inside(f, "main")
  <2> HAVE f.op \in {"with", "http_request"}
  <2>1. f.op = "http_request"
    BY DEF Decorated, Leaves
  <2>2. t = "main"
    BY <2>1, <1>3 DEF DecoratedOK, t, On
  <2> QED
    BY <2>2, <1>6
<1> QED
  BY <1>1, <1>2, <1>3, <1>5, <1>8, <1>9, <1>10, <1>11, <1>12, <1>r, StillPush

-----------------------------------------------------------------------------
(* Composite operations *)

\* A composite operation calls one of its parts; send_chunks counts the chunk.
LEMMA HandsOn ==
  ASSUME IInv, NEW u \in Users, Turn(u), stack[u] # <<>>, err[u] = "none",
         TopOf(stack[u]).op \in Decorated, NEW pc, NEW op, NEW sock, NEW m \in Nat,
         IF TopOf(stack[u]).op = "send_chunks" THEN m = TopOf(stack[u]).n + 1 /\ m <= Chunks
         ELSE m = TopOf(stack[u]).n,
         <<TopOf(stack[u]).op, pc, op>> \in Callees,
         \/ TopOf(stack[u]).pc = "body" /\ TopOf(stack[u]).op # "http_request" /\ pc # "done"
         \/ TopOf(stack[u]).pc = "again" /\ TopOf(stack[u]).op = "send_chunks"
         \/ TopOf(stack[u]).pc = "in" /\ TopOf(stack[u]).op = "http_request"
         \/ TopOf(stack[u]).pc = "sent" /\ TopOf(stack[u]).op = "query" /\ pc = "done",
         IF Async /\ TopOf(stack[u]).op = "query" THEN sock \in Socks /\ net.tracker["main"].sock = sock
         ELSE sock = TopOf(stack[u]).sock,
         stack' = [stack EXCEPT ![u] = <<Frame(op, sock), [TopOf(stack[u]) EXCEPT !.pc = pc, !.n = m]>> \o Tail(@)],
         UNCHANGED <<net, err>>, Rest
  PROVE  IInv'
<1> DEFINE f == TopOf(stack[u])
           h == [f EXCEPT !.pc = pc, !.n = m]
           g == Frame(op, sock)
<1>1. /\ stack \in [Users -> Seq(Frames)] /\ f \in Frames /\ FrameOK(f) /\ StackOK(stack[u])
      /\ HandedOK(net, f) /\ Top(u) = f /\ stack[u][1] = f /\ f.tries \in 0..3
  BY TopFacts DEF IInv, Core, StacksInv, TopOf, Frames
<1>r. setup' = setup /\ blocks' = blocks /\ calls' = calls /\ sends' = sends /\ faults' = faults /\ net' = net /\ err' = err
  BY DEF Rest
<1>2. Steps(u)
  <2>1. \E q : stack' = [stack EXCEPT ![u] = q]
    OBVIOUS
  <2> QED
    BY <2>1, <1>r DEF Steps
<1>3. DecoratedOK(f) /\ f.op # "connect"
  BY <1>1 DEF FrameOK, Decorated, Leaves
<1>4. stack'[u] = <<g, h>> \o Tail(stack[u])
  BY <1>1
<1>5. /\ f.op \in {"send_chunks", "read_eof", "query", "http_request"} /\ op \in Decorated /\ op # "http_request"
      /\ pc \in {"again", "read", "sent", "done", "out"} /\ pc \in Own(f.op)
      /\ (op = "query" => f.op = "http_request")
      /\ Rank(op) < Rank(f.op)
      /\ (pc \in {"done", "sent"} <=> f.op = "query") /\ (pc = "out" <=> f.op = "http_request")
      /\ op \notin {"connect", "with"}
  BY DEF Callees, Decorated, Leaves, Own, Rank
<1>6. h \in Frames /\ h.op = f.op /\ h.sock = f.sock /\ h.held = f.held /\ h.tries = f.tries /\ h.pc = pc /\ h.n = m
  BY <1>1, <1>5 DEF Frames, Pcs
<1>7. sock \in Socks \cup Trackers \cup {Nothing} /\ sock # "main" /\ (sock = "dup" => ~Async)
      /\ (op = "query" /\ Async => sock = Nothing) /\ op # "send_chunks"
  BY <1>1, <1>3, <1>5, NothingApart DEF Frames, DecoratedOK, Callees
<1>8. g \in Frames /\ FrameOK(g) /\ g.pc = "start" /\ g.tries = 0 /\ g.op = op /\ g.sock = sock
  BY <1>5, <1>7, CalleeFrame
<1> HIDE DEF h, g
<1>9. FrameOK(h)
  <2>1. f.pc \notin {"start", "ready", "enter", "entered"}
    OBVIOUS
  <2>2. pc \notin {"start", "ready", "enter", "entered"} /\ pc \in PcsOf(f.op)
    BY <1>5 DEF PcsOf
  <2>4. h.op = "send_chunks" => h.n <= Chunks /\ h.n >= 1
    BY <1>1, <1>6 DEF Frames
  <2>3. DecoratedOK(h)
    BY <2>1, <2>2, <2>4, <1>3, <1>5, <1>6 DEF DecoratedOK, Given, Handed, Leaves
  <2> QED
    BY <2>3, <1>1, <1>5, <1>6 DEF FrameOK, Decorated, Leaves
<1>10. CallOK(h, g)
  BY <1>3, <1>5, <1>6, <1>8 DEF CallOK
<1>11. \A x \in Trackers : Inside(h, x) <=> Inside(f, x)
  BY <1>5, <1>6 DEF Inside
<1>12. HandedOK(net, h)
  BY <1>1, <1>5, <1>6 DEF HandedOK, Handed
<1>13. HandedOK(net, g)
  <2> SUFFICES ASSUME Handed(g) PROVE Open(net, g.sock) => net.tracker["main"].sock = g.sock
    BY <1>8 DEF HandedOK
  <2> QED
    BY <1>1, <1>8 DEF HandedOK, Handed
<1>14. Share(h.op) = 0 \/ Over(h, FALSE, "none") >= Over(f, TRUE, "none")
  <2> SUFFICES ASSUME f.op # "read_eof" PROVE Over(h, FALSE, "none") >= Over(f, TRUE, "none")
    BY <1>6 DEF Share
  <2> DEFINE a == Over(h, FALSE, "none")
             b == Over(f, TRUE, "none")
  <2>1. f.op = "send_chunks" => a = b
    <3> HAVE f.op = "send_chunks"
    <3> DEFINE x == f.tries
               n == f.n
    <3>1. h.pc = "again" /\ h.n = n + 1 /\ n \in Nat /\ x \in 0..3 /\ Chunks \in Nat
      BY <1>1, <1>5, <1>6, SocketsAssumption DEF Callees, Frames, SocketsAssumption
    <3>2. /\ b = IF setup.generator THEN n ELSE Chunks * (x - 1) + n
          /\ a = (IF setup.generator THEN n + 1 ELSE Chunks * (x - 1) + (n + 1)) - 1
      BY <3>1, <1>6 DEF Over, Tried, Taken
    <3> HIDE DEF x, n, a, b
    <3> QED
      BY <3>1, <3>2
  <2>2. f.op # "send_chunks" => a = b
    <3> HAVE f.op # "send_chunks"
    <3>0. Tried(f) \in Int
      BY <1>1, TriedInt
    <3>1. Tried(h) = Tried(f)
      BY <1>5, <1>6 DEF Tried, Given
    <3>2. \/ f.pc \in {"body", "in"} /\ pc \in {"again", "read", "sent", "out"}
          \/ f.pc = "sent" /\ pc = "done"
      BY <1>5
    <3>3. h.op # "send_chunks" /\ h.pc = pc
      BY <1>6
    <3>4. CASE f.pc \in {"body", "in"} /\ pc \in {"again", "read", "sent", "out"}
      <4>1. a = Tried(h) - 1
        BY <3>3, <3>4 DEF Over
      <4>2. b = Tried(f) - 1
        BY <3>4 DEF Over
      <4> HIDE DEF a, b
      <4> QED
        BY <3>0, <3>1, <4>1, <4>2
    <3>5. CASE f.pc = "sent" /\ pc = "done"
      <4>1. a = Tried(h)
        BY <3>3, <3>5 DEF Over
      <4>2. b = Tried(f)
        BY <3>5 DEF Over
      <4> HIDE DEF a, b
      <4> QED
        BY <3>0, <3>1, <4>1, <4>2
    <3> QED
      BY <3>2, <3>4, <3>5
  <2>3. b \in Int
    BY <1>1, OverOf
  <2> HIDE DEF a, b
  <2>4. a >= b
    BY <2>1, <2>2, <2>3
  <2> QED
    BY <2>4 DEF a, b
<1>15. h.op \in {"with", "http_request"} => ~net.tracker["main"].connected \/ Inside(h, "main")
  <2> HAVE h.op \in {"with", "http_request"}
  <2> QED
    BY <1>3, <1>5, <1>6 DEF Inside, DecoratedOK
<1> QED
  BY <1>1, <1>2, <1>3, <1>4, <1>5, <1>6, <1>8, <1>9, <1>10, <1>11, <1>12, <1>13, <1>14, <1>15, <1>r, StillPush

\* The others go on as they were.
LEMMA HandsKeeps ==
  ASSUME IInv, NEW u \in Users, Turn(u), stack[u] # <<>>, err[u] = "none",
         TopOf(stack[u]).op \in Decorated \ {"send_chunks"}, NEW pc, NEW op, NEW sock,
         <<TopOf(stack[u]).op, pc, op>> \in Callees,
         \/ TopOf(stack[u]).pc = "body" /\ TopOf(stack[u]).op # "http_request" /\ pc # "done"
         \/ TopOf(stack[u]).pc = "in" /\ TopOf(stack[u]).op = "http_request"
         \/ TopOf(stack[u]).pc = "sent" /\ TopOf(stack[u]).op = "query" /\ pc = "done",
         IF Async /\ TopOf(stack[u]).op = "query" THEN sock \in Socks /\ net.tracker["main"].sock = sock
         ELSE sock = TopOf(stack[u]).sock,
         Call(u, pc, Frame(op, sock)), UNCHANGED <<net, err>>, Rest
  PROVE  IInv'
<1> DEFINE f == TopOf(stack[u])
<1>1. stack \in [Users -> Seq(Frames)] /\ f \in Frames /\ stack[u][1] = f
  BY TopFacts DEF IInv, Core, StacksInv, TopOf
<1>2. f.n \in Nat
  BY <1>1 DEF Frames
<1>3. [f EXCEPT !.pc = pc, !.n = f.n] = [f EXCEPT !.pc = pc]
  BY <1>1 DEF Frames
<1>4. stack' = [stack EXCEPT ![u] = <<Frame(op, sock), [f EXCEPT !.pc = pc]>> \o Tail(@)]
  BY <1>1 DEF Call
<1>5. stack' = [stack EXCEPT ![u] = <<Frame(op, sock), [f EXCEPT !.pc = pc, !.n = f.n]>> \o Tail(@)]
  BY <1>3, <1>4
<1> QED
  BY <1>2, <1>5, HandsOn

\* Nothing calls send_chunks but the user.
LEMMA ChunksAlone ==
  ASSUME NEW s, StackOK(s), s # <<>>, TopOf(s).op = "send_chunks"
  PROVE  Len(s) = 1
<1>1. s \in Seq(Frames) /\ Len(s) \in Nat /\ Len(s) >= 1 /\ TopOf(s) = D(s, Len(s))
  BY FramesOf DEF StackOK
<1> SUFFICES ASSUME Len(s) # 1 PROVE FALSE
  OBVIOUS
<1> DEFINE n == Len(s)
<1>2. n - 1 \in 1..(n - 1) /\ n - 1 + 1 = n
  <2> HIDE DEF n
  <2>1. n \in Nat /\ n >= 1 /\ n # 1
    BY <1>1 DEF n
  <2> QED
    BY <2>1
<1>3. CallOK(D(s, Len(s) - 1), D(s, Len(s)))
  BY <1>2 DEF StackOK
<1> QED
  BY <1>1, <1>3 DEF CallOK, Callees

\* A composite operation returns.
LEMMA ReturnKeeps ==
  ASSUME IInv, NEW u \in Users, Turn(u), stack[u] # <<>>, err[u] = "none",
         TopOf(stack[u]).op \in Decorated, TopOf(stack[u]).pc \in {"body", "again", "read", "done", "out"},
         TopOf(stack[u]).pc = "body" => TopOf(stack[u]).op = "send_chunks", Returns(u)
  PROVE  IInv'
<1> DEFINE f == TopOf(stack[u])
<1>1. /\ stack \in [Users -> Seq(Frames)] /\ f \in Frames /\ FrameOK(f) /\ StackOK(stack[u]) /\ Top(u) = f /\ Follows(net)
  BY TopFacts DEF IInv, Core, StacksInv
<1>r. /\ setup' = setup /\ blocks' = blocks /\ calls' = calls /\ sends' = sends /\ faults' = faults /\ err' = err
      /\ net' = LeaveWith(net, f)
  BY <1>1 DEF Returns, Finish, Rest
<1>2. Steps(u) /\ sends'[u] = sends[u] /\ err'[u] = "none"
  <2>1. \E q : stack' = [stack EXCEPT ![u] = q]
    BY DEF Returns, Finish, Pop
  <2> QED
    BY <2>1, <1>r DEF Steps
<1>3. DecoratedOK(f) /\ f.op # "connect"
  BY <1>1 DEF FrameOK, Decorated, Leaves
<1>4. stack'[u] = Tail(stack[u])
  BY <1>1 DEF Returns, Finish, Pop
<1>5. f.op \in {"with", "http_request"} => Inside(f, "main")
  <2> HAVE f.op \in {"with", "http_request"}
  <2>1. f.op = "http_request"
    BY DEF Decorated, Leaves
  <2> QED
    BY <2>1, <1>3 DEF Inside, DecoratedOK, PcsOf, Own, Leaves
<1>6. Share(f.op) # 0 /\ f.op # "send_chunks" =>
        /\ sends'[u] - sends[u] \in {0, 1}
        /\ Share(f.op) * Over(f, TRUE, err[u]) + (sends'[u] - sends[u]) <= IF Handed(f) THEN 1 ELSE 3 * Share(f.op)
  <2> HAVE Share(f.op) # 0 /\ f.op # "send_chunks"
  <2>1. ~Handed(f)
    <3> SUFFICES ASSUME Handed(f) PROVE FALSE
      OBVIOUS
    <3>1. f.op = "sendall"
      BY <1>1, HandedTop
    <3> QED
      BY <3>1, <1>3 DEF DecoratedOK, PcsOf, Own, Leaves
  <2> DEFINE a == Over(f, TRUE, err[u])
             b == Share(f.op)
             k == sends[u]
  <2>2. a \in 0..3
    BY <1>1, <1>3, OverBounds
  <2>3. b \in {0, 1, 3, 9}
    BY ShareType
  <2>4. k \in Nat /\ sends'[u] = k
    BY <1>2 DEF IInv, Core, StacksInv
  <2> HIDE DEF a, b, k
  <2>5. k - k = 0 /\ b * a + (k - k) <= 3 * b
    <3>1. k - k = 0
      BY <2>4
    <3>2. b * a <= 3 * b
      BY <2>2, <2>3
    <3>3. b * a + 0 <= 3 * b
      BY <2>2, <2>3
    <3> QED
      BY <3>1, <3>3
  <2>6. sends'[u] - sends[u] = 0
    BY <2>4, <2>5 DEF k
  <2>7. Share(f.op) * Over(f, TRUE, err[u]) + 0 <= 3 * Share(f.op)
    <3>1. b * a + 0 <= 3 * b
      BY <2>2, <2>3
    <3> QED
      BY <3>1 DEF a, b
  <2> QED
    BY <2>1, <2>6, <2>7
<1>7. err[u] # "error"
  OBVIOUS
<1>8. \/ Len(stack[u]) = 1
      \/ sends'[u] = sends[u] /\ (err'[u] = "error" \/ (err[u] # "error" /\ Share(f.op) = 0))
      \/ /\ sends'[u] - sends[u] \in {0, 1} /\ err[u] # "error" /\ Share(f.op) # 0
         /\ Share(f.op) * Over(f, TRUE, err[u]) + (sends'[u] - sends[u])
              <= IF Handed(f) THEN 1 ELSE 3 * Share(f.op)
  <2>1. f.op = "send_chunks" => Len(stack[u]) = 1
    BY <1>1, ChunksAlone
  <2> QED
    BY <2>1, <1>2, <1>6, <1>7
<1>9. LeavesRaw(f) => f.pc # "start"
  OBVIOUS
<1>10. net.tracker = net.tracker /\ \A x \in Socks : x = net.tracker["main"].sock => net.sock[x] = net.sock[x] \/ Virt(net, "main") # 0
  OBVIOUS
<1> HIDE DEF f
<1> QED
  BY <1>1, <1>2, <1>3, <1>4, <1>5, <1>8, <1>9, <1>10, <1>r, LeavePops DEF f

\* send_chunks sends, and goes on after it.
LEMMA send_chunksStep ==
  ASSUME IInv, NEW u \in Users, send_chunks(u)
  PROVE  IInv'
<1> DEFINE f == TopOf(stack[u])
<1> DEFINE n == f.n
<1>1. /\ Turn(u) /\ stack[u] # <<>> /\ err[u] = "none" /\ f.op = "send_chunks" /\ f.pc \in {"body", "again"}
      /\ Top(u) = f
  BY AtFacts DEF send_chunks
<1>2. /\ f.op \in Decorated /\ <<f.op, "again", "sendall">> \in Callees
  BY <1>1 DEF Decorated, Callees
<1>3. /\ stack \in [Users -> Seq(Frames)] /\ f \in Frames /\ FrameOK(f) /\ n \in Nat /\ Chunks \in Nat
  BY <1>1, TopFacts, SocketsAssumption DEF IInv, Core, StacksInv, Frames, SocketsAssumption
<1>4. n <= Chunks
  BY <1>1, <1>2, <1>3 DEF FrameOK, DecoratedOK
<1>5. CASE n = Chunks
  <2>1. Returns(u)
    BY <1>1, <1>5 DEF send_chunks
  <2> QED
    BY <2>1, <1>1, <1>2, ReturnKeeps
<1>6. CASE n # Chunks
  <2>1. /\ stack' = [stack EXCEPT ![u] = <<Frame("sendall", f.sock), [f EXCEPT !.pc = "again", !.n = n + 1]>> \o Tail(@)]
        /\ UNCHANGED <<net, err>> /\ Rest
    BY <1>1, <1>3, <1>6 DEF send_chunks
  <2>2. n + 1 \in Nat /\ n + 1 <= Chunks
    <3> HIDE DEF n
    <3> QED
      BY <1>3, <1>4, <1>6
  <2> QED
    BY <2>1, <2>2, <1>1, <1>2, HandsOn
<1> QED
  BY <1>5, <1>6

\* read_eof reads on.
LEMMA ReadsOn ==
  ASSUME IInv, NEW u \in Users, At(u, "read_eof", "read"),
         Jump(u, [Top(u) EXCEPT !.pc = "body", !.n = @ + 1]), UNCHANGED <<net, err>>, Rest
  PROVE  IInv'
<1> DEFINE f == TopOf(stack[u])
           g == [f EXCEPT !.pc = "body", !.n = @ + 1]
<1>1. /\ Turn(u) /\ stack[u] # <<>> /\ err[u] = "none" /\ f.op = "read_eof" /\ f.pc = "read" /\ Top(u) = f
  BY AtFacts
<1>r. setup' = setup /\ blocks' = blocks /\ calls' = calls /\ sends' = sends /\ faults' = faults /\ net' = net /\ err' = err
  BY DEF Rest
<1>2. Steps(u)
  <2>1. \E q : stack' = [stack EXCEPT ![u] = q]
    BY DEF Jump
  <2> QED
    BY <2>1, <1>1, <1>r DEF Steps
<1>3. /\ stack \in [Users -> Seq(Frames)] /\ f \in Frames /\ FrameOK(f) /\ HandedOK(net, f)
  BY <1>1, TopFacts DEF IInv, Core, StacksInv
<1>4. stack'[u] = <<g>> \o Tail(stack[u])
  BY <1>1, <1>3 DEF Jump
<1>5. /\ g \in Frames /\ g.op = f.op /\ g.sock = f.sock /\ g.held = f.held /\ g.tries = f.tries /\ g.pc = "body"
  <2>1. f.n \in Nat
    BY <1>3 DEF Frames
  <2>2. f.n + 1 \in Nat
    BY <2>1
  <2> QED
    BY <2>2, <1>3 DEF Frames, Pcs
<1> HIDE DEF g
<1>6. FrameOK(g)
  <2>1. DecoratedOK(g)
    BY <1>1, <1>3, <1>5 DEF FrameOK, Decorated, DecoratedOK, PcsOf, Given, Handed, Leaves
  <2> QED
    BY <2>1, <1>1, <1>3, <1>5 DEF FrameOK, Leaves
<1>7. \A x \in Trackers : Inside(g, x) <=> Inside(f, x)
  BY <1>1, <1>5 DEF Inside
<1>8. HandedOK(net, g)
  BY <1>1, <1>3, <1>5 DEF HandedOK, Handed
<1>9. Share(g.op) = 0 /\ f.op # "connect"
  BY <1>1, <1>5 DEF Share
<1> QED
  BY <1>1, <1>2, <1>4, <1>5, <1>6, <1>7, <1>8, <1>9, <1>r, StillGoes

\* read_eof receives until the end, or until it gives up.
LEMMA read_eofStep ==
  ASSUME IInv, NEW u \in Users, read_eof(u)
  PROVE  IInv'
<1> DEFINE f == TopOf(stack[u])
<1>1. CASE At(u, "read_eof", "body") /\ Hands(u, "read", "recv")
  <2>1. /\ Turn(u) /\ stack[u] # <<>> /\ err[u] = "none" /\ f.op = "read_eof" /\ f.pc = "body" /\ Top(u) = f
    BY <1>1, AtFacts
  <2>2. f.op \in Decorated /\ <<f.op, "read", "recv">> \in Callees
    BY <2>1 DEF Decorated, Callees
  <2> QED
    BY <1>1, <2>1, <2>2, HandsKeeps DEF Hands
<1>2. CASE At(u, "read_eof", "read")
  <2>1. /\ Turn(u) /\ stack[u] # <<>> /\ err[u] = "none" /\ f.op = "read_eof" /\ f.pc = "read" /\ Top(u) = f
    BY <1>2, AtFacts
  <2>2. f.op \in Decorated /\ f.op # "connect" /\ Share(f.op) = 0
    BY <2>1 DEF Decorated, Share
  <2>3. CASE Returns(u)
    BY <2>1, <2>2, <2>3, ReturnKeeps
  <2>4. CASE Jump(u, [Top(u) EXCEPT !.pc = "body", !.n = @ + 1]) /\ UNCHANGED <<net, err>> /\ Rest
    BY <1>2, <2>4, ReadsOn
  <2>5. CASE Raise(u, "error") /\ UNCHANGED <<net, stack>> /\ Rest
    <3>1. err \in [Users -> Raised] /\ Follows(net) /\ HandedOK(net, f)
      BY <2>1, TopFacts DEF IInv, Core, StacksInv
    <3>2. Steps(u) /\ err'[u] = "error" /\ sends'[u] = sends[u]
      BY <2>1, <2>5, <3>1 DEF Steps, Raise, Rest, Raised
    <3>3. RaisedOK(stack[u], err'[u])
      BY <2>1, <2>2, <3>2 DEF RaisedOK
    <3>4. stack' = stack /\ net' = net
      BY <2>5
    <3> QED
      BY <2>1, <2>2, <3>1, <3>2, <3>3, <3>4, RaiseKeeps
  <2>6. \/ Returns(u)
        \/ Jump(u, [Top(u) EXCEPT !.pc = "body", !.n = @ + 1]) /\ UNCHANGED <<net, err>> /\ Rest
        \/ Raise(u, "error") /\ UNCHANGED <<net, stack>> /\ Rest
    BY <2>1 DEF read_eof, At
  <2> QED
    BY <2>3, <2>4, <2>5, <2>6
<1> QED
  BY <1>1, <1>2 DEF read_eof

\* A query sends, then reads.
LEMMA queryStep ==
  ASSUME IInv, NEW u \in Users, query(u)
  PROVE  IInv'
<1> DEFINE f == TopOf(stack[u])
<1>1. CASE At(u, "query", "body") /\ Hands(u, "sent", "sendall")
  <2>1. /\ Turn(u) /\ stack[u] # <<>> /\ err[u] = "none" /\ f.op = "query" /\ f.pc = "body" /\ Top(u) = f
    BY <1>1, AtFacts
  <2>2. f.op \in Decorated /\ <<f.op, "sent", "sendall">> \in Callees /\ ~Async
    BY <2>1 DEF Decorated, Callees, query
  <2> QED
    BY <1>1, <2>1, <2>2, HandsKeeps DEF Hands
<1>2. CASE At(u, "query", "sent") /\ Hands(u, "done", "read_eof")
  <2>1. /\ Turn(u) /\ stack[u] # <<>> /\ err[u] = "none" /\ f.op = "query" /\ f.pc = "sent" /\ Top(u) = f
    BY <1>2, AtFacts
  <2>2. f.op \in Decorated /\ <<f.op, "done", "read_eof">> \in Callees /\ ~Async
    BY <2>1 DEF Decorated, Callees, query
  <2> QED
    BY <1>2, <2>1, <2>2, HandsKeeps DEF Hands
<1>3. CASE At(u, "query", "done") /\ Returns(u)
  <2>1. /\ Turn(u) /\ stack[u] # <<>> /\ err[u] = "none" /\ f.op = "query" /\ f.pc = "done"
    BY <1>3, AtFacts
  <2>2. f.op \in Decorated
    BY <2>1 DEF Decorated
  <2> QED
    BY <1>3, <2>1, <2>2, ReturnKeeps
<1> QED
  BY <1>1, <1>2, <1>3 DEF query

\* The asynchronous query hands on the socket that the wrapper has.
LEMMA HandsSocketKeeps ==
  ASSUME IInv, NEW u \in Users, Async, NEW pc, NEW op,
         \/ At(u, "query", "body") /\ pc = "sent" /\ op = "sendall"
         \/ At(u, "query", "sent") /\ pc = "done" /\ op = "read_eof",
         HandsSocket(u, pc, op)
  PROVE  IInv'
<1> DEFINE f == TopOf(stack[u])
<1>1. /\ Turn(u) /\ stack[u] # <<>> /\ err[u] = "none" /\ f.op = "query" /\ f.pc \in {"body", "sent"} /\ Top(u) = f
      /\ (f.pc = "body" => pc = "sent" /\ op = "sendall") /\ (f.pc = "sent" => pc = "done" /\ op = "read_eof")
  BY AtFacts
<1>2. f.op \in Decorated /\ <<f.op, pc, op>> \in Callees
  BY <1>1 DEF Decorated, Callees
<1>3. CASE MustConnect(f)
  <2>1. auto_socket(u)
    BY <1>1, <1>3 DEF HandsSocket
  <2> QED
    BY <1>1, <1>2, <1>3, <2>1, AutoSocketKeeps
<1>4. CASE ~MustConnect(f)
  <2>1. FrameOK(f) /\ NetOK(net)
    BY <1>1, TopFacts
  <2>2. f.sock = Nothing
    BY <2>1, <1>1, <1>2 DEF FrameOK, DecoratedOK
  <2>3. On(f) = "main" /\ "main" \in Trackers
    BY <2>2 DEF On, Trackers
  <2>4. net.tracker["main"].connected /\ SocketOf(f) = net.tracker["main"].sock
    BY <1>4, <2>3 DEF MustConnect, SocketOf
  <2>5. net.tracker["main"].sock \in Socks
    BY <2>1, <2>3, <2>4 DEF NetOK, Nets, TrackerRecords
  <2>6. Call(u, pc, Frame(op, SocketOf(f))) /\ UNCHANGED <<net, err>> /\ Rest
    BY <1>1, <1>4 DEF HandsSocket
  <2>7. /\ \/ f.pc = "body" /\ f.op # "http_request" /\ pc # "done"
           \/ f.pc = "in" /\ f.op = "http_request"
           \/ f.pc = "sent" /\ f.op = "query" /\ pc = "done"
        /\ IF Async /\ f.op = "query" THEN SocketOf(f) \in Socks /\ net.tracker["main"].sock = SocketOf(f)
           ELSE SocketOf(f) = f.sock
    BY <1>1, <2>4, <2>5
  <2> QED
    BY <1>1, <1>2, <2>6, <2>7, HandsKeeps
<1> QED
  BY <1>3, <1>4

\* So does the asynchronous one, with the socket the wrapper has.
LEMMA query_asyncStep ==
  ASSUME IInv, NEW u \in Users, query_async(u)
  PROVE  IInv'
<1> DEFINE f == TopOf(stack[u])
<1>1. Async
  BY DEF query_async
<1>2. CASE At(u, "query", "body") /\ HandsSocket(u, "sent", "sendall")
  BY <1>1, <1>2, HandsSocketKeeps
<1>3. CASE At(u, "query", "sent") /\ HandsSocket(u, "done", "read_eof")
  BY <1>1, <1>3, HandsSocketKeeps
<1>4. CASE At(u, "query", "done") /\ Returns(u)
  <2>1. /\ Turn(u) /\ stack[u] # <<>> /\ err[u] = "none" /\ f.op = "query" /\ f.pc = "done"
    BY <1>4, AtFacts
  <2>2. f.op \in Decorated
    BY <2>1 DEF Decorated
  <2> QED
    BY <1>4, <2>1, <2>2, ReturnKeeps
<1> QED
  BY <1>2, <1>3, <1>4 DEF query_async

\* A request is a query in a block of its own.
LEMMA http_requestStep ==
  ASSUME IInv, NEW u \in Users, http_request(u)
  PROVE  IInv'
<1> DEFINE f == TopOf(stack[u])
           g == [f EXCEPT !.pc = "enter"]
<1>1. CASE At(u, "http_request", "body") /\ Jump(u, [Top(u) EXCEPT !.pc = "enter"]) /\ UNCHANGED <<net, err>> /\ Rest
  <2>1. /\ Turn(u) /\ stack[u] # <<>> /\ err[u] = "none" /\ f.op = "http_request" /\ f.pc = "body" /\ Top(u) = f
    BY <1>1, AtFacts
  <2>r. setup' = setup /\ blocks' = blocks /\ calls' = calls /\ sends' = sends /\ faults' = faults /\ net' = net /\ err' = err
    BY <1>1 DEF Rest
  <2>2. Steps(u)
    <3>1. \E q : stack' = [stack EXCEPT ![u] = q]
      BY <1>1 DEF Jump
    <3> QED
      BY <3>1, <2>1, <2>r DEF Steps
  <2>3. /\ stack \in [Users -> Seq(Frames)] /\ f \in Frames /\ FrameOK(f) /\ HandedOK(net, f)
    BY <2>1, TopFacts DEF IInv, Core, StacksInv
  <2>4. stack'[u] = <<g>> \o Tail(stack[u])
    BY <1>1, <2>1, <2>3 DEF Jump
  <2>5. /\ g \in Frames /\ g.op = f.op /\ g.sock = f.sock /\ g.held = f.held /\ g.tries = f.tries /\ g.pc = "enter"
    BY <2>3 DEF Frames, Pcs
  <2> HIDE DEF g
  <2>6. FrameOK(g)
    <3>1. DecoratedOK(g)
      BY <2>1, <2>3, <2>5 DEF FrameOK, Decorated, DecoratedOK, PcsOf, Given, Handed, Leaves
    <3> QED
      BY <3>1, <2>1, <2>3, <2>5 DEF FrameOK, Leaves
  <2>7. \A x \in Trackers : Inside(g, x) <=> Inside(f, x)
    <3>1. f.sock = Nothing
      BY <2>1, <2>3 DEF FrameOK, DecoratedOK, Decorated
    <3> QED
      BY <3>1, <2>1, <2>5, NothingApart DEF Inside
  <2>8. HandedOK(net, g)
    BY <2>1, <2>3, <2>5 DEF HandedOK, Handed
  <2>9. Over(g, TRUE, "none") >= Over(f, TRUE, "none")
    <3> DEFINE a == Over(f, TRUE, "none")
               b == Over(g, TRUE, "none")
    <3>1. a = b
      BY <2>1, <2>5 DEF Over, Tried, Given
    <3>2. TRUE \in BOOLEAN
      OBVIOUS
    <3>3. a \in Int
      BY <2>3, <3>2, OverOf
    <3> HIDE DEF a, b
    <3>4. b >= a
      BY <3>1, <3>3
    <3> QED
      BY <3>4 DEF a, b
  <2>10. f.op # "connect"
    BY <2>1
  <2> QED
    BY <2>1, <2>2, <2>4, <2>5, <2>6, <2>7, <2>8, <2>9, <2>10, <2>r, StillGoes
<1>2. CASE At(u, "http_request", "in") /\ Hands(u, "out", "query")
  <2>1. /\ Turn(u) /\ stack[u] # <<>> /\ err[u] = "none" /\ f.op = "http_request" /\ f.pc = "in" /\ Top(u) = f
    BY <1>2, AtFacts
  <2>2. f.op \in Decorated /\ <<f.op, "out", "query">> \in Callees
    BY <2>1 DEF Decorated, Callees
  <2> QED
    BY <1>2, <2>1, <2>2, HandsKeeps DEF Hands
<1>3. CASE At(u, "http_request", "out") /\ Returns(u)
  <2>1. /\ Turn(u) /\ stack[u] # <<>> /\ err[u] = "none" /\ f.op = "http_request" /\ f.pc = "out"
    BY <1>3, AtFacts
  <2>2. f.op \in Decorated
    BY <2>1 DEF Decorated
  <2> QED
    BY <1>3, <2>1, <2>2, ReturnKeeps
<1> QED
  BY <1>1, <1>2, <1>3 DEF http_request

\* Nobody calls with, http_request or send_data but the user.
LEMMA CallsAlone ==
  ASSUME NEW s, StackOK(s), s # <<>>, TopOf(s).op \in {"with", "http_request", "send_data"}
  PROVE  Len(s) = 1 /\ D(s, 1) = TopOf(s)
<1>1. Len(s) \in Nat /\ Len(s) >= 1 /\ TopOf(s) = D(s, Len(s))
  BY FramesOf DEF StackOK
<1>2. Len(s) = 1
  <2> SUFFICES ASSUME Len(s) # 1 PROVE FALSE
    OBVIOUS
  <2>1. Tail(s) # <<>>
    BY CallerOf
  <2>2. CallOK(TopOf(Tail(s)), TopOf(s))
    BY <2>1, CallerOf
  <2> QED
    BY <2>2 DEF CallOK, Callees
<1> QED
  BY <1>1, <1>2

\* send_data leaves the wrapper alone.
LEMMA send_dataStep ==
  ASSUME IInv, NEW u \in Users, send_data(u)
  PROVE  IInv'
<1> DEFINE f == TopOf(stack[u])
           g == [f EXCEPT !.n = @ + 1]
<1>1. /\ Turn(u) /\ stack[u] # <<>> /\ err[u] = "none" /\ f.op = "send_data" /\ f.pc = "start" /\ Top(u) = f
  BY AtFacts DEF send_data
<1>r. setup' = setup /\ blocks' = blocks /\ calls' = calls /\ sends' = sends /\ faults' = faults /\ net' = net
  BY DEF send_data, Rest
<1>2. /\ stack \in [Users -> Seq(Frames)] /\ err \in [Users -> Raised] /\ f \in Frames /\ FrameOK(f) /\ HandedOK(net, f)
      /\ Follows(net) /\ StackOK(stack[u])
  BY <1>1, TopFacts DEF IInv, Core, StacksInv
<1>3. Len(stack[u]) = 1 /\ f.op # "connect" /\ f.op \notin Decorated /\ f.sock = Nothing
  BY <1>1, <1>2, CallsAlone DEF Decorated, Leaves, FrameOK
<1>4. CASE stack' = [stack EXCEPT ![u] = Tail(@)] /\ (err' = err \/ err' = [err EXCEPT ![u] = "none"])
  <2>1. Steps(u)
    <3>1. \E e \in Raised : err' = err \/ err' = [err EXCEPT ![u] = e]
      BY <1>4 DEF Raised
    <3>2. \E q : stack' = [stack EXCEPT ![u] = q]
      BY <1>4
    <3> QED
      BY <3>1, <3>2, <1>1, <1>r DEF Steps
  <2>2. stack'[u] = Tail(stack[u]) /\ err'[u] = "none"
    BY <1>1, <1>2, <1>4
  <2>3. net' = LeaveWith(net, f) /\ ~LeavesRaw(f)
    BY <1>1, <1>3, <1>r DEF LeaveWith, LeavesRaw
  <2>4. f.op \notin {"with", "http_request"}
    BY <1>1
  <2> QED
    BY <1>1, <1>2, <1>3, <2>1, <2>2, <2>3, <2>4, LeavePops
<1>5. CASE stack' = [stack EXCEPT ![u] = <<g>> \o Tail(@)] /\ err' = err
  <2>1. Steps(u)
    <3>1. \E q : stack' = [stack EXCEPT ![u] = q]
      BY <1>5
    <3> QED
      BY <3>1, <1>5, <1>1, <1>r DEF Steps
  <2>2. stack'[u] = <<g>> \o Tail(stack[u])
    BY <1>1, <1>2, <1>5
  <2>3. /\ g \in Frames /\ g.op = f.op /\ g.sock = f.sock /\ g.held = f.held /\ g.pc = f.pc
    <3>1. f.n \in Nat
      BY <1>2 DEF Frames
    <3>2. f.n + 1 \in Nat
      BY <3>1
    <3> QED
      BY <3>2, <1>2 DEF Frames
  <2> HIDE DEF g
  <2>4. FrameOK(g)
    BY <2>3, <1>1, <1>2, <1>3 DEF FrameOK
  <2>5. \A x \in Trackers : Inside(g, x) <=> Inside(f, x)
    BY <2>3 DEF Inside
  <2>6. HandedOK(net, g)
    BY <2>3, <1>3, NothingApart DEF HandedOK, Handed
  <2>7. Share(g.op) = 0
    BY <2>3, <1>1 DEF Share
  <2> QED
    BY <1>1, <1>3, <1>5, <1>r, <2>1, <2>2, <2>3, <2>4, <2>5, <2>6, <2>7, StillGoes
<1>6. \/ stack' = [stack EXCEPT ![u] = Tail(@)] /\ (err' = err \/ err' = [err EXCEPT ![u] = "none"])
      \/ stack' = [stack EXCEPT ![u] = <<g>> \o Tail(@)] /\ err' = err
  BY <1>1, <1>3 DEF send_data, Pop, PopRaising, Raise, Jump
<1> QED
  BY <1>4, <1>5, <1>6

\* A frame that enters a block, or has.
LEMMA EnterFacts ==
  ASSUME IInv, NEW u \in Users, NEW op, NEW pc \in {"enter", "entered"}, At(u, op, pc)
  PROVE  LET f == TopOf(stack[u])
             t == Entering(f)
         IN  /\ Turn(u) /\ stack[u] # <<>> /\ err[u] = "none" /\ f.op = op /\ f.pc = pc /\ Top(u) = f
             /\ f.op \in Decorated \cup {"with"} /\ t \in Trackers /\ (t = "dup" <=> f.sock = "dup")
             /\ (f.sock = "dup" => ~Async /\ f.op \notin {"with", "http_request"})
             /\ (f.sock # "dup" => t = "main" /\ f.sock = Nothing /\ f.op \in {"with", "http_request"})
             /\ f.sock \notin Socks /\ f.sock # "main" /\ ~Handed(f) /\ f.op # "connect"
             /\ \A x \in Trackers : ~Inside(f, x)
             /\ f.op \in Decorated => DecoratedOK(f)
<1> DEFINE f == TopOf(stack[u])
           t == Entering(f)
<1>1. /\ Turn(u) /\ stack[u] # <<>> /\ err[u] = "none" /\ f.op = op /\ f.pc = pc /\ Top(u) = f
  BY AtFacts
<1>2. f \in Frames /\ FrameOK(f)
  BY <1>1, TopFacts
<1>3. f.op \in Decorated \cup {"with"}
  BY <1>1, <1>2 DEF FrameOK, Frames, FrameOps
<1>4. f.op \in Decorated => DecoratedOK(f)
  BY <1>2 DEF FrameOK
<1>5. f.op = "with" => f.sock = Nothing
  BY <1>2 DEF FrameOK
<1>6. "with" \notin Decorated
  BY DEF Decorated, Leaves
<1>7. /\ (f.sock = "dup" => ~Async /\ f.op \notin {"with", "http_request"})
      /\ (f.sock # "dup" => f.sock = Nothing /\ f.op \in {"with", "http_request"})
  BY <1>1, <1>3, <1>4, <1>5, NothingApart DEF DecoratedOK
<1>8. t \in Trackers /\ (t = "dup" <=> f.sock = "dup") /\ (f.sock # "dup" => t = "main")
  BY DEF Entering, Trackers
<1>9. f.sock \notin Socks /\ f.sock # "main" /\ ~Handed(f) /\ f.op # "connect"
  BY <1>3, <1>7, NothingApart DEF Handed, Decorated, Leaves
<1>10. \A x \in Trackers : ~Inside(f, x)
  BY <1>1 DEF Inside
<1> QED
  BY <1>1, <1>3, <1>4, <1>7, <1>8, <1>9, <1>10

\* The frame, further on.
LEMMA EnterFrame ==
  ASSUME IInv, NEW u \in Users, NEW op, NEW pc \in {"enter", "entered"}, At(u, op, pc),
         NEW to \in {"entered", "body", "in"},
         to = "entered" => pc = "enter", to = "in" => op = "http_request" /\ pc = "entered", to = "body" => op \in Decorated
  PROVE  LET f == TopOf(stack[u])
             g == [f EXCEPT !.pc = to]
         IN  /\ g \in Frames /\ FrameOK(g) /\ g.op = f.op /\ g.sock = f.sock /\ g.pc = to
             /\ ~Handed(g) /\ \A m : HandedOK(m, g)
             /\ Over(g, TRUE, "none") >= Over(f, TRUE, "none")
             /\ Over(g, FALSE, "none") >= Over(f, TRUE, "none")
<1> DEFINE f == TopOf(stack[u])
           g == [f EXCEPT !.pc = to]
<1>1. /\ stack[u] # <<>> /\ f.op = op /\ f.pc = pc
      /\ f.op \in Decorated \cup {"with"} /\ ~Handed(f) /\ f.op # "connect"
      /\ f.op \in Decorated => DecoratedOK(f)
  BY EnterFacts
<1>2. f \in Frames /\ FrameOK(f)
  BY <1>1, TopFacts
<1>3. g \in Frames /\ g.op = f.op /\ g.sock = f.sock /\ g.pc = to /\ g.held = f.held /\ g.tries = f.tries
      /\ g.n = f.n
  BY <1>2 DEF Frames, Pcs
<1>s. f.op # "send_chunks"
  BY <1>1, NothingApart DEF DecoratedOK, Decorated
<1> HIDE DEF g
<1>4. ~Handed(g)
  BY <1>1, <1>3 DEF Handed
<1>5. g.op \in Decorated => DecoratedOK(g)
  <2> HAVE g.op \in Decorated
  <2>1. DecoratedOK(f) /\ (Given(g) <=> Given(f))
    BY <1>1, <1>3 DEF Given
  <2>2. to \in PcsOf(g.op)
    BY <1>1, <1>3 DEF PcsOf, Own, Leaves
  <2> QED
    BY <2>1, <2>2, <1>1, <1>3, <1>4, <1>s DEF DecoratedOK
<1>6. FrameOK(g)
  BY <1>1, <1>2, <1>3, <1>5 DEF FrameOK, Decorated, Leaves
<1>7. Tried(g) = Tried(f)
  BY <1>1, <1>3, <1>s DEF Tried, Given
<1> DEFINE a == Over(g, TRUE, "none")
           b == Over(g, FALSE, "none")
           c == Over(f, TRUE, "none")
<1>8. a = c /\ b = c
  BY <1>1, <1>3, <1>7, <1>s DEF Over
<1>9. c \in Int
  <2>1. TRUE \in BOOLEAN
    OBVIOUS
  <2> QED
    BY <2>1, <1>2, OverOf
<1> HIDE DEF a, b, c
<1>10. a >= c /\ b >= c
  BY <1>8, <1>9
<1>11. Over(g, TRUE, "none") >= Over(f, TRUE, "none") /\ Over(g, FALSE, "none") >= Over(f, TRUE, "none")
  BY <1>10 DEF a, b, c
<1>12. \A m : HandedOK(m, g)
  BY <1>4 DEF HandedOK
<1> QED
  BY <1>3, <1>4, <1>6, <1>11, <1>12 DEF g

-----------------------------------------------------------------------------
(* Entering a block *)

\* The wrapper's own tracker, disconnected.
LEMMA DisconnectMain ==
  ASSUME NEW n, Follows(n), NEW t, t = "main"
  PROVE  LET m == disconnect(n, t)
         IN  /\ Follows(m) /\ \A x \in Trackers : Virt(m, x) = Virt(n, x)
             /\ m.tracker["main"].sock = Nothing /\ m.tracker["main"].connected = FALSE
             /\ m.tracker["dup"] = n.tracker["dup"]
             /\ n.tracker["main"].sock # Nothing => n.tracker["main"].sock \in Socks /\ ~Open(m, n.tracker["main"].sock)
             /\ \A s \in Socks : m.sock[s] = n.sock[s] \/ ~Open(m, s)
<1> DEFINE m == disconnect(n, t)
<1>1. t \in Trackers /\ "dup" \in Trackers /\ "dup" # t
  BY DEF Trackers
<1>2. /\ Follows(m) /\ \A x \in Trackers : Virt(m, x) = Virt(n, x) /\ (x # t => m.tracker[x] = n.tracker[x])
      /\ m.tracker[t].sock = Nothing /\ m.tracker[t].connected = FALSE
      /\ n.tracker[t].sock # Nothing => n.tracker[t].sock \in Socks /\ ~Open(m, n.tracker[t].sock)
      /\ \A s \in Socks : m.sock[s] = n.sock[s] \/ (s = n.tracker[t].sock /\ ~Open(m, s))
  BY <1>1, DisconnectFollows
<1> QED
  BY <1>1, <1>2

\* What tracker_enter leaves alone.
LEMMA EnterSteps ==
  ASSUME IInv, NEW u \in Users, tracker_enter(u)
  PROVE  /\ Steps(u) /\ sends' = sends /\ err' = err /\ sends'[u] = sends[u] /\ err'[u] = "none" /\ err[u] = "none"
         /\ At(u, TopOf(stack[u]).op, "enter") /\ u \in setup.users /\ stack[u] # <<>>
<1>1. /\ stack[u] # <<>> /\ At(u, Top(u).op, "enter")
  BY DEF tracker_enter
<1>2. Top(u) = TopOf(stack[u]) /\ Turn(u) /\ err[u] = "none"
  BY <1>1, AtFacts
<1>3. /\ setup' = setup /\ calls' = calls /\ blocks' = blocks /\ sends' = sends /\ faults' = faults /\ err' = err
  BY DEF tracker_enter, Rest
<1>4. \E q : stack' = [stack EXCEPT ![u] = q]
  BY DEF tracker_enter, Call, Jump
<1>5. Steps(u)
  BY <1>1, <1>2, <1>3, <1>4 DEF Steps
<1>6. u \in setup.users
  BY <1>1, TopFacts
<1> QED
  BY <1>1, <1>2, <1>3, <1>5, <1>6

\* The outermost block of a tracker that says it is connected: it was not closed.
LEMMA EnterAnew ==
  ASSUME IInv, NEW u \in Users, tracker_enter(u), outermost(net, Entering(TopOf(stack[u]))),
         net.tracker[Entering(TopOf(stack[u]))].connected
  PROVE  IInv'
<1> DEFINE f == TopOf(stack[u])
           t == Entering(f)
           n == IF outermost(net, t) THEN [net EXCEPT !.tracker[t].layers = NoLayers] ELSE net
           h == [f EXCEPT !.pc = "entered"]
           g == Connect("main")
<1>1. /\ Steps(u) /\ sends' = sends /\ err' = err /\ sends'[u] = sends[u] /\ err'[u] = "none" /\ err[u] = "none"
      /\ At(u, f.op, "enter") /\ u \in setup.users /\ stack[u] # <<>>
  BY EnterSteps
<1>2. /\ Top(u) = f /\ f.op \in Decorated \cup {"with"} /\ t \in Trackers /\ (t = "dup" <=> f.sock = "dup")
      /\ f.sock \notin Socks /\ f.op # "connect" /\ f.pc = "enter"
      /\ \A x \in Trackers : ~Inside(f, x)
  BY <1>1, EnterFacts
<1>3. /\ NetOK(net) /\ Follows(net) /\ f \in Frames /\ StackOK(stack[u])
      /\ \A x \in Trackers : Virt(net, x) \in Nat
  BY <1>1, TopFacts
<1>4. t = "main"
  BY <1>2, <1>3 DEF NetOK, outermost, Virt, Trackers
<1>5. /\ h \in Frames /\ FrameOK(h) /\ h.op = f.op /\ h.sock = f.sock /\ h.pc = "entered"
      /\ \A m : HandedOK(m, h)
      /\ Over(h, FALSE, "none") >= Over(f, TRUE, "none")
  BY <1>1, EnterFrame
<1>6. /\ g \in Frames /\ FrameOK(g) /\ g.pc = "start" /\ g.tries = 0 /\ g.op = "connect" /\ g.sock = "main"
      /\ \A m : HandedOK(m, g)
      /\ Rank(g.op) < Rank(f.op)
  BY <1>2, ConnectMain
<1>7. net' = disconnect(n, t) /\ stack'[u] = <<g, h>> \o Tail(stack[u])
  <2>1. stack \in [Users -> Seq(Frames)]
    BY DEF IInv, Core, StacksInv
  <2>2. stack[u][1] = f
    BY DEF TopOf
  <2> QED
    BY <2>1, <2>2, <1>2, <1>4 DEF tracker_enter, Call
<1>8. Follows(n) /\ \A x \in Trackers : Virt(n, x) = Virt(net, x)
  BY <1>2, <1>3, ResetFollows
<1> HIDE DEF n, g, h
<1>9. /\ Follows(net') /\ \A x \in Trackers : Virt(net', x) = Virt(net, x)
      /\ net'.tracker["main"].sock = Nothing /\ ~net'.tracker["main"].connected
  <2> DEFINE m == disconnect(n, t)
  <2>1. /\ Follows(m) /\ \A x \in Trackers : Virt(m, x) = Virt(n, x)
        /\ m.tracker["main"].sock = Nothing /\ m.tracker["main"].connected = FALSE
    BY <1>4, <1>8, DisconnectMain
  <2>2. net' = m
    BY <1>7
  <2> HIDE DEF m
  <2> QED
    BY <2>1, <2>2, <1>8
<1>10. \A x \in Trackers : ~Inside(g, x) /\ ~Inside(h, x)
  BY <1>5, <1>6 DEF Inside, Decorated, Leaves
<1>11. \A x \in Trackers : Virt(net', x) = Virt(net, x) + Bit(Inside(h, x)) - Bit(Inside(f, x))
  BY <1>2, <1>3, <1>9, <1>10 DEF Bit
<1>12. CallOK(h, g)
  BY <1>2, <1>4, <1>5, <1>6 DEF CallOK
<1>13. Lone => LeaveOK(net', stack'[u], err'[u])
  <2>1. ~Awaits(stack'[u])
    <3>1. g.pc \notin {"connecting", "woken"}
      BY <1>6
    <3>2. ~Awaits(<<g, h>> \o Tail(stack[u]))
      BY <3>1, <1>1, <1>3, <1>5, <1>6, AwaitsNot
    <3> QED
      BY <3>2, <1>7
  <2>2. Quiet(net', "main")
    BY <1>9 DEF Quiet
  <2> QED
    BY <2>1, <2>2, LeaveBusy
<1>14. Over(g, TRUE, err'[u]) >= 0
  <2> DEFINE a == Over(g, TRUE, err'[u])
  <2>1. a = 0
    BY <1>6 DEF Over, Tried, Given
  <2> HIDE DEF a
  <2>2. a >= 0
    BY <2>1
  <2> QED
    BY <2>2 DEF a
<1>15. g.op = "connect" /\ g.sock = "dup" => Virt(net', "dup") >= 1
  BY <1>6
<1>16. Rank(g.op) < Rank(h.op) /\ HandedOK(net', h) /\ HandedOK(net', g)
  BY <1>5, <1>6
<1>17. Over(h, FALSE, "none") >= Over(f, TRUE, err[u])
  BY <1>1, <1>5
<1>18. err[u] # "error"
  BY <1>1
<1> HIDE DEF t
<1> QED
  BY <1>1, <1>5, <1>6, <1>7, <1>9, <1>10, <1>11, <1>12, <1>13, <1>14, <1>15, <1>16, <1>17, <1>18, PushKeeps

\* A block within others, on a tracker that lost its connection.
LEMMA EnterWithin ==
  ASSUME IInv, NEW u \in Users, tracker_enter(u), ~outermost(net, Entering(TopOf(stack[u]))),
         ~net.tracker[Entering(TopOf(stack[u]))].connected
  PROVE  IInv'
<1> DEFINE f == TopOf(stack[u])
           t == Entering(f)
           h == [f EXCEPT !.pc = "entered"]
           c == Connect(t)
           g == [c EXCEPT !.n = 0]
<1>1. /\ Steps(u) /\ sends' = sends /\ err' = err /\ err[u] = "none"
      /\ At(u, f.op, "enter") /\ u \in setup.users /\ stack[u] # <<>>
  BY EnterSteps
<1>2. /\ Top(u) = f /\ f.op \in Decorated \cup {"with"} /\ t \in Trackers /\ (t = "dup" <=> f.sock = "dup")
      /\ f.sock \notin Socks /\ f.op # "connect" /\ f.pc = "enter" /\ (f.sock = "dup" => ~Async)
      /\ (f.sock # "dup" => t = "main") /\ (f.sock = "dup" => f.op \notin {"with", "http_request"})
      /\ \A x \in Trackers : ~Inside(f, x)
  BY <1>1, EnterFacts
<1>3. /\ NetOK(net) /\ f \in Frames /\ StackOK(stack[u])
      /\ \A x \in Trackers : Virt(net, x) \in Nat
  BY <1>1, TopFacts
<1>5. /\ h \in Frames /\ FrameOK(h) /\ h.op = f.op /\ h.sock = f.sock /\ h.pc = "entered"
      /\ \A m : HandedOK(m, h)
      /\ Over(h, FALSE, "none") >= Over(f, TRUE, "none")
  BY <1>1, EnterFrame
<1>6. /\ g \in Frames /\ FrameOK(g) /\ g.pc = "start" /\ g.tries = 0 /\ g.op = "connect" /\ g.sock = t
      /\ \A m : HandedOK(m, g)
      /\ Rank(g.op) < Rank(f.op)
  <2>1. 0 \in Nat /\ (t = "dup" => ~Async)
    BY <1>2
  <2> QED
    BY <2>1, <1>2, ConnectFrame
<1>6a. g = c
  BY DEF Connect, Frame
<1>7. net' = net /\ stack'[u] = <<g, h>> \o Tail(stack[u])
  <2>1. stack \in [Users -> Seq(Frames)]
    BY DEF IInv, Core, StacksInv
  <2>2. stack[u][1] = f
    BY DEF TopOf
  <2> QED
    BY <2>1, <2>2, <1>2, <1>6a DEF tracker_enter, Call
<1> HIDE DEF g, h, c
<1>10. \A x \in Trackers : Inside(h, x) <=> Inside(f, x)
  BY <1>2, <1>5 DEF Inside
<1>12. CallOK(h, g)
  BY <1>2, <1>5, <1>6 DEF CallOK
<1>15. g.op = "connect" /\ g.sock = "dup" => Virt(net, "dup") >= 1
  <2> HAVE g.op = "connect" /\ g.sock = "dup"
  <2>1. Virt(net, "dup") # 0 /\ Virt(net, "dup") \in Nat
    BY <1>2, <1>3, <1>6 DEF outermost, Virt
  <2> QED
    BY <2>1
<1>16. Rank(g.op) < Rank(h.op) /\ HandedOK(net, h) /\ HandedOK(net, g)
  BY <1>5, <1>6
<1>17. h.op \in {"with", "http_request"} => ~net.tracker["main"].connected \/ Inside(h, "main")
  BY <1>2, <1>5
<1> HIDE DEF t
<1> QED
  BY <1>1, <1>2, <1>5, <1>6, <1>7, <1>10, <1>12, <1>15, <1>16, <1>17, StillPush

\* Otherwise the frame goes on: the socket property connects, or it is connected.
LEMMA EnterOn ==
  ASSUME IInv, NEW u \in Users, tracker_enter(u),
         outermost(net, Entering(TopOf(stack[u]))) <=> ~net.tracker[Entering(TopOf(stack[u]))].connected
  PROVE  IInv'
<1> DEFINE f == TopOf(stack[u])
           t == Entering(f)
           n == IF outermost(net, t) THEN [net EXCEPT !.tracker[t].layers = NoLayers] ELSE net
           h == [f EXCEPT !.pc = "entered"]
<1>1. /\ Steps(u) /\ sends' = sends /\ err' = err /\ sends'[u] = sends[u] /\ err'[u] = "none" /\ err[u] = "none"
      /\ At(u, f.op, "enter") /\ u \in setup.users /\ stack[u] # <<>>
  BY EnterSteps
<1>2. /\ Top(u) = f /\ f.op \in Decorated \cup {"with"} /\ t \in Trackers
      /\ f.op # "connect" /\ f.pc = "enter"
      /\ \A x \in Trackers : ~Inside(f, x)
  BY <1>1, EnterFacts
<1>3. /\ NetOK(net) /\ Follows(net) /\ f \in Frames /\ StackOK(stack[u])
      /\ \A x \in Trackers : Virt(net, x) \in Nat
  BY <1>1, TopFacts
<1>5. /\ h \in Frames /\ FrameOK(h) /\ h.op = f.op /\ h.sock = f.sock /\ h.pc = "entered"
      /\ \A m : HandedOK(m, h)
      /\ Over(h, TRUE, "none") >= Over(f, TRUE, "none")
  BY <1>1, EnterFrame
<1>7. net' = n /\ stack'[u] = <<h>> \o Tail(stack[u])
  <2>1. stack \in [Users -> Seq(Frames)]
    BY DEF IInv, Core, StacksInv
  <2> QED
    BY <2>1, <1>2 DEF tracker_enter, Jump
<1>8. /\ Follows(n) /\ \A x \in Trackers : Virt(n, x) = Virt(net, x)
      /\ n.sock = net.sock
      /\ \A x \in Trackers : n.tracker[x].sock = net.tracker[x].sock /\ n.tracker[x].connected = net.tracker[x].connected
  BY <1>2, <1>3, ResetFollows
<1> HIDE DEF n, h
<1>10. \A x \in Trackers : ~Inside(h, x)
  BY <1>5 DEF Inside
<1>11. \A x \in Trackers : Virt(net', x) = Virt(net, x) + Bit(Inside(h, x)) - Bit(Inside(f, x))
  BY <1>2, <1>3, <1>7, <1>8, <1>10 DEF Bit
<1>13. Lone => LeaveOK(net', stack'[u], err'[u])
  <2> HAVE Lone
  <2>1. /\ ~Awaits(stack'[u]) /\ ~Awaits(stack[u]) /\ Len(stack'[u]) = Len(stack[u])
        /\ Len(stack[u]) = 1 => D(stack'[u], 1) = h
    BY <1>1, <1>2, <1>3, <1>5, <1>7, AwaitsNot
  <2>2. Len(stack[u]) = 1 => D(stack[u], 1) = f
    BY DEF D, TopOf
  <2>3. "main" \in Trackers
    BY DEF Trackers
  <2>4. Virt(net', "main") = Virt(net, "main")
    BY <2>3, <1>7, <1>8
  <2>5. /\ net'.tracker["main"].connected = net.tracker["main"].connected
        /\ net'.tracker["main"].sock = net.tracker["main"].sock /\ net'.sock = net.sock
    BY <2>3, <1>7, <1>8
  <2>6. /\ net.tracker["main"].connected /\ err[u] = "none" /\ Len(stack[u]) = 1
         /\ D(stack[u], 1).op \in {"with", "http_request"}
         => err'[u] = "none" /\ Len(stack'[u]) = 1 /\ D(stack'[u], 1).op \in {"with", "http_request"}
    BY <2>1, <2>2, <1>1, <1>5
  <2> QED
    BY <2>1, <2>4, <2>5, <2>6, <1>1, LeaveSame
<1>14. RaisedOK(<<h>>, err'[u])
  BY <1>1 DEF RaisedOK
<1>15. Over(h, TRUE, err'[u]) >= Over(f, TRUE, err[u]) /\ err[u] # "error"
  BY <1>1, <1>5
<1>16. Follows(net') /\ HandedOK(net', h)
  BY <1>5, <1>7, <1>8
<1>17. ~(h.op = "connect")
  BY <1>2, <1>5
<1> HIDE DEF t
<1> QED
  BY <1>1, <1>5, <1>7, <1>11, <1>13, <1>14, <1>15, <1>16, <1>17, GoesKeeps

\* SocketTracker.__enter__ keeps the invariant.
LEMMA tracker_enterStep ==
  ASSUME IInv, NEW u \in Users, tracker_enter(u)
  PROVE  IInv'
<1>1. net.tracker[Entering(TopOf(stack[u]))].connected \in BOOLEAN
  <2>1. stack[u] # <<>> /\ At(u, TopOf(stack[u]).op, "enter")
    BY EnterSteps
  <2>2. Entering(TopOf(stack[u])) \in Trackers /\ NetOK(net)
    BY <2>1, EnterFacts, TopFacts
  <2> QED
    BY <2>2 DEF NetOK, Nets, TrackerRecords
<1>2. outermost(net, Entering(TopOf(stack[u]))) \in BOOLEAN
  BY DEF outermost
<1> QED
  BY <1>1, <1>2, EnterAnew, EnterWithin, EnterOn

\* A user enters or leaves a block of its own, or starts a call, while none of its frames is in a block.
LEMMA OutsideCounts ==
  ASSUME Core, NEW u, Touches(u),
         blocks'[u] \in {blocks[u] - 1, blocks[u], blocks[u] + 1},
         \A x \in Trackers : \A d \in 1..Len(stack[u]) : ~Inside(D(stack[u], d), x),
         \A x \in Trackers : \A d \in 1..Len(stack'[u]) : ~Inside(D(stack'[u], d), x)
  PROVE  \A x \in Trackers :
           /\ IsFiniteSet(Blocks(x)')
           /\ Cardinality(Blocks(x)') = Cardinality(Blocks(x)) + (IF x = "main" THEN blocks'[u] - blocks[u] ELSE 0)
<1> TAKE x \in Trackers
<1> DEFINE b == blocks[u]
           c == blocks'[u]
           B == Blocks(x)
           W(w, d) == d \in 1..Len(stack[w]) /\ Inside(D(stack[w], d), x)
           W2(w, d) == d \in 1..Len(stack'[w]) /\ Inside(D(stack'[w], d), x)
<1>1. u \in Users /\ StacksInv /\ BlocksInv
  BY SetupFacts DEF Touches, Core
<1>2. \A w \in Users \ {u} : stack'[w] = stack[w] /\ blocks'[w] = blocks[w]
  BY <1>1 DEF StacksInv, Touches
<1>3. b \in Nat /\ c \in Nat /\ c \in {b - 1, b, b + 1}
  BY <1>1 DEF StacksInv, Touches
<1>4. B = {p \in Users \X Int : W(p[1], p[2]) \/ (x = "main" /\ -p[2] \in 1..blocks[p[1]])}
  BY DEF Blocks
<1>5. Blocks(x)' = {p \in Users \X Int : W2(p[1], p[2]) \/ (x = "main" /\ -p[2] \in 1..blocks'[p[1]])}
  BY DEF Blocks, Inside, D
<1>6. \A d : ~W(u, d) /\ ~W2(u, d)
  OBVIOUS
<1>7. \A w \in Users \ {u} : \A d : W(w, d) <=> W2(w, d)
  BY <1>2
<1> HIDE DEF W, W2, B, b, c
<1>8. \A w \in Users, d \in Int :
        /\ w # u => (<<w, d>> \in Blocks(x)' <=> <<w, d>> \in B)
        /\ w = u => (<<w, d>> \in Blocks(x)' <=> x = "main" /\ -d \in 1..c)
        /\ w = u => (<<w, d>> \in B <=> x = "main" /\ -d \in 1..b)
  BY <1>2, <1>4, <1>5, <1>6, <1>7 DEF b, c
<1>9. B \subseteq Users \X Int /\ Blocks(x)' \subseteq Users \X Int
  BY <1>4, <1>5
<1>10. IsFiniteSet(B) /\ Cardinality(B) \in Nat /\ B = Blocks(x)
  BY <1>1, FS_CardinalityType DEF BlocksInv, B
<1>11. CASE x # "main" \/ c = b
  <2>1. \A w \in Users, d \in Int : <<w, d>> \in Blocks(x)' <=> <<w, d>> \in B
    BY <1>8, <1>11
  <2>2. Blocks(x)' = B
    <3>1. B \subseteq Blocks(x)'
      BY <1>9, <2>1
    <3>2. Blocks(x)' \subseteq B
      BY <1>9, <2>1
    <3> QED
      BY <3>1, <3>2
  <2>3. (IF x = "main" THEN c - b ELSE 0) = 0
    BY <1>3, <1>11
  <2> QED
    BY <1>10, <2>2, <2>3 DEF b, c
<1>12. CASE x = "main" /\ c = b + 1
  <2> DEFINE k == <<u, -c>>
  <2>0. -c \in Int /\ - -c = c /\ k \in Users \X Int
    BY <1>1, <1>3
  <2>1. k \notin B
    <3>1. ~(c \in 1..b)
      BY <1>3, <1>12
    <3> QED
      BY <3>1, <2>0, <1>1, <1>8
  <2>2. \A w \in Users, d \in Int : <<w, d>> \in Blocks(x)' <=> (<<w, d>> \in B \/ <<w, d>> = k)
    <3> TAKE w \in Users, d \in Int
    <3>1. CASE w # u
      BY <3>1, <1>8
    <3>2. CASE w = u
      <4>1. -d \in 1..c <=> (-d \in 1..b \/ d = -c)
        BY <1>3, <1>12
      <4> QED
        BY <4>1, <3>2, <1>8, <1>12
    <3> QED
      BY <3>1, <3>2
  <2> HIDE DEF k
  <2>3. Blocks(x)' = B \cup {k}
    BY <2>0, <2>2, <1>9
  <2>4. IsFiniteSet(B \cup {k}) /\ Cardinality(B \cup {k}) = Cardinality(B) + 1
    BY <2>1, <1>10, FS_AddElement
  <2>5. c - b = 1
    BY <1>3, <1>12
  <2> QED
    BY <1>10, <1>12, <2>3, <2>4, <2>5 DEF b, c
<1>13. CASE x = "main" /\ c = b - 1
  <2> DEFINE k == <<u, -b>>
  <2>0. -b \in Int /\ - -b = b /\ k \in Users \X Int /\ b >= 1
    BY <1>1, <1>3, <1>13
  <2>1. k \in B
    <3>1. b \in 1..b
      BY <1>3, <2>0
    <3> QED
      BY <3>1, <2>0, <1>1, <1>8, <1>13
  <2>2. \A w \in Users, d \in Int : <<w, d>> \in Blocks(x)' <=> (<<w, d>> \in B /\ <<w, d>> # k)
    <3> TAKE w \in Users, d \in Int
    <3>1. CASE w # u
      BY <3>1, <1>8
    <3>2. CASE w = u
      <4>1. -d \in 1..c <=> (-d \in 1..b /\ d # -b)
        BY <1>3, <1>13
      <4> QED
        BY <4>1, <3>2, <1>8, <1>13
    <3> QED
      BY <3>1, <3>2
  <2> HIDE DEF k
  <2>3. Blocks(x)' = B \ {k}
    BY <2>0, <2>2, <1>9
  <2>4. IsFiniteSet(B \ {k}) /\ Cardinality(B \ {k}) = Cardinality(B) - 1
    BY <2>1, <1>10, FS_RemoveElement
  <2>5. c - b = -1
    BY <1>3, <1>13
  <2> QED
    BY <1>10, <1>13, <2>3, <2>4, <2>5 DEF b, c
<1> QED
  BY <1>3, <1>11, <1>12, <1>13 DEF b, c

\* The same step, and the calls that may come to be in a block.
LEMMA OutsideClaims ==
  ASSUME Core, NEW u, Touches(u),
         \/ blocks'[u] = blocks[u] /\ calls' = calls + 1
         \/ /\ blocks'[u] = blocks[u] + 1 /\ calls' = calls
            /\ stack[u] # <<>> /\ D(stack[u], 1).op = "with" /\ stack'[u] = <<>>
         \/ blocks'[u] = blocks[u] - 1 /\ calls' = calls /\ stack[u] = <<>> /\ stack'[u] = <<>>
  PROVE  IsFiniteSet(Claims') /\ Cardinality(Claims') <= calls'
<1> DEFINE b == blocks[u]
           c == blocks'[u]
           one == <<u, 1>>
           In(w) == stack[w] # <<>> /\ D(stack[w], 1).op \in {"with", "http_request"}
           In2(w) == stack'[w] # <<>> /\ D(stack'[w], 1).op \in {"with", "http_request"}
<1>1. u \in Users /\ StacksInv /\ BlocksInv
  BY SetupFacts DEF Touches, Core
<1>2. \A w \in Users \ {u} : stack'[w] = stack[w] /\ blocks'[w] = blocks[w]
  BY <1>1 DEF StacksInv, Touches
<1>3. b \in Nat /\ c \in Nat /\ calls \in Nat
  BY <1>1 DEF StacksInv, Touches
<1>4. Claims = {p \in Users \X Int : (p[2] = 1 /\ In(p[1])) \/ -p[2] \in 1..blocks[p[1]]}
  BY DEF Claims
<1>5. Claims' = {p \in Users \X Int : (p[2] = 1 /\ In2(p[1])) \/ -p[2] \in 1..blocks'[p[1]]}
  BY DEF Claims, D
<1>6. \A w \in Users \ {u} : In(w) <=> In2(w)
  BY <1>2
<1>7. /\ \A w \in Users, d \in Int :
           /\ w # u => (<<w, d>> \in Claims' <=> <<w, d>> \in Claims)
           /\ w = u => (<<w, d>> \in Claims' <=> (d = 1 /\ In2(u)) \/ -d \in 1..c)
           /\ w = u => (<<w, d>> \in Claims <=> (d = 1 /\ In(u)) \/ -d \in 1..b)
      /\ Claims \subseteq Users \X Int /\ Claims' \subseteq Users \X Int
  <2> HIDE DEF In, In2
  <2> QED
    BY <1>2, <1>4, <1>5, <1>6
<1>8. IsFiniteSet(Claims) /\ Cardinality(Claims) \in Nat /\ Cardinality(Claims) <= calls
  BY <1>1, FS_CardinalityType DEF BlocksInv
<1>9. one \in Users \X Int
  BY <1>1
<1> HIDE DEF b, c, In, In2, one
<1>10. CASE c = b /\ calls' = calls + 1
  <2>1. \A w \in Users, d \in Int : <<w, d>> \in Claims' => <<w, d>> \in Claims \/ <<w, d>> = one
    BY <1>7, <1>10 DEF one
  <2>2. Claims' \subseteq Claims \cup {one}
    BY <2>1, <1>7
  <2>3. IsFiniteSet(Claims \cup {one}) /\ Cardinality(Claims \cup {one}) <= Cardinality(Claims) + 1
    <3>1. CASE one \in Claims
      <4>1. Claims \cup {one} = Claims
        BY <3>1
      <4>2. Cardinality(Claims) <= Cardinality(Claims) + 1
        BY <1>8
      <4> HIDE DEF one
      <4>3. Cardinality(Claims \cup {one}) = Cardinality(Claims) /\ IsFiniteSet(Claims \cup {one})
        BY <4>1, <1>8
      <4> QED
        BY <4>2, <4>3
    <3>2. CASE one \notin Claims
      <4>1. IsFiniteSet(Claims \cup {one}) /\ Cardinality(Claims \cup {one}) = Cardinality(Claims) + 1
        BY <3>2, <1>8, FS_AddElement
      <4> QED
        BY <4>1, <1>8
    <3> QED
      BY <3>1, <3>2
  <2>4. IsFiniteSet(Claims') /\ Cardinality(Claims') <= Cardinality(Claims \cup {one})
    BY <2>2, <2>3, FS_Subset
  <2>5. Cardinality(Claims') \in Nat /\ Cardinality(Claims \cup {one}) \in Nat
    BY <2>3, <2>4, FS_CardinalityType
  <2> QED
    BY <2>3, <2>4, <2>5, <1>3, <1>8, <1>10
<1>11. CASE c = b + 1 /\ calls' = calls /\ In(u) /\ ~In2(u)
  <2> DEFINE k == <<u, -c>>
             R == Claims \ {one}
  <2>0. -c \in Int /\ k \in Users \X Int
    BY <1>1, <1>3
  <2>1. one \in Claims
    BY <1>1, <1>7, <1>11 DEF one
  <2>2. \A w \in Users, d \in Int : <<w, d>> \in Claims' => (<<w, d>> \in Claims /\ <<w, d>> # one) \/ <<w, d>> = k
    <3> TAKE w \in Users, d \in Int
    <3>1. CASE w # u
      BY <3>1, <1>7 DEF one
    <3>2. CASE w = u
      <4>1. -d \in 1..c => (-d \in 1..b \/ d = -c) /\ d # 1
        BY <1>3, <1>11
      <4> QED
        BY <4>1, <3>2, <1>7, <1>11 DEF one
    <3> QED
      BY <3>1, <3>2
  <2>3. k \notin R
    <3>1. ~(- -c \in 1..b) /\ -c # 1
      BY <1>3, <1>11
    <3>2. -c \in Int
      BY <1>3
    <3> QED
      BY <3>1, <3>2, <1>1, <1>7
  <2>4. IsFiniteSet(R) /\ Cardinality(R) = Cardinality(Claims) - 1
    BY <2>1, <1>8, FS_RemoveElement
  <2> HIDE DEF k, R
  <2>5. IsFiniteSet(R \cup {k}) /\ Cardinality(R \cup {k}) = Cardinality(R) + 1
    BY <2>3, <2>4, FS_AddElement
  <2>6. Claims' \subseteq R \cup {k}
    <3>1. \A w \in Users, d \in Int : <<w, d>> \in Claims' => <<w, d>> \in R \cup {k}
      BY <2>2 DEF R
    <3> QED
      BY <3>1, <1>7
  <2>7. IsFiniteSet(Claims') /\ Cardinality(Claims') <= Cardinality(R \cup {k})
    BY <2>5, <2>6, FS_Subset
  <2>8. Cardinality(Claims') \in Nat
    BY <2>7, FS_CardinalityType
  <2> QED
    BY <2>4, <2>5, <2>7, <2>8, <1>3, <1>8, <1>11
<1>12. CASE c = b - 1 /\ calls' = calls /\ ~In2(u)
  <2>1. \A w \in Users, d \in Int : <<w, d>> \in Claims' => <<w, d>> \in Claims
    <3> TAKE w \in Users, d \in Int
    <3>1. CASE w # u
      BY <3>1, <1>7
    <3>2. CASE w = u
      <4>1. -d \in 1..c => -d \in 1..b
        BY <1>3, <1>12
      <4> QED
        BY <4>1, <3>2, <1>7, <1>12
    <3> QED
      BY <3>1, <3>2
  <2>2. Claims' \subseteq Claims
    BY <2>1, <1>7
  <2>3. IsFiniteSet(Claims') /\ Cardinality(Claims') <= Cardinality(Claims)
    BY <2>2, <1>8, FS_Subset
  <2>4. Cardinality(Claims') \in Nat
    BY <2>3, FS_CardinalityType
  <2> QED
    BY <2>3, <2>4, <1>3, <1>8, <1>12
<1> QED
  BY <1>10, <1>11, <1>12 DEF b, c, In, In2

\* A frame of the wrapper is in the block.
LEMMA EnteredFrame ==
  ASSUME IInv, NEW u \in Users, EnteredBlock(u), TopOf(stack[u]).op # "with"
  PROVE  IInv'
<1> DEFINE f == TopOf(stack[u])
           t == Entering(f)
           to == IF f.sock = "dup" THEN "body" ELSE "in"
           g == [f EXCEPT !.pc = to]
<1>1. stack[u] # <<>> /\ At(u, Top(u).op, "entered")
  BY DEF EnteredBlock
<1>1a. At(u, f.op, "entered") /\ Top(u) = f
  BY <1>1, AtFacts
<1>2. /\ Turn(u) /\ err[u] = "none" /\ f.pc = "entered" /\ f.op \in Decorated \cup {"with"} /\ t \in Trackers
      /\ (t = "dup" <=> f.sock = "dup") /\ (f.sock # "dup" => t = "main" /\ f.op \in {"with", "http_request"})
      /\ (f.sock = "dup" => f.op \notin {"with", "http_request"}) /\ f.op # "connect"
      /\ (f.sock # "dup" => f.sock = Nothing)
      /\ \A x \in Trackers : ~Inside(f, x)
  BY <1>1a, EnterFacts
<1>3. /\ NetOK(net) /\ Follows(net) /\ f \in Frames /\ StackOK(stack[u]) /\ u \in setup.users
      /\ \A x \in Trackers : Virt(net, x) \in Nat
  BY <1>1, TopFacts
<1>4. f.op \in Decorated
  BY <1>2
<1>5. to \in {"entered", "body", "in"} /\ (to = "in" => f.op = "http_request") /\ to # "entered"
  BY <1>2, <1>4 
<1> HIDE DEF to
<1>6. /\ g \in Frames /\ FrameOK(g) /\ g.op = f.op /\ g.sock = f.sock /\ g.pc = to
      /\ \A m : HandedOK(m, g)
      /\ Over(g, TRUE, "none") >= Over(f, TRUE, "none")
  BY <1>1a, <1>4, <1>5, EnterFrame
<1>7. /\ net' = entered(net, t) /\ stack'[u] = <<g>> \o Tail(stack[u]) /\ blocks' = blocks
      /\ \E q : stack' = [stack EXCEPT ![u] = q]
  <2>1. stack \in [Users -> Seq(Frames)]
    BY DEF IInv, Core, StacksInv
  <2> QED
    BY <2>1, <1>1a DEF EnteredBlock, Jump, to
<1>8. /\ Follows(net') /\ net'.sock = net.sock /\ Virt(net', t) = Virt(net, t) + 1
      /\ \A x \in Trackers : /\ net'.tracker[x].sock = net.tracker[x].sock
                             /\ net'.tracker[x].connected = net.tracker[x].connected
                             /\ x # t => net'.tracker[x] = net.tracker[x]
  <2> DEFINE m == entered(net, t)
  <2>1. /\ Follows(m) /\ m.sock = net.sock /\ Virt(m, t) = Virt(net, t) + 1
        /\ \A x \in Trackers : /\ m.tracker[x].sock = net.tracker[x].sock
                               /\ m.tracker[x].connected = net.tracker[x].connected
                               /\ x # t => m.tracker[x] = net.tracker[x]
    <3>1. t \in Trackers /\ Follows(net)
      BY <1>2, <1>3
    <3> HIDE DEF t
    <3> QED
      BY <3>1, EnteredFollows
  <2>2. net' = m
    BY <1>7
  <2> HIDE DEF t, m
  <2> QED
    BY <2>1, <2>2
<1>9. /\ setup' = setup /\ calls' = calls /\ sends' = sends /\ faults' = faults /\ err' = err
  BY DEF EnteredBlock
<1>10. Steps(u)
  BY <1>1, <1>2, <1>7, <1>9 DEF Steps
<1> HIDE DEF g
<1>11. \A x \in Trackers : Inside(g, x) <=> x = t
  BY <1>2, <1>4, <1>6 DEF Inside, to, Trackers
<1>12. \A x \in Trackers : Virt(net', x) = Virt(net, x) + Bit(Inside(g, x)) - Bit(Inside(f, x))
  <2> TAKE x \in Trackers
  <2>1. CASE x = t
    BY <2>1, <1>2, <1>3, <1>8, <1>11 DEF Bit
  <2>2. CASE x # t
    <3>1. Virt(net', x) = Virt(net, x)
      BY <2>2, <1>8 DEF Virt
    <3> QED
      BY <2>2, <3>1, <1>2, <1>3, <1>11 DEF Bit
  <2> QED
    BY <2>1, <2>2
<1>13. Lone => LeaveOK(net', stack'[u], err'[u])
  <2> HAVE Lone
  <2>1. ~Awaits(stack'[u]) /\ ~Awaits(stack[u])
    <3>1. g.pc \notin {"connecting", "woken"} /\ f.pc \notin {"connecting", "woken"}
      BY <1>2, <1>5, <1>6
    <3>2. ~Awaits(<<g>> \o Tail(stack[u])) /\ ~Awaits(stack[u])
      BY <3>1, <1>1, <1>3, <1>6, AwaitsNot
    <3> QED
      BY <3>2, <1>7
  <2>2. "main" \in Trackers /\ Virt(net, "main") \in Nat
    BY <1>3 DEF Trackers
  <2>3. CASE t = "main"
    <3>1. Virt(net', "main") # 0
      BY <2>2, <2>3, <1>8
    <3> QED
      BY <2>1, <3>1, LeaveBusy
  <2>4. CASE t # "main"
    <3>1. f.op \notin {"with", "http_request"}
      BY <2>4, <1>2
    <3>2. /\ net'.tracker["main"] = net.tracker["main"] /\ Virt(net', "main") = Virt(net, "main")
      BY <2>2, <2>4, <1>8 DEF Virt
    <3>3. Virt(net, "main") # 0 \/ Quiet(net, "main")
      BY <2>1, <3>1, <1>1, <1>2, <1>3, LoneQuiet
    <3>4. Virt(net', "main") # 0 \/ Quiet(net', "main")
      BY <3>2, <3>3, <1>8 DEF Quiet
    <3> QED
      BY <2>1, <3>4, LeaveBusy
  <2> QED
    BY <2>3, <2>4
<1>14. RaisedOK(<<g>>, err'[u]) /\ sends'[u] = sends[u]
  BY <1>2, <1>9 DEF RaisedOK
<1>15. Over(g, TRUE, err'[u]) >= Over(f, TRUE, err[u]) /\ err[u] # "error"
  BY <1>2, <1>6, <1>9
<1>16. HandedOK(net', g) /\ ~(g.op = "connect")
  BY <1>2, <1>6
<1> HIDE DEF t
<1> QED
  BY <1>6, <1>7, <1>8, <1>10, <1>12, <1>13, <1>14, <1>15, <1>16, GoesKeeps

\* The user is in a block.
LEMMA EnteredWith ==
  ASSUME IInv, NEW u \in Users, EnteredBlock(u), TopOf(stack[u]).op = "with"
  PROVE  IInv'
<1> DEFINE f == TopOf(stack[u])
           s == stack[u]
<1>1. stack[u] # <<>> /\ At(u, Top(u).op, "entered")
  BY DEF EnteredBlock
<1>1a. At(u, f.op, "entered") /\ Top(u) = f
  BY <1>1, AtFacts
<1>2. /\ Turn(u) /\ err[u] = "none" /\ f.op = "with" /\ f.sock = Nothing
      /\ \A x \in Trackers : ~Inside(f, x)
  BY <1>1a, EnterFacts
<1>2a. Entering(f) = "main" /\ "main" \in Trackers
  BY <1>2, NothingApart DEF Entering, Trackers
<1>3. /\ NetOK(net) /\ Follows(net) /\ f \in Frames /\ StackOK(s) /\ u \in setup.users
      /\ \A x \in Trackers : Virt(net, x) \in Nat
      /\ Core /\ StacksInv
  BY <1>1, TopFacts DEF Core
<1>4. Len(s) = 1 /\ D(s, 1) = f
  BY <1>1, <1>2, <1>3, CallsAlone
<1>5. Tail(s) = <<>> /\ Tail(s) \in Seq(Frames)
  BY <1>1, <1>3, <1>4, CallerOf
<1>7. /\ net' = entered(net, "main") /\ stack' = [stack EXCEPT ![u] = Tail(@)]
      /\ blocks' = [blocks EXCEPT ![u] = @ + 1]
      /\ setup' = setup /\ calls' = calls /\ sends' = sends /\ faults' = faults /\ err' = err
  BY <1>1a, <1>2, <1>2a DEF EnteredBlock, Pop
<1>8. /\ Follows(net') /\ net'.sock = net.sock /\ Virt(net', "main") = Virt(net, "main") + 1
      /\ \A x \in Trackers : x # "main" => net'.tracker[x] = net.tracker[x]
  <2>1. \A t \in Trackers : t = "main" =>
          /\ Follows(entered(net, t)) /\ entered(net, t).sock = net.sock /\ Virt(entered(net, t), t) = Virt(net, t) + 1
          /\ \A x \in Trackers : x # t => entered(net, t).tracker[x] = net.tracker[x]
    BY <1>3, EnteredFollows
  <2> QED
    BY <2>1, <1>2a, <1>7
<1>9. stack'[u] = <<>> /\ blocks'[u] = blocks[u] + 1 /\ blocks'[u] \in Nat /\ err'[u] = "none" /\ blocks[u] \in Nat
  BY <1>2, <1>3, <1>5, <1>7 DEF StacksInv
<1>10. Touches(u)
  BY <1>2, <1>3, <1>7, <1>9 DEF Touches, StacksInv, Raised
<1>11. Moves(s, stack'[u])
  <2>1. stack'[u] = Tail(s)
    BY <1>5, <1>9
  <2>2. StackOK(Tail(s))
    BY <1>1, <1>3, PoppedOK
  <2> QED
    BY <2>1, <2>2, <1>1, <1>3 DEF Moves
<1>12. StacksInv'
  <2>1. StackOK(stack'[u]) /\ RaisedOK(stack'[u], err'[u])
    BY <1>9, <1>11 DEF Moves, RaisedOK
  <2> QED
    BY <2>1, <1>3, <1>10, StacksKept
<1>13. SocksInv'
  <2>1. Raw(s) = {}
    BY <1>2, <1>4, NothingApart DEF Raw
  <2>2. \A d \in 1..Len(stack'[u]) : FALSE
    BY <1>9
  <2> QED
    BY <2>1, <2>2, <1>3, <1>8, <1>10, <1>11, SocksKept
<1>14. BlocksInv'
  <2>1. \A x \in Trackers : \A d \in 1..Len(s) : ~Inside(D(s, d), x)
    BY <1>2, <1>4
  <2>2. \A x \in Trackers : \A d \in 1..Len(stack'[u]) : ~Inside(D(stack'[u], d), x)
    BY <1>9
  <2>3. blocks'[u] \in {blocks[u] - 1, blocks[u], blocks[u] + 1}
    BY <1>9
  <2>4. \A x \in Trackers :
           /\ IsFiniteSet(Blocks(x)')
           /\ Cardinality(Blocks(x)') = Cardinality(Blocks(x)) + (IF x = "main" THEN blocks'[u] - blocks[u] ELSE 0)
    BY <2>1, <2>2, <2>3, <1>3, <1>10, OutsideCounts
  <2>5. IsFiniteSet(Claims') /\ Cardinality(Claims') <= calls'
    BY <1>1, <1>2, <1>3, <1>4, <1>7, <1>9, <1>10, OutsideClaims
  <2>6. \A x \in Trackers : Virt(net', x) = Cardinality(Blocks(x)')
    <3> TAKE x \in Trackers
    <3>1. Virt(net, x) = Cardinality(Blocks(x)) /\ Virt(net, x) \in Nat
      BY <1>3 DEF Core, BlocksInv
    <3>2. Virt(net', x) = Virt(net, x) + (IF x = "main" THEN 1 ELSE 0)
      <4>1. x # "main" => Virt(net', x) = Virt(net, x)
        BY <1>8 DEF Virt
      <4> QED
        BY <4>1, <3>1, <1>8
    <3>3. blocks'[u] - blocks[u] = 1
      BY <1>9
    <3> QED
      BY <3>1, <3>2, <3>3, <2>4
  <2> QED
    BY <2>4, <2>5, <2>6 DEF BlocksInv, Virt
<1>15. SendsInv'
  BY <1>3, <1>9, <1>10, <1>11, SendsKept DEF IInv
<1>16. LeaveInv'
  <2>1. Lone' <=> Lone
    BY <1>7 DEF Lone
  <2> SUFFICES ASSUME Lone, NEW w \in setup.users
               PROVE  stack'[w] = <<>> /\ LeaveOK(net', stack'[w], err'[w])
    BY <2>1, <1>7 DEF LeaveInv, LeaveOK, Awaits, Quiet, Virt, D, TopOf
  <2>2. w = u
    BY <1>3 DEF Lone
  <2>3. ~Awaits(stack'[u]) /\ Virt(net', "main") # 0
    BY <1>2a, <1>3, <1>8, <1>9 DEF Awaits
  <2> QED
    BY <2>2, <2>3, <1>9, LeaveBusy
<1> QED
  BY <1>12, <1>13, <1>14, <1>15, <1>16 DEF IInv, Core

\* A tracker's __enter__ ends: it keeps the invariant.
LEMMA EnteredBlockStep ==
  ASSUME IInv, NEW u \in Users, EnteredBlock(u)
  PROVE  IInv'
  BY EnteredFrame, EnteredWith

-----------------------------------------------------------------------------
(* Operations on a socket *)

\* What the operations may end with.
LEMMA OutcomeFacts ==
  ASSUME NEW op \in Leaves, NEW state \in SockStates, NEW o \in Outcomes(op, state)
  PROVE  /\ o \in {"broken", "error"} \/ o \in {"ok", "chunk", "eof"}
         /\ state = "closed" => o = "error"
         /\ o = "broken" => state # "closed"
         /\ o \notin {"broken", "error"} => state # "closed"
<1>1. /\ op = "recv" => Outcomes(op, state) = recv(state)
      /\ op = "sendall" => Outcomes(op, state) = sendall(state)
      /\ op = "shutdown" => Outcomes(op, state) = shutdown(state)
      /\ op = "settimeout" => Outcomes(op, state) = settimeout(state)
      /\ op = "accept" => Outcomes(op, state) = accept(state)
      /\ op = "on_connect" => Outcomes(op, state) = on_connect(state)
  BY DEF Outcomes
<1>2. state \in {"fresh", "up", "down", "gone", "closed"}
  BY DEF SockStates
<1>3. CASE op = "recv"
  <2>1. Outcomes(op, state) = recv(state)
    BY <1>1, <1>3
  <2> QED
    BY <1>2, <2>1 DEF recv
<1>4. CASE op = "sendall"
  <2>1. Outcomes(op, state) = sendall(state)
    BY <1>1, <1>4
  <2> QED
    BY <1>2, <2>1 DEF sendall
<1>5. CASE op = "shutdown"
  <2>1. Outcomes(op, state) = shutdown(state)
    BY <1>1, <1>5
  <2> QED
    BY <1>2, <2>1 DEF shutdown
<1>6. CASE op = "settimeout"
  <2>1. Outcomes(op, state) = settimeout(state)
    BY <1>1, <1>6
  <2> QED
    BY <1>2, <2>1 DEF settimeout
<1>7. CASE op \in {"accept", "on_connect"}
  <2>1. Outcomes(op, state) = {"error"}
    BY <1>1, <1>7 DEF accept, on_connect
  <2> QED
    BY <2>1
<1> QED
  BY <1>3, <1>4, <1>5, <1>6, <1>7 DEF Leaves

\* The socket an operation is performed on.
Performs(u, x) ==
  /\ Turn(u) /\ stack[u] # <<>> /\ err[u] = "none" /\ TopOf(stack[u]).op \in Leaves /\ x \in Socks
  /\ \/ ~Async /\ TopOf(stack[u]).pc = "body" /\ ~MustConnect(TopOf(stack[u])) /\ x = SocketOf(TopOf(stack[u]))
     \/ Async /\ TopOf(stack[u]).pc = "await" /\ x = TopOf(stack[u]).held

\* What is known then: of the frame, and of a socket that it was handed.
LEMMA PerformFacts ==
  ASSUME IInv, NEW u \in Users, NEW x, Performs(u, x)
  PROVE  LET f == TopOf(stack[u])
         IN  /\ f.op \in Decorated /\ DecoratedOK(f) /\ f.op \notin {"connect", "with", "http_request"}
             /\ Top(u) = f /\ f \in Frames /\ f.pc \in {"body", "await"} /\ x \in Socks
             /\ Handed(f) => x = f.sock
             /\ Handed(f) /\ Open(net, x) => f.tries < 2
             /\ Lone /\ Virt(net, "main") = 0 => x # net.tracker["main"].sock
<1> DEFINE f == TopOf(stack[u])
<1>1. stack[u] # <<>> /\ f.op \in Leaves /\ f.pc \in {"body", "await"} /\ x \in Socks
  BY DEF Performs
<1>2. /\ f \in Frames /\ FrameOK(f) /\ HandedOK(net, f) /\ NetOK(net) /\ u \in setup.users /\ Top(u) = f
      /\ Core
  BY <1>1, TopFacts
<1>3. f.op \in Decorated /\ f.op \notin {"connect", "with", "http_request"}
  BY <1>1 DEF Decorated, Leaves
<1>4. DecoratedOK(f)
  BY <1>2, <1>3 DEF FrameOK
<1>5. Handed(f) => x = f.sock
  <2> HAVE Handed(f)
  <2>1. Async /\ f.sock \in Socks
    BY DEF Handed
  <2>2. f.pc = "await" /\ x = f.held
    BY <2>1 DEF Performs
  <2>3. f.held \in {Nothing, f.sock} /\ f.held \in Socks
    BY <1>1, <1>2, <1>4, <2>1, <2>2 DEF DecoratedOK, FrameOK
  <2> QED
    BY <2>2, <2>3, NothingApart
<1>6. Handed(f) /\ Open(net, x) => f.tries < 2
  <2>1. f.tries \in 0..3
    BY <1>2 DEF Frames
  <2> QED
    BY <2>1, <1>2, <1>3, <1>5 DEF HandedOK
<1>7. Lone /\ Virt(net, "main") = 0 => x # net.tracker["main"].sock
  <2> HAVE Lone /\ Virt(net, "main") = 0
  <2>1. ~Async /\ f.sock = "dup"
    BY <1>1, <1>2, <1>3, LoneTop
  <2>2. On(f) = "dup" /\ "dup" \in Trackers
    BY <2>1, NothingApart DEF On, Trackers
  <2>3. x = net.tracker["dup"].sock
    BY <2>1, <2>2 DEF Performs, SocketOf
  <2> QED
    BY <2>3, <1>1, <1>2, NothingApart DEF NetOK
<1> QED
  BY <1>1, <1>2, <1>3, <1>4, <1>5, <1>6, <1>7

\* What performing it changes.
LEMMA PerformSteps ==
  ASSUME IInv, NEW u \in Users, NEW x, Performs(u, x), Perform(u, x)
  PROVE  /\ Steps(u)
         /\ sends'[u] = sends[u] + (IF TopOf(stack[u]).op = "sendall" THEN 1 ELSE 0)
         /\ \E o \in Outcomes(TopOf(stack[u]).op, net.sock[x]) :
              IF o \in {"broken", "error"}
              THEN /\ err'[u] = o /\ stack' = stack
                   /\ net' = IF o = "broken" THEN [net EXCEPT !.sock[x] = "down"] ELSE net
              ELSE /\ err'[u] = "none" /\ stack'[u] = Tail(stack[u])
                   /\ net' = LeaveWith(IF TopOf(stack[u]).op = "shutdown" THEN [net EXCEPT !.sock[x] = "down"] ELSE net,
                                       TopOf(stack[u]))
<1> DEFINE f == TopOf(stack[u])
<1>1. Turn(u) /\ stack[u] # <<>> /\ err[u] = "none"
  BY DEF Performs
<1>2. Top(u) = f
  BY PerformFacts
<1>3. stack \in [Users -> Seq(Frames)] /\ err \in [Users -> Raised] /\ sends \in [Users -> Nat]
  BY DEF IInv, Core, StacksInv
<1>4. /\ setup' = setup /\ blocks' = blocks /\ calls' = calls
      /\ sends' = IF f.op = "sendall" THEN [sends EXCEPT ![u] = @ + 1] ELSE sends
      /\ faults' = faults \/ Fault
  BY <1>2 DEF Perform
<1>5. PICK o \in Outcomes(f.op, net.sock[x]) :
       IF o \in {"broken", "error"}
       THEN /\ err' = [err EXCEPT ![u] = o] /\ stack' = stack
            /\ net' = IF o = "broken" THEN [net EXCEPT !.sock[x] = "down"] ELSE net
       ELSE /\ err' = err /\ stack' = [stack EXCEPT ![u] = Tail(@)]
            /\ net' = LeaveWith(IF f.op = "shutdown" THEN [net EXCEPT !.sock[x] = "down"] ELSE net, f)
  BY <1>2 DEF Perform, Raise, Finish, Pop
<1>6. Steps(u)
  <2>1. stack' = stack \/ \E t : stack' = [stack EXCEPT ![u] = t]
    BY <1>5
  <2>2. err' = err \/ \E e \in Raised : err' = [err EXCEPT ![u] = e]
    BY <1>5 DEF Raised
  <2>3. sends' = sends \/ sends' = [sends EXCEPT ![u] = @ + 1]
    BY <1>4
  <2> QED
    BY <1>1, <1>4, <2>1, <2>2, <2>3 DEF Steps
<1>7. sends'[u] = sends[u] + (IF f.op = "sendall" THEN 1 ELSE 0)
  BY <1>3, <1>4
<1>8. IF o \in {"broken", "error"}
      THEN /\ err'[u] = o /\ stack' = stack
           /\ net' = IF o = "broken" THEN [net EXCEPT !.sock[x] = "down"] ELSE net
      ELSE /\ err'[u] = "none" /\ stack'[u] = Tail(stack[u])
           /\ net' = LeaveWith(IF f.op = "shutdown" THEN [net EXCEPT !.sock[x] = "down"] ELSE net, f)
  BY <1>1, <1>3, <1>5
<1> QED
  BY <1>5, <1>6, <1>7, <1>8

\* It raises.
LEMMA PerformRaises ==
  ASSUME IInv, NEW u \in Users, NEW x, Performs(u, x), Steps(u),
         sends'[u] = sends[u] + (IF TopOf(stack[u]).op = "sendall" THEN 1 ELSE 0),
         NEW o \in {"broken", "error"}, o \in Outcomes(TopOf(stack[u]).op, net.sock[x]),
         err'[u] = o, stack' = stack, net' = IF o = "broken" THEN [net EXCEPT !.sock[x] = "down"] ELSE net
  PROVE  IInv'
<1> DEFINE f == TopOf(stack[u])
<1>1. /\ f.op \in Decorated /\ DecoratedOK(f) /\ f.op \notin {"connect", "with", "http_request"}
      /\ f \in Frames /\ f.pc \in {"body", "await"} /\ x \in Socks
      /\ Handed(f) => x = f.sock
      /\ Handed(f) /\ Open(net, x) => f.tries < 2
      /\ Lone /\ Virt(net, "main") = 0 => x # net.tracker["main"].sock
  BY PerformFacts
<1>2. stack[u] # <<>> /\ err[u] = "none" /\ f.op \in Leaves
  BY DEF Performs
<1>3. /\ NetOK(net) /\ Follows(net) /\ HandedOK(net, f) /\ Virt(net, "main") \in Nat /\ RaisedOK(stack[u], err[u])
      /\ stack[u] # <<>>
  <2>1. "main" \in Trackers
    BY DEF Trackers
  <2> QED
    BY <2>1, <1>2, TopFacts
<1>4. net.sock[x] \in SockStates
  BY <1>1, <1>3 DEF NetOK, Nets
<1>5. (net.sock[x] = "closed" => o = "error") /\ (o = "broken" => Open(net, x))
  BY <1>2, <1>4, OutcomeFacts DEF Open
<1>6. /\ Follows(net') /\ net'.tracker = net.tracker
      /\ \A y \in Socks : (Open(net', y) <=> Open(net, y)) /\ (y # x => net'.sock[y] = net.sock[y])
  <2>1. CASE o = "broken"
    <3> DEFINE m == [net EXCEPT !.sock[x] = "down"]
    <3>1. "down" \in SockStates /\ "down" # "closed"
      BY DEF SockStates
    <3>2. /\ Follows(m) /\ m.tracker = net.tracker
          /\ \A y \in Socks : m.sock[y] = IF y = x THEN "down" ELSE net.sock[y]
      BY <2>1, <3>1, <1>1, <1>3, <1>5, StateFollows
    <3>3. net' = m
      BY <2>1
    <3> HIDE DEF m
    <3> QED
      BY <2>1, <3>2, <3>3, <1>5 DEF Open
  <2>2. CASE o # "broken"
    BY <2>2, <1>3
  <2> QED
    BY <2>1, <2>2
<1>7. HandedOK(net', f)
  <2>1. f.sock \in Socks => (Open(net', f.sock) <=> Open(net, f.sock))
    BY <1>6
  <2>2. Handed(f) => f.sock \in Socks
    BY DEF Handed
  <2> QED
    BY <2>1, <2>2, <1>3, <1>6 DEF HandedOK
<1>8. RaisedOK(stack[u], err'[u])
  <2>1. f.op = "sendall" /\ Handed(f) /\ f.tries >= 2 => o = "error"
    <3> HAVE f.op = "sendall" /\ Handed(f) /\ f.tries >= 2
    <3>1. ~Open(net, x)
      BY <1>1 DEF Frames
    <3> QED
      BY <3>1, <1>5
  <2>2. f.pc # "start"
    BY <1>1
  <2> QED
    BY <2>1, <2>2, <1>1, <1>2 DEF RaisedOK
<1>9. Lone => \A y \in Socks : y = net.tracker["main"].sock => net'.sock[y] = net.sock[y] \/ Virt(net, "main") # 0
  BY <1>1, <1>6
<1>10. \/ sends'[u] = sends[u] /\ (err'[u] = "error" \/ Share(f.op) = 0)
       \/ /\ f.op = "sendall" /\ sends'[u] = sends[u] + 1
          /\ Over(f, TRUE, err'[u]) >= Over(f, TRUE, "none") + 1
  <2>1. CASE f.op = "sendall"
    <3> DEFINE a == Over(f, TRUE, err'[u])
               b == Over(f, TRUE, "none")
               k == Tried(f)
    <3>1. a = k
      BY <1>1 DEF Over
    <3>2. b = k - 1
      BY <2>1, <1>1 DEF Over
    <3>3. k \in Int
      BY <1>1, TriedInt
    <3> HIDE DEF a, b, k
    <3>4. a >= b + 1
      BY <3>1, <3>2, <3>3
    <3>5. sends'[u] = sends[u] + 1
      BY <2>1
    <3> QED
      BY <2>1, <3>4, <3>5 DEF a, b
  <2>2. CASE f.op # "sendall"
    <3>1. Share(f.op) = 0
      BY <2>2, <1>2 DEF Share, Leaves
    <3>2. sends[u] \in Nat
      BY DEF IInv, Core, StacksInv
    <3>3. sends'[u] = sends[u]
      BY <3>2, <2>2
    <3> QED
      BY <3>1, <3>3
  <2> QED
    BY <2>1, <2>2
<1> QED
  BY <1>1, <1>2, <1>6, <1>7, <1>8, <1>9, <1>10, RaiseKeeps

\* It returns.
LEMMA PerformReturns ==
  ASSUME IInv, NEW u \in Users, NEW x, Performs(u, x), Steps(u),
         sends'[u] = sends[u] + (IF TopOf(stack[u]).op = "sendall" THEN 1 ELSE 0),
         NEW o \in Outcomes(TopOf(stack[u]).op, net.sock[x]), o \notin {"broken", "error"},
         err'[u] = "none", stack'[u] = Tail(stack[u]),
         net' = LeaveWith(IF TopOf(stack[u]).op = "shutdown" THEN [net EXCEPT !.sock[x] = "down"] ELSE net, TopOf(stack[u]))
  PROVE  IInv'
<1> DEFINE f == TopOf(stack[u])
           m == IF f.op = "shutdown" THEN [net EXCEPT !.sock[x] = "down"] ELSE net
<1>1. /\ f.op \in Decorated /\ DecoratedOK(f) /\ f.op \notin {"connect", "with", "http_request"}
      /\ f \in Frames /\ f.pc \in {"body", "await"} /\ x \in Socks
      /\ Handed(f) /\ Open(net, x) => f.tries < 2
      /\ Lone /\ Virt(net, "main") = 0 => x # net.tracker["main"].sock
  BY PerformFacts
<1>2. stack[u] # <<>> /\ err[u] = "none" /\ f.op \in Leaves
  BY DEF Performs
<1>3. /\ NetOK(net) /\ Follows(net)
  BY <1>2, TopFacts
<1>4. net.sock[x] \in SockStates
  BY <1>1, <1>3 DEF NetOK, Nets
<1>5. Open(net, x)
  BY <1>2, <1>4, OutcomeFacts DEF Open
<1>6. /\ Follows(m) /\ m.tracker = net.tracker /\ \A y \in Socks : y # x => m.sock[y] = net.sock[y]
  <2>1. CASE f.op = "shutdown"
    <3> DEFINE j == [net EXCEPT !.sock[x] = "down"]
    <3>1. "down" \in SockStates /\ "down" # "closed"
      BY DEF SockStates
    <3>2. /\ Follows(j) /\ j.tracker = net.tracker
          /\ \A y \in Socks : j.sock[y] = IF y = x THEN "down" ELSE net.sock[y]
      BY <3>1, <1>1, <1>3, <1>5, StateFollows
    <3>3. m = j
      BY <2>1
    <3> HIDE DEF m, j
    <3> QED
      BY <3>2, <3>3
  <2>2. CASE f.op # "shutdown"
    BY <2>2, <1>3
  <2> QED
    BY <2>1, <2>2
<1> HIDE DEF m
<1>7. net' = LeaveWith(m, f)
  BY DEF m
<1>8. Lone => \A y \in Socks : y = net.tracker["main"].sock => m.sock[y] = net.sock[y] \/ Virt(net, "main") # 0
  BY <1>1, <1>6
<1>9. \/ sends'[u] = sends[u] /\ (err'[u] = "error" \/ (err[u] # "error" /\ Share(f.op) = 0))
      \/ /\ sends'[u] - sends[u] \in {0, 1} /\ err[u] # "error" /\ Share(f.op) # 0
         /\ Share(f.op) * Over(f, TRUE, err[u]) + (sends'[u] - sends[u]) <= IF Handed(f) THEN 1 ELSE 3 * Share(f.op)
  <2>0. sends[u] \in Nat
    BY DEF IInv, Core, StacksInv
  <2>1. CASE f.op = "sendall"
    <3> DEFINE a == Over(f, TRUE, err[u])
               k == Tried(f)
               y == sends'[u] - sends[u]
    <3>1. a = k - 1
      BY <2>1, <1>1, <1>2 DEF Over
    <3>2. k \in 0..3 /\ (Handed(f) => k <= 1)
      <4>1. f.tries \in 0..3
        BY <1>1 DEF Frames
      <4>2. Handed(f) => ~Given(f)
        BY DEF Handed, Given
      <4>3. k = IF Given(f) THEN (IF f.pc = "start" THEN 0 ELSE 1) ELSE f.tries
        BY <2>1 DEF Tried
      <4> QED
        BY <4>1, <4>2, <4>3, <1>1, <1>5
    <3>3. Share(f.op) = 1
      BY <2>1 DEF Share
    <3>4. y = 1
      BY <2>0, <2>1
    <3> HIDE DEF a, k, y
    <3>6. y \in {0, 1}
      BY <3>4
    <3> DEFINE h == IF Handed(f) THEN 1 ELSE 3 * Share(f.op)
               g == Share(f.op)
    <3>7. g = 1 /\ (h = IF Handed(f) THEN 1 ELSE 3 * g)
      BY <3>3
    <3> HIDE DEF h, g
    <3>8. g * a + y <= h /\ g # 0
      BY <3>1, <3>2, <3>4, <3>7
    <3>9. Share(f.op) * a + y <= h /\ Share(f.op) # 0
      BY <3>8 DEF g
    <3>10. err[u] # "error"
      BY <1>2
    <3>11. Share(f.op) * Over(f, TRUE, err[u]) + (sends'[u] - sends[u]) <= IF Handed(f) THEN 1 ELSE 3 * Share(f.op)
      BY <3>9 DEF a, y, h
    <3> QED
      BY <3>6, <3>9, <3>10, <3>11 DEF y
  <2>2. CASE f.op # "sendall"
    <3>1. Share(f.op) = 0
      BY <2>2, <1>2 DEF Share, Leaves
    <3> QED
      BY <3>1, <2>0, <2>2, <1>2
  <2> QED
    BY <2>1, <2>2
<1>10. f.pc # "start"
  BY <1>1
<1> QED
  BY <1>1, <1>2, <1>6, <1>7, <1>8, <1>9, <1>10, LeavePops

\* Performing an operation keeps the invariant.
LEMMA PerformKeeps ==
  ASSUME IInv, NEW u \in Users, NEW x, Performs(u, x), Perform(u, x)
  PROVE  IInv'
<1>1. /\ Steps(u)
      /\ sends'[u] = sends[u] + (IF TopOf(stack[u]).op = "sendall" THEN 1 ELSE 0)
  BY PerformSteps
<1>2. PICK o \in Outcomes(TopOf(stack[u]).op, net.sock[x]) :
        IF o \in {"broken", "error"}
        THEN /\ err'[u] = o /\ stack' = stack
             /\ net' = IF o = "broken" THEN [net EXCEPT !.sock[x] = "down"] ELSE net
        ELSE /\ err'[u] = "none" /\ stack'[u] = Tail(stack[u])
             /\ net' = LeaveWith(IF TopOf(stack[u]).op = "shutdown" THEN [net EXCEPT !.sock[x] = "down"] ELSE net,
                                 TopOf(stack[u]))
  BY PerformSteps
<1>3. CASE o \in {"broken", "error"}
  BY <1>1, <1>2, <1>3, PerformRaises
<1>4. CASE o \notin {"broken", "error"}
  BY <1>1, <1>2, <1>4, PerformReturns
<1> QED
  BY <1>3, <1>4

\* A task awaits the network, on the socket the wrapper has now.
LEMMA AwaitsOn ==
  ASSUME IInv, NEW u \in Users, stack[u] # <<>>, TopOf(stack[u]).op \in Leaves, At(u, TopOf(stack[u]).op, "body"),
         ~MustConnect(TopOf(stack[u])), Async,
         Jump(u, [TopOf(stack[u]) EXCEPT !.pc = "await", !.held = SocketOf(TopOf(stack[u]))]), UNCHANGED <<net, err>>, Rest
  PROVE  IInv'
<1> DEFINE f == TopOf(stack[u])
           x == SocketOf(f)
           g == [f EXCEPT !.pc = "await", !.held = x]
<1>1. Turn(u) /\ err[u] = "none" /\ f.pc = "body" /\ stack[u] # <<>> /\ Top(u) = f
  BY AtFacts
<1>2. /\ f \in Frames /\ FrameOK(f) /\ HandedOK(net, f) /\ NetOK(net) /\ u \in setup.users
  BY <1>1, TopFacts
<1>3. f.op \in Decorated /\ f.op \notin {"connect", "with", "http_request", "query"}
  BY DEF Decorated, Leaves
<1>4. DecoratedOK(f) /\ f.sock # "main" /\ f.sock # "dup" /\ ~Given(f)
  BY <1>2, <1>3 DEF FrameOK, DecoratedOK, Given
<1>5. x \in Socks /\ (f.sock \in Socks => x = f.sock)
  <2>1. CASE f.sock \in Socks
    <3>1. f.sock \notin Trackers /\ f.sock # Nothing
      BY <2>1, NothingApart DEF Trackers
    <3> QED
      BY <2>1, <3>1 DEF SocketOf, On
  <2>2. CASE f.sock \notin Socks
    <3>1. f.sock = Nothing
      BY <2>2, <1>2, <1>4 DEF Frames, Trackers
    <3>2. On(f) = "main" /\ "main" \in Trackers
      BY <3>1 DEF On, Trackers
    <3>3. x = net.tracker["main"].sock /\ net.tracker["main"].connected
      BY <3>2 DEF MustConnect, SocketOf
    <3>4. x \in Socks
      BY <3>2, <3>3, <1>2 DEF NetOK, Nets, TrackerRecords
    <3> QED
      BY <3>4, <2>2
  <2> QED
    BY <2>1, <2>2
<1> HIDE DEF x
<1>6. /\ g \in Frames /\ g.op = f.op /\ g.sock = f.sock /\ g.held = x /\ g.tries = f.tries /\ g.pc = "await"
  BY <1>2, <1>5 DEF Frames, Pcs
<1>7. stack'[u] = <<g>> \o Tail(stack[u]) /\ \E t : stack' = [stack EXCEPT ![u] = t]
  <2>1. stack \in [Users -> Seq(Frames)]
    BY DEF IInv, Core, StacksInv
  <2> QED
    BY <2>1 DEF Jump, x
<1>8. Steps(u) /\ net' = net /\ err' = err /\ sends' = sends
  BY <1>1, <1>7 DEF Steps, Rest
<1> HIDE DEF g
<1>9. (Given(g) <=> Given(f)) /\ (Handed(g) <=> Handed(f))
  BY <1>6 DEF Given, Handed
<1>s. f.op # "send_chunks" /\ g.op # "send_chunks"
  BY <1>6 DEF Leaves
<1>10. DecoratedOK(g)
  <2>1. g.pc \in PcsOf(g.op)
    BY <1>6 DEF PcsOf, Own, Leaves
  <2>2. IF f.pc \in {"start", "ready"} THEN f.tries <= 2 ELSE f.tries >= 1
    BY <1>4 DEF DecoratedOK
  <2>3. g.tries >= 1
    BY <2>2, <1>1, <1>6
  <2> QED
    BY <2>1, <2>3, <1>1, <1>3, <1>4, <1>5, <1>6, <1>9, <1>s DEF DecoratedOK
<1>11. FrameOK(g)
  <2>1. g.op \in Leaves /\ g.op \notin {"connect", "with", "send_data"}
    BY <1>6 DEF Leaves
  <2> QED
    BY <2>1, <1>5, <1>6, <1>10 DEF FrameOK
<1>12. \A y \in Trackers : Inside(g, y) <=> Inside(f, y)
  BY <1>1, <1>3, <1>4, <1>6 DEF Inside
<1>13. HandedOK(net, g)
  BY <1>1, <1>2, <1>6, <1>9 DEF HandedOK
<1>14. Over(g, TRUE, "none") >= Over(f, TRUE, "none")
  <2> DEFINE a == Over(g, TRUE, "none")
             b == Over(f, TRUE, "none")
             k == Tried(f)
  <2>1. Tried(g) = k
    BY <1>1, <1>6, <1>9, <1>4, <1>s DEF Tried
  <2>2. a = k - 1
    BY <2>1, <1>6, <1>s DEF Over
  <2>3. b = k - 1
    BY <1>1, <1>s DEF Over
  <2>4. k \in Int
    BY <1>2, TriedInt
  <2> HIDE DEF a, b, k
  <2>5. a >= b
    BY <2>2, <2>3, <2>4
  <2> QED
    BY <2>5 DEF a, b
<1>15. f.op # "connect"
  BY <1>3
<1> QED
  BY <1>1, <1>6, <1>7, <1>8, <1>11, <1>12, <1>13, <1>14, <1>15, StillGoes

\* An operation on a socket keeps the invariant.
LEMMA OperateStep ==
  ASSUME IInv, NEW u \in Users, Operate(u)
  PROVE  IInv'
<1> DEFINE f == TopOf(stack[u])
<1>1. stack[u] # <<>> /\ At(u, Top(u).op, "body") /\ Top(u).op \in Leaves
  BY DEF Operate
<1>2. Turn(u) /\ err[u] = "none" /\ f.pc = "body" /\ Top(u) = f
  BY <1>1, AtFacts
<1>3. f \in Frames /\ FrameOK(f) /\ NetOK(net)
  BY <1>1, TopFacts
<1>4. f.op \in Leaves /\ f.op \in Decorated
  BY <1>1, <1>2 DEF Decorated
<1>5. CASE MustConnect(f)
  <2>1. auto_socket(u)
    BY <1>2, <1>5 DEF Operate
  <2> QED
    BY <2>1, <1>1, <1>2, <1>4, <1>5, AutoSocketKeeps
<1>6. CASE ~MustConnect(f) /\ ~Async
  <2>1. Perform(u, SocketOf(f))
    BY <1>2, <1>6 DEF Operate
  <2>2. SocketOf(f) \in Socks
    <3>1. On(f) \in Trackers \cup Socks
      BY <1>3 DEF On, Frames, Trackers
    <3>2. CASE On(f) \in Trackers
      <4>1. SocketOf(f) = net.tracker[On(f)].sock /\ net.tracker[On(f)].connected
        BY <3>2, <1>6 DEF SocketOf, MustConnect
      <4> QED
        BY <3>2, <4>1, <1>3 DEF NetOK, Nets, TrackerRecords
    <3>3. CASE On(f) \notin Trackers
      <4>1. f.sock # Nothing
        BY <3>3 DEF On, Trackers
      <4>2. On(f) = f.sock
        BY <4>1 DEF On
      <4> QED
        BY <3>1, <3>3, <4>2 DEF SocketOf
    <3> QED
      BY <3>2, <3>3
  <2>3. Performs(u, SocketOf(f))
    BY <2>2, <1>1, <1>2, <1>4, <1>6 DEF Performs
  <2> QED
    BY <2>1, <2>3, PerformKeeps
<1>7. CASE ~MustConnect(f) /\ Async
  <2>1. Jump(u, [f EXCEPT !.pc = "await", !.held = SocketOf(f)]) /\ UNCHANGED <<net, err>> /\ Rest
    BY <1>2, <1>7 DEF Operate
  <2>2. At(u, f.op, "body")
    BY <1>1, <1>2
  <2> QED
    BY <2>1, <2>2, <1>1, <1>4, <1>7, AwaitsOn
<1> QED
  BY <1>5, <1>6, <1>7

\* The end of a wait for the network keeps the invariant.
LEMMA ResumeStep ==
  ASSUME IInv, NEW u \in Users, Resume(u)
  PROVE  IInv'
<1> DEFINE f == TopOf(stack[u])
<1>1. Turn(u) /\ stack[u] # <<>> /\ Top(u).pc = "await" /\ err[u] = "none" /\ Perform(u, Top(u).held)
  BY DEF Resume
<1>2. Top(u) = f /\ f \in Frames /\ FrameOK(f)
  BY <1>1, TopFacts
<1>3. f.op \in Leaves /\ Async /\ f.held \in Socks
  <2>1. f.op \in Decorated => DecoratedOK(f)
    BY <1>2 DEF FrameOK
  <2>2. f.op \in Decorated => f.op \in Leaves
    BY <2>1, <1>1, <1>2 DEF DecoratedOK, PcsOf, Own, Decorated
  <2> QED
    BY <2>2, <1>1, <1>2 DEF FrameOK, Frames, FrameOps
<1>4. Performs(u, f.held)
  BY <1>1, <1>2, <1>3 DEF Performs
<1> QED
  BY <1>1, <1>2, <1>4, PerformKeeps

-----------------------------------------------------------------------------
(* Exceptions *)

\* A frame that an exception leaves, or that runs again.
LEMMA RaisedFacts ==
  ASSUME IInv, NEW u \in Users, Unwind(u)
  PROVE  LET f == TopOf(stack[u])
         IN  /\ stack[u] # <<>> /\ Turn(u) /\ err[u] \in {"broken", "error"} /\ Top(u) = f
             /\ f.op \in Decorated \cup {"with"} /\ f.op # "connect" /\ (f.op \in Decorated => DecoratedOK(f))
             /\ f.pc = "start" => ~Given(f)
             /\ f.op = "sendall" /\ Handed(f) /\ err[u] = "broken" => f.tries <= 1
             /\ f \in Frames /\ FrameOK(f)
             /\ setup' = setup /\ blocks' = blocks /\ calls' = calls /\ sends' = sends /\ faults' = faults
             /\ sends'[u] = sends[u]
<1> DEFINE f == TopOf(stack[u])
<1>1. stack[u] # <<>> /\ Turn(u) /\ err[u] # "none"
  BY DEF Unwind
<1>2. f \in Frames /\ FrameOK(f) /\ Top(u) = f /\ RaisedOK(stack[u], err[u]) /\ err[u] \in Raised
  BY <1>1, TopFacts
<1>3. /\ f.op \in Decorated \cup {"with"} /\ (f.pc = "start" => ~Given(f))
      /\ f.op = "sendall" /\ Handed(f) /\ f.tries >= 2 => err[u] = "error"
  BY <1>1, <1>2 DEF RaisedOK
<1>4. f.op # "connect"
  BY <1>3 DEF Decorated, Leaves
<1>5. f.tries \in 0..3
  BY <1>2 DEF Frames
<1>6. f.op = "sendall" /\ Handed(f) /\ err[u] = "broken" => f.tries <= 1
  BY <1>3, <1>5
<1>7. f.op \in Decorated => DecoratedOK(f)
  BY <1>2 DEF FrameOK
<1>8. /\ setup' = setup /\ blocks' = blocks /\ calls' = calls /\ sends' = sends /\ faults' = faults
  BY DEF Unwind, Rest
<1> QED
  BY <1>1, <1>2, <1>3, <1>4, <1>6, <1>7, <1>8 DEF Raised

\* What the try that failed had left over, the next one may send.
LEMMA TriesOn ==
  ASSUME NEW f \in Frames, NEW h \in Frames, DecoratedOK(f), f.op \in Decorated, ~Given(f), f.pc \notin {"start", "ready"},
         h.op = f.op, h.sock = f.sock, h.tries = f.tries, h.pc = "start", h.n = KeepsCount(f), NEW e, e # "none"
  PROVE  Over(h, TRUE, "none") >= Over(f, TRUE, e)
<1> DEFINE a == Over(h, TRUE, "none")
           b == Over(f, TRUE, e)
           x == f.tries
           n == f.n
<1>1. x \in 0..3 /\ n \in Nat /\ Chunks \in Nat
  BY SocketsAssumption DEF SocketsAssumption, Frames
<1>2. ~Given(h)
  BY DEF Given
<1>3. a >= b
  <2>1. CASE f.op = "send_chunks"
    <3>1. /\ a = IF setup.generator THEN h.n ELSE Chunks * x
          /\ b = IF setup.generator THEN n ELSE Chunks * (x - 1) + n
      BY <2>1 DEF Over, Tried, Taken
    <3>2. setup.generator => h.n = n
      BY <2>1 DEF KeepsCount
    <3>3. n <= Chunks
      BY <2>1 DEF DecoratedOK
    <3> HIDE DEF a, b, x, n
    <3> QED
      BY <1>1, <3>1, <3>2, <3>3
  <2>2. CASE f.op # "send_chunks"
    <3>1. a = x /\ b = x
      BY <2>2, <1>2 DEF Over, Tried
    <3> HIDE DEF a, b, x
    <3> QED
      BY <1>1, <3>1
  <2> QED
    BY <2>1, <2>2
<1> QED
  BY <1>3 DEF a, b

\* The decorator reconnects, and the operation is tried again.
LEMMA RunsAgain ==
  ASSUME IInv, NEW u \in Users, Unwind(u), TriesAgain(u)
  PROVE  IInv'
<1> DEFINE f == TopOf(stack[u])
           g == Connect("main")
           h == RunAgain(f)
           m == LeaveWith(net, f)
           n == disconnect(m, "main")
<1>1. /\ stack[u] # <<>> /\ Turn(u) /\ Top(u) = f /\ f \in Frames /\ FrameOK(f) /\ sends'[u] = sends[u]
      /\ f.op = "sendall" /\ Handed(f) /\ err[u] = "broken" => f.tries <= 1
      /\ setup' = setup /\ blocks' = blocks /\ calls' = calls /\ sends' = sends /\ faults' = faults
      /\ f.op # "connect"
  BY RaisedFacts
<1>2. f.op \in Decorated /\ err[u] = "broken" /\ f.pc \notin {"start", "ready"} /\ f.tries > 0 /\ f.tries < 3
  BY <1>1 DEF TriesAgain, Caught
<1>3. DecoratedOK(f) /\ ~Given(f) /\ f.tries \in 0..3
  BY <1>1, <1>2 DEF FrameOK, DecoratedOK, Frames
<1>4. /\ f.sock # "dup" /\ f.sock # "main" /\ (f.sock \in Socks => Async)
  BY <1>3, NothingApart DEF DecoratedOK, Given
<1>5. /\ NetOK(net) /\ Follows(net) /\ HandedOK(net, f) /\ StackOK(stack[u]) /\ u \in setup.users
      /\ \A x \in Trackers : Virt(net, x) \in Nat /\ (Inside(f, x) => Virt(net, x) >= 1)
      /\ LeavesRaw(f) => ~Owned(net, f.sock)
  BY <1>1, TopFacts
<1>6. /\ Follows(m)
      /\ \A t \in Trackers :
           /\ Inside(f, t) => Virt(m, t) = Virt(net, t) - 1
           /\ ~Inside(f, t) => m.tracker[t] = net.tracker[t] /\ Virt(m, t) = Virt(net, t)
      /\ \A s \in Socks : m.sock[s] = net.sock[s] \/ ~Open(m, s)
  <2> HIDE DEF f
  <2> QED
    BY <1>1, <1>5, LeaveFollows
<1>7. /\ Follows(n) /\ \A x \in Trackers : Virt(n, x) = Virt(m, x)
      /\ n.tracker["main"].sock = Nothing /\ n.tracker["main"].connected = FALSE
      /\ m.tracker["main"].sock # Nothing => m.tracker["main"].sock \in Socks /\ ~Open(n, m.tracker["main"].sock)
      /\ \A s \in Socks : n.sock[s] = m.sock[s] \/ ~Open(n, s)
  <2> HIDE DEF m, f
  <2> QED
    BY <1>6, DisconnectMain
<1>8. net' = n
  BY <1>1 DEF Unwind
<1>9. stack' = [stack EXCEPT ![u] = <<g, h>> \o Tail(@)] /\ err' = [err EXCEPT ![u] = "none"]
  BY <1>1 DEF Unwind, Raise
<1>10. stack'[u] = <<g, h>> \o Tail(stack[u]) /\ err'[u] = "none"
  <2>1. stack \in [Users -> Seq(Frames)] /\ err \in [Users -> Raised]
    BY DEF IInv, Core, StacksInv
  <2> QED
    BY <2>1, <1>9
<1>11. Steps(u)
  <2>1. \E q : stack' = [stack EXCEPT ![u] = q]
    BY <1>9
  <2>2. \E e \in Raised : err' = [err EXCEPT ![u] = e]
    BY <1>9 DEF Raised
  <2> QED
    BY <2>1, <2>2, <1>1 DEF Steps
<1>12. h \in Frames /\ h.op = f.op /\ h.sock = f.sock /\ h.held = f.held /\ h.tries = f.tries /\ h.pc = "start"
       /\ h.n = KeepsCount(f) /\ (h.op = "send_chunks" => h.n <= Chunks)
  <2>1. f.n \in Nat /\ 0 \in Nat /\ Chunks \in Nat
    BY <1>1, SocketsAssumption DEF Frames, SocketsAssumption
  <2>2. KeepsCount(f) \in {f.n, 0}
    BY DEF KeepsCount
  <2>3. h.n = KeepsCount(f) /\ KeepsCount(f) \in Nat
    BY <2>1, <2>2, <1>1 DEF RunAgain, Frames
  <2>4. f.op = "send_chunks" => f.n <= Chunks
    BY <1>3 DEF DecoratedOK
  <2> DEFINE k == KeepsCount(f)
             q == [f EXCEPT !.pc = "start", !.n = k]
  <2>5. h = q
    BY DEF RunAgain
  <2> HIDE DEF k, h
  <2>6. /\ q \in Frames /\ q.op = f.op /\ q.sock = f.sock /\ q.held = f.held /\ q.tries = f.tries
        /\ q.pc = "start" /\ q.n = k
    BY <2>3, <1>1 DEF Frames, Pcs, k
  <2>7. q.op = "send_chunks" => q.n <= Chunks
    <3> HIDE DEF q, f
    <3> QED
      BY <2>1, <2>2, <2>4, <2>6 DEF k
  <2> QED
    BY <2>5, <2>6, <2>7 DEF k
<1>13. /\ g \in Frames /\ FrameOK(g) /\ g.pc = "start" /\ g.tries = 0 /\ g.op = "connect" /\ g.sock = "main"
       /\ \A k : HandedOK(k, g)
       /\ Rank(g.op) < Rank(f.op)
  <2>1. f.op \in Decorated \cup {"with"}
    BY <1>2
  <2> QED
    BY <2>1, ConnectMain
<1> HIDE DEF m, n, g, h
<1>14. ~Given(h) /\ (Handed(h) <=> Handed(f))
  BY <1>3, <1>12 DEF Given, Handed
<1>15. DecoratedOK(h)
  <2>1. h.op = "sendall" /\ Handed(h) => h.tries <= 2 /\ h.tries <= 1
    BY <1>1, <1>2, <1>3, <1>12, <1>14
  <2>2. h.tries <= 2
    BY <1>2, <1>3, <1>12
  <2>3. h.pc \in PcsOf(h.op)
    BY <1>12 DEF PcsOf
  <2>4. /\ f.op = h.op /\ f.sock = h.sock /\ f.held = h.held /\ h.pc = "start"
        /\ h.op = "send_chunks" => h.n <= Chunks
    BY <1>12
  <2> HIDE DEF f
  <2> QED
    BY <2>1, <2>2, <2>3, <2>4, <1>3, <1>14 DEF DecoratedOK
<1>16. FrameOK(h)
  BY <1>1, <1>2, <1>12, <1>15 DEF FrameOK, Decorated, Leaves
<1>17. \A x \in Trackers : ~Inside(h, x) /\ ~Inside(g, x)
  BY <1>12, <1>13 DEF Inside, Decorated, Leaves
<1>18. \A x \in Trackers : Virt(net', x) = Virt(net, x) + Bit(Inside(h, x)) - Bit(Inside(f, x))
  <2> TAKE x \in Trackers
  <2> HIDE DEF f
  <2>1. Virt(net', x) = IF Inside(f, x) THEN Virt(net, x) - 1 ELSE Virt(net, x)
    BY <1>6, <1>7, <1>8
  <2> QED
    BY <2>1, <1>5, <1>17 DEF Bit
<1>19. HandedOK(net', h)
  <2>1. CASE Handed(h)
    <3>1. f.sock \in Socks /\ f.sock # Nothing
      BY <2>1, <1>14, NothingApart DEF Handed
    <3>2. Open(net, f.sock) => net.tracker["main"].sock = f.sock
      BY <2>1, <1>5, <1>14 DEF HandedOK
    <3>3. ~Inside(f, "main") /\ "main" \in Trackers
      BY <3>1, <1>4 DEF Inside, Trackers
    <3>4. m.tracker["main"] = net.tracker["main"]
      BY <3>3, <1>6
    <3>5. Open(n, f.sock) => Open(m, f.sock) /\ Open(net, f.sock)
      BY <3>1, <1>6, <1>7 DEF Open
    <3>6. ~Open(n, f.sock)
      BY <3>1, <3>2, <3>4, <3>5, <1>7
    <3> QED
      BY <3>6, <1>8, <1>12 DEF HandedOK
  <2> QED
    BY <2>1 DEF HandedOK
<1>20. CallOK(h, g)
  <2>1. ~Async => h.sock \notin Socks
    BY <1>4, <1>12
  <2> QED
    BY <2>1, <1>2, <1>4, <1>12, <1>13, <1>14, NothingApart DEF CallOK
<1>21. Lone => LeaveOK(net', stack'[u], err'[u])
  <2>1. g.pc \notin {"connecting", "woken"}
    BY <1>13
  <2>2. ~Awaits(<<g, h>> \o Tail(stack[u]))
    BY <2>1, <1>1, <1>5, <1>12, <1>13, AwaitsNot
  <2>3. Quiet(net', "main")
    BY <1>7, <1>8 DEF Quiet
  <2> QED
    BY <2>2, <2>3, <1>10, LeaveBusy
<1>22. Over(h, TRUE, "none") >= Over(f, TRUE, err[u]) /\ Over(g, TRUE, err'[u]) >= 0
  <2> DEFINE a == Over(h, TRUE, "none")
             b == Over(f, TRUE, err[u])
             c == Over(g, TRUE, err'[u])
  <2>1. a >= b
    BY <1>1, <1>2, <1>3, <1>12, TriesOn
  <2>3. c = 0
    BY <1>13 DEF Over, Tried, Given
  <2> HIDE DEF a, b, c
  <2>4. a >= b /\ c >= 0
    BY <2>1, <2>3
  <2> QED
    BY <2>4 DEF a, b, c
<1>23. /\ g.op = "connect" /\ (g.op = "connect" /\ g.sock = "dup" => Virt(net', "dup") >= 1)
       /\ HandedOK(net', g) /\ Rank(g.op) < Rank(h.op) /\ err[u] # "error" /\ Follows(net')
  BY <1>2, <1>7, <1>8, <1>12, <1>13
<1> QED
  BY <1>1, <1>10, <1>11, <1>12, <1>13, <1>16, <1>17, <1>18, <1>19, <1>20, <1>21, <1>22, <1>23, PushKeeps

\* The exception leaves the frame.
LEMMA RaisedPops ==
  ASSUME IInv, NEW u \in Users, Unwind(u), ~TriesAgain(u)
  PROVE  IInv'
<1> DEFINE f == TopOf(stack[u])
           s == stack[u]
<1>1. /\ s # <<>> /\ Turn(u) /\ err[u] \in {"broken", "error"} /\ Top(u) = f
      /\ f.op \in Decorated \cup {"with"} /\ f.op # "connect" /\ (f.op \in Decorated => DecoratedOK(f))
      /\ f.pc = "start" => ~Given(f)
      /\ f.op = "sendall" /\ Handed(f) /\ err[u] = "broken" => f.tries <= 1
      /\ f \in Frames /\ FrameOK(f)
      /\ setup' = setup /\ blocks' = blocks /\ calls' = calls /\ sends' = sends /\ faults' = faults
      /\ sends'[u] = sends[u]
  BY RaisedFacts
<1>2. /\ Follows(net) /\ StackOK(s) /\ u \in setup.users
  BY <1>1, TopFacts
<1>3. /\ net' = LeaveWith(net, f) /\ stack' = [stack EXCEPT ![u] = Tail(@)]
      /\ err' = [err EXCEPT ![u] = IF Len(stack[u]) = 1 THEN "none" ELSE err[u]]
  BY <1>1 DEF Unwind, PopRaising, Pop, Raise
<1>4. stack'[u] = Tail(s) /\ err'[u] = IF Len(s) = 1 THEN "none" ELSE err[u]
  <2>1. stack \in [Users -> Seq(Frames)] /\ err \in [Users -> Raised]
    BY DEF IInv, Core, StacksInv
  <2> QED
    BY <2>1, <1>3
<1>5. Steps(u)
  <2>1. \E q : stack' = [stack EXCEPT ![u] = q]
    BY <1>3
  <2>2. \E e \in Raised : err' = [err EXCEPT ![u] = e]
    <3>1. (IF Len(stack[u]) = 1 THEN "none" ELSE err[u]) \in Raised
      BY <1>1 DEF Raised
    <3> QED
      BY <3>1, <1>3
  <2> QED
    BY <2>1, <2>2, <1>1 DEF Steps
<1>6. LeavesRaw(f) => f.pc # "start"
  BY <1>1, NothingApart DEF LeavesRaw, Given
<1>7. \/ Len(s) = 1
      \/ sends'[u] = sends[u] /\ (err'[u] = "error" \/ (err[u] # "error" /\ Share(f.op) = 0))
      \/ /\ sends'[u] - sends[u] \in {0, 1} /\ err[u] # "error" /\ Share(f.op) # 0
         /\ Share(f.op) * Over(f, TRUE, err[u]) + (sends'[u] - sends[u]) <= IF Handed(f) THEN 1 ELSE 3 * Share(f.op)
  <2>1. CASE Len(s) = 1 \/ err[u] = "error" \/ Share(f.op) = 0
    BY <2>1, <1>1, <1>4
  <2>2. CASE Len(s) # 1 /\ err[u] = "broken" /\ Share(f.op) # 0
    <3> DEFINE a == Over(f, TRUE, err[u])
               y == sends'[u] - sends[u]
               c == Share(f.op)
               k == IF Handed(f) THEN 1 ELSE 3 * Share(f.op)
    <3>1. f.op \in Decorated /\ TRUE \in BOOLEAN /\ f.op # "send_chunks"
      BY <2>2, <1>1, <1>2, ChunksAlone DEF Share
    <3>2. a \in 0..3
      BY <3>1, <1>1, OverBounds
    <3>3. c \in {1, 3, 9}
      BY <2>2, ShareType
    <3>4. y = 0
      <4>1. sends[u] \in Nat
        BY DEF IInv, Core, StacksInv
      <4> QED
        BY <4>1, <1>1
    <3>5. Handed(f) => c = 1 /\ a <= 1
      <4> HAVE Handed(f)
      <4>1. f.op = "sendall"
        BY <2>2, <1>1, <1>2, HandedTop
      <4>2. ~Given(f) /\ f.tries <= 1 /\ f.tries \in 0..3
        BY <4>1, <2>2, <1>1 DEF Handed, Given, Frames
      <4>3. a = f.tries
        BY <4>1, <4>2, <2>2 DEF Over, Tried
      <4>4. c = 1
        BY <4>1 DEF Share
      <4> HIDE DEF a, c
      <4> QED
        BY <4>2, <4>3, <4>4
    <3>6. k = IF Handed(f) THEN 1 ELSE 3 * c
      OBVIOUS
    <3> HIDE DEF a, y, c, k
    <3>7. c * a + y <= k
      <4>1. CASE Handed(f)
        BY <4>1, <3>2, <3>4, <3>5, <3>6
      <4>2. CASE ~Handed(f)
        BY <4>2, <3>2, <3>3, <3>4, <3>6
      <4> QED
        BY <4>1, <4>2
    <3>8. y \in {0, 1} /\ c # 0
      BY <3>3, <3>4
    <3>9. /\ sends'[u] - sends[u] \in {0, 1} /\ Share(f.op) # 0
          /\ Share(f.op) * Over(f, TRUE, err[u]) + (sends'[u] - sends[u]) <= IF Handed(f) THEN 1 ELSE 3 * Share(f.op)
      BY <3>7, <3>8 DEF a, y, c, k
    <3> QED
      BY <3>9, <2>2
  <2> QED
    BY <2>1, <2>2, <1>1
<1>8. /\ f.op \in {"with", "http_request"} => ~net.tracker["main"].connected \/ Inside(f, "main") \/ err[u] # "none"
      /\ err'[u] = "none" \/ err'[u] = IF Len(s) = 1 THEN "none" ELSE err[u]
      /\ Lone => \A x \in Socks : x = net.tracker["main"].sock => net.sock[x] = net.sock[x] \/ Virt(net, "main") # 0
  BY <1>1, <1>4
<1> QED
  BY <1>1, <1>2, <1>3, <1>4, <1>5, <1>6, <1>7, <1>8, LeavePops

\* An exception that is handled keeps the invariant.
LEMMA UnwindStep ==
  ASSUME IInv, NEW u \in Users, Unwind(u)
  PROVE  IInv'
<1>1. TriesAgain(u) \/ ~TriesAgain(u)
  OBVIOUS
<1> QED
  BY <1>1, RunsAgain, RaisedPops

-----------------------------------------------------------------------------
(* Calls *)

\* What the invariant on sockets says of the next state.
LEMMA SocksNext ==
  ASSUME setup' = setup, NetOK(net'),
         \A x \in Socks : Open(net', x) => Owned(net', x) \/ \E w \in Users : x \in Raw(stack'[w]),
         \A w \in Users : \A x \in Raw(stack'[w]) : ~Owned(net', x),
         \A w \in Users : \A d \in 1..Len(stack'[w]) :
           /\ HandedOK(net', D(stack'[w], d))
           /\ D(stack'[w], d).op = "connect" /\ D(stack'[w], d).sock = "dup" => Virt(net', "dup") >= 1
  PROVE  SocksInv'
<1>1. Async' = Async
  BY DEF Async
<1>2. \A w \in Users : Raw(stack[w])' = Raw(stack'[w])
  BY <1>1 DEF Raw, D
<1>3. \A x : (Open(net, x)' <=> Open(net', x)) /\ (Owned(net, x)' <=> Owned(net', x))
  BY DEF Open, Owned
<1>4. \A w \in Users : \A d : HandedOK(net, D(stack[w], d))' <=> HandedOK(net', D(stack'[w], d))
  BY <1>1 DEF HandedOK, Handed, Open, D
<1>5. NetOK(net)' <=> NetOK(net')
  BY DEF NetOK, Open, Virt
<1> QED
  BY <1>2, <1>3, <1>4, <1>5 DEF SocksInv, Virt, D

\* A user without frames closes the tracker's socket, or starts a call.
LEMMA IdleSocks ==
  ASSUME Core, NEW u, Touches(u), Follows(net'), stack[u] = <<>>,
         \/ stack'[u] = <<>>
         \/ \E f \in Frames : /\ stack'[u] = <<f>> /\ f.sock \notin Socks
                              /\ f.op = "connect" => f.sock = "main"
  PROVE  SocksInv'
<1> DEFINE t == stack'[u]
<1>0. Fresh
  BY SocketLeft
<1>1. u \in Users /\ StacksInv /\ SocksInv /\ Turn(u) /\ setup' = setup
  BY SetupFacts DEF Touches, Core
<1>2. \A w \in Users \ {u} : stack'[w] = stack[w]
  BY <1>1 DEF StacksInv, Touches
<1>3. \A w \in Users : StackOK(stack[w]) /\ stack[w] \in Seq(Frames)
  BY <1>1 DEF StacksInv
<1>4. NetOK(net')
  BY DEF Follows
<1>5. \A d \in 1..Len(t) : /\ D(t, d).sock \notin Socks
                           /\ D(t, d).op = "connect" => D(t, d).sock = "main"
  <2>1. CASE t = <<>>
    BY <2>1
  <2>2. CASE t # <<>>
    <3>1. PICK f \in Frames : /\ t = <<f>> /\ f.sock \notin Socks
                              /\ f.op = "connect" => f.sock = "main"
      BY <2>2
    <3>2. Len(t) = 1 /\ D(t, 1) = f
      BY <3>1, Begun
    <3> QED
      BY <3>1, <3>2
  <2> QED
    BY <2>1, <2>2
<1>6. \A w \in Users : Raw(stack'[w]) = {} /\ Raw(stack[w]) = {}
  <2> TAKE w \in Users
  <2>1. CASE w = u
    <3>1. t # <<>> => 1 \in 1..Len(t)
      <4> HAVE t # <<>>
      <4>1. PICK f \in Frames : t = <<f>>
        OBVIOUS
      <4> QED
        BY <4>1, Begun
    <3> QED
      BY <2>1, <3>1, <1>5 DEF Raw
  <2>2. CASE w # u
    BY <2>2, <1>1, <1>2, TurnAlone DEF Raw
  <2> QED
    BY <2>1, <2>2
<1>7. \A x \in Socks : Open(net', x) => Owned(net', x) \/ \E w \in Users : x \in Raw(stack'[w])
  <2> SUFFICES ASSUME NEW x \in Socks, Open(net', x)
               PROVE  Owned(net', x)
    OBVIOUS
  <2>1. CASE Open(net, x)
    <3>1. Owned(net, x)
      BY <2>1, <1>1, <1>6 DEF SocksInv
    <3>2. PICK y \in Trackers : net.tracker[y].sock = x
      BY <3>1 DEF Owned
    <3> QED
      BY <3>2 DEF Owned, Follows
  <2>2. CASE ~Open(net, x)
    BY <2>2 DEF Follows
  <2> QED
    BY <2>1, <2>2
<1>8. \A w \in Users : \A x \in Raw(stack'[w]) : ~Owned(net', x)
  BY <1>6
<1>9. \A w \in Users : \A d \in 1..Len(stack'[w]) :
        /\ HandedOK(net', D(stack'[w], d))
        /\ D(stack'[w], d).op = "connect" /\ D(stack'[w], d).sock = "dup" => Virt(net', "dup") >= 1
  <2> SUFFICES ASSUME NEW w \in Users, NEW d \in 1..Len(stack'[w])
               PROVE  /\ HandedOK(net', D(stack'[w], d))
                      /\ D(stack'[w], d).op = "connect" /\ D(stack'[w], d).sock = "dup" => Virt(net', "dup") >= 1
    OBVIOUS
  <2>1. CASE w = u
    BY <2>1, <1>5, NothingApart DEF HandedOK, Handed
  <2>3. CASE w # u
    <3>1. stack'[w] = stack[w]
      BY <2>3, <1>2
    <3>2. d \in 1..Len(stack[w])
      BY <3>1
    <3>3. HandedOK(net, D(stack[w], d))
      BY <3>2, <1>1 DEF SocksInv
    <3>4. HandedOK(net', D(stack[w], d))
      BY <3>2, <3>3, <1>0, <1>1, <1>3, HandedStays
    <3>5. D(stack[w], d).op = "connect" => D(stack[w], d).sock # "dup"
      <4>1. FrameOK(D(stack[w], d))
        BY <3>2, <1>3 DEF StackOK
      <4>2. stack[w] # <<>>
        BY <3>2, <1>3, FramesOf
      <4>3. Async
        BY <4>2, <2>3, <1>1, TurnAlone
      <4> QED
        BY <4>1, <4>3, NothingApart DEF FrameOK
    <3> QED
      BY <3>1, <3>4, <3>5
  <2> QED
    BY <2>1, <2>3
<1> QED
  BY <1>1, <1>4, <1>7, <1>8, <1>9, SocksNext

\* A user without frames passes a connected socket of its own.
LEMMA RawSocks ==
  ASSUME Core, NEW u, Touches(u), stack[u] = <<>>, ~Async,
         net' = [net EXCEPT !.sock[NewSock] = "up"],
         NEW f \in Frames, stack'[u] = <<f>>, f.sock = NewSock, f.op # "connect"
  PROVE  /\ SocksInv' /\ NetOK(net') /\ net'.tracker = net.tracker /\ NewSock \in Socks
         /\ \A x \in Socks : Owned(net, x) => net'.sock[x] = net.sock[x]
<1>0. NewSock \in Socks /\ ~Open(net, NewSock)
  BY SocketLeft DEF Fresh
<1>1. u \in Users /\ StacksInv /\ SocksInv /\ Turn(u) /\ setup' = setup /\ NetOK(net)
  BY SetupFacts DEF Touches, Core, SocksInv
<1>2. \A w \in Users : w # u => stack'[w] = <<>>
  <2>1. \A w \in Users \ {u} : stack'[w] = stack[w] /\ stack[w] = <<>>
    BY <1>1, TurnAlone DEF StacksInv, Touches
  <2> QED
    BY <2>1
<1>3. /\ net'.tracker = net.tracker /\ net' \in Nets
      /\ \A x \in Socks : net'.sock[x] = IF x = NewSock THEN "up" ELSE net.sock[x]
  BY <1>0, <1>1 DEF NetOK, Nets, SockStates
<1>4. ~Owned(net, NewSock)
  <2> SUFFICES ASSUME NEW t \in Trackers, net.tracker[t].sock = NewSock PROVE FALSE
    BY DEF Owned
  <2> QED
    BY <1>0, <1>1, NothingApart DEF NetOK
<1>5. \A x \in Socks : Open(net, x) => Open(net', x)
  BY <1>3 DEF Open
<1>6. NetOK(net')
  <2>1. \A t \in Trackers : net'.tracker[t].sock # Nothing => Open(net', net'.tracker[t].sock)
    <3> TAKE t \in Trackers
    <3>1. net.tracker[t].sock \in Socks \cup {Nothing}
      BY <1>1 DEF NetOK, Nets, TrackerRecords
    <3> QED
      BY <3>1, <1>1, <1>3, <1>5 DEF NetOK
  <2> QED
    BY <2>1, <1>1, <1>3 DEF NetOK, Virt
<1>7. /\ stack'[u] # <<>> /\ Len(stack'[u]) = 1 /\ D(stack'[u], 1) = f
  BY Begun
<1>8. Raw(stack'[u]) = {NewSock}
  BY <1>0, <1>7 DEF Raw
<1>9. \A w \in Users : w # u => Raw(stack'[w]) = {}
  BY <1>2 DEF Raw
<1>10. \A w \in Users : Raw(stack[w]) = {}
  BY <1>1, TurnAlone DEF Raw
<1>11. \A x : Owned(net', x) <=> Owned(net, x)
  BY <1>3 DEF Owned
<1>12. \A x \in Socks : Open(net', x) => Owned(net', x) \/ \E w \in Users : x \in Raw(stack'[w])
  <2> SUFFICES ASSUME NEW x \in Socks, Open(net', x), x # NewSock
               PROVE  Owned(net', x)
    BY <1>1, <1>8
  <2>1. Open(net, x)
    BY <1>3 DEF Open
  <2> QED
    BY <2>1, <1>1, <1>10, <1>11 DEF SocksInv
<1>13. \A w \in Users : \A x \in Raw(stack'[w]) : ~Owned(net', x)
  BY <1>4, <1>8, <1>9, <1>11
<1>14. \A w \in Users : \A d \in 1..Len(stack'[w]) :
        /\ HandedOK(net', D(stack'[w], d))
        /\ D(stack'[w], d).op = "connect" /\ D(stack'[w], d).sock = "dup" => Virt(net', "dup") >= 1
  <2> SUFFICES ASSUME NEW w \in Users, NEW d \in 1..Len(stack'[w])
               PROVE  /\ HandedOK(net', D(stack'[w], d))
                      /\ D(stack'[w], d).op # "connect"
    OBVIOUS
  <2>1. w = u
    BY <1>2
  <2>2. D(stack'[w], d) = f
    <3>1. d \in 1..Len(stack'[u])
      BY <2>1
    <3>2. d = 1
      BY <3>1, <1>7
    <3> QED
      BY <3>2, <2>1, <1>7
  <2> QED
    BY <2>2 DEF HandedOK, Handed
<1>15. SocksInv'
  BY <1>1, <1>6, <1>12, <1>13, <1>14, SocksNext
<1>16. \A x \in Socks : Owned(net, x) => net'.sock[x] = net.sock[x]
  BY <1>3, <1>4
<1> QED
  BY <1>0, <1>3, <1>6, <1>15, <1>16

\* The first frame of a call.
Starts(u, op, f) ==
  /\ f \in Frames /\ FrameOK(f) /\ f.pc \in {"start", "enter"} /\ (Async => f.sock \notin Socks)
  /\ f.op = "connect" => f.sock = "main"
  /\ op \in {"with", "http_request", "query_new"} => f.op \in {"with", "http_request"} \/ f.sock = "dup"
  /\ stack' = [stack EXCEPT ![u] = <<f>>]

\* What a call changes.
LEMMA AskFacts ==
  ASSUME IInv, NEW u \in Users, NEW op, Asks(u, op),
         stack' = stack \/ \E f : Starts(u, op, f)
  PROVE  /\ Touches(u) /\ Turn(u) /\ stack[u] = <<>> /\ setup' = setup /\ blocks' = blocks /\ blocks'[u] = blocks[u]
         /\ calls' = calls + 1 /\ sends'[u] = 0 /\ err'[u] = "none" /\ u \in setup.users
         /\ Core /\ StacksInv /\ Follows(net) /\ NetOK(net)
         /\ \A x \in Trackers : Virt(net, x) \in Nat
         /\ stack' = stack => stack'[u] = <<>>
         /\ \A f : Starts(u, op, f) => stack'[u] = <<f>>
         /\ setup.in_blocks => blocks[u] > 0 \/ op \in {"with", "http_request", "query_new"}
<1>1. /\ u \in setup.users /\ Turn(u) /\ stack[u] = <<>> /\ calls < setup.calls /\ calls' = calls + 1
      /\ setup.in_blocks => blocks[u] > 0 \/ op \in {"with", "http_request", "query_new"}
      /\ sends' = [sends EXCEPT ![u] = 0]
      /\ setup' = setup /\ err' = err /\ blocks' = blocks /\ faults' = faults
  BY DEF Asks
<1>2. Core /\ StacksInv /\ NetOK(net) /\ BlocksInv /\ SetupOK(setup)
  BY SetupFacts DEF IInv, Core, SocksInv
<1>3. Follows(net)
  BY <1>2, FollowsItself
<1>4. /\ stack \in [Users -> Seq(Frames)] /\ err \in [Users -> Raised] /\ blocks \in [Users -> Nat]
      /\ sends \in [Users -> Nat] /\ calls \in 0..setup.calls /\ faults \in 0..setup.max_faults
      /\ RaisedOK(stack[u], err[u])
  BY <1>2 DEF StacksInv
<1>5. err[u] = "none"
  BY <1>1, <1>4 DEF RaisedOK
<1>6. stack' = [stack EXCEPT ![u] = stack'[u]] /\ (\A f : Starts(u, op, f) => stack'[u] = <<f>>)
  BY <1>4 DEF Starts
<1>7. calls' \in 0..setup.calls
  <2>1. setup.calls \in Nat
    BY <1>2 DEF SetupOK
  <2> QED
    BY <2>1, <1>1, <1>4
<1>8. sends'[u] = 0 /\ sends' = [sends EXCEPT ![u] = sends'[u]]
  BY <1>1, <1>4
<1>9. Touches(u)
  BY <1>1, <1>4, <1>5, <1>6, <1>7, <1>8 DEF Touches
<1>10. \A x \in Trackers : Virt(net, x) \in Nat
  BY <1>3, LayersOf
<1> QED
  BY <1>1, <1>2, <1>3, <1>4, <1>5, <1>6, <1>8, <1>9, <1>10

\* A call keeps the invariant, if it keeps what is said of the sockets.
LEMMA BeginRest ==
  ASSUME IInv, NEW u \in Users, NEW op, Asks(u, op),
         stack' = stack \/ \E f : Starts(u, op, f),
         SocksInv', \A x \in Trackers : Virt(net', x) = Virt(net, x),
         Virt(net, "main") # 0 \/ Quiet(net, "main") => Virt(net', "main") # 0 \/ Quiet(net', "main")
  PROVE  IInv'
<1> DEFINE t == stack'[u]
<1>1. /\ Touches(u) /\ Turn(u) /\ stack[u] = <<>> /\ setup' = setup /\ blocks' = blocks /\ blocks'[u] = blocks[u]
      /\ calls' = calls + 1 /\ sends'[u] = 0 /\ err'[u] = "none" /\ u \in setup.users
      /\ Core /\ StacksInv /\ NetOK(net)
      /\ \A x \in Trackers : Virt(net, x) \in Nat
      /\ stack' = stack => t = <<>>
      /\ \A f : Starts(u, op, f) => t = <<f>>
      /\ setup.in_blocks => blocks[u] > 0 \/ op \in {"with", "http_request", "query_new"}
  BY AskFacts
<1>2. t # <<>> =>
        /\ t = <<D(t, 1)>> /\ Len(t) = 1 /\ TopOf(t) = D(t, 1) /\ StackOK(t) /\ D(t, 1).pc \in {"start", "enter"}
        /\ op \in {"with", "http_request", "query_new"} =>
             D(t, 1).op \in {"with", "http_request"} \/ D(t, 1).sock = "dup"
  <2> HAVE t # <<>>
  <2>1. PICK f : Starts(u, op, f)
    BY <1>1
  <2>2. /\ t = <<f>> /\ f \in Frames /\ FrameOK(f) /\ (Async => f.sock \notin Socks) /\ f.pc \in {"start", "enter"}
        /\ op \in {"with", "http_request", "query_new"} => f.op \in {"with", "http_request"} \/ f.sock = "dup"
    BY <2>1, <1>1 DEF Starts
  <2>3. Len(t) = 1 /\ TopOf(t) = f /\ D(t, 1) = f
    BY <2>2, Begun
  <2>4. StackOK(t)
    BY <2>2, BegunOK
  <2> QED
    BY <2>2, <2>3, <2>4
<1>3. StackOK(t)
  <2>1. StackOK(stack[u])
    BY <1>1 DEF StacksInv
  <2> QED
    BY <2>1, <1>1, <1>2
<1>4. StacksInv'
  <2>1. RaisedOK(t, err'[u])
    BY <1>1 DEF RaisedOK
  <2> QED
    BY <2>1, <1>1, <1>3, StacksKept
<1>5. BlocksInv'
  <2>1. \A x \in Trackers : \A d \in 1..Len(stack[u]) : ~Inside(D(stack[u], d), x)
    BY <1>1
  <2>2. \A x \in Trackers : \A d \in 1..Len(t) : ~Inside(D(t, d), x)
    <3> SUFFICES ASSUME NEW x \in Trackers, NEW d \in 1..Len(t) PROVE ~Inside(D(t, d), x)
      OBVIOUS
    <3>1. t # <<>>
      OBVIOUS
    <3>2. Len(t) = 1 /\ D(t, 1).pc \in {"start", "enter"}
      BY <3>1, <1>2
    <3>3. d = 1
      BY <3>2
    <3> QED
      BY <3>2, <3>3 DEF Inside
  <2>3. blocks'[u] \in {blocks[u] - 1, blocks[u], blocks[u] + 1}
    BY <1>1
  <2>4. \A x \in Trackers :
           /\ IsFiniteSet(Blocks(x)')
           /\ Cardinality(Blocks(x)') = Cardinality(Blocks(x)) + (IF x = "main" THEN blocks'[u] - blocks[u] ELSE 0)
    BY <2>1, <2>2, <2>3, <1>1, OutsideCounts
  <2>5. IsFiniteSet(Claims') /\ Cardinality(Claims') <= calls'
    BY <1>1, OutsideClaims
  <2>6. \A x \in Trackers : Virt(net', x) = Cardinality(Blocks(x)')
    <3> TAKE x \in Trackers
    <3>1. Virt(net, x) = Cardinality(Blocks(x)) /\ Virt(net, x) \in Nat
      BY <1>1 DEF Core, BlocksInv
    <3>2. (IF x = "main" THEN blocks'[u] - blocks[u] ELSE 0) = 0
      <4>1. blocks[u] \in Nat
        BY <1>1 DEF StacksInv
      <4> QED
        BY <4>1, <1>1
    <3> QED
      BY <3>1, <3>2, <2>4
  <2> QED
    BY <2>4, <2>5, <2>6 DEF BlocksInv, Virt
<1>6. SendsInv'
  <2>1. \A w \in Users \ {u} : stack'[w] = stack[w] /\ err'[w] = err[w] /\ sends'[w] = sends[w]
    BY <1>1 DEF StacksInv, Touches
  <2>2. t # <<>> => /\ sends'[u] <= MostSends(D(t, 1).op)
                    /\ err'[u] # "error" => sends'[u] <= Sum(Sending(t), err'[u])
    <3> HAVE t # <<>>
    <3> DEFINE a == Sum(t, err'[u])
               b == MostSends(D(t, 1).op)
    <3>1. Sending(t) = t
      <4>0. Len(t) = 1
        BY <1>2
      <4> HIDE DEF t
      <4>1. ~(Len(t) > 1)
        BY <4>0
      <4> QED
        BY <4>1 DEF Sending
    <3>2. a \in Nat /\ a <= b
      <4> HIDE DEF t
      <4> QED
        BY <1>3, SumBound
    <3>3. b \in Nat
      BY MostType
    <3> HIDE DEF a, b
    <3>4. 0 <= a /\ 0 <= b
      BY <3>2, <3>3
    <3> QED
      BY <3>1, <3>4, <1>1 DEF a, b
  <2>3. Async' = Async /\ setup' = setup
    BY <1>1 DEF Async
  <2>4. \A w \in Users : stack'[w] # <<>> =>
          /\ sends'[w] <= MostSends(D(stack'[w], 1).op)
          /\ err'[w] # "error" => sends'[w] <= Sum(Sending(stack'[w]), err'[w])
    BY <2>1, <2>2 DEF SendsInv, IInv
  <2>5. \A w \in Users : Sending(stack[w])' = Sending(stack'[w])
    BY DEF Sending, TopOf
  <2>6. \A w \in Users : /\ Sum(Sending(stack[w]), err[w])' = Sum(Sending(stack'[w]), err'[w])
                         /\ MostSends(D(stack[w], 1).op)' = MostSends(D(stack'[w], 1).op)
    BY <2>3, <2>5 DEF Sum, Part, Share, Over, Tried, Taken, Given, D, MostSends
  <2> QED
    BY <2>4, <2>6 DEF SendsInv
<1>7. LeaveInv'
  <2>1. Lone' <=> Lone
    BY <1>1 DEF Lone
  <2> SUFFICES ASSUME Lone, NEW w \in setup.users
               PROVE  /\ stack'[w] # <<>> => \/ blocks'[w] > 0
                                             \/ D(stack'[w], 1).op \in {"with", "http_request"}
                                             \/ D(stack'[w], 1).sock = "dup"
                      /\ LeaveOK(net', stack'[w], err'[w])
    BY <2>1, <1>1 DEF LeaveInv, LeaveOK, Awaits, Quiet, Virt, D, TopOf
  <2>2. w = u
    BY <1>1 DEF Lone
  <2>3. t # <<>> => blocks'[u] > 0 \/ D(t, 1).op \in {"with", "http_request"} \/ D(t, 1).sock = "dup"
    BY <1>1, <1>2 DEF Lone
  <2>4. LeaveOK(net, stack[u], err[u])
    BY <1>1, LeaveFacts
  <2>5. Len(stack[u]) # 1 /\ ~Awaits(stack[u])
    BY <1>1 DEF Awaits
  <2>6. Virt(net, "main") # 0 \/ Quiet(net, "main")
    BY <2>4, <2>5 DEF LeaveOK
  <2>7. ~Awaits(t)
    BY <1>2 DEF Awaits
  <2>8. LeaveOK(net', t, err'[u])
    BY <2>6, <2>7, LeaveBusy
  <2> QED
    BY <2>2, <2>3, <2>8
<1> QED
  BY <1>4, <1>5, <1>6, <1>7 DEF IInv, Core

\* A call on sockets of the trackers keeps the invariant.
LEMMA BeginKeeps ==
  ASSUME IInv, NEW u \in Users, NEW op, Asks(u, op), Follows(net'),
         stack' = stack \/ \E f : Starts(u, op, f) /\ f.sock \notin Socks,
         \A x \in Trackers : Virt(net', x) = Virt(net, x),
         Virt(net, "main") # 0 \/ Quiet(net, "main") => Virt(net', "main") # 0 \/ Quiet(net', "main")
  PROVE  IInv'
<1>1. stack' = stack \/ \E f : Starts(u, op, f)
  OBVIOUS
<1>2. /\ Touches(u) /\ stack[u] = <<>> /\ Core
      /\ stack' = stack => stack'[u] = <<>>
      /\ \A f : Starts(u, op, f) => stack'[u] = <<f>>
  BY <1>1, AskFacts
<1>3. \/ stack'[u] = <<>>
      \/ \E f \in Frames : /\ stack'[u] = <<f>> /\ f.sock \notin Socks
                           /\ f.op = "connect" => f.sock = "main"
  BY <1>2 DEF Starts
<1>4. SocksInv'
  BY <1>2, <1>3, IdleSocks
<1> QED
  BY <1>1, <1>4, BeginRest

\* A call that leaves the network alone.
LEMMA BeginStill ==
  ASSUME IInv, NEW u \in Users, NEW op, Asks(u, op), net' = net,
         stack' = stack \/ \E f : Starts(u, op, f) /\ f.sock \notin Socks
  PROVE  IInv'
<1>1. Follows(net)
  BY AskFacts
<1>2. Follows(net') /\ \A x \in Trackers : Virt(net', x) = Virt(net, x)
  BY <1>1 DEF Virt
<1> QED
  BY <1>2, BeginKeeps

\* A call of an operation.
LEMMA PlainStep ==
  ASSUME IInv, NEW u \in Users, Plain(u)
  PROVE  IInv'
<1>1. PICK op \in Decorated \cup {"send_data"} : Asks(u, op) /\ Begin(u, Frame(op, Nothing)) /\ UNCHANGED net
  BY DEF Plain
<1> DEFINE f == Frame(op, Nothing)
<1>2. op \in FrameOps /\ 0 \in Nat /\ Nothing \in Socks \cup Trackers \cup {Nothing}
  BY DEF FrameOps
<1>3. f \in Frames /\ f.op = op /\ f.sock = Nothing /\ f.pc = "start" /\ f.tries = 0 /\ f.held = Nothing
  BY <1>2 DEF Frame, Frames, Pcs
<1>4. FrameOK(f)
  <2>1. CASE op \in Decorated
    <3>1. Nothing # "main" /\ Nothing # "dup" /\ Nothing \in Socks \cup Trackers \cup {Nothing}
      BY NothingApart
    <3> QED
      BY <2>1, <3>1, CalleeFrame
  <2>2. CASE op = "send_data"
    <3>1. f.op \notin Decorated /\ f.op = "send_data"
      BY <1>3, <2>2 DEF Decorated, Leaves
    <3> HIDE DEF f
    <3> QED
      BY <1>3, <3>1 DEF FrameOK
  <2> QED
    BY <2>1, <2>2
<1>5. stack' = [stack EXCEPT ![u] = <<f>>]
  BY <1>1 DEF Begin
<1> HIDE DEF f
<1>6. op \in {"with", "http_request", "query_new"} => f.op \in {"with", "http_request"}
  BY <1>3 DEF Decorated, Leaves
<1>7. f.op # "connect"
  BY <1>3 DEF Decorated, Leaves
<1>8. Starts(u, op, f) /\ f.sock \notin Socks
  BY <1>3, <1>4, <1>5, <1>6, <1>7, NothingApart DEF Starts
<1> QED
  BY <1>1, <1>8, BeginStill

\* A block is entered.
LEMMA withStep ==
  ASSUME IInv, NEW u \in Users, with(u)
  PROVE  IInv'
<1> DEFINE h == Frame("with", Nothing)
           f == [h EXCEPT !.pc = "enter"]
<1>1. Asks(u, "with") /\ stack' = [stack EXCEPT ![u] = <<f>>] /\ net' = net
  BY DEF with, Begin
<1>2. "with" \in FrameOps /\ 0 \in Nat /\ Nothing \in Socks \cup Trackers \cup {Nothing}
  BY DEF FrameOps
<1>3. h \in Frames /\ h.op = "with" /\ h.sock = Nothing /\ h.held = Nothing
  BY <1>2 DEF Frame, Frames, Pcs
<1> HIDE DEF h
<1>4. f \in Frames /\ f.op = "with" /\ f.sock = Nothing /\ f.held = Nothing /\ f.pc = "enter"
  BY <1>3 DEF Frames, Pcs
<1> HIDE DEF f
<1>5. FrameOK(f)
  BY <1>4 DEF FrameOK, Decorated, Leaves
<1>6. Starts(u, "with", f) /\ f.sock \notin Socks
  BY <1>1, <1>4, <1>5, NothingApart DEF Starts
<1> QED
  BY <1>1, <1>6, BeginStill

\* The frame of a connect that a user asks for.
LEMMA ConnectStarts ==
  ASSUME NEW u, NEW op, op \notin {"with", "http_request", "query_new"}, stack' = [stack EXCEPT ![u] = <<Connect("main")>>]
  PROVE  \E f : Starts(u, op, f) /\ f.sock \notin Socks
<1> DEFINE f == Connect("main")
<1>1. f \in Frames /\ FrameOK(f) /\ f.pc = "start" /\ f.op = "connect" /\ f.sock = "main"
  BY ConnectMain
<1>2. stack' = [stack EXCEPT ![u] = <<f>>]
  OBVIOUS
<1> HIDE DEF f
<1>3. Starts(u, op, f) /\ f.sock \notin Socks
  BY <1>1, <1>2, NothingApart DEF Starts
<1> QED
  BY <1>3

\* A call of connect.
LEMMA connect_callStep ==
  ASSUME IInv, NEW u \in Users, connect_call(u)
  PROVE  IInv'
<1>1. Asks(u, "connect") /\ net' = net /\ (stack' = stack \/ stack' = [stack EXCEPT ![u] = <<Connect("main")>>])
  BY DEF connect_call, Begin
<1>2. stack' = stack \/ \E f : Starts(u, "connect", f) /\ f.sock \notin Socks
  BY <1>1, ConnectStarts
<1> QED
  BY <1>1, <1>2, BeginStill

\* A call that disconnects the wrapper's tracker first.
LEMMA BeginClosed ==
  ASSUME IInv, NEW u \in Users, NEW op, Asks(u, op), Follows(net'),
         net'.tracker["main"].sock = Nothing, ~net'.tracker["main"].connected,
         \A x \in Trackers : Virt(net', x) = Virt(net, x),
         stack' = stack \/ \E f : Starts(u, op, f) /\ f.sock \notin Socks
  PROVE  IInv'
<1>1. Quiet(net', "main")
  BY DEF Quiet
<1> QED
  BY <1>1, BeginKeeps

\* The network, disconnected.
LEMMA Disconnected ==
  ASSUME IInv, NEW u \in Users, NEW op, Asks(u, op), stack' = stack \/ \E f : Starts(u, op, f)
  PROVE  LET n == disconnect(net, "main")
         IN  /\ Follows(n) /\ \A x \in Trackers : Virt(n, x) = Virt(net, x)
             /\ n.tracker["main"].sock = Nothing /\ ~n.tracker["main"].connected
<1>1. Follows(net)
  BY AskFacts
<1> QED
  BY <1>1, DisconnectMain

\* The address a tracker has is of no consequence here.
LEMMA AddrFollows ==
  ASSUME NEW n, Follows(n), NEW t \in Trackers, NEW b \in BOOLEAN
  PROVE  LET m == [n EXCEPT !.tracker[t].addr = b]
         IN  /\ Follows(m) /\ m.sock = n.sock
             /\ \A x \in Trackers : /\ Virt(m, x) = Virt(n, x) /\ m.tracker[x].sock = n.tracker[x].sock
                                    /\ m.tracker[x].connected = n.tracker[x].connected
<1> DEFINE m == [n EXCEPT !.tracker[t].addr = b]
<1>1. NetOK(n) /\ n \in Nets
  BY DEF Follows, NetOK
<1>2. /\ m \in Nets /\ m.sock = n.sock
      /\ \A x \in Trackers : /\ m.tracker[x].sock = n.tracker[x].sock /\ m.tracker[x].layers = n.tracker[x].layers
                             /\ m.tracker[x].connected = n.tracker[x].connected
  BY <1>1 DEF Nets, TrackerRecords
<1> HIDE DEF m
<1>3. \A x \in Trackers : Virt(m, x) = Virt(n, x)
  BY <1>2 DEF Virt
<1>4. \A x : Open(m, x) <=> Open(n, x)
  BY <1>2 DEF Open
<1>5. \A x : Owned(m, x) <=> Owned(n, x)
  BY <1>2 DEF Owned
<1>6. NetOK(m)
  <2>1. "main" \in Trackers /\ "dup" \in Trackers
    BY DEF Trackers
  <2> QED
    BY <2>1, <1>1, <1>2, <1>3, <1>4 DEF NetOK
<1>7. Follows(m)
  BY <1>2, <1>4, <1>5, <1>6 DEF Follows
<1> QED
  BY <1>2, <1>3, <1>7 DEF m

\* A call of close.
LEMMA closeStep ==
  ASSUME IInv, NEW u \in Users, close(u)
  PROVE  IInv'
<1>1. Asks(u, "close") /\ net' = disconnect(net, "main") /\ stack' = stack
  BY DEF close
<1> DEFINE n == disconnect(net, "main")
<1>2. /\ Follows(n) /\ \A x \in Trackers : Virt(n, x) = Virt(net, x)
      /\ n.tracker["main"].sock = Nothing /\ ~n.tracker["main"].connected
  BY <1>1, Disconnected
<1>3. net' = n
  BY <1>1
<1> HIDE DEF n
<1>4. /\ Follows(net') /\ \A x \in Trackers : Virt(net', x) = Virt(net, x)
      /\ net'.tracker["main"].sock = Nothing /\ ~net'.tracker["main"].connected
  BY <1>2, <1>3
<1> QED
  BY <1>1, <1>4, BeginClosed

\* reconnect, with or without a change of the address.
LEMMA Reconnects ==
  ASSUME IInv, NEW u \in Users, NEW op, op \notin {"with", "http_request", "query_new"}, Asks(u, op),
         Begin(u, Connect("main")),
         \/ net' = disconnect(net, "main")
         \/ \E b \in BOOLEAN : net' = [disconnect(net, "main") EXCEPT !.tracker["main"].addr = b]
  PROVE  IInv'
<1>1. \E f : Starts(u, op, f) /\ f.sock \notin Socks
  BY ConnectStarts DEF Begin
<1> DEFINE n == disconnect(net, "main")
<1>2. /\ Follows(n) /\ \A x \in Trackers : Virt(n, x) = Virt(net, x)
      /\ n.tracker["main"].sock = Nothing /\ ~n.tracker["main"].connected
  BY <1>1, Disconnected
<1> HIDE DEF n
<1>3. net' = n \/ \E b \in BOOLEAN : net' = [n EXCEPT !.tracker["main"].addr = b]
  BY DEF n
<1>4. /\ Follows(net') /\ \A x \in Trackers : Virt(net', x) = Virt(net, x)
      /\ net'.tracker["main"].sock = Nothing /\ ~net'.tracker["main"].connected
  <2>1. CASE net' = n
    BY <2>1, <1>2
  <2>2. CASE \E b \in BOOLEAN : net' = [n EXCEPT !.tracker["main"].addr = b]
    <3>1. PICK b \in BOOLEAN : net' = [n EXCEPT !.tracker["main"].addr = b]
      BY <2>2
    <3> DEFINE m == [n EXCEPT !.tracker["main"].addr = b]
    <3>2. "main" \in Trackers
      BY DEF Trackers
    <3>3. \A t \in Trackers : t = "main" =>
            LET k == [n EXCEPT !.tracker[t].addr = b]
            IN  /\ Follows(k)
                /\ \A x \in Trackers : /\ Virt(k, x) = Virt(n, x) /\ k.tracker[x].sock = n.tracker[x].sock
                                       /\ k.tracker[x].connected = n.tracker[x].connected
      BY <1>2, AddrFollows
    <3>4. /\ Follows(m)
          /\ \A x \in Trackers : /\ Virt(m, x) = Virt(n, x) /\ m.tracker[x].sock = n.tracker[x].sock
                                 /\ m.tracker[x].connected = n.tracker[x].connected
      BY <3>2, <3>3
    <3>5. net' = m
      BY <3>1
    <3> HIDE DEF m
    <3> QED
      BY <3>2, <3>4, <3>5, <1>2
  <2> QED
    BY <2>1, <2>2, <1>3
<1> QED
  BY <1>1, <1>4, BeginClosed

\* A call of reconnect, in its three forms.
LEMMA reconnectStep ==
  ASSUME IInv, NEW u \in Users, reconnect(u) \/ reconnect_async(u) \/ reconnect_to(u)
  PROVE  IInv'
<1>1. TRUE \in BOOLEAN /\ FALSE \in BOOLEAN
  OBVIOUS
<1>2. CASE reconnect(u)
  <2>1. /\ Asks(u, "reconnect") /\ Begin(u, Connect("main"))
        /\ \E b \in BOOLEAN : net' = [disconnect(net, "main") EXCEPT !.tracker["main"].addr = b]
    BY <1>1, <1>2 DEF reconnect
  <2> QED
    BY <2>1, Reconnects
<1>3. CASE reconnect_async(u)
  <2>1. /\ Asks(u, "reconnect") /\ Begin(u, Connect("main")) /\ net' = disconnect(net, "main")
    BY <1>3 DEF reconnect_async
  <2> QED
    BY <2>1, Reconnects
<1>4. CASE reconnect_to(u)
  <2>1. /\ Asks(u, "reconnect_to") /\ Begin(u, Connect("main"))
        /\ \E b \in BOOLEAN : net' = [disconnect(net, "main") EXCEPT !.tracker["main"].addr = b]
    BY <1>1, <1>4 DEF reconnect_to
  <2> QED
    BY <2>1, Reconnects
<1> QED
  BY <1>2, <1>3, <1>4

\* Calls on a socket or tracker of their own are of the synchronous wrapper.
LEMMA OnlySync ==
  ASSUME IInv, NEW u, NEW op \in {"query_new", "query_raw"}, Asks(u, op)
  PROVE  ~Async
<1>1. SetupOK(setup) /\ op \in setup.ops
  BY SetupFacts DEF IInv, Core, Asks
<1> QED
  BY <1>1 DEF SetupOK, Async, SyncOnly

\* The frame of a query.
LEMMA QueryFrame ==
  ASSUME ~Async, NEW sock \in Socks \cup {"dup"}
  PROVE  LET f == Frame("query", sock)
         IN  f \in Frames /\ FrameOK(f) /\ f.op = "query" /\ f.sock = sock /\ f.pc = "start"
<1>1. "query" \in Decorated /\ sock \in Socks \cup Trackers \cup {Nothing} /\ sock # "main"
  BY NothingApart DEF Decorated, Trackers
<1> QED
  BY <1>1, CalleeFrame

\* A duplicate is made only when no frame is on one.
LEMMA duplicateFollows ==
  ASSUME IInv, NEW u \in Users, Turn(u), stack[u] = <<>>, ~Async
  PROVE  LET n == duplicate(net)
         IN  /\ Follows(n) /\ n.sock = net.sock /\ n.tracker["main"] = net.tracker["main"]
             /\ \A x \in Trackers : Virt(n, x) = Virt(net, x)
<1> DEFINE k == [NewTracker EXCEPT !.addr = net.tracker["main"].addr]
           n == [net EXCEPT !.tracker["dup"] = k]
<1>1. StacksInv /\ NetOK(net) /\ BlocksInv /\ net \in Nets /\ Follows(net)
  BY FollowsItself DEF IInv, Core, SocksInv, NetOK
<1>2. \A w \in Users : stack[w] = <<>>
  BY <1>1, TurnAlone
<1>3. Blocks("dup") = {}
  BY <1>2 DEF Blocks
<1>4. Virt(net, "dup") = 0 /\ "dup" \in Trackers /\ "main" \in Trackers
  <2>1. "dup" \in Trackers /\ "main" \in Trackers
    BY DEF Trackers
  <2>2. Cardinality(Blocks("dup")) = 0
    BY <1>3, FS_EmptySet
  <2> QED
    BY <2>1, <2>2, <1>1 DEF BlocksInv
<1>5. ~net.tracker["dup"].connected /\ net.tracker["dup"].sock = Nothing
  BY <1>1, <1>4 DEF NetOK
<1>6. k \in TrackerRecords /\ k.sock = Nothing /\ k.connected = FALSE /\ k.layers.virtual = 0
  <2>1. net.tracker["main"].addr \in BOOLEAN
    <3>1. \A t \in Trackers : net.tracker[t] \in TrackerRecords
      BY <1>1 DEF Nets
    <3> QED
      BY <3>1, <1>4 DEF TrackerRecords
  <2>2. NoLayers \in LayerRecords /\ NoLayers.virtual = 0
    BY DEF NoLayers, LayerRecords
  <2>3. \A a \in BOOLEAN :
          LET m == [NewTracker EXCEPT !.addr = a]
          IN  m \in TrackerRecords /\ m.sock = Nothing /\ m.connected = FALSE /\ m.layers = NoLayers
    <3>1. FALSE \in BOOLEAN /\ TRUE \in BOOLEAN
      OBVIOUS
    <3>2. NewTracker \in TrackerRecords /\ NewTracker.sock = Nothing /\ NewTracker.connected = FALSE
          /\ NewTracker.layers = NoLayers
      BY <2>2, <3>1 DEF NewTracker, TrackerRecords
    <3> QED
      BY <3>2 DEF TrackerRecords
  <2> QED
    BY <2>1, <2>2, <2>3
<1>7. duplicate(net) = n
  BY DEF duplicate
<1> HIDE DEF k
<1>8. /\ n \in Nets /\ n.sock = net.sock
      /\ \A x \in Trackers : n.tracker[x] = IF x = "dup" THEN k ELSE net.tracker[x]
  BY <1>1, <1>4, <1>6 DEF Nets
<1> HIDE DEF n
<1>9. \A x \in Trackers : /\ Virt(n, x) = Virt(net, x) /\ n.tracker[x].sock = net.tracker[x].sock
                          /\ n.tracker[x].connected = FALSE \/ n.tracker[x].connected = net.tracker[x].connected
  BY <1>4, <1>5, <1>6, <1>8 DEF Virt
<1>10. \A x : Open(n, x) <=> Open(net, x)
  BY <1>8 DEF Open
<1>11. \A x : Owned(n, x) <=> Owned(net, x)
  BY <1>9 DEF Owned
<1>12. NetOK(n)
  BY <1>1, <1>4, <1>6, <1>8, <1>9, <1>10 DEF NetOK
<1>13. Follows(n)
  BY <1>9, <1>10, <1>11, <1>12 DEF Follows
<1> QED
  BY <1>4, <1>7, <1>8, <1>9, <1>13

\* A query on a duplicate of the wrapper.
LEMMA query_newStep ==
  ASSUME IInv, NEW u \in Users, query_new(u)
  PROVE  IInv'
<1> DEFINE f == Frame("query", "dup")
           n == duplicate(net)
<1>1. Asks(u, "query_new") /\ net' = n /\ stack' = [stack EXCEPT ![u] = <<f>>]
  BY DEF query_new, Begin
<1>2. ~Async /\ Turn(u) /\ stack[u] = <<>>
  BY <1>1, OnlySync DEF Asks
<1>3. f \in Frames /\ FrameOK(f) /\ f.op = "query" /\ f.sock = "dup" /\ f.pc = "start"
  <2>1. "dup" \in Socks \cup {"dup"}
    OBVIOUS
  <2> QED
    BY <2>1, <1>2, QueryFrame
<1>4. /\ Follows(n) /\ n.sock = net.sock /\ n.tracker["main"] = net.tracker["main"]
      /\ \A x \in Trackers : Virt(n, x) = Virt(net, x)
  BY <1>2, duplicateFollows
<1> HIDE DEF f, n
<1>5. Starts(u, "query_new", f) /\ f.sock \notin Socks
  BY <1>1, <1>3, NothingApart DEF Starts
<1>6. Virt(net, "main") # 0 \/ Quiet(net, "main") => Virt(net', "main") # 0 \/ Quiet(net', "main")
  BY <1>1, <1>4 DEF Virt, Quiet
<1>7. Follows(net') /\ \A x \in Trackers : Virt(net', x) = Virt(net, x)
  BY <1>1, <1>4
<1> QED
  BY <1>1, <1>5, <1>6, <1>7, BeginKeeps

\* A query on a socket of the caller's.
LEMMA query_rawStep ==
  ASSUME IInv, NEW u \in Users, query_raw(u)
  PROVE  IInv'
<1> DEFINE f == Frame("query", NewSock)
<1>1. Asks(u, "query_raw") /\ net' = [net EXCEPT !.sock[NewSock] = "up"] /\ stack' = [stack EXCEPT ![u] = <<f>>]
  BY DEF query_raw, Begin
<1>2. ~Async
  BY <1>1, OnlySync
<1>3. NewSock \in Socks
  BY SocketLeft DEF Fresh, IInv
<1>4. f \in Frames /\ FrameOK(f) /\ f.op = "query" /\ f.sock = NewSock /\ f.pc = "start"
  BY <1>2, <1>3, QueryFrame
<1> HIDE DEF f
<1>5. Starts(u, "query_raw", f)
  BY <1>1, <1>2, <1>4 DEF Starts
<1>6. /\ Touches(u) /\ stack[u] = <<>> /\ Core /\ NetOK(net) /\ stack'[u] = <<f>>
  BY <1>1, <1>5, AskFacts
<1>7. /\ SocksInv' /\ net'.tracker = net.tracker
      /\ \A x \in Socks : Owned(net, x) => net'.sock[x] = net.sock[x]
  BY <1>1, <1>2, <1>4, <1>6, RawSocks
<1>8. \A x \in Trackers : Virt(net', x) = Virt(net, x)
  BY <1>7 DEF Virt
<1>9. Virt(net, "main") # 0 \/ Quiet(net, "main") => Virt(net', "main") # 0 \/ Quiet(net', "main")
  <2> DEFINE x == net.tracker["main"].sock
  <2>1. "main" \in Trackers /\ x \in Socks \cup {Nothing}
    BY <1>6 DEF NetOK, Nets, TrackerRecords, Trackers
  <2>2. x # Nothing => net'.sock[x] = net.sock[x]
    BY <2>1, <1>7 DEF Owned
  <2>3. Virt(net', "main") = Virt(net, "main")
    BY <2>1, <1>8
  <2> QED
    BY <2>2, <2>3, <1>7 DEF Quiet
<1> QED
  BY <1>1, <1>5, <1>7, <1>8, <1>9, BeginRest

\* A user leaves a block.
LEMMA exitStep ==
  ASSUME IInv, NEW u \in Users, exit(u)
  PROVE  IInv'
<1> DEFINE b == blocks[u]
           n == tracker_exit(net, "main")
<1>1. /\ Turn(u) /\ stack[u] = <<>> /\ b > 0 /\ net' = n
      /\ blocks' = [blocks EXCEPT ![u] = @ - 1] /\ setup' = setup /\ stack' = stack /\ err' = err
      /\ calls' = calls /\ sends' = sends /\ faults' = faults
  BY DEF exit
<1>2. Core /\ StacksInv /\ NetOK(net) /\ BlocksInv /\ SendsInv /\ Follows(net)
  BY FollowsItself DEF IInv, Core, SocksInv
<1>3. b \in Nat /\ u \in setup.users /\ StackOK(stack[u]) /\ RaisedOK(stack[u], err[u])
  BY <1>1, <1>2 DEF StacksInv
<1>4. blocks'[u] = b - 1 /\ blocks'[u] \in Nat
  BY <1>1, <1>2, <1>3 DEF StacksInv
<1>5. Touches(u)
  BY <1>1, <1>2, <1>3, <1>4 DEF Touches, StacksInv
<1>6. StacksInv'
  BY <1>1, <1>2, <1>3, <1>5, StacksKept
<1>7. Virt(net, "main") \in Nat /\ Virt(net, "main") >= 1 /\ "main" \in Trackers
  <2>1. "main" \in Trackers
    BY DEF Trackers
  <2>2. IsFiniteSet(Blocks("main")) /\ Virt(net, "main") = Cardinality(Blocks("main"))
    BY <2>1, <1>2 DEF BlocksInv
  <2>3. <<u, -b>> \in Blocks("main")
    <3>1. -b \in Int /\ - -b = b /\ b \in 1..b
      BY <1>1, <1>3
    <3> QED
      BY <3>1 DEF Blocks
  <2>4. Cardinality(Blocks("main")) # 0
    BY <2>2, <2>3, FS_EmptySet
  <2>5. Virt(net, "main") \in Nat
    BY <2>2, FS_CardinalityType
  <2> QED
    BY <2>1, <2>2, <2>4, <2>5
<1>8. /\ Follows(net') /\ Virt(net', "main") = Virt(net, "main") - 1
      /\ \A x \in Trackers : x # "main" => net'.tracker[x] = net.tracker[x]
      /\ Virt(net', "main") = 0 => ~net'.tracker["main"].connected /\ net'.tracker["main"].sock = Nothing
  <2>1. \A t \in Trackers : t = "main" =>
          LET m == tracker_exit(net, t)
          IN  /\ Follows(m) /\ Virt(m, t) = Virt(net, t) - 1
              /\ \A x \in Trackers : x # t => m.tracker[x] = net.tracker[x]
              /\ Virt(m, t) = 0 => ~m.tracker[t].connected /\ m.tracker[t].sock = Nothing
    BY <1>2, <1>7, ExitFollows
  <2>2. /\ Follows(n) /\ Virt(n, "main") = Virt(net, "main") - 1
        /\ \A x \in Trackers : x # "main" => n.tracker[x] = net.tracker[x]
        /\ Virt(n, "main") = 0 => ~n.tracker["main"].connected /\ n.tracker["main"].sock = Nothing
    BY <2>1, <1>7
  <2> HIDE DEF n
  <2> QED
    BY <2>2, <1>1
<1> HIDE DEF n
<1>9. SocksInv'
  <2>1. stack'[u] = <<>>
    BY <1>1
  <2> QED
    BY <2>1, <1>1, <1>2, <1>5, <1>8, IdleSocks
<1>10. BlocksInv'
  <2>1. \A x \in Trackers : \A d \in 1..Len(stack[u]) : ~Inside(D(stack[u], d), x)
    BY <1>1
  <2>2. stack'[u] = <<>> /\ \A x \in Trackers : \A d \in 1..Len(stack'[u]) : ~Inside(D(stack'[u], d), x)
    BY <1>1
  <2>3. blocks'[u] \in {blocks[u] - 1, blocks[u], blocks[u] + 1} /\ blocks'[u] = blocks[u] - 1
    BY <1>4
  <2>4. \A x \in Trackers :
           /\ IsFiniteSet(Blocks(x)')
           /\ Cardinality(Blocks(x)') = Cardinality(Blocks(x)) + (IF x = "main" THEN blocks'[u] - blocks[u] ELSE 0)
    BY <2>1, <2>2, <2>3, <1>2, <1>5, OutsideCounts
  <2>5. IsFiniteSet(Claims') /\ Cardinality(Claims') <= calls'
    BY <2>2, <2>3, <1>1, <1>2, <1>5, OutsideClaims
  <2>6. \A x \in Trackers : Virt(net', x) = Cardinality(Blocks(x)')
    <3> TAKE x \in Trackers
    <3>1. Virt(net, x) = Cardinality(Blocks(x)) /\ Virt(net, x) \in Nat
      BY <1>2, LayersOf DEF BlocksInv
    <3>2. Virt(net', x) = Virt(net, x) + (IF x = "main" THEN -1 ELSE 0)
      <4>1. x # "main" => Virt(net', x) = Virt(net, x)
        BY <1>8 DEF Virt
      <4> QED
        BY <4>1, <3>1, <1>8
    <3>3. blocks'[u] - blocks[u] = -1
      BY <1>3, <1>4
    <3> QED
      BY <3>1, <3>2, <3>3, <2>4
  <2> QED
    BY <2>4, <2>5, <2>6 DEF BlocksInv, Virt
<1>11. SendsInv'
  <2>1. Async' = Async /\ setup' = setup
    BY <1>1 DEF Async
  <2>2. \A w \in Users : Sending(stack[w])' = Sending(stack'[w])
    BY DEF Sending, TopOf
  <2>3. \A w \in Users : /\ Sum(Sending(stack[w]), err[w])' = Sum(Sending(stack'[w]), err'[w])
                         /\ MostSends(D(stack[w], 1).op)' = MostSends(D(stack'[w], 1).op)
    BY <2>1, <2>2 DEF Sum, Part, Share, Over, Tried, Taken, Given, D, MostSends
  <2>4. \A w \in Users : stack'[w] # <<>> =>
          /\ sends'[w] <= MostSends(D(stack'[w], 1).op)
          /\ err'[w] # "error" => sends'[w] <= Sum(Sending(stack'[w]), err'[w])
    BY <1>1, <1>2 DEF SendsInv
  <2> QED
    BY <2>3, <2>4 DEF SendsInv
<1>12. LeaveInv'
  <2>1. Lone' <=> Lone
    BY <1>1 DEF Lone
  <2> SUFFICES ASSUME Lone, NEW w \in setup.users
               PROVE  stack'[w] = <<>> /\ LeaveOK(net', stack'[w], err'[w])
    BY <2>1, <1>1 DEF LeaveInv, LeaveOK, Awaits, Quiet, Virt, D, TopOf
  <2>2. w = u
    BY <1>3 DEF Lone
  <2>3. ~Awaits(stack'[u])
    BY <1>1 DEF Awaits
  <2>4. Virt(net', "main") # 0 \/ Quiet(net', "main")
    BY <1>8 DEF Quiet
  <2> QED
    BY <2>2, <2>3, <2>4, <1>1, LeaveBusy
<1> QED
  BY <1>6, <1>9, <1>10, <1>11, <1>12 DEF IInv, Core

-----------------------------------------------------------------------------
(* The invariant, of the specification *)

\* The initial states satisfy the invariant.
LEMMA InitInv == Init => IInv
<1> SUFFICES ASSUME Init PROVE IInv
  OBVIOUS
<1>1. /\ setup \in Setups /\ SetupOK(setup)
      /\ stack = [u \in Users |-> <<>>] /\ err = [u \in Users |-> "none"]
      /\ blocks = [u \in Users |-> 0] /\ sends = [u \in Users |-> 0] /\ calls = 0 /\ faults = 0
  BY SocketsAssumption DEF Init, SocketsAssumption
<1>2. \A u \in Users : stack[u] = <<>> /\ Len(stack[u]) = 0 /\ err[u] = "none" /\ blocks[u] = 0
  BY <1>1
<1>3. StacksInv
  <2>1. <<>> \in Seq(Frames) /\ "none" \in Raised /\ 0 \in Nat
    BY DEF Raised
  <2>2. calls \in 0..setup.calls /\ faults \in 0..setup.max_faults
    BY <1>1 DEF SetupOK
  <2>3. StackOK(<<>>) /\ RaisedOK(<<>>, "none")
    BY <2>1 DEF StackOK, RaisedOK
  <2> QED
    BY <2>1, <2>2, <2>3, <1>1, <1>2 DEF StacksInv
<1>4. NetOK(net)
  <2>1. NewTracker \in TrackerRecords
    <3>1. NoLayers \in LayerRecords /\ FALSE \in BOOLEAN /\ TRUE \in BOOLEAN
      BY DEF NoLayers, LayerRecords
    <3> QED
      BY <3>1 DEF NewTracker, TrackerRecords
  <2>2. PICK f \in setup.families :
          net = [tracker |-> [t \in Trackers |-> NewTracker], sock |-> [s \in Socks |-> "closed"], family |-> f]
    BY DEF Init
  <2>3. f \in {"v4", "v6"} /\ "closed" \in SockStates
    BY <1>1 DEF SetupOK, SockStates
  <2>4. net \in Nets
    BY <2>1, <2>2, <2>3 DEF Nets
  <2>5. \A t \in Trackers : net.tracker[t].sock = Nothing /\ net.tracker[t].connected = FALSE
    BY <2>2 DEF NewTracker
  <2>6. "main" \in Trackers /\ "dup" \in Trackers
    BY DEF Trackers
  <2> QED
    BY <2>4, <2>5, <2>6 DEF NetOK
<1>5. /\ \A s \in Socks : ~Open(net, s)
      /\ \A t \in Trackers : Virt(net, t) = 0 /\ Quiet(net, t)
  BY DEF Init, Open, Virt, Quiet, NewTracker, NoLayers
<1>6. SocksInv
  <2>1. \A u \in Users : Raw(stack[u]) = {}
    BY <1>2 DEF Raw
  <2> QED
    BY <2>1, <1>2, <1>4, <1>5 DEF SocksInv
<1>7. BlocksInv
  <2>1. \A t \in Trackers : Blocks(t) = {}
    <3> SUFFICES ASSUME NEW t \in Trackers, NEW b \in Users \X Int, b \in Blocks(t) PROVE FALSE
      BY DEF Blocks
    <3>1. b[2] \in 1..Len(stack[b[1]]) \/ -b[2] \in 1..blocks[b[1]]
      BY DEF Blocks
    <3> QED
      BY <3>1, <1>2
  <2>2. Claims = {}
    <3> SUFFICES ASSUME NEW b \in Users \X Int, b \in Claims PROVE FALSE
      BY DEF Claims
    <3>1. stack[b[1]] # <<>> \/ -b[2] \in 1..blocks[b[1]]
      BY DEF Claims
    <3> QED
      BY <3>1, <1>2
  <2>3. IsFiniteSet({}) /\ Cardinality({}) = 0
    BY FS_EmptySet
  <2>4. IsFiniteSet(Claims) /\ Cardinality(Claims) <= calls
    BY <2>2, <2>3, <1>1
  <2>5. \A t \in Trackers : IsFiniteSet(Blocks(t)) /\ Virt(net, t) = Cardinality(Blocks(t))
    <3> TAKE t \in Trackers
    <3>1. Blocks(t) = {} /\ Virt(net, t) = 0
      BY <2>1, <1>5
    <3> QED
      BY <3>1, <2>3
  <2> QED
    BY <2>4, <2>5 DEF BlocksInv
<1>8. SendsInv
  BY <1>2 DEF SendsInv
<1>9. LeaveInv
  <2>1. "main" \in Trackers
    BY DEF Trackers
  <2> QED
    BY <2>1, <1>1, <1>2, <1>5 DEF LeaveInv, LeaveOK, Awaits, SetupOK
<1> QED
  BY <1>3, <1>6, <1>7, <1>8, <1>9 DEF IInv, Core

\* A step of a call's keeps it.
LEMMA StepKeeps ==
  ASSUME IInv, NEW u \in Users, Step(u)
  PROVE  IInv'
BY connectStep, connect_asyncStep, SockFailsStep, WokenStep, tracker_enterStep, EnteredBlockStep,
   sockwrapper_auto_connectStep, ReadyStep, UnwindStep, OperateStep, ResumeStep, send_chunksStep, read_eofStep,
   queryStep, query_asyncStep, http_requestStep, send_dataStep DEF Step

\* So does a call, and leaving a block.
LEMMA CallsKeep ==
  ASSUME IInv, NEW u \in Users, Calls(u)
  PROVE  IInv'
BY PlainStep, withStep, query_newStep, query_rawStep, closeStep, connect_callStep, reconnectStep, exitStep DEF Calls

\* A step that changes nothing keeps it.
LEMMA StaysInv == IInv /\ UNCHANGED vars => IInv'
<1> SUFFICES ASSUME IInv, UNCHANGED vars PROVE IInv'
  OBVIOUS
<1>1. /\ setup' = setup /\ net' = net /\ stack' = stack /\ err' = err /\ blocks' = blocks
      /\ calls' = calls /\ sends' = sends /\ faults' = faults
  BY DEF vars
<1>2. Async' = Async
  BY <1>1 DEF Async
<1>3. StacksInv'
  <2>1. \A w \in Users : (StackOK(stack[w]) /\ RaisedOK(stack[w], err[w]))'
    <3>1. \A w \in Users : StackOK(stack[w]) /\ RaisedOK(stack[w], err[w])
      BY DEF IInv, Core, StacksInv
    <3>2. \A w \in Users : RaisedOK(stack[w], err[w])'
      BY <3>1, <1>1, <1>2 DEF RaisedOK, Given, Handed, TopOf
    <3>3. \A f : FrameOK(f)' <=> FrameOK(f)
      BY <1>2 DEF FrameOK, DecoratedOK, Given, Handed
    <3>4. \A g, f : CallOK(g, f)' <=> CallOK(g, f)
      BY <1>2 DEF CallOK, Given
    <3>5. \A w \in Users : StackOK(stack[w])'
      BY <3>1, <3>3, <3>4, <1>1, <1>2 DEF StackOK, D
    <3> QED
      BY <3>2, <3>5
  <2> QED
    BY <2>1, <1>1, <1>2 DEF IInv, Core, StacksInv
<1>4. SocksInv'
  BY <1>1, <1>2 DEF IInv, Core, SocksInv, NetOK, Open, Owned, Virt, Raw, HandedOK, Handed, D
<1>5. BlocksInv'
  <2>1. Claims' = Claims /\ \A t : Blocks(t)' = Blocks(t)
    BY <1>1 DEF Claims, Blocks, Inside, D
  <2> QED
    BY <2>1, <1>1 DEF IInv, Core, BlocksInv, Virt
<1>6. SendsInv'
  <2>1. \A w \in Users : Sending(stack[w])' = Sending(stack[w])
    BY <1>1 DEF Sending, TopOf
  <2>2. \A w \in Users : /\ Sum(Sending(stack[w]), err[w])' = Sum(Sending(stack[w]), err[w])
                         /\ MostSends(D(stack[w], 1).op)' = MostSends(D(stack[w], 1).op)
    BY <1>1, <1>2, <2>1 DEF Sum, Part, Share, Over, Tried, Taken, Given, D, MostSends
  <2> QED
    BY <1>1, <2>2 DEF IInv, SendsInv
<1>7. LeaveInv'
  BY <1>1 DEF IInv, LeaveInv, Lone, LeaveOK, Awaits, Quiet, Virt, D, TopOf
<1> QED
  BY <1>3, <1>4, <1>5, <1>6, <1>7 DEF IInv, Core

\* Every step keeps the invariant.
LEMMA NextInv == IInv /\ [Next]_vars => IInv'
<1> SUFFICES ASSUME IInv, [Next]_vars PROVE IInv'
  OBVIOUS
<1>1. CASE UNCHANGED vars
  BY <1>1, StaysInv
<1>2. CASE Done
  BY <1>2, StaysInv DEF Done
<1>3. CASE \E u \in Users : Calls(u) \/ Step(u) \/ SockUp(u)
  <2>1. PICK u \in Users : Calls(u) \/ Step(u) \/ SockUp(u)
    BY <1>3
  <2> QED
    BY <2>1, CallsKeep, StepKeeps, SockUpStep
<1> QED
  BY <1>1, <1>2, <1>3 DEF Next

-----------------------------------------------------------------------------
(* What the invariant implies *)

\* A stack holds five frames at most, and one inside a block on the duplicate is
\* among the first three.
LEMMA Depths ==
  ASSUME NEW s, StackOK(s), s # <<>>
  PROVE  /\ Len(s) <= 5
         /\ \A d \in 1..Len(s) : Inside(D(s, d), "dup") => d \in 1..3 /\ ~Async
         /\ \A d \in 1..Len(s) : Inside(D(s, d), "main") => d = 1 /\ D(s, 1).op = "http_request"
<1>1. /\ s \in Seq(Frames)
      /\ \A d \in 1..Len(s) : FrameOK(D(s, d)) /\ Rank(D(s, d).op) + d <= Rank(D(s, 1).op) + 1
      /\ \A d \in 1..(Len(s) - 1) : CallOK(D(s, d), D(s, d + 1))
  BY DEF StackOK
<1> DEFINE l == Len(s)
<1>2. l \in Nat /\ l >= 1 /\ l \in 1..l
  BY <1>1, FramesOf
<1>3. \A op : Rank(op) \in 1..5
  BY RankType
<1> HIDE DEF l
<1>4. l <= 5
  <2>1. Rank(D(s, l).op) + l <= Rank(D(s, 1).op) + 1 /\ Rank(D(s, l).op) >= 1 /\ Rank(D(s, 1).op) <= 5
    BY <1>1, <1>2, <1>3 DEF l
  <2> QED
    BY <2>1, <1>2, <1>3
<1>5. \A op \in Decorated : Rank(op) >= 2
  BY DEF Rank, Decorated, Leaves
<1>6. \A d \in 1..(l - 1) : D(s, d + 1).op \in Decorated /\ D(s, d + 1).sock = "dup" /\ ~Async
                              => D(s, d).op \in Decorated /\ D(s, d).sock = "dup"
  <2> TAKE d \in 1..(l - 1)
  <2> HAVE D(s, d + 1).op \in Decorated /\ D(s, d + 1).sock = "dup" /\ ~Async
  <2>1. CallOK(D(s, d), D(s, d + 1))
    BY <1>1 DEF l
  <2>2. D(s, d + 1).op # "connect"
    BY DEF Decorated, Leaves
  <2> QED
    BY <2>1, <2>2 DEF CallOK, Callees, Decorated, Leaves
<1>7. \A d \in 1..l : D(s, d).op \in Decorated => /\ D(s, d).sock = "dup" => ~Async
                                                  /\ D(s, d).op = "http_request" => D(s, d).sock = Nothing
  BY <1>1 DEF l, FrameOK, DecoratedOK
<1>8. \A d \in 1..l : D(s, d).op \in Decorated /\ D(s, d).sock = "dup" => d \in 1..3 /\ ~Async
  <2> SUFFICES ASSUME NEW d \in 1..l, D(s, d).op \in Decorated, D(s, d).sock = "dup"
               PROVE  d \in 1..3 /\ ~Async
    OBVIOUS
  <2>1. ~Async
    BY <1>7
  <2>2. Rank(D(s, d).op) + d <= Rank(D(s, 1).op) + 1 /\ Rank(D(s, d).op) >= 2
    BY <1>1, <1>5 DEF l
  <2>3. Rank(D(s, d).op) \in Int /\ Rank(D(s, 1).op) \in 1..5 /\ d \in Int /\ d >= 1 /\ d <= l
    BY <1>2, <1>3
  <2>4. d <= 4
    BY <2>2, <2>3
  <2>5. d # 4
    <3> SUFFICES ASSUME d = 4 PROVE FALSE
      OBVIOUS
    <3>1. 3 \in 1..(l - 1) /\ 2 \in 1..(l - 1) /\ 1 \in 1..(l - 1) /\ 3 + 1 = 4 /\ 2 + 1 = 3 /\ 1 + 1 = 2
      BY <1>2, <2>3
    <3>2. D(s, 3).op \in Decorated /\ D(s, 3).sock = "dup"
      BY <3>1, <2>1, <1>6
    <3>3. D(s, 2).op \in Decorated /\ D(s, 2).sock = "dup"
      BY <3>1, <3>2, <2>1, <1>6
    <3>4. D(s, 1).op \in Decorated /\ D(s, 1).sock = "dup"
      BY <3>1, <3>3, <2>1, <1>6
    <3>5. D(s, 1).op # "http_request"
      <4>1. 1 \in 1..l
        BY <1>2
      <4> QED
        BY <4>1, <3>4, <1>7, NothingApart
    <3>6. Rank(D(s, 1).op) <= 4
      BY <3>4, <3>5 DEF Rank, Decorated, Leaves
    <3> QED
      BY <3>6, <2>2, <2>3
  <2> QED
    BY <2>1, <2>3, <2>4, <2>5
<1>9. \A d \in 1..l : D(s, d).op = "http_request" => d = 1
  <2> SUFFICES ASSUME NEW d \in 1..l, D(s, d).op = "http_request" PROVE d = 1
    OBVIOUS
  <2>1. Rank(D(s, d).op) + d <= Rank(D(s, 1).op) + 1 /\ Rank(D(s, 1).op) \in 1..5
    BY <1>1, <1>3 DEF l
  <2>2. Rank(D(s, d).op) = 5
    <3>1. \A op : op = "http_request" => Rank(op) = 5
      BY DEF Rank, Leaves
    <3> QED
      BY <3>1
  <2> QED
    BY <1>2, <2>1, <2>2
<1>10. \A f : /\ Inside(f, "dup") => f.op \in Decorated /\ f.sock = "dup"
              /\ Inside(f, "main") => f.op = "http_request"
  BY DEF Inside
<1> QED
  BY <1>4, <1>8, <1>9, <1>10 DEF l

\* How many blocks a tracker can be in.
LEMMA BlocksBound ==
  ASSUME Core
  PROVE  Virt(net, "main") <= setup.calls /\ Virt(net, "dup") <= 3
         /\ Virt(net, "main") \in Nat /\ Virt(net, "dup") \in Nat /\ setup.calls \in Nat
<1>1. StacksInv /\ BlocksInv /\ "main" \in Trackers /\ "dup" \in Trackers
  BY DEF Core, Trackers
<1>2. /\ Virt(net, "main") = Cardinality(Blocks("main")) /\ IsFiniteSet(Blocks("main"))
      /\ Virt(net, "dup") = Cardinality(Blocks("dup")) /\ IsFiniteSet(Blocks("dup"))
      /\ IsFiniteSet(Claims) /\ Cardinality(Claims) <= calls
  BY <1>1 DEF BlocksInv
<1>3. /\ Virt(net, "main") \in Nat /\ Virt(net, "dup") \in Nat /\ Cardinality(Claims) \in Nat
      /\ setup.calls \in Nat /\ calls \in 0..setup.calls
  BY <1>1, <1>2, SetupFacts, FS_CardinalityType DEF StacksInv, SetupOK
<1>4. \A u \in Users : StackOK(stack[u]) /\ (stack[u] = <<>> => Len(stack[u]) = 0)
  BY <1>1 DEF StacksInv
<1>5. Blocks("main") \subseteq Claims
  <2> SUFFICES ASSUME NEW b \in Users \X Int, b \in Blocks("main") PROVE b \in Claims
    BY DEF Blocks
  <2>1. \/ b[2] \in 1..Len(stack[b[1]]) /\ Inside(D(stack[b[1]], b[2]), "main")
        \/ -b[2] \in 1..blocks[b[1]]
    BY DEF Blocks
  <2>2. CASE b[2] \in 1..Len(stack[b[1]]) /\ Inside(D(stack[b[1]], b[2]), "main")
    <3>1. stack[b[1]] # <<>> /\ StackOK(stack[b[1]])
      BY <2>2, <1>4
    <3>2. b[2] = 1 /\ D(stack[b[1]], 1).op = "http_request"
      BY <2>2, <3>1, Depths
    <3> QED
      BY <3>1, <3>2 DEF Claims
  <2>3. CASE -b[2] \in 1..blocks[b[1]]
    BY <2>3 DEF Claims
  <2> QED
    BY <2>1, <2>2, <2>3
<1>6. Cardinality(Blocks("main")) <= Cardinality(Claims)
  BY <1>2, <1>5, FS_Subset
<1>7. \A b \in Blocks("dup") : b[1] \in Users /\ b[2] \in 1..3 /\ stack[b[1]] # <<>> /\ ~Async /\ b = <<b[1], b[2]>>
  <2> SUFFICES ASSUME NEW b \in Users \X Int, b \in Blocks("dup")
               PROVE  b[1] \in Users /\ b[2] \in 1..3 /\ stack[b[1]] # <<>> /\ ~Async /\ b = <<b[1], b[2]>>
    BY DEF Blocks
  <2>1. b[2] \in 1..Len(stack[b[1]]) /\ Inside(D(stack[b[1]], b[2]), "dup")
    BY DEF Blocks
  <2>2. stack[b[1]] # <<>> /\ StackOK(stack[b[1]])
    BY <2>1, <1>4
  <2> QED
    BY <2>1, <2>2, Depths
<1>8. Cardinality(Blocks("dup")) <= 3
  <2> DEFINE B == Blocks("dup")
             f == [b \in B |-> b[2]]
  <2>1. \A b, c \in B : b[2] = c[2] => b = c
    <3>1. \A b, c \in B : b[1] = c[1]
      BY <1>1, <1>7 DEF StacksInv
    <3> QED
      BY <3>1, <1>7
  <2>2. f \in [B -> 1..3]
    BY <1>7
  <2>3. \A b, c \in B : f[b] = f[c] => b = c
    BY <2>1
  <2> HIDE DEF B, f
  <2>4. f \in Injection(B, 1..3)
    BY <2>2, <2>3 DEF Injection, IsInjective
  <2>5. IsFiniteSet(1..3) /\ Cardinality(1..3) = 3
    <3>1. \A n \in Nat : IsFiniteSet(1..n) /\ Cardinality(1..n) = n
      <4> TAKE n \in Nat
      <4>1. IsFiniteSet(1..n) /\ Cardinality(1..n) = IF 1 > n THEN 0 ELSE n - 1 + 1
        BY FS_Interval
      <4> QED
        BY <4>1
    <3> QED
      BY <3>1
  <2>6. Cardinality(B) <= Cardinality(1..3)
    BY <2>4, <2>5, FS_Injection
  <2> QED
    BY <2>5, <2>6 DEF B
<1> QED
  BY <1>2, <1>3, <1>6, <1>8

\* What TypeOK says follows.
LEMMA InvTypes == IInv => TypeOK
<1> SUFFICES ASSUME IInv PROVE TypeOK
  OBVIOUS
<1>1. Core /\ StacksInv /\ NetOK(net)
  BY DEF IInv, Core, SocksInv
<1>2. \A t \in Trackers : net.tracker[t].sock \in Socks \cup {Nothing}
                          /\ (net.tracker[t].connected => net.tracker[t].sock # Nothing)
  BY <1>1 DEF NetOK, Nets, TrackerRecords
<1>3. \A t \in Trackers : net.tracker[t].layers.virtual \in 0..(setup.calls + 3)
  <2>1. Virt(net, "main") <= setup.calls /\ Virt(net, "dup") <= 3
         /\ Virt(net, "main") \in Nat /\ Virt(net, "dup") \in Nat /\ setup.calls \in Nat
    BY <1>1, BlocksBound
  <2>2. \A t \in Trackers : t = "main" \/ t = "dup"
    BY DEF Trackers
  <2>3. Virt(net, "main") \in 0..(setup.calls + 3) /\ Virt(net, "dup") \in 0..(setup.calls + 3)
    BY <2>1
  <2> QED
    BY <2>2, <2>3 DEF Virt
<1>4. (\A s \in Socks : net.sock[s] \in {"fresh", "up", "down", "gone", "closed"}) /\ net.family \in {"v4", "v6"}
  BY <1>1 DEF NetOK, Nets, SockStates
<1>5. \A u \in Users : err[u] \in {"none", "broken", "error"} /\ Len(stack[u]) <= 6
  <2> TAKE u \in Users
  <2>1. StackOK(stack[u]) /\ stack[u] \in Seq(Frames) /\ err[u] \in {"none", "broken", "error"}
    BY <1>1 DEF StacksInv, Raised
  <2>2. Len(stack[u]) \in Nat /\ (stack[u] = <<>> => Len(stack[u]) = 0)
    BY <2>1, FramesOf
  <2>3. stack[u] # <<>> => Len(stack[u]) <= 5
    BY <2>1, Depths
  <2> QED
    BY <2>1, <2>2, <2>3
<1>6. calls \in 0..setup.calls /\ faults \in 0..setup.max_faults
  BY <1>1 DEF StacksInv
<1> QED
  BY <1>2, <1>3, <1>4, <1>5, <1>6 DEF TypeOK

\* The caller's socket is the one of the first frame of its stack.
LEMMA InvSockets == IInv => NoSocketLost
<1> SUFFICES ASSUME IInv, NEW s \in Socks, Open(net, s)
             PROVE  \/ \E t \in Trackers : net.tracker[t].sock = s
                    \/ \E u \in Users : \E i \in DOMAIN stack[u] : stack[u][i].sock = s
  BY DEF NoSocketLost, Open
<1>1. StacksInv /\ (Owned(net, s) \/ \E u \in Users : s \in Raw(stack[u]))
  BY DEF IInv, Core, SocksInv
<1>2. ASSUME NEW u \in Users, s \in Raw(stack[u])
      PROVE  \E i \in DOMAIN stack[u] : stack[u][i].sock = s
  <2>1. stack[u] \in Seq(Frames) /\ stack[u] # <<>> /\ D(stack[u], 1).sock = s
    BY <1>1, <1>2 DEF StacksInv, Raw
  <2>2. Len(stack[u]) \in Nat /\ Len(stack[u]) >= 1
    BY <2>1, FramesOf
  <2>3. DOMAIN stack[u] = 1..Len(stack[u]) /\ Len(stack[u]) + 1 - 1 = Len(stack[u])
    BY <2>1, <2>2, LenProperties
  <2> QED
    BY <2>1, <2>2, <2>3 DEF D
<1> QED
  BY <1>1, <1>2 DEF Owned

\* Without a call there is no block on the duplicate; and the one user of an
\* in_blocks setup left main as LeaveOK says.
LEMMA InvBlocks == IInv => LeftBlocksClosed
<1> SUFFICES ASSUME IInv, \A u \in Users : stack[u] = <<>>
             PROVE  /\ Quiet(net, "dup")
                    /\ setup.in_blocks /\ Cardinality(setup.users) = 1 /\ Virt(net, "main") = 0 => Quiet(net, "main")
  BY DEF LeftBlocksClosed, Quiet, Virt
<1>1. Core /\ StacksInv /\ NetOK(net) /\ BlocksInv /\ setup.users \subseteq Users
  BY SetupFacts DEF IInv, Core, SocksInv
<1>2. Quiet(net, "dup")
  <2>1. Blocks("dup") = {}
    <3> SUFFICES ASSUME NEW b \in Users \X Int, b \in Blocks("dup") PROVE FALSE
      BY DEF Blocks
    <3>1. b[2] \in 1..Len(stack[b[1]]) /\ stack[b[1]] = <<>>
      BY DEF Blocks
    <3> QED
      BY <3>1
  <2>2. Virt(net, "dup") = 0
    <3>1. "dup" \in Trackers
      BY DEF Trackers
    <3>2. Virt(net, "dup") = Cardinality(Blocks("dup"))
      BY <3>1, <1>1 DEF BlocksInv
    <3> QED
      BY <3>2, <2>1, FS_EmptySet
  <2> QED
    BY <2>2, <1>1 DEF NetOK, Quiet
<1>3. ASSUME setup.in_blocks, Cardinality(setup.users) = 1, Virt(net, "main") = 0
      PROVE  Quiet(net, "main")
  <2>1. IsFiniteSet(setup.users)
    BY <1>1, FS_Subset, SocketsAssumption DEF SocketsAssumption, EnoughSocks
  <2>2. PICK u : setup.users = {u}
    BY <2>1, <1>3, FS_Singleton
  <2>3. Lone /\ u \in setup.users /\ stack[u] = <<>>
    BY <1>1, <1>3, <2>2 DEF Lone
  <2>4. LeaveOK(net, stack[u], err[u])
    BY <2>3, LeaveFacts
  <2>5. ~Awaits(stack[u]) /\ Len(stack[u]) # 1
    BY <2>3 DEF Awaits
  <2> QED
    BY <2>4, <2>5, <1>3 DEF LeaveOK
<1> QED
  BY <1>2, <1>3

\* A call has a frame at the bottom of its stack, whose operation bounds the sends.
LEMMA InvSends == IInv => SendsBounded
<1> SUFFICES ASSUME IInv, NEW u \in Users, stack[u] # <<>>
             PROVE  sends[u] <= MostSends(stack[u][Len(stack[u])].op)
  BY DEF SendsBounded
<1>1. StacksInv /\ sends[u] <= MostSends(D(stack[u], 1).op)
  BY DEF IInv, Core, SendsInv
<1>2. Len(stack[u]) \in Nat
  BY <1>1, FramesOf DEF StacksInv
<1>3. D(stack[u], 1) = stack[u][Len(stack[u])]
  BY <1>2 DEF D
<1> QED
  BY <1>1, <1>3

\* The invariant holds in every state.
LEMMA SpecInv == Spec => []IInv
<1>1. Init => IInv
  BY InitInv
<1>2. IInv /\ [Next]_vars => IInv'
  BY NextInv
<1> QED
  BY <1>1, <1>2, PTL DEF Spec

\* The state is well formed; a tracker that says it is connected holds a socket.
THEOREM SocketTypes == Spec => []TypeOK
BY SpecInv, InvTypes, PTL

\* No socket is left open that nobody holds.
THEOREM NoSocketIsLost == Spec => []NoSocketLost
BY SpecInv, InvSockets, PTL

\* Nothing is connected once the last block has been left.
THEOREM LeftBlocksAreClosed == Spec => []LeftBlocksClosed
BY SpecInv, InvBlocks, PTL

\* A request is sent as often as its nested tries allow, and no more.
THEOREM SendsAreBounded == Spec => []SendsBounded
BY SpecInv, InvSends, PTL
=============================================================================

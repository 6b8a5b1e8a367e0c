------------------------------ MODULE MCSockets ------------------------------
(* Instances of Sockets: a thread with one kind of operation each, and two *)
(* tasks that share an AsyncSocketWrapper.                                 *)
EXTENDS Sockets

CONSTANTS u1, u2, s1, s2, s3, s4, s5, s6

Setup(kind, users, ops, n, blocks_only) ==
  [kind |-> kind, users |-> users, ops |-> ops, calls |-> n, in_blocks |-> blocks_only,
   families |-> {"v4", "v6"}, limited |-> Cardinality(users) > 1, max_faults |-> 0,
   auto_connect |-> TRUE, error_reconnect |-> TRUE, host_v4 |-> TRUE, resolves_v6 |-> TRUE,
   generator |-> FALSE]

Single == {"recv", "sendall", "shutdown", "settimeout", "accept", "on_connect", "send_chunks"}
Opening == {"connect", "reconnect", "reconnect_to", "close", "sendall"}

V4(s) == [s EXCEPT !.families = {"v4"}]

MCSetups ==
  {Setup("sync", {u1}, Single, 2, FALSE),
   [Setup("sync", {u1}, {"send_chunks", "sendall"}, 2, FALSE) EXCEPT !.generator = TRUE],
   Setup("sync", {u1}, Opening, 3, FALSE),
   Setup("sync", {u1}, {"query", "query_new", "query_raw", "send_data"}, 2, FALSE),
   V4(Setup("sync", {u1}, {"with", "http_request", "query"}, 2, TRUE)),
   [Setup("sync", {u1}, {"sendall", "connect"}, 2, FALSE) EXCEPT !.auto_connect = FALSE],
   [Setup("sync", {u1}, {"query"}, 1, FALSE) EXCEPT !.error_reconnect = FALSE, !.host_v4 = FALSE],
   Setup("async", {u1}, {"query", "connect", "reconnect", "close", "read_eof", "send_data"}, 2, FALSE),
   Setup("async", {u1}, {"with", "http_request", "query"}, 2, TRUE),
   V4(Setup("async", {u1, u2}, {"http_request"}, 2, TRUE)),
   [V4(Setup("async", {u1, u2}, {"query", "close"}, 2, FALSE)) EXCEPT !.max_faults = 1]}
=============================================================================

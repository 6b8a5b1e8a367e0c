----------------------------- MODULE HostChecks -----------------------------
(***************************************************************************)
(* Whether IPv4 and IPv6 work: test_hosts and test_hosts_async of          *)
(* net/common.py try a few hosts, and check_v4, check_v6 and their asyncio *)
(* versions keep the verdict in the cache for NET_CHECK_TIMEOUT seconds.   *)
(*                                                                         *)
(* Callers are threads.  The synchronous test tries one host after         *)
(* another; the asynchronous one tries them all at once, each in a thread  *)
(* of its own, so that they end in any order.  A host may answer at one    *)
(* time and not at another.                                                *)
(***************************************************************************)
EXTENDS Addresses, FiniteSetsExt

CONSTANTS
  Callers,
  Plans,            \* [crew, ops, lists, max_hosts, shared, calls, last]: who calls what, with
                    \* which hosts, how many may be tried, whether the two adapters are
                    \* one server's, how many calls, and when the clock stops
  V4_TEST_HOSTS, V6_TEST_HOSTS,     \* sets of targets [host, port]
  NET_CHECK_HOST_COUNT,             \* hosts that have to answer
  NET_CHECK_TIMEOUT

NoLimit == -1       \* max_hosts=None

Cached == {"check_v4", "check_v6", "check_v4_async", "check_v6_async"}
Checks == {"check_host", "check_host_async", "base_check_host", "base_check_host_async"}
IsAsync(op) == op \in {"check_v4_async", "check_v6_async", "test_hosts_async"}

Ports == {"none", "80", "53", "other", "bad"}

Targets == [host : Hosts, port : Ports]

HostChecksAssumption ==
  /\ V4_TEST_HOSTS \cup V6_TEST_HOSTS \subseteq Targets
  /\ IsFiniteSet(V4_TEST_HOSTS) /\ IsFiniteSet(V6_TEST_HOSTS)
  /\ \A p \in Plans : /\ p.crew \subseteq Callers
                      /\ p.lists \subseteq Seq(Targets)
                      /\ p.max_hosts \in Nat \cup {NoLimit}
                      /\ p.calls \in Nat /\ p.last \in Nat
  /\ NET_CHECK_HOST_COUNT \in Nat /\ NET_CHECK_TIMEOUT \in Nat
ASSUME HostChecksAssumption

VARIABLES
  plan,     \* the chosen plan: it never changes
  clock,    \* seconds
  verdicts, \* the cached verdict of each version, in the cache of either adapter
  calls,    \* number of calls so far
  job,      \* the call a caller is in, or Nothing: [op, version, left, working, met]
  told      \* how its last call ended: [version, verdict, met, age], or Nothing

hostVars == <<plan, clock, verdicts, calls, job, told>>

VersionOf(op) ==
  IF op \in {"check_v4", "check_v4_async"} THEN "v4"
  ELSE IF op \in {"check_v6", "check_v6_async"} THEN "v6" ELSE "any"

HostsInit ==
  /\ plan \in Plans
  /\ clock = 0 /\ calls = 0
  /\ verdicts = [slot \in {"v4", "v6"} \X BOOLEAN |-> Nothing]
  /\ job = [u \in Callers |-> Nothing]
  /\ told = [u \in Callers |-> Nothing]

(***************************************************************************)
(* One host.  A check ends with its result, and met tells whether a server *)
(* was really reached over the version asked for.  heard is what the DNS   *)
(* says of a name; the server answers, refuses (any of the five errors     *)
(* that count as an answer `no') or fails in another way.                  *)
(***************************************************************************)
Reached(r, met) == [result |-> r, met |-> met]

\* What became of the connection, once there is an address to connect to.
Connection(ip, version, throw, server) ==
  IF server = "answers" THEN Reached(Value(TRUE), sock_ver(version) = "any" \/ ip \in Family(version))
  ELSE IF server = "refuses" THEN Reached(IF throw THEN Raise("ConnectionRefusedError") ELSE Value(FALSE), FALSE)
  ELSE Reached(Raise("OSError"), FALSE)

\* A name without an address is None to ip_is_v6, which raises ValueError.
Resolved(ip, version, throw, server) ==
  IF ~Ok(ip) THEN Reached(ip, FALSE)
  ELSE IF ip.value = Nothing THEN Reached(Raise("ValueError"), FALSE)
  ELSE Connection(ip.value, version, throw, server)

base_check_host(host, version, throw, heard, server) ==
  Resolved(resolve_ip(host, version, FALSE, heard), version, throw, server)

check_host(host, version, throw, heard, server) ==
  Resolved(resolve_ip(host, version, FALSE, heard), version, throw, server)

\* Resolves to learn the family; the AsyncSocketWrapper then connects to the host.
check_host_async(host, version, throw, heard, server) ==
  Resolved(resolve_ip_async(host, version, FALSE, heard), version, throw, server)

\* With a version the event loop resolves the name for a socket of that family, and
\* a gaierror is an answer `no'.
base_check_host_async(host, version, throw, heard, server) ==
  IF sock_ver(version) = "any"
  THEN Resolved(resolve_ip_async(host, version, FALSE, heard), version, throw, server)
  ELSE LET ips == IF host \in Literals THEN <<host>> ELSE heard
           known == ips # Fault /\ ips # <<>> /\ ips[1] \in Family(version)
       IN  IF known THEN Connection(ips[1], version, throw, server)
           ELSE Connection(Nothing, version, throw, "refuses")

check_host_http(host, version, heard, server) == base_check_host(host, version, FALSE, heard, server)
check_host_http_async(host, version, heard, server) ==
  base_check_host_async(host, version, FALSE, heard, server)

Web == {"none", "80"}       \* without a port it is 80

_test_host_async(t, version, heard, server) ==
  IF t.port = "bad" THEN Reached(Raise("ValueError"), FALSE)
  ELSE IF t.port \in Web THEN check_host_http_async(t.host, version, heard, server)
  ELSE base_check_host_async(t.host, version, FALSE, heard, server)

_test_host(t, version, heard, server) ==
  IF t.port = "bad" THEN Reached(Raise("ValueError"), FALSE)
  ELSE IF t.port \in Web THEN check_host_http(t.host, version, heard, server)
  ELSE check_host(t.host, version, FALSE, heard, server)

Servers == {"answers", "refuses", "fails"}
HeardOf(version) == {Fault, <<>>} \cup [1..1 -> Family(sock_ver(version))]

(***************************************************************************)
(* Calls                                                                   *)
(***************************************************************************)
Slot(op) == <<VersionOf(op), ~plan.shared /\ IsAsync(op)>>
(* Mutant: the entry is read whatever its timeout. *)
CurrentForEver(op) == verdicts[Slot(op)] # Nothing

Current(op) == verdicts[Slot(op)] # Nothing /\ verdicts[Slot(op)].until >= clock

\* The hosts to try.  Without a list they are those of the version, or half of them
\* of either; shuffling makes them any of these, and the order is that of trying.
Defaults(version, max) ==
  LET Some(hosts, n) == kSubset(IF n > Cardinality(hosts) THEN Cardinality(hosts) ELSE n, hosts)
      half == (max + 1) \div 2
  IN  IF version = "v4" THEN {SetToSeq(s) : s \in Some(V4_TEST_HOSTS, max)}
      ELSE IF version = "v6" THEN {SetToSeq(s) : s \in Some(V6_TEST_HOSTS, max)}
      ELSE {SetToSeq(s) \o SetToSeq(t) : s \in Some(V4_TEST_HOSTS, half), t \in Some(V6_TEST_HOSTS, half)}

Cut(hosts, max) == IF Len(hosts) > max THEN SubSeq(hosts, 1, max) ELSE hosts

ToTry(hosts, version, max) ==
  {Cut(h, max) : h \in IF hosts = <<>> THEN Defaults(version, max) ELSE {hosts}}

Free(u) == u \in plan.crew /\ job[u] = Nothing /\ calls < plan.calls

Tell(u, version, verdict, met, at) ==
  told' = [told EXCEPT ![u] = [version |-> version, verdict |-> verdict, met |-> met, age |-> clock - at]]

\* The cache has a verdict, whatever hosts the caller names.
CachedVerdict(u) ==
  /\ Free(u) /\ calls' = calls + 1
  /\ \E op \in plan.ops \cap Cached :
       /\ Current(op)
       /\ LET v == verdicts[Slot(op)] IN Tell(u, VersionOf(op), Value(v.verdict), v.met, v.at)
  /\ UNCHANGED <<plan, clock, verdicts, job>>

\* The test begins: there is no verdict, or the caller wants a new one (r_cache=False).
StartTest(u) ==
  /\ Free(u) /\ calls' = calls + 1
  /\ \E op \in plan.ops \ Checks, hosts \in plan.lists \cup {<<>>}, anew \in BOOLEAN :
       /\ op \in Cached => anew \/ ~Current(op)
       /\ IF plan.max_hosts = NoLimit
          THEN UNCHANGED job /\ Tell(u, VersionOf(op), Raise("TypeError"), 0, clock)
          ELSE /\ UNCHANGED told
               /\ \E left \in ToTry(hosts, VersionOf(op), plan.max_hosts) :
                    job' = [job EXCEPT ![u] = [op |-> op, version |-> VersionOf(op),
                                               left |-> left, working |-> 0, met |-> 0]]
  /\ UNCHANGED <<plan, clock, verdicts>>

\* A host is tried and counted, as working only if its check ended with TRUE.
Count(j, left, o) ==
  [j EXCEPT !.left = left,
            !.working = @ + (IF o.result = Value(TRUE) THEN 1 ELSE 0),
            !.met = @ + (IF o.met THEN 1 ELSE 0)]

\* An exception is logged: that host is neither working nor broken.
test_hosts(u) ==
  /\ job[u] # Nothing /\ ~IsAsync(job[u].op) /\ job[u].left # <<>>
  /\ \E heard \in HeardOf(job[u].version), server \in Servers :
       job' = [job EXCEPT ![u] = Count(job[u], Tail(job[u].left),
                                       _test_host(Head(job[u].left), job[u].version, heard, server))]
  /\ UNCHANGED <<plan, clock, verdicts, calls, told>>

\* gather takes the exceptions as results; they count as broken.
test_hosts_async(u) ==
  /\ job[u] # Nothing /\ IsAsync(job[u].op)
  /\ \E i \in 1..Len(job[u].left), heard \in HeardOf(job[u].version), server \in Servers :
       job' = [job EXCEPT ![u] = Count(job[u], RemoveAt(job[u].left, i),
                                       _test_host_async(job[u].left[i], job[u].version, heard, server))]
  /\ UNCHANGED <<plan, clock, verdicts, calls, told>>

\* All hosts are tried: the verdict, which r_cache keeps.
Works(u) == job[u].working >= NET_CHECK_HOST_COUNT

Verdict(u) ==
  /\ job[u] # Nothing /\ job[u].left = <<>>
  /\ LET j == job[u] IN
       /\ Tell(u, j.version, Value(Works(u)), j.met, clock)
       /\ verdicts' = IF j.op \in Cached
                      THEN [verdicts EXCEPT ![Slot(j.op)] =
                              [verdict |-> Works(u), met |-> j.met, at |-> clock,
                               until |-> clock + NET_CHECK_TIMEOUT]]
                      ELSE verdicts
  /\ job' = [job EXCEPT ![u] = Nothing]
  /\ UNCHANGED <<plan, clock, calls>>

\* The four functions that check one host.
CheckBy(op, host, version, throw, heard, server) ==
  IF op = "check_host" THEN check_host(host, version, throw, heard, server)
  ELSE IF op = "check_host_async" THEN check_host_async(host, version, throw, heard, server)
  ELSE IF op = "base_check_host" THEN base_check_host(host, version, throw, heard, server)
  ELSE base_check_host_async(host, version, throw, heard, server)

\* A caller checks one host itself.
CheckOne(u) ==
  /\ Free(u) /\ calls' = calls + 1
  /\ \E op \in plan.ops \cap Checks, host \in Hosts, version \in {"any", "v4", "v6"}, throw \in BOOLEAN :
       \E heard \in HeardOf(version), server \in Servers :
         LET o == CheckBy(op, host, version, throw, heard, server)
         IN  Tell(u, "one", o.result, IF o.met THEN 1 ELSE 0, clock)
  /\ UNCHANGED <<plan, clock, verdicts, job>>

Tick ==
  /\ clock < plan.last
  /\ clock' = clock + 1
  /\ UNCHANGED <<plan, verdicts, calls, job, told>>

HostsNext ==
  \/ \E u \in Callers : \/ CachedVerdict(u) \/ StartTest(u) \/ test_hosts(u) \/ test_hosts_async(u)
                        \/ Verdict(u) \/ CheckOne(u)
  \/ Tick

HostsSpec == HostsInit /\ [][HostsNext]_hostVars

(***************************************************************************)
(* Properties                                                              *)
(***************************************************************************)
\* How many hosts have to answer: a check of one host needs that one.
Needed(version) == IF version = "one" THEN 1 ELSE NET_CHECK_HOST_COUNT

\* Whatever a caller is told is so: a version works if and only if the hosts that
\* have to answer did answer over it, no more than max_hosts having been tried,
\* at a test no older than the cache may keep its verdict; and a host that fails
\* in whatever way never ends a test (test_hosts, test_hosts_async, check_v4,
\* check_v6, check_v4_async, check_v6_async, check_host).
VerdictJustified ==
  \A u \in Callers : told[u] # Nothing =>
    \/ plan.max_hosts = NoLimit /\ told[u].verdict = Raise("TypeError") /\ told[u].met = 0
    \/ /\ told[u].verdict = Value(TRUE) <=> told[u].met >= Needed(told[u].version)
       /\ told[u].age <= NET_CHECK_TIMEOUT
       /\ told[u].version # "one" => Ok(told[u].verdict) /\ told[u].met <= plan.max_hosts
=============================================================================

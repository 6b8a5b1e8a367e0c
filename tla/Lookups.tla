------------------------------- MODULE Lookups -------------------------------
(***************************************************************************)
(* The look-ups of net/dns.py, net/util.py and geoip.py: one caller, one   *)
(* call, address after address.  What the DNS, the GeoIP databases and the *)
(* ping program say is chosen afresh each time they are asked.             *)
(*                                                                         *)
(* The functions that take several addresses are generators: each step     *)
(* yields the answer for one address, and an exception ends the call, so   *)
(* that the addresses after it are never answered.                         *)
(***************************************************************************)
EXTENDS Addresses, SequencesExt, FiniteSetsExt

CONSTANTS
  MaxAddrs,     \* bound of the addresses in one call
  MaxHeard,     \* bound of the addresses the DNS has for a name
  Boundaries    \* the boundaries in bits callers pass to ip_to_rdns

LookupsAssumption ==
  MaxAddrs \in Nat /\ MaxHeard \in Nat /\ Boundaries \subseteq Int /\ MaxAddrs > 0
ASSUME LookupsAssumption

VARIABLES
  req,      \* the call: it never changes
  pos,      \* the address it is at
  answers,  \* what it has yielded or returned: [addr, value]
  end,      \* "running", "done", or the exception it ended with
  readers,  \* the GeoIP readers the thread keeps open
  block     \* where a geoip_manager block stands

lookupVars == <<req, pos, answers, end, readers, block>>

Readers == {"city", "asn", "country"}
Versions == {"any", "v4", "v6"}

Lists == UNION {[1..n -> Hosts] : n \in 1..MaxAddrs}
Single == [1..1 -> Hosts]

Call(op, addrs) ==
  [op |-> op, addrs |-> addrs, version |-> "any", v4_convert |-> FALSE, throw |-> TRUE,
   boundary |-> FALSE, v4_boundary |-> 24, v6_boundary |-> 32, timeout |-> 30, kind |-> Nothing]

ResolveCall(op, addrs, version, v4_convert) ==
  [Call(op, addrs) EXCEPT !.version = version, !.v4_convert = v4_convert]
ThrowCall(op, addrs, version, throw) ==
  [Call(op, addrs) EXCEPT !.version = version, !.throw = throw]
PointerCall(addrs, boundary, four, six) ==
  [Call("ip_to_rdns", addrs) EXCEPT !.boundary = boundary, !.v4_boundary = four, !.v6_boundary = six]

Requests ==
  {ResolveCall(o, s, v, c) :
     o \in {"resolve_ips_multi", "resolve_ips_multi_async"}, s \in Lists, v \in Versions, c \in BOOLEAN}
  \cup {ResolveCall(o, s, v, c) :
     o \in {"resolve_ip", "resolve_ip_async"}, s \in Single, v \in Versions, c \in BOOLEAN}
  \cup {ThrowCall("get_rdns_async", s, v, t) : s \in Single, v \in Versions, t \in BOOLEAN}
  \cup {ThrowCall(o, s, "any", t) : o \in {"get_rdns_multi", "geolocate_ips"}, s \in Lists, t \in BOOLEAN}
  \cup {ThrowCall(o, s, "any", t) : o \in {"geolocate_ip", "asn_to_name"}, s \in Single, t \in BOOLEAN}
  \cup {PointerCall(s, b, four, six) :
     s \in Single, b \in BOOLEAN, four \in Boundaries, six \in Boundaries}
  \cup {[Call("geoip_manager", s) EXCEPT !.kind = k] : s \in Single, k \in Readers \cup {Nothing}}
  \cup {[Call("ping", s) EXCEPT !.timeout = n] : s \in Single, n \in {0, 1}}

LookupInit ==
  /\ req \in Requests
  /\ pos = 1 /\ answers = <<>> /\ end = "running"
  /\ readers = {} /\ block = "outside"

Here == req.addrs[pos]
Asked(op) == end = "running" /\ req.op = op

Yield(values) ==
  /\ answers' = answers \o [i \in 1..Len(values) |-> [addr |-> Here, value |-> values[i]]]
  /\ pos' = pos + 1
  /\ end' = IF pos = Len(req.addrs) THEN "done" ELSE "running"

Fail(e) == end' = e /\ UNCHANGED <<pos, answers>>

Give(r) == IF Ok(r) THEN Yield(<<r.value>>) ELSE Fail(r.raises)

NoReader == UNCHANGED <<req, readers, block>>

(***************************************************************************)
(* Names into addresses                                                    *)
(***************************************************************************)
Heard(version) ==
  {Fault} \cup UNION {[1..n -> Family(sock_ver(version))] : n \in 0..MaxHeard}

(* Mutant: the address of the wrong version is not caught. *)
OrNoHost(r) == IF r.raises = "gaierror" THEN Value(Nothing) ELSE r

\* gaierror never gets here: resolve_ips catches whatever getaddrinfo raises.
OrNone(r) == IF r.raises \in {"gaierror", "AttributeError"} THEN Value(Nothing) ELSE r

resolve_ips_multi ==
  /\ Asked("resolve_ips_multi") /\ NoReader
  /\ \E heard \in Heard(req.version) :
       Give(OrNone(resolve_ips(Here, req.version, req.v4_convert, heard)))

resolve_ips_multi_async ==
  /\ Asked("resolve_ips_multi_async") /\ NoReader
  /\ \E heard \in Heard(req.version) :
       Give(OrNone(resolve_ips_async(Here, req.version, req.v4_convert, heard)))

ResolveOne ==
  /\ NoReader
  /\ \E heard \in Heard(req.version) :
       \/ /\ Asked("resolve_ip")
          /\ Give(resolve_ip(Here, req.version, req.v4_convert, heard))
       \/ /\ Asked("resolve_ip_async")
          /\ Give(resolve_ip_async(Here, req.version, req.v4_convert, heard))

(***************************************************************************)
(* Addresses into names                                                    *)
(***************************************************************************)
Quietly(throw, e) == IF throw THEN Raise(e) ELSE Value(Nothing)

\* found is what gethostbyaddr comes back with.
get_rdns(host, throw, found) ==
  IF found = "herror" THEN Quietly(throw, "ReverseDNSNotFound")
  ELSE IF found = "gaierror" THEN Quietly(throw, "InvalidHost")
  ELSE Value(found)

get_rdns_multi ==
  /\ Asked("get_rdns_multi") /\ NoReader
  /\ \E found \in {"name", "herror", "gaierror"} : Give(get_rdns(Here, req.throw, found))

\* getnameinfo falls back to the address where it has no name.
get_rdns_async(host, throw, version, heard, found) ==
  LET ip == IF is_ip(host, "any").value = Nothing
              THEN resolve_ip_async(host, version, FALSE, heard) ELSE Value(host)
  IN  IF ip.value = Nothing \/ found = "gaierror" THEN Quietly(throw, "InvalidHost")
      ELSE IF found = "address" THEN Quietly(throw, "ReverseDNSNotFound")
      ELSE Value(found)

NameOf ==
  /\ Asked("get_rdns_async") /\ NoReader
  /\ \E heard \in Heard(req.version), found \in {"name", "address", "gaierror"} :
       Give(get_rdns_async(Here, req.throw, req.version, heard, found))

\* The DNS answers with text or without, or it cannot be asked.  The throw of the
\* call stands for not quiet.
asn_to_name ==
  /\ Asked("asn_to_name") /\ NoReader
  /\ \E found \in {"name", "no answer", "no such domain", "timeout"} :
       Give(IF found = "name" THEN Value("name")
            ELSE IF found = "timeout" THEN Raise("Timeout")
            ELSE IF req.throw THEN Raise("KeyError") ELSE Value("Unknown ASN"))

PointerName ==
  /\ Asked("ip_to_rdns") /\ NoReader
  /\ Give(ip_to_rdns(Here, req.boundary, req.v6_boundary, req.v4_boundary))

ping ==
  /\ Asked("ping") /\ NoReader
  /\ \E platform \in {"Linux", "Darwin", "other"}, reply \in {"answer", "silence", "unreachable"} :
       Give(IF Here \notin Literals \/ req.timeout < 1 THEN Raise("ValueError")
            ELSE IF platform = "other" \/ (platform = "Darwin" /\ ~ip_is_v4(Here)) THEN Raise("NotImplementedError")
            ELSE IF reply = "unreachable" THEN Raise("NetworkUnreachable")
            ELSE Value(reply = "answer"))

(***************************************************************************)
(* Places of addresses.  A database finds the address, misses it, or       *)
(* fails; a name is no address to it (ValueError).                         *)
(***************************************************************************)
Finds(addr) == IF addr \in Literals THEN {"found", "missing", "fault"} ELSE {"invalid"}
GeoIPResult == [country : BOOLEAN, location : BOOLEAN, asn : BOOLEAN]
Blank == [country |-> FALSE, location |-> FALSE, asn |-> FALSE]

geolocate_ip(throw, city, asn, data) ==
  LET res == [country |-> city = "found" /\ data.country,
              location |-> city = "found" /\ data.location,
              asn |-> asn = "found" /\ data.asn]
  IN  IF city = "missing" THEN Quietly(throw, "GeoIPAddressNotFound")
      ELSE IF "invalid" \in {city, asn} THEN Raise("ValueError")
      ELSE IF asn = "missing" /\ throw THEN Raise("GeoIPAddressNotFound")
      ELSE Value(res)

Opened(city) == readers \cup (IF city \in {"missing", "invalid"} THEN {"city"} ELSE {"city", "asn"})

LocateOne ==
  /\ Asked("geolocate_ip")
  /\ \E city, asn \in Finds(Here), data \in GeoIPResult :
       /\ Give(geolocate_ip(req.throw, city, asn, data))
       /\ readers' = Opened(city)
  /\ UNCHANGED <<req, block>>

\* A result with an AS and a location but no country is preceded by None; and
\* once a result is None, its country is asked for, which None has not.
geolocate_ips ==
  /\ Asked("geolocate_ips")
  /\ \E city, asn \in Finds(Here), data \in GeoIPResult :
       LET r == geolocate_ip(req.throw, city, asn, data)
           res == IF Ok(r) THEN r.value ELSE Nothing
       IN  /\ readers' = Opened(city)
           /\ IF ~Ok(r) /\ req.throw THEN Fail(r.raises)
              ELSE IF res = Nothing
                THEN /\ answers' = Append(answers, [addr |-> Here, value |-> Nothing])
                     /\ end' = "AttributeError"
                     /\ UNCHANGED pos
                ELSE Yield(IF ~res.country /\ res.asn /\ res.location THEN <<Nothing, res>> ELSE <<res>>)
  /\ UNCHANGED <<req, block>>

\* The one who takes the answers closes the readers between two of them.
cleanup ==
  /\ Asked("geolocate_ips")
  /\ \E geo_type \in Readers \cup {Nothing} :
       readers' = IF geo_type = Nothing THEN {} ELSE readers \ {geo_type}
  /\ UNCHANGED <<req, pos, answers, end, block>>

EnterManager ==
  /\ Asked("geoip_manager") /\ block = "outside"
  /\ block' = "inside"
  /\ readers' = readers \cup (Readers \cap {req.kind})
  /\ UNCHANGED <<req, pos, answers, end>>

\* The block looks an address up; an exception leaves it past the cleaning up.
InManager ==
  /\ Asked("geoip_manager") /\ block = "inside"
  /\ \E city, asn \in Finds(Here), data \in GeoIPResult :
       LET r == geolocate_ip(TRUE, city, asn, data)
       IN  /\ Give(r)
           /\ block' = IF Ok(r) THEN "left" ELSE "raised"
           /\ readers' = IF Ok(r) THEN {} ELSE Opened(city)
  /\ UNCHANGED req

LookupNext ==
  \/ resolve_ips_multi \/ resolve_ips_multi_async \/ ResolveOne
  \/ get_rdns_multi \/ NameOf \/ asn_to_name \/ PointerName \/ ping
  \/ LocateOne \/ geolocate_ips \/ cleanup \/ EnterManager \/ InManager

LookupSpec == LookupInit /\ [][LookupNext]_lookupVars

(***************************************************************************)
(* Properties                                                              *)
(***************************************************************************)
Refused(addr) == addr \in Literals /\ sock_ver(req.version) # "any" /\ addr \notin Family(req.version)

\* The addresses of a name are of the version asked for, and none of them is an
\* IPv4 address in disguise unless the caller allowed that or named it itself.
Suits(addr, ips) ==
  \A ip \in Range(ips) :
    /\ sock_ver(req.version) = "any" => ip \in Literals
    /\ sock_ver(req.version) # "any" => ip \in Family(req.version)
    /\ ip \in Mapped => req.v4_convert \/ ip = addr

\* Each address has its answers, in the order asked; only the one at which an
\* exception came may be without.
InOrder ==
  /\ \A i \in 1..pos - 1 : \E k \in 1..Len(answers) : answers[k].addr = req.addrs[i]
  /\ \E at \in [1..Len(answers) -> 1..Len(req.addrs)] :
       /\ \A k \in DOMAIN at : answers[k].addr = req.addrs[at[k]] /\ at[k] <= pos
       /\ \A k, l \in DOMAIN at : k < l => at[k] <= at[l]

Many == {"resolve_ips_multi", "resolve_ips_multi_async", "get_rdns_multi"}

\* The functions for several addresses answer one by one, and one that fails does
\* not cost the others theirs, unless the caller asked for exceptions.
\* geolocate_ips keeps that only until its first None.
OneByOne ==
  /\ req.op \in Many =>
       /\ Len(answers) = pos - 1
       /\ \A k \in 1..Len(answers) : answers[k].addr = req.addrs[k]
       /\ end \notin {"running", "done"} => req.op = "get_rdns_multi" /\ req.throw
  /\ req.op = "geolocate_ips" /\ ~req.throw /\ end \notin {"running", "done"} =>
       Last(answers) = [addr |-> Here, value |-> Nothing]

\* The zone at a boundary holds the address: the domain without the boundary ends
\* in it, and its labels are the bits asked for.
ZoneHoldsAddress ==
  req.op = "ip_to_rdns" /\ req.boundary /\ end = "done" =>
    LET zone == answers[1].value
    IN  /\ IsSuffix(zone, ip_to_rdns(req.addrs[1], FALSE, 32, 24).value)
        /\ IF ip_is_v4(req.addrs[1]) THEN 8 * (Len(zone) - 1) = req.v4_boundary
                                     ELSE 4 * (Len(zone) - 1) = req.v6_boundary

\* A block of geoip_manager has its reader, and leaves none open when it ends.
ManagerCloses ==
  /\ block = "inside" => req.kind \in readers \cup {Nothing}
  /\ block = "left" => readers = {}

\* The answers fit the addresses asked: in their order, none left out by another's
\* failure, of the version asked for, None only for an address of the other
\* version; a zone of the reverse DNS holds its address; and a geoip_manager
\* block leaves no reader behind (net/dns.py, geoip.py).
AnswersFit ==
  /\ InOrder /\ OneByOne
  /\ req.op \in {"resolve_ips_multi", "resolve_ips_multi_async"} =>
       \A k \in 1..Len(answers) :
         /\ answers[k].value = Nothing <=> Refused(answers[k].addr)
         /\ answers[k].value # Nothing => Suits(answers[k].addr, answers[k].value)
  /\ req.op \in {"resolve_ip", "resolve_ip_async"} =>
       \A k \in 1..Len(answers) :
         answers[k].value # Nothing => Suits(answers[k].addr, <<answers[k].value>>)
  /\ ZoneHoldsAddress /\ ManagerCloses
=============================================================================

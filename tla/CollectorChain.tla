--------------------------- MODULE CollectorChain ---------------------------
(***************************************************************************)
(* The chain of collectors that apidump.Run builds for each interface and  *)
(* filter (apidump/apidump.go), from the count before the user's filters   *)
(* to the sink: user-traffic collector, path and host filters, rate limit, *)
(* sampling, statistics, and a dummy collector, the backend collector, a   *)
(* HAR collector or a tee of both (trace/collector.go, filters.go, tee.go, *)
(* dummy_collector.go, har_collector.go).                                  *)
(*                                                                         *)
(* Every chain runs in the goroutine of its pcap.Collect; the chains share *)
(* the packet counters, which the parsers' goroutines and the backend      *)
(* collector's batch update too.  What Process does between two updates of *)
(* a shared counter is one step.                                           *)
(*                                                                         *)
(* No collector of this chain returns an error from Process.  The rate     *)
(* limit is abstracted to its promise, which module RateLimit checks.  The *)
(* trackers of TCP and TLS connections come before the chain; the metadata *)
(* their timers send meet no state of the chain but the rate limiter's.    *)
(***************************************************************************)
EXTENDS PacketCounter, Sequences, FiniteSetsExt

CONSTANTS
  Collectors,   \* records [interface, matched]: matched by the user's filter or not
  Items,        \* what the parsers can produce, see ItemAssumption
  ArgSets,      \* the sessions considered, see ArgAssumption
  MaxItems,     \* bound on the items and segments of a behaviour
  NoItem, NoURL, HostnameUnavailable, Domain

Kinds == {"request", "response", "hello", "metadata", "raw", "segment", "oversized"}

(* A segment is what the observer of captured packets sees, "oversized" a  *)
(* witness of the backend collector that its buffer drops; anything else   *)
(* is parsed content.  A request and its response have the same id (stream *)
(* and sequence number), which no other request and response of a chain    *)
(* have: no two requests are pipelined in one segment.  Metadata have      *)
(* their connection's id.  on names the chain whose interface and filter   *)
(* capture it.                                                             *)
ASSUME ItemAssumption ==
  \A i \in Items :
    /\ DOMAIN i = {"kind", "id", "host", "path", "src", "dst", "cli", "on"}
    /\ i.kind \in Kinds /\ i.on \in Collectors
    /\ {i.src, i.dst, i.host} \subseteq Int
    /\ i # NoItem
    /\ i.kind \in {"request", "response"} =>
         \A j \in Items : j.kind = i.kind /\ j.id = i.id /\ j.on = i.on => j = i

(* Each list is the set of hosts or paths that one of its expressions      *)
(* matches, empty if the list is; sampled holds the keys whose hash is     *)
(* below the threshold of sampling.                                        *)
ASSUME ArgAssumption ==
  \A a \in ArgSets :
    /\ DOMAIN a = {"pathAllowlist", "hostAllowlist", "pathExclusions", "hostExclusions",
                   "rateLimit", "dogfood", "sampled", "local"}
    /\ a.rateLimit \in BOOLEAN /\ a.dogfood \in BOOLEAN /\ a.local \in BOOLEAN

VARIABLES
  args,         \* this session's arguments
  seen,         \* seen[c]: what chain c, or its parser's observer, was given
  processing,   \* processing[c]: the item Process is called for, or NoItem
  stage,        \* stage[c]: how far it is: "filter", "count" or "sink"
  filteredIDs,  \* filteredIDs[c][f]: ids filter f of chain c has refused
  arrivals,     \* arrivals[c]: requests in the rate limiter's map
  counters,     \* filterSummary, prefilterSummary and negationSummary
  har,          \* har[c]: what the HAR logger has recorded
  written,      \* written[c]: a HAR file has been written
  closed,
  \* History.
  counted,      \* <<counter, c, item>> for each update of a counter
  inOrder,      \* inOrder[c]: ids whose response came after their request
  delivered     \* delivered[c]: items that reached the sink

chainVars == <<args, seen, processing, stage, filteredIDs, arrivals, counters, har, written, closed,
               counted, inOrder, delivered>>

-----------------------------------------------------------------------------
Filters == {"pathAllowlist", "hostAllowlist", "pathExclusions", "hostExclusions"}

(* Outermost first. *)
FilterOrder == <<"pathAllowlist", "hostAllowlist", "pathExclusions", "hostExclusions">>

HasUserFilters == \E f \in Filters : args[f] # {}

(* filterFunc of the four filters. *)
FilterFunc(f, r) ==
  CASE f = "pathAllowlist"  -> r.path # NoURL /\ r.path \in args[f]
    [] f = "hostAllowlist"  -> r.host \in args[f]
    [] f = "pathExclusions" -> r.path = NoURL \/ r.path \notin args[f]
    [] f = "hostExclusions" -> r.host \notin args[f]

(* The filters that are there and refuse r; the outermost one sees it.     *)
Refusing(r) == {n \in DOMAIN FilterOrder : args[FilterOrder[n]] # {} /\ ~FilterFunc(FilterOrder[n], r)}

(* ContainsCLITraffic, unless --dogfood leaves the collector out. *)
IsCLITraffic(i) == ~args.dogfood /\ i.kind \in {"request", "response"} /\ i.cli

(* The key of SamplingCollector; 0 stands for the empty string. *)
SamplingKey(i) == IF i.kind \in {"request", "response", "metadata"} THEN i.id ELSE 0

IncludeSample(i) == SamplingKey(i) \in args.sampled

(* The host a hello is counted under; its own traffic only with --dogfood. *)
IncludeHostName(host) == host = Domain => args.dogfood

-----------------------------------------------------------------------------
(* PacketCountCollector.Process on one of the counters. *)

MetricOf(i) ==
  CASE i.kind = "request"   -> "HTTPRequests"
    [] i.kind = "response"  -> "HTTPResponses"
    [] i.kind = "hello"     -> "TLSHello"
    [] i.kind = "raw"       -> "Unparsed"
    [] i.kind = "segment"   -> "TCPPackets"
    [] i.kind = "oversized" -> "OversizedWitnesses"

IsCounted(i) == i.kind # "metadata" /\ (i.kind = "hello" => IncludeHostName(i.host))

(* Only requests and hellos have a host to count. *)
HostOf(i) == IF i.kind \in {"request", "hello"} THEN i.host ELSE NoHost

DeltaOf(c, i) == Delta(c.interface, i.src, i.dst, HostOf(i), MetricOf(i))

CountIn(name, c, i) ==
  IF IsCounted(i)
  THEN /\ counters' = [counters EXCEPT ![name] = Update(@, DeltaOf(c, i))]
       /\ counted' = counted \cup {<<name, c, i>>}
  ELSE UNCHANGED <<counters, counted>>

(* Mutant: the summary of the last filter state is used for both. *)
SummaryOfLast(c) == "negation"

SummaryOf(c) == IF c.matched THEN "filter" ELSE "negation"

-----------------------------------------------------------------------------
ChainInit ==
  /\ args \in ArgSets
  /\ seen = [c \in Collectors |-> {}]
  /\ processing = [c \in Collectors |-> NoItem]
  /\ stage = [c \in Collectors |-> "filter"]
  /\ filteredIDs = [c \in Collectors |-> [f \in Filters |-> {}]]
  /\ arrivals = [c \in Collectors |-> {}]
  /\ counters = [n \in {"filter", "prefilter", "negation"} |-> NewPacketCounter]
  /\ har = [c \in Collectors |-> {}]
  /\ written = [c \in Collectors |-> FALSE]
  /\ closed = [c \in Collectors |-> FALSE]
  /\ counted = {}
  /\ inOrder = [c \in Collectors |-> {}]
  /\ delivered = [c \in Collectors |-> {}]

(* Bound on the items and segments of a behaviour. *)
Bounded == Cardinality(UNION {seen[d] : d \in Collectors}) < MaxItems

(* An update from outside the chain's Process. *)
CountAside(c, i) ==
  /\ ~closed[c] /\ i.on = c /\ i \notin seen[c]
  /\ Bounded
  /\ seen' = [seen EXCEPT ![c] = @ \cup {i}]
  /\ CountIn(SummaryOf(c), c, i)
  /\ UNCHANGED <<args, processing, stage, filteredIDs, arrivals, har, written, closed, inOrder, delivered>>

(* The observer of captured packets counts a TCP segment. *)
CountTcpPackets(c, i) == i.kind = "segment" /\ CountAside(c, i)

(* reportBuffer.Add, in the goroutine of the backend collector's batch: a  *)
(* witness made of what was delivered is too large; it is dropped, and     *)
(* counted under its ports and interface.                                  *)
DropOversized(c, i) ==
  /\ i.kind = "oversized" /\ c.matched
  /\ \E r \in delivered[c] : r.kind \in {"request", "response"} /\ r.id = i.id
  /\ CountAside(c, i)

(* The first collector of a chain with user filters. *)
PrefilterCount(c, i) ==
  IF c.matched /\ HasUserFilters THEN CountIn("prefilter", c, i)
  ELSE UNCHANGED <<counters, counted>>

(* Process is called for an item of the chain's interface. *)
Process(c, i) ==
  /\ ~closed[c] /\ processing[c] = NoItem
  /\ i.on = c /\ i.kind \notin {"segment", "oversized"} /\ i \notin seen[c]
  /\ Bounded
  /\ seen' = [seen EXCEPT ![c] = @ \cup {i}]
  /\ processing' = [processing EXCEPT ![c] = i]
  /\ inOrder' = [inOrder EXCEPT ![c] =
       IF i.kind = "response" /\ \E q \in seen[c] : q.kind = "request" /\ q.id = i.id
       THEN @ \cup {i.id} ELSE @]
  /\ PrefilterCount(c, i)
  /\ UNCHANGED <<args, stage, filteredIDs, arrivals, har, written, closed, delivered>>

(* Process returns without calling the next collector. *)
Dropped(c) == processing' = [processing EXCEPT ![c] = NoItem] /\ UNCHANGED stage

(* Mutant: the ids of refused requests are not kept. *)
RefusedForgotten(c, i) ==
  /\ i.kind = "request" /\ Refusing(i) # {}
  /\ UNCHANGED filteredIDs

(* genericRequestFilter: a request that a filter refuses, its id is kept,  *)
(* or the response of such a request.                                      *)
Refused(c, i) ==
  \/ /\ i.kind = "request" /\ Refusing(i) # {}
     /\ filteredIDs' = [filteredIDs EXCEPT ![c][FilterOrder[Min(Refusing(i))]] = @ \cup {i.id}]
  \/ /\ i.kind = "response" /\ \E f \in Filters : i.id \in filteredIDs[c][f]
     /\ UNCHANGED filteredIDs

IsRefused(c, i) ==
  \/ i.kind = "request" /\ Refusing(i) # {}
  \/ i.kind = "response" /\ \E f \in Filters : i.id \in filteredIDs[c][f]

(* The rate limit lets a request pass or not, a response only if its       *)
(* request passed and has not expired.                                     *)
RateLimitAllows(c, i) ==
  /\ args.rateLimit /\ i.kind = "response" => i.id \in arrivals[c]
  /\ arrivals' = IF ~args.rateLimit THEN arrivals
                 ELSE CASE i.kind = "request"  -> [arrivals EXCEPT ![c] = @ \cup {i.id}]
                        [] i.kind = "response" -> [arrivals EXCEPT ![c] = @ \ {i.id}]
                        [] OTHER               -> arrivals

(* The collectors between the two counters. *)
Filter(c) ==
  LET i == processing[c] IN
  /\ i # NoItem /\ stage[c] = "filter"
  /\ \/ /\ IsCLITraffic(i)
        /\ Dropped(c) /\ UNCHANGED <<filteredIDs, arrivals>>
     \/ /\ ~IsCLITraffic(i) /\ Refused(c, i)
        /\ Dropped(c) /\ UNCHANGED arrivals
     \/ /\ ~IsCLITraffic(i) /\ ~IsRefused(c, i) /\ args.rateLimit
        /\ Dropped(c) /\ UNCHANGED <<filteredIDs, arrivals>>
     \/ /\ ~IsCLITraffic(i) /\ ~IsRefused(c, i) /\ RateLimitAllows(c, i) /\ UNCHANGED filteredIDs
        /\ IF IncludeSample(i) THEN stage' = [stage EXCEPT ![c] = "count"] /\ UNCHANGED processing
           ELSE Dropped(c)
  /\ UNCHANGED <<args, seen, counters, har, written, closed, counted, inOrder, delivered>>

(* The statistics. *)
Count(c) ==
  /\ processing[c] # NoItem /\ stage[c] = "count"
  /\ CountIn(SummaryOf(c), c, processing[c])
  /\ stage' = [stage EXCEPT ![c] = "sink"]
  /\ UNCHANGED <<args, seen, processing, filteredIDs, arrivals, har, written, closed, inOrder, delivered>>

(* HARCollector.Process, if the chain has one: Dst2 of a tee or the sink. *)
Record(c, i) ==
  IF c.matched /\ args.local /\ i.kind \in {"request", "response"} THEN har[c] \cup {i} ELSE har[c]

(* The sink: dummy, backend, HAR, or a tee of the last two. *)
Sink(c) ==
  /\ processing[c] # NoItem /\ stage[c] = "sink"
  /\ har' = [har EXCEPT ![c] = Record(c, processing[c])]
  /\ delivered' = [delivered EXCEPT ![c] = @ \cup {processing[c]}]
  /\ processing' = [processing EXCEPT ![c] = NoItem]
  /\ stage' = [stage EXCEPT ![c] = "filter"]
  /\ UNCHANGED <<args, seen, filteredIDs, arrivals, counters, written, closed, counted, inOrder>>

(* The logger exports the requests that have their responses. *)
Entries(recorded) ==
  {i.id : i \in {q \in recorded : q.kind = "request"
                   /\ \E p \in recorded : p.kind = "response" /\ p.id = q.id}}

(* Every collector closes the next one; HARCollector.Close writes a file   *)
(* if there are entries.                                                   *)
Close(c) ==
  /\ ~closed[c] /\ processing[c] = NoItem
  /\ closed' = [closed EXCEPT ![c] = TRUE]
  /\ written' = [written EXCEPT ![c] = Entries(har[c]) # {}]
  /\ UNCHANGED <<args, seen, processing, stage, filteredIDs, arrivals, counters, har, counted, inOrder, delivered>>

ChainNext ==
  \E c \in Collectors :
    \/ \E i \in Items : CountTcpPackets(c, i) \/ Process(c, i) \/ DropOversized(c, i)
    \/ Filter(c) \/ Count(c) \/ Sink(c) \/ Close(c)

ChainSpec == ChainInit /\ [][ChainNext]_chainVars

-----------------------------------------------------------------------------
Counts == [Metrics -> Nat]

BoundedCounterOK(bc) ==
  /\ Cardinality(DOMAIN bc.m) <= maxKeys
  /\ \A k \in DOMAIN bc.m : bc.m[k] \in Counts
  /\ bc.overflow \in Counts

(* Types: the maps of the counters respect their limit, refused ids are    *)
(* those of requests, and a HAR logger records HTTP only.                  *)
ChainTypeOK ==
  /\ args \in ArgSets
  /\ \A c \in Collectors :
       /\ seen[c] \subseteq Items /\ delivered[c] \subseteq seen[c]
       /\ processing[c] \in seen[c] \cup {NoItem}
       /\ stage[c] \in {"filter", "count", "sink"}
       /\ \A f \in Filters : filteredIDs[c][f] \subseteq {i.id : i \in {q \in seen[c] : q.kind = "request"}}
       /\ har[c] \subseteq {i \in delivered[c] : i.kind \in {"request", "response"}}
       /\ written[c] => closed[c] /\ args.local
  /\ \A n \in DOMAIN counters :
       /\ counters[n].total \in Counts
       /\ BoundedCounterOK(counters[n].byPort)
       /\ BoundedCounterOK(counters[n].byInterface)
       /\ BoundedCounterOK(counters[n].byHost)

(* The filters and sampling treat a request and its response alike         *)
(* (filters.go:92 "Handles filtering out the corresponding responses as    *)
(* well", collector.go:53): a response after its request is delivered only *)
(* if the request was, and always then unless the rate limiter has         *)
(* forgotten it.  The command's own messages are told by their own header  *)
(* each.                                                                   *)
PairsTogether ==
  \A c \in Collectors : \A q, p \in seen[c] :
    (q.kind = "request" /\ p.kind = "response" /\ q.id = p.id /\ q.id \in inOrder[c]
       /\ ~IsCLITraffic(q) /\ ~IsCLITraffic(p) /\ processing[c] # p) =>
      /\ p \in delivered[c] => q \in delivered[c]
      /\ q \in delivered[c] /\ ~args.rateLimit => p \in delivered[c]

(* What the summary says was seen before the user's filters is never less  *)
(* than what passed them, whatever the chains of other interfaces have in  *)
(* flight (summary.go:144 prints the difference).                          *)
PrefilterDominates ==
  HasUserFilters =>
    \A x \in Metrics \ {"TCPPackets", "OversizedWitnesses"} :
      counters["prefilter"].total[x] >= counters["filter"].total[x]

(* The updates of the maps of counter n so far: the key each was made for, *)
(* twice for ports, and what it counted.                                   *)
EventsOf(n) == {e \in counted : e[1] = n}

PortUpdates(n) ==
  {[key |-> e[3].src, metric |-> MetricOf(e[3]), of |-> e, end |-> "src"] : e \in EventsOf(n)}
  \cup {[key |-> e[3].dst, metric |-> MetricOf(e[3]), of |-> e, end |-> "dst"] : e \in EventsOf(n)}

InterfaceUpdates(n) ==
  {[key |-> e[2].interface, metric |-> MetricOf(e[3]), of |-> e] : e \in EventsOf(n)}

HostUpdates(n) ==
  {[key |-> HostOf(e[3]), metric |-> MetricOf(e[3]), of |-> e] :
     e \in {d \in EventsOf(n) : HostOf(d[3]) # NoHost}}

(* At the limit of the maps (stats.go:49) a key is either counted from its *)
(* first update on or not at all: the entry of a tracked port, interface   *)
(* or host has all the updates with that key, never the later half.        *)
IsExact(bc, updates) ==
  \A k \in DOMAIN bc.m : \A x \in Metrics :
    TotalOn(bc, k)[x] = Cardinality({u \in updates : u.key = k /\ u.metric = x})

TrackedIsExact ==
  \A n \in DOMAIN counters :
    /\ IsExact(counters[n].byPort, PortUpdates(n))
    /\ IsExact(counters[n].byInterface, InterfaceUpdates(n))
    /\ IsExact(counters[n].byHost, HostUpdates(n))

(* The overflow has all the others, even if source and destination port    *)
(* are the same or only one of them fits; and the total has them all.      *)
IsComplete(bc, updates) ==
  \A x \in Metrics :
    bc.overflow[x] = Cardinality({u \in updates : u.key \notin DOMAIN bc.m /\ u.metric = x})

NothingUncounted ==
  \A n \in DOMAIN counters :
    /\ IsComplete(counters[n].byPort, PortUpdates(n))
    /\ IsComplete(counters[n].byInterface, InterfaceUpdates(n))
    /\ IsComplete(counters[n].byHost, HostUpdates(n))
    /\ \A x \in Metrics : counters[n].total[x] = Cardinality({e \in EventsOf(n) : MetricOf(e[3]) = x})

(* The totals that decide whether a trace is empty count exactly the HTTP  *)
(* messages that have passed the filters of the matched chains: those at   *)
(* their sinks and those between counter and sink (apidump.go:718).        *)
SummaryCountsDeliveries ==
  \A kind \in {"request", "response"} :
    counters["filter"].total[MetricOf([kind |-> kind])] =
      Cardinality({d \in Collectors \X Items :
        /\ d[1].matched /\ d[2].kind = kind
        /\ \/ d[2] \in delivered[d[1]]
           \/ processing[d[1]] = d[2] /\ stage[d[1]] = "sink"})

(* A session that has written a HAR file is not reported as empty          *)
(* (summary.go:317).                                                       *)
EmptyWritesNothing == (\E c \in Collectors : written[c]) => ~IsEmpty(counters["filter"])

(* The keys a summary lists are n of the tracked ones, or all of them, and *)
(* none that is left out has more traffic than one that is listed; what is *)
(* not tracked is in an overflow that the summary has (stats.go:287).      *)
IsTop(keys, value, n) ==
  /\ Cardinality(keys) = Min({n, Cardinality(DOMAIN value)})
  /\ \A k \in keys, j \in DOMAIN value \ keys : value[k] >= value[j]

TopNIsTop ==
  LET s == counters["filter"] IN
  \A n \in 0..maxKeys :
    /\ IsTop(Summary(s, n).TopByPort, ByTCPPackets(s.byPort), n)
    /\ IsTop(Summary(s, n).TopByHost, ByHTTP(s.byHost), n)
    /\ Summary(s, n).ByPortOverflow = {} => s.byPort.overflow = ZeroCounts
    /\ Summary(s, n).ByHostOverflow = {} => s.byHost.overflow = ZeroCounts

(* Every tracked host has traffic of a kind that the shares of hosts are   *)
(* computed from, so that their sum is not zero when the summary divides   *)
(* by it (summary.go:212).                                                 *)
HostShareDefined ==
  \A n \in DOMAIN counters : \A h \in DOMAIN counters[n].byHost.m :
    LET m == counters[n].byHost.m[h] IN m["HTTPRequests"] + m["HTTPResponses"] + m["TLSHello"] > 0

(* The bounded maps of every counter are exact for the keys they track and *)
(* complete with their overflow, below, at and beyond the limit (Update,   *)
(* AddOrInsert).                                                           *)
CounterInv == ChainTypeOK /\ TrackedIsExact /\ NothingUncounted

(* The totals of the shared counters agree with what the chains have seen  *)
(* and delivered, whatever is in flight; and so does what is computed from *)
(* them at the end: the top keys, whether the trace is empty, and the      *)
(* shares of the hosts.                                                    *)
SummaryIsSound ==
  /\ PrefilterDominates /\ SummaryCountsDeliveries
  /\ TopNIsTop /\ EmptyWritesNothing /\ HostShareDefined
=============================================================================

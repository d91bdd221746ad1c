------------------------------ MODULE Integral ------------------------------
(***************************************************************************)
(* task_8/homework: a client that computes an integral with the help of    *)
(* servers.  It finds them by a UDP broadcast, or is told them on its      *)
(* command line, cuts the region into one strip for each of them and sends *)
(* each its strip over TCP, a thread for every strip; it joins the threads *)
(* in order and adds what they have got.                                   *)
(*                                                                         *)
(* Lengths are counted in units of which every number of strips makes a    *)
(* whole number; of a sum the model keeps what has been added.             *)
(***************************************************************************)
EXTENDS Integers, Sequences, FiniteSets, SequencesExt, Functions

CONSTANTS
  Servers,          \* the server processes, as [host, port]
  TCP_TASK_PORT, MAX_SERVERS,
  DefaultPoints,    \* DEFAULT_POINTS_PER_RECTANGLE
  XMax,             \* x_max, the right end of the region
  Arguments,        \* the command lines of the client: [opts, rest]
  Faults,           \* subset of {"crash", "stop", "loss", "copy"}: servers and datagrams
  MaxChanges        \* bound of the model: starts and failures of servers

ASSUME ConstantsAssumption ==
  /\ {TCP_TASK_PORT, MAX_SERVERS, DefaultPoints} \subseteq Nat \ {0} /\ {XMax, MaxChanges} \subseteq Nat
  /\ \A g \in Arguments :
       /\ g.opts \in Seq(ToSet(g.opts)) /\ g.rest \in Seq(ToSet(g.rest))
       /\ \A o \in ToSet(g.opts) : o.opt = "p" => o.arg \in Nat      \* a size_t
  /\ \A n \in 1..MAX_SERVERS : XMax % n = 0
  /\ Faults \subseteq {"crash", "stop", "loss", "copy"}

VARIABLES
  pc,         \* where the client is
  args,       \* its command line
  cfg,        \* its ClientConfig: use_broadcast, server_list, points
  jobs,       \* its TaskJobs, with the place of each thread
  total,      \* the results added to total_result, in order
  joined,     \* how many threads have been joined
  requests,   \* the servers that have a discovery request to answer
  answers,    \* how many discovery responses from a host are in the client's socket
  socks,      \* the TCP connection of each thread: state, task and result on their way
  udp, tcp,   \* the servers whose sockets are ready
  stopped,    \* the servers that do nothing any more, but whose sockets are open
  unready,    \* the addresses where a server was not ready some time during this run
  changes

client  == <<pc, args, cfg, jobs, total, joined>>
network == <<requests, answers, socks>>
servers == <<udp, tcp, stopped, unready, changes>>
vars    == <<client, network, servers>>

Hosts   == {s.host : s \in Servers}
Invalid == [host |-> "invalid", port |-> 0]      \* an address that parse_ip_port() refuses
Nothing == <<>>      \* no message; <<m>> is one

\* An address may be given, or found, for which there is no server.
Addresses ==
  Servers \cup {[host |-> h, port |-> TCP_TASK_PORT] : h \in Hosts}
    \cup UNION {{o.arg : o \in {x \in ToSet(g.opts) : x.opt = "i"}} \cup ToSet(g.rest) : g \in Arguments}

Init ==
  /\ pc = "args" /\ args \in Arguments
  /\ cfg = [use_broadcast |-> TRUE, server_list |-> <<>>, points |-> DefaultPoints]
  /\ jobs = <<>> /\ total = <<>> /\ joined = 0
  /\ requests = {} /\ answers = [h \in Hosts |-> 0] /\ socks = <<>>
  /\ tcp \in SUBSET Servers /\ udp = tcp /\ stopped = {} /\ unready = Addresses \ tcp
  /\ changes = 0

-----------------------------------------------------------------------------
(* The command line. *)

\* An option after which the client stops: help, a value out of range, or one
\* that main() does not know, n among them.
Ends(o) == o.opt \in {"h", "n"} \/ (o.opt = "p" /\ o.arg = 0) \/ (o.opt = "t" /\ o.arg <= 0)

LastOption(opts, names, default) ==
  LET given == {i \in DOMAIN opts : opts[i].opt \in names} IN IF given = {} THEN default ELSE opts[Max(given)]

parse_ip_addresses_from_args_All(first, rest) == <<first>> \o rest      \* a variant: no MAX_SERVERS

\* The addresses after the options, as far as there is room for them.
parse_ip_addresses_from_args(first, rest) ==
  <<first>> \o SubSeq(rest, 1, IF Len(rest) < MAX_SERVERS THEN Len(rest) ELSE MAX_SERVERS - 1)

parse_arguments ==
  LET opts == args.opts
      ip   == LastOption(opts, {"i"}, [opt |-> "none", arg |-> Invalid])
      list == IF ip.opt = "i" THEN parse_ip_addresses_from_args(ip.arg, args.rest) ELSE <<>>
  IN /\ pc = "args"
     /\ IF (\E o \in ToSet(opts) : Ends(o)) \/ Invalid \in ToSet(list)
        THEN pc' = "failed" /\ UNCHANGED cfg
        ELSE /\ pc' = "discover"
             /\ cfg' = [use_broadcast |-> LastOption(opts, {"b", "i"}, [opt |-> "b"]).opt = "b",
                        server_list   |-> list,
                        points        |-> LastOption(opts, {"p"}, [arg |-> DefaultPoints]).arg]
     /\ UNCHANGED <<args, jobs, total, joined, network, servers>>

-----------------------------------------------------------------------------
(* Discovery. *)

discover_servers ==
  /\ pc = "discover" /\ ~cfg.use_broadcast /\ pc' = "validate"
  /\ UNCHANGED <<args, cfg, jobs, total, joined, network, servers>>

\* The broadcast reaches every server that listens, or is lost on its way to some.
discover_servers_udp ==
  /\ pc = "discover" /\ cfg.use_broadcast /\ pc' = "receive"
  /\ cfg' = [cfg EXCEPT !.server_list = <<>>]
  /\ \E reached \in IF "loss" \in Faults THEN SUBSET udp ELSE {udp} : requests' = reached
  /\ UNCHANGED <<args, jobs, total, joined, answers, socks, servers>>

D_Receive_Repeats(h) ==      \* a variant: does not look for the address in the list
  /\ pc = "receive" /\ Len(cfg.server_list) < MAX_SERVERS /\ answers[h] > 0
  /\ answers' = [answers EXCEPT ![h] = @ - 1]
  /\ cfg' = [cfg EXCEPT !.server_list = Append(@, [host |-> h, port |-> TCP_TASK_PORT])]
  /\ UNCHANGED <<pc, args, jobs, total, joined, requests, socks, servers>>

\* A response counts if its address is new; the port is always the standard one.
D_Receive(h) ==
  LET s == [host |-> h, port |-> TCP_TASK_PORT] IN
  /\ pc = "receive" /\ Len(cfg.server_list) < MAX_SERVERS /\ answers[h] > 0
  /\ answers' = [answers EXCEPT ![h] = @ - 1]
  /\ cfg' = IF s \in ToSet(cfg.server_list) THEN cfg ELSE [cfg EXCEPT !.server_list = Append(@, s)]
  /\ UNCHANGED <<pc, args, jobs, total, joined, requests, socks, servers>>

Silence_Never == FALSE      \* a variant: no SO_RCVTIMEO

\* recvfrom() gives up when nothing has come for the whole timeout.
Silence == \A h \in Hosts : answers[h] = 0

D_Done ==
  /\ pc = "receive" /\ pc' = "validate"
  /\ Len(cfg.server_list) = MAX_SERVERS \/ Silence
  /\ UNCHANGED <<args, cfg, jobs, total, joined, network, servers>>

validate_server_count ==
  /\ pc = "validate" /\ pc' = IF cfg.server_list = <<>> THEN "failed" ELSE "create"
  /\ UNCHANGED <<args, cfg, jobs, total, joined, network, servers>>

-----------------------------------------------------------------------------
(* compute_integral_distributed *)

num_strips == Len(cfg.server_list)

points_for_strip_Rounded(i) == (cfg.points + num_strips - 1) \div num_strips      \* a variant

points_for_strip(i) ==
  (cfg.points \div num_strips) + (IF i <= cfg.points % num_strips THEN 1 ELSE 0)

Strip(i) ==
  LET width == XMax \div num_strips IN
  [x_min  |-> (i - 1) * width,
   x_max  |-> IF i = num_strips THEN XMax ELSE i * width,
   points |-> points_for_strip(i)]

\* One round of the loop: the job is filled in and its thread starts.
CreateThread ==
  LET i == Len(jobs) + 1 IN
  /\ pc = "create"
  /\ jobs' = Append(jobs, [server |-> cfg.server_list[i], task |-> Strip(i), status |-> -1,
                           result |-> Nothing, at |-> "connect"])
  /\ socks' = Append(socks, [state |-> "none", task |-> Nothing, result |-> Nothing])
  /\ pc' = IF i = num_strips THEN "join" ELSE "create"
  /\ UNCHANGED <<args, cfg, total, joined, requests, answers, servers>>

\* send_task_to_server() in a thread.
T_Connect(i) ==
  /\ jobs[i].at = "connect"
  /\ IF jobs[i].server \in tcp
     THEN jobs' = [jobs EXCEPT ![i].at = "write"] /\ socks' = [socks EXCEPT ![i].state = "queued"]
     ELSE jobs' = [jobs EXCEPT ![i].at = "end"] /\ UNCHANGED socks
  /\ UNCHANGED <<pc, args, cfg, total, joined, requests, answers, servers>>

\* A connection that the server's end has closed may still take the task.
T_Write(i) ==
  /\ jobs[i].at = "write"
  /\ \/ /\ jobs' = [jobs EXCEPT ![i].at = "read"]
        /\ socks' = [socks EXCEPT ![i].task = <<jobs[i].task>>]
     \/ /\ socks[i].state = "closed"
        /\ jobs' = [jobs EXCEPT ![i].at = "end"] /\ UNCHANGED socks
  /\ UNCHANGED <<pc, args, cfg, total, joined, requests, answers, servers>>

\* No timeout: read() returns when there is a result or the connection is closed.
T_Read(i) ==
  /\ jobs[i].at = "read" /\ socks[i].state = "closed"
  /\ jobs' = [jobs EXCEPT ![i].at = "end", ![i].result = socks[i].result,
                          ![i].status = IF socks[i].result = Nothing THEN -1 ELSE 0]
  /\ UNCHANGED <<pc, args, cfg, total, joined, network, servers>>

J_Join_Early ==      \* a variant: adds the results without pthread_join()
  LET i == joined + 1 IN
  /\ pc = "join" /\ joined' = i
  /\ total' = IF jobs[i].status = 0 THEN total \o jobs[i].result ELSE total
  /\ pc' = IF i = num_strips THEN "done" ELSE "join"
  /\ UNCHANGED <<args, cfg, jobs, network, servers>>

\* The result of a thread that failed is left out.
J_Join ==
  LET i == joined + 1 IN
  /\ pc = "join" /\ jobs[i].at = "end" /\ joined' = i
  /\ total' = IF jobs[i].status = 0 THEN total \o jobs[i].result ELSE total
  /\ pc' = IF i = num_strips THEN "done" ELSE "join"
  /\ UNCHANGED <<args, cfg, jobs, network, servers>>

-----------------------------------------------------------------------------
(* The servers: two threads, one for each socket, and one for each connection. *)

Runs(s) == s \notin stopped

\* A response may be lost, or arrive twice; after discovery it is dropped.
start_udp_discovery_server(s) ==
  /\ s \in requests \cap udp /\ Runs(s)
  /\ requests' = requests \ {s}
  /\ \E n \in {1} \cup {0 : f \in Faults \cap {"loss"}} \cup {2 : f \in Faults \cap {"copy"}} :
       answers' = [answers EXCEPT ![s.host] = IF pc = "receive" THEN @ + n ELSE @]
  /\ UNCHANGED <<client, socks, servers>>

start_tcp_task_server(i) ==
  /\ socks[i].state = "queued" /\ Runs(jobs[i].server)
  /\ socks' = [socks EXCEPT ![i].state = "served"]
  /\ UNCHANGED <<client, requests, answers, servers>>

\* 0 points make 0/0.
Compute(task) == [task |-> task, value |-> IF task.points = 0 THEN "NaN" ELSE "number"]

handle_client(i) ==
  /\ socks[i].state = "served" /\ socks[i].task # Nothing /\ Runs(jobs[i].server)
  /\ socks' = [socks EXCEPT ![i].state = "closed", ![i].result = <<Compute(Head(socks[i].task))>>]
  /\ UNCHANGED <<client, requests, answers, servers>>

\* A server is started; each of its threads opens its socket in its own time.
OpenUdp(s) ==
  /\ s \notin udp /\ (s \in tcp \/ changes < MaxChanges)
  /\ changes' = IF s \in tcp THEN changes ELSE changes + 1
  /\ udp' = udp \cup {s}
  /\ UNCHANGED <<client, network, tcp, stopped, unready>>

OpenTcp(s) ==
  /\ s \notin tcp /\ (s \in udp \/ changes < MaxChanges)
  /\ changes' = IF s \in udp THEN changes ELSE changes + 1
  /\ tcp' = tcp \cup {s}
  /\ UNCHANGED <<client, network, udp, stopped, unready>>

Crash(s) ==
  /\ "crash" \in Faults /\ s \in udp \cup tcp /\ Runs(s)
  /\ changes < MaxChanges /\ changes' = changes + 1
  /\ udp' = udp \ {s} /\ tcp' = tcp \ {s} /\ unready' = unready \cup {s}
  /\ requests' = requests \ {s}
  /\ socks' = [i \in DOMAIN socks |->
                 IF jobs[i].server = s /\ socks[i].state # "none" THEN [socks[i] EXCEPT !.state = "closed"] ELSE socks[i]]
  /\ UNCHANGED <<client, answers, stopped>>

\* The process is stopped, or waits for ever; its kernel accepts connections.
Stop(s) ==
  /\ "stop" \in Faults /\ s \in udp \cap tcp /\ Runs(s)
  /\ changes < MaxChanges /\ changes' = changes + 1
  /\ stopped' = stopped \cup {s} /\ unready' = unready \cup {s}
  /\ UNCHANGED <<client, network, udp, tcp>>

-----------------------------------------------------------------------------
Client ==
  \/ parse_arguments \/ discover_servers \/ discover_servers_udp
  \/ \E h \in Hosts : D_Receive(h)
  \/ D_Done \/ validate_server_count \/ CreateThread \/ J_Join
  \/ \E i \in DOMAIN jobs : T_Connect(i) \/ T_Write(i) \/ T_Read(i)

Serve ==
  \/ \E s \in Servers : start_udp_discovery_server(s)
  \/ \E i \in DOMAIN jobs : start_tcp_task_server(i) \/ handle_client(i)

Changes == \E s \in Servers : OpenUdp(s) \/ OpenTcp(s) \/ Crash(s) \/ Stop(s)

Next == Client \/ Serve \/ Changes

Spec == Init /\ [][Next]_vars

\* The client and every server that is not stopped are scheduled.
FairSpec == Spec /\ WF_vars(Client) /\ WF_vars(Serve)

-----------------------------------------------------------------------------
(* Properties. *)

TypeOK ==
  /\ pc \in {"args", "discover", "receive", "validate", "create", "join", "done", "failed"}
  /\ Len(cfg.server_list) <= MAX_SERVERS /\ ToSet(cfg.server_list) \subseteq Addresses \ {Invalid}
  /\ \A i \in DOMAIN jobs : jobs[i].at \in {"connect", "write", "read", "end"} /\ jobs[i].status \in {-1, 0}
  /\ Len(socks) = Len(jobs) /\ joined \in 0..Len(jobs)
  /\ requests \subseteq Servers /\ answers \in [Hosts -> Nat]
  /\ tcp \cup udp \cup stopped \subseteq Servers

\* The tasks cut up the region and the points: no part of either is missing or
\* given to two servers, however many servers there are.
StripsPartition ==
  pc \in {"join", "done"} =>
    /\ \A x \in 0..XMax - 1 : Cardinality({i \in DOMAIN jobs : jobs[i].task.x_min <= x /\ x < jobs[i].task.x_max}) = 1
    /\ FoldFunction(+, 0, [i \in DOMAIN jobs |-> jobs[i].task.points]) = cfg.points

\* What has been added are results of different strips, each the answer to the
\* task that this strip was given, whatever order the servers answer in; and what
\* has not been added is the strip of a server that was not ready all the time.
\* The sum is a number, unless there are fewer points than servers.
SumOfStrips ==
  /\ \A m, n \in DOMAIN total : m < n => total[m].task.x_max <= total[n].task.x_min
  /\ \A i \in 1..joined :
       (\E n \in DOMAIN total : total[n].task = jobs[i].task) \/ jobs[i].server \in unready
  /\ cfg.points >= num_strips => \A n \in DOMAIN total : total[n].value = "number"

\* No server found by the broadcast gets two strips, although responses may be
\* repeated, and several servers on one host all answer.
FoundOnce == cfg.use_broadcast /\ pc \notin {"args", "discover"} => IsInjective(cfg.server_list)

\* The client ends, whatever is lost or crashes, unless a server that has its
\* strip has stopped without closing the connection.
ClientEnds == <>(pc \in {"done", "failed"} \/ \E i \in DOMAIN jobs : jobs[i].server \in stopped)

=============================================================================

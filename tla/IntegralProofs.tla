--------------------------- MODULE IntegralProofs ---------------------------
(* Proofs about Integral, for any servers, command lines, points and faults: the *)
(* tasks cut up the region and the points, and the sum has the results of        *)
(* different strips, all but those of servers that were not ready.               *)
EXTENDS Integral, FoldTheorems

Answer(i) == Compute(jobs[i].task)

Tasks   == [x_min : Int, x_max : Int, points : Nat]
Results == [task : Tasks, value : {"NaN", "number"}]

JobRecords ==
  [server : Addresses, task : Tasks, status : {-1, 0}, result : Seq(Results), at : {"connect", "write", "read", "end"}]

SockRecords == [state : {"none", "queued", "served", "closed"}, task : Seq(Tasks), result : Seq(Results)]

Configs == [use_broadcast : BOOLEAN, server_list : Seq(Addresses \ {Invalid}), points : Nat]

\* The values of the variables.
ClientTyped ==
  /\ pc \in {"args", "discover", "receive", "validate", "create", "join", "done", "failed"}
  /\ args \in Arguments
  /\ cfg \in Configs
  /\ Len(cfg.server_list) <= MAX_SERVERS
  /\ jobs \in Seq(JobRecords) /\ total \in Seq(Results) /\ joined \in 0..Len(jobs)

NetworkTyped ==
  /\ requests \subseteq Servers /\ answers \in [Hosts -> Nat]
  /\ socks \in Seq(SockRecords) /\ Len(socks) = Len(jobs)
  /\ tcp \subseteq Servers /\ udp \subseteq Servers /\ stopped \subseteq Servers

\* A server whose socket is not ready now is one that was not ready some time.
ReadyOrNot == Addresses \subseteq tcp \cup unready

\* How far the client is: there is a job for each server of the list when the
\* threads are joined, and none before.
Stage ==
  /\ pc = "args" => cfg.server_list = <<>>
  /\ pc \in {"args", "discover", "receive", "validate", "failed"} => jobs = <<>>
  /\ pc = "create" => Len(jobs) < num_strips /\ joined = 0
  /\ pc = "join" => Len(jobs) = num_strips /\ joined < num_strips
  /\ pc = "done" => Len(jobs) = num_strips /\ joined = num_strips /\ num_strips > 0

\* Each job has the strip of its number, and the server of that place in the list.
JobsAre == \A i \in 1..Len(jobs) : jobs[i].task = Strip(i) /\ jobs[i].server = cfg.server_list[i]

\* What a connection s carries is the task of its job j and the answer to it; if it is
\* closed without an answer, or cannot be opened, the server is in u, of those not ready
\* some time.
Fits(j, s, u) ==
  /\ s.task \in {Nothing, <<j.task>>} /\ s.result \in {Nothing, <<Compute(j.task)>>}
  /\ s.state = "closed" /\ s.result = Nothing => j.server \in u
  /\ j.at = "connect" => s.state = "none"
  /\ j.at \in {"connect", "write"} => s.task = Nothing /\ s.result = Nothing
  /\ j.at # "end" => j.status = -1
  /\ j.at = "end" => \/ j.status = 0 /\ j.result = <<Compute(j.task)>>
                     \/ j.status = -1 /\ j.server \in u

Connections == \A i \in 1..Len(jobs) : Fits(jobs[i], socks[i], unready)

\* What has been added are answers to the first jobs, and what is missing is excused.
Added ==
  /\ \A n \in 1..Len(total) : \E i \in 1..joined : total[n] = Answer(i)
  /\ \A m, n \in 1..Len(total) : m < n => total[m].task.x_max <= total[n].task.x_min
  /\ \A i \in 1..joined : (\E n \in 1..Len(total) : total[n].task = jobs[i].task) \/ jobs[i].server \in unready

IInv ==
  ClientTyped /\ NetworkTyped /\ ReadyOrNot /\ Stage /\ FoundOnce /\ JobsAre /\ Connections /\ Added

-----------------------------------------------------------------------------
(* Constants and operators. *)

\* What the constants are.
LEMMA ConstantsTyped ==
  /\ TCP_TASK_PORT \in Nat \ {0} /\ MAX_SERVERS \in Nat \ {0} /\ DefaultPoints \in Nat \ {0} /\ XMax \in Nat
  /\ \A g \in Arguments : /\ g.opts \in Seq(ToSet(g.opts)) /\ g.rest \in Seq(ToSet(g.rest))
                          /\ \A o \in ToSet(g.opts) : o.opt = "p" => o.arg \in Nat
  BY ConstantsAssumption

\* The empty sequence has no elements, of whatever set.
LEMMA EmptySequence == \A S : <<>> \in Seq(S) /\ Len(<<>>) = 0
  OBVIOUS

\* A list has a last element with a given property, if it has one at all.
LEMMA LastPlace ==
  ASSUME NEW n \in Nat, NEW S \in SUBSET (1..n), S # {}
  PROVE  Max(S) \in S
<1> DEFINE D == {n - x : x \in S}
<1>1. D \in SUBSET Nat /\ D # {}
  <2>1. \A x \in S : x \in 1..n /\ n - x \in Nat
    OBVIOUS
  <2>2. QED
    BY <2>1
<1>2. PICK d \in D : \A e \in D : d <= e
  BY <1>1, LeastNumber
<1>3. PICK x \in S : d = n - x
  BY <1>2
<1>4. \A y \in S : x >= y
  <2> SUFFICES ASSUME NEW y \in S PROVE x >= y
    OBVIOUS
  <2>1. n - y \in D
    OBVIOUS
  <2>2. d <= n - y /\ x \in Int /\ y \in Int
    BY <1>2, <2>1
  <2>3. QED
    BY <1>3, <2>2
<1>5. QED
  BY <1>4 DEF Max

\* An option is what was given last, or the default.
LEMMA LastOptionGiven ==
  ASSUME NEW opts, opts \in Seq(ToSet(opts)), NEW names, NEW default
  PROVE  \/ LastOption(opts, names, default) = default
         \/ /\ LastOption(opts, names, default) \in ToSet(opts)
            /\ LastOption(opts, names, default).opt \in names
<1> DEFINE given == {i \in DOMAIN opts : opts[i].opt \in names}
<1>1. CASE given = {}
  BY <1>1 DEF LastOption
<1>2. CASE given # {}
  <2>1. Len(opts) \in Nat /\ given \in SUBSET (1..Len(opts))
    OBVIOUS
  <2>2. Max(given) \in given
    BY ONLY <1>2, <2>1, LastPlace
  <2>3. LastOption(opts, names, default) = opts[Max(given)]
    BY <1>2 DEF LastOption
  <2>4. QED
    BY <2>2, <2>3 DEF ToSet
<1>3. QED
  BY <1>1, <1>2

\* The list of the addresses given has no more than there is room for.
LEMMA AddressesGiven ==
  ASSUME NEW first, NEW rest, rest \in Seq(ToSet(rest))
  PROVE  LET list == parse_ip_addresses_from_args(first, rest) IN
         /\ list \in Seq(ToSet(list)) /\ Len(list) <= MAX_SERVERS
         /\ ToSet(list) \subseteq {first} \cup ToSet(rest)
<1> DEFINE n == IF Len(rest) < MAX_SERVERS THEN Len(rest) ELSE MAX_SERVERS - 1
           S == {first} \cup ToSet(rest)
           tail == SubSeq(rest, 1, n)
           list == <<first>> \o tail
<1>1. n \in Nat /\ n <= Len(rest) /\ n < MAX_SERVERS /\ Len(rest) \in Nat
  BY ConstantsTyped
<1>2. rest \in Seq(S)
  OBVIOUS
<1> HIDE DEF n, S
<1>3. tail \in Seq(S) /\ Len(tail) = n
  BY <1>1, <1>2
<1>4. <<first>> \in Seq(S) /\ Len(<<first>>) = 1
  BY DEF S
<1>5. list \in Seq(S) /\ Len(list) = 1 + n
  BY <1>3, <1>4
<1> HIDE DEF list
<1>6. list \in Seq(ToSet(list)) /\ ToSet(list) \subseteq S
  BY <1>5 DEF ToSet
<1>7. list = parse_ip_addresses_from_args(first, rest)
  BY DEF list, n, parse_ip_addresses_from_args
<1>8. QED
  BY <1>1, <1>5, <1>6, <1>7, ConstantsTyped DEF S

-----------------------------------------------------------------------------
(* The start and the discovery. *)

\* A client that has just been started.
LEMMA InitInvariant == Init => IInv
<1> SUFFICES ASSUME Init PROVE IInv
  OBVIOUS
<1> USE DEF Init
<1>1. ClientTyped
  <2>1. cfg \in Configs /\ Len(cfg.server_list) = 0
    BY ConstantsTyped DEF Configs
  <2>2. QED
    BY <2>1, ConstantsTyped DEF ClientTyped
<1>2. NetworkTyped
  BY DEF NetworkTyped
<1>3. ReadyOrNot /\ FoundOnce /\ JobsAre /\ Connections /\ Added
  BY DEF ReadyOrNot, FoundOnce, JobsAre, Connections, Added
<1>4. Stage
  BY DEF Stage
<1>5. QED
  BY <1>1, <1>2, <1>3, <1>4 DEF IInv

\* Before there are jobs, what is said of jobs and sum is not affected by a step.
LEMMA NoJobsYet ==
  ASSUME IInv, jobs = <<>>, UNCHANGED <<args, jobs, total, joined, socks, tcp, udp, stopped, unready>>,
         pc' \in {"discover", "receive", "validate", "create", "failed"},
         cfg' \in Configs, Len(cfg'.server_list) <= MAX_SERVERS,
         pc' = "create" => cfg'.server_list # <<>>,
         requests' \subseteq Servers, answers' \in [Hosts -> Nat], FoundOnce'
  PROVE  IInv'
<1>1. ClientTyped'
  BY DEF IInv, ClientTyped
<1>2. NetworkTyped'
  BY DEF IInv, NetworkTyped
<1>3. ReadyOrNot'
  BY DEF IInv, ReadyOrNot
<1>4. Stage'
  <2>1. joined = 0 /\ cfg'.server_list \in Seq(Addresses \ {Invalid})
    BY DEF IInv, ClientTyped, Configs
  <2>2. pc' = "create" => Len(cfg'.server_list) > 0
    BY <2>1
  <2>3. QED
    BY <2>1, <2>2 DEF Stage, num_strips
<1>5. Added'
  BY DEF IInv, Added, Answer
<1>6. JobsAre' /\ Connections'
  BY DEF JobsAre, Connections
<1>7. QED
  BY <1>1, <1>2, <1>3, <1>4, <1>5, <1>6 DEF IInv

\* The command line gives valid addresses, or none.
LEMMA ParseKeepsInv == IInv /\ parse_arguments => IInv'
<1> SUFFICES ASSUME IInv, parse_arguments PROVE IInv'
  OBVIOUS
<1> DEFINE opts == args.opts
           ip   == LastOption(opts, {"i"}, [opt |-> "none", arg |-> Invalid])
           list == IF ip.opt = "i" THEN parse_ip_addresses_from_args(ip.arg, args.rest) ELSE <<>>
           points == LastOption(opts, {"p"}, [arg |-> DefaultPoints]).arg
           broadcast == LastOption(opts, {"b", "i"}, [opt |-> "b"]).opt = "b"
<1>1. /\ args \in Arguments /\ opts \in Seq(ToSet(opts)) /\ args.rest \in Seq(ToSet(args.rest))
      /\ \A o \in ToSet(opts) : o.opt = "p" => o.arg \in Nat
  BY ConstantsTyped DEF IInv, ClientTyped
<1>2. /\ pc = "args" /\ UNCHANGED <<args, jobs, total, joined, network, servers>>
      /\ \/ pc' = "failed" /\ cfg' = cfg
         \/ /\ pc' = "discover" /\ Invalid \notin ToSet(list)
            /\ cfg' = [use_broadcast |-> broadcast, server_list |-> list, points |-> points]
  BY DEF parse_arguments
<1>3. points \in Nat
  <2> DEFINE o == LastOption(opts, {"p"}, [arg |-> DefaultPoints])
  <2>1. o = [arg |-> DefaultPoints] \/ (o \in ToSet(opts) /\ o.opt \in {"p"})
    BY <1>1, LastOptionGiven
  <2> HIDE DEF o
  <2>2. o.arg \in Nat
    BY <1>1, <2>1, ConstantsTyped
  <2>3. QED
    BY <2>2 DEF o
<1>4. list \in Seq(ToSet(list)) /\ Len(list) <= MAX_SERVERS /\ ToSet(list) \subseteq Addresses
  <2>1. CASE ip.opt = "i"
    <3>1. ip \in ToSet(opts)
      <4>1. ip = [opt |-> "none", arg |-> Invalid] \/ ip \in ToSet(opts)
        BY <1>1, LastOptionGiven
      <4>2. [opt |-> "none", arg |-> Invalid].opt # "i"
        OBVIOUS
      <4>3. QED
        BY <2>1, <4>1, <4>2
    <3> HIDE DEF ip
    <3>2. {ip.arg} \cup ToSet(args.rest) \subseteq Addresses
      BY <1>1, <2>1, <3>1 DEF Addresses
    <3>3. list = parse_ip_addresses_from_args(ip.arg, args.rest)
      BY <2>1
    <3>4. /\ list \in Seq(ToSet(list)) /\ Len(list) <= MAX_SERVERS
          /\ ToSet(list) \subseteq {ip.arg} \cup ToSet(args.rest)
      BY <1>1, <3>3, AddressesGiven
    <3>5. QED
      BY <3>2, <3>4
  <2>2. CASE ip.opt # "i"
    <3>1. list = <<>>
      BY <2>2
    <3> HIDE DEF list
    <3>2. QED
      BY <3>1, ConstantsTyped DEF ToSet
  <2>3. QED
    BY <2>1, <2>2
<1> HIDE DEF opts, ip, list, points, broadcast
<1>5. jobs = <<>> /\ requests \subseteq Servers /\ answers \in [Hosts -> Nat]
  BY <1>2 DEF IInv, Stage, NetworkTyped
<1>6. CASE pc' = "failed" /\ cfg' = cfg
  <2>1. cfg.server_list = <<>> /\ cfg \in Configs /\ Len(cfg.server_list) <= MAX_SERVERS
    BY <1>2 DEF IInv, Stage, ClientTyped
  <2>2. FoundOnce'
    BY <1>6, <2>1 DEF FoundOnce, IsInjective
  <2>3. QED
    BY <1>2, <1>5, <1>6, <2>1, <2>2, NoJobsYet DEF network, servers
<1>7. CASE /\ pc' = "discover" /\ Invalid \notin ToSet(list)
           /\ cfg' = [use_broadcast |-> broadcast, server_list |-> list, points |-> points]
  <2>1. list \in Seq(Addresses \ {Invalid})
    BY <1>4, <1>7
  <2>2. broadcast \in BOOLEAN
    BY DEF broadcast
  <2>3. cfg' \in Configs /\ cfg'.server_list = list
    BY <1>3, <1>7, <2>1, <2>2 DEF Configs
  <2>4. FoundOnce'
    BY <1>7 DEF FoundOnce
  <2>5. QED
    BY <1>2, <1>4, <1>5, <1>7, <2>3, <2>4, NoJobsYet DEF network, servers
<1>8. QED
  BY <1>2, <1>6, <1>7

\* The steps of the discovery; no address gets into the list twice.
LEMMA DiscoveryKeepsInv ==
  ASSUME IInv,
         \/ discover_servers \/ discover_servers_udp \/ D_Done \/ validate_server_count
         \/ \E h \in Hosts : D_Receive(h)
  PROVE  IInv'
<1> USE DEF network, servers
<1>1. /\ pc \in {"discover", "receive", "validate"} => jobs = <<>>
      /\ cfg \in Configs /\ Len(cfg.server_list) <= MAX_SERVERS
      /\ requests \subseteq Servers /\ answers \in [Hosts -> Nat] /\ udp \subseteq Servers
      /\ cfg.server_list \in Seq(Addresses \ {Invalid})
  BY DEF IInv, ClientTyped, NetworkTyped, Stage, Configs
<1>2. CASE discover_servers
  <2>1. FoundOnce'
    BY <1>2 DEF discover_servers, FoundOnce
  <2>2. QED
    BY <1>1, <1>2, <2>1, NoJobsYet DEF discover_servers
<1>3. CASE discover_servers_udp
  <2>1. cfg'.server_list = <<>> /\ cfg' \in Configs /\ Len(cfg'.server_list) = 0
    <3>1. PICK l \in Seq(Addresses \ {Invalid}) : l = <<>> /\ Len(l) = 0
      BY EmptySequence
    <3>2. cfg' = [cfg EXCEPT !.server_list = l]
      BY <1>3, <3>1 DEF discover_servers_udp
    <3>3. QED
      BY <1>1, <3>1, <3>2 DEF Configs
  <2>2. FoundOnce'
    BY <2>1 DEF FoundOnce, IsInjective
  <2>3. /\ pc = "discover" /\ pc' = "receive" /\ requests' \subseteq Servers
        /\ UNCHANGED <<args, jobs, total, joined, answers, socks, servers>>
    BY <1>1, <1>3 DEF discover_servers_udp
  <2>4. QED
    BY <1>1, <2>1, <2>2, <2>3, ConstantsTyped, NoJobsYet
<1>4. CASE D_Done
  <2>1. FoundOnce'
    BY <1>4 DEF D_Done, IInv, FoundOnce
  <2>2. QED
    BY <1>1, <1>4, <2>1, NoJobsYet DEF D_Done
<1>5. CASE validate_server_count
  <2>1. FoundOnce'
    BY <1>5 DEF validate_server_count, IInv, FoundOnce
  <2>2. QED
    BY <1>1, <1>5, <2>1, NoJobsYet DEF validate_server_count
<1>6. ASSUME NEW h \in Hosts, D_Receive(h) PROVE IInv'
  <2> DEFINE s == [host |-> h, port |-> TCP_TASK_PORT]
             list == cfg.server_list
  <2>1. /\ pc = "receive" /\ Len(list) < MAX_SERVERS /\ answers[h] > 0
        /\ answers' = [answers EXCEPT ![h] = @ - 1]
        /\ cfg' = IF s \in ToSet(list) THEN cfg ELSE [cfg EXCEPT !.server_list = Append(@, s)]
        /\ UNCHANGED <<pc, args, jobs, total, joined, requests, socks, servers>>
    BY <1>6 DEF D_Receive
  <2>2. s \in Addresses \ {Invalid}
    BY ConstantsTyped DEF Addresses, Invalid
  <2>3. answers' \in [Hosts -> Nat]
    BY <1>1, <2>1
  <2>4. FoundOnce
    BY DEF IInv
  <2>5. CASE s \in ToSet(list)
    <3>1. FoundOnce'
      BY <2>1, <2>4, <2>5 DEF FoundOnce
    <3>2. QED
      BY <1>1, <2>1, <2>3, <2>5, <3>1, NoJobsYet
  <2>6. CASE s \notin ToSet(list)
    <3> HIDE DEF s
    <3>1. PICK l : l = Append(list, s)
      OBVIOUS
    <3>2. /\ l \in Seq(Addresses \ {Invalid}) /\ Len(l) = Len(list) + 1 /\ Len(l) <= MAX_SERVERS
          /\ \A i \in 1..Len(l) : l[i] = IF i <= Len(list) THEN list[i] ELSE s
      <4>1. PICK S : S = Addresses \ {Invalid}
        OBVIOUS
      <4>2. list \in Seq(S) /\ s \in S
        BY <1>1, <2>2, <4>1
      <4>3. Len(list) \in Nat /\ Len(list) < MAX_SERVERS /\ MAX_SERVERS \in Nat
        BY <2>1, <4>2, ConstantsTyped
      <4> HIDE DEF list
      <4>4. l \in Seq(S) /\ Len(l) = Len(list) + 1 /\ \A i \in 1..Len(l) : l[i] = IF i <= Len(list) THEN list[i] ELSE s
        BY ONLY <3>1, <4>2
      <4>5. QED
        BY <4>1, <4>3, <4>4
    <3>3. cfg' = [cfg EXCEPT !.server_list = l]
      BY <2>1, <2>6, <3>1
    <3>4. cfg' \in Configs /\ cfg'.server_list = l /\ cfg'.use_broadcast = cfg.use_broadcast
      BY <1>1, <3>2, <3>3 DEF Configs
    <3>5. cfg.use_broadcast => IsInjective(list)
      BY <2>1, <2>4 DEF FoundOnce
    <3>6. IsInjective(list) => IsInjective(l)
      <4> SUFFICES ASSUME IsInjective(list), NEW a \in DOMAIN l, NEW b \in DOMAIN l, l[a] = l[b] PROVE a = b
        BY DEF IsInjective
      <4>1. a \in 1..Len(list) + 1 /\ b \in 1..Len(list) + 1 /\ Len(list) \in Nat
        BY <1>1, <3>2
      <4>2. \A i \in 1..Len(list) : list[i] # s
        BY <1>1, <2>6 DEF ToSet
      <4>3. /\ a <= Len(list) => l[a] = list[a] /\ l[a] # s /\ a \in DOMAIN list
            /\ a > Len(list) => l[a] = s
            /\ b <= Len(list) => l[b] = list[b] /\ l[b] # s /\ b \in DOMAIN list
            /\ b > Len(list) => l[b] = s
        BY <1>1, <3>2, <4>1, <4>2
      <4>4. QED
        BY <4>1, <4>3 DEF IsInjective
    <3>7. FoundOnce'
      BY <2>1, <3>4, <3>5, <3>6 DEF FoundOnce
    <3>8. QED
      BY <1>1, <2>1, <2>3, <3>2, <3>4, <3>7, NoJobsYet
  <2>7. QED
    BY <2>5, <2>6
<1>7. QED
  BY <1>2, <1>3, <1>4, <1>5, <1>6

-----------------------------------------------------------------------------
(* The jobs. *)

\* A strip is a part of the region with a share of the points.
LEMMA StripTyped ==
  ASSUME ClientTyped, num_strips > 0, NEW i \in 1..num_strips
  PROVE  Strip(i) \in Tasks /\ cfg.server_list[i] \in Addresses /\ num_strips \in Nat
<1> DEFINE n == num_strips
<1>1. /\ n \in Nat \ {0} /\ n <= MAX_SERVERS /\ cfg.points \in Nat /\ XMax \in Nat
      /\ cfg.server_list[i] \in Addresses
  BY ConstantsTyped DEF ClientTyped, Configs, num_strips
<1> HIDE DEF n
<1>2. XMax \div n \in Nat /\ cfg.points \div n \in Nat /\ cfg.points % n \in Nat
  BY <1>1
<1>3. PICK w \in Nat : w = XMax \div n
  BY <1>2
<1>4. (i - 1) * w \in Int /\ i * w \in Int
  BY DEF n
<1>5. points_for_strip(i) \in Nat
  BY <1>2 DEF points_for_strip, n
<1>6. QED
  BY <1>1, <1>3, <1>4, <1>5 DEF Strip, Tasks, n

\* The answer to a task is a number, or is not.
LEMMA ComputeTyped == \A t \in Tasks : Compute(t) \in Results /\ Compute(t).task = t
  BY DEF Compute, Results

\* A new job has the next strip and the next server, and no connection yet.
LEMMA CreateKeepsInv == IInv /\ CreateThread => IInv'
<1> SUFFICES ASSUME IInv, CreateThread PROVE IInv'
  OBVIOUS
<1> DEFINE n == Len(jobs)
           i == n + 1
           j == [server |-> cfg.server_list[i], task |-> Strip(i), status |-> -1, result |-> Nothing, at |-> "connect"]
           s == [state |-> "none", task |-> Nothing, result |-> Nothing]
<1>1. /\ pc = "create" /\ jobs' = Append(jobs, j) /\ socks' = Append(socks, s)
      /\ pc' = IF i = num_strips THEN "join" ELSE "create"
      /\ UNCHANGED <<args, cfg, total, joined, requests, answers, servers>>
  BY DEF CreateThread
<1>2. n \in Nat /\ n < num_strips /\ joined = 0 /\ num_strips \in Nat /\ Len(socks) = n
  BY <1>1 DEF IInv, Stage, ClientTyped, NetworkTyped, Configs, num_strips
<1>3. Strip(i) \in Tasks /\ cfg.server_list[i] \in Addresses
  BY <1>2, StripTyped DEF IInv
<1>4. j \in JobRecords /\ j.server = cfg.server_list[i] /\ j.task = Strip(i) /\ j.at = "connect" /\ j.status = -1
  BY <1>3 DEF JobRecords, Nothing
<1>5. s \in SockRecords /\ s.state = "none" /\ s.task = Nothing /\ s.result = Nothing
  BY DEF SockRecords, Nothing
<1> HIDE DEF j, s
<1>6. /\ jobs' \in Seq(JobRecords) /\ Len(jobs') = i
      /\ \A k \in 1..i : jobs'[k] = IF k <= n THEN jobs[k] ELSE j
  BY <1>1, <1>4 DEF IInv, ClientTyped
<1>7. /\ socks' \in Seq(SockRecords) /\ Len(socks') = i
      /\ \A k \in 1..i : socks'[k] = IF k <= n THEN socks[k] ELSE s
  BY <1>1, <1>2, <1>5 DEF IInv, NetworkTyped
<1> HIDE DEF i
<1>8. i \in Nat /\ i = n + 1
  BY <1>2 DEF i
<1>9. ClientTyped'
  BY <1>1, <1>2, <1>6, <1>8 DEF IInv, ClientTyped
<1>10. NetworkTyped' /\ ReadyOrNot' /\ FoundOnce'
  BY <1>1, <1>6, <1>7 DEF IInv, NetworkTyped, ReadyOrNot, FoundOnce, servers
<1>11. Stage'
  BY <1>1, <1>2, <1>6, <1>8 DEF Stage, num_strips
<1>12. JobsAre'
  <2> SUFFICES ASSUME NEW k \in 1..i PROVE jobs'[k].task = Strip(k)' /\ jobs'[k].server = cfg'.server_list[k]
    BY <1>6 DEF JobsAre
  <2>1. Strip(k)' = Strip(k) /\ cfg' = cfg
    BY <1>1 DEF Strip, points_for_strip, num_strips
  <2>2. k <= n => k \in 1..n /\ jobs'[k] = jobs[k]
    BY <1>2, <1>6, <1>8
  <2>3. k > n => k = i /\ jobs'[k] = j
    BY <1>2, <1>6, <1>8
  <2>4. QED
    BY <1>2, <1>4, <1>8, <2>1, <2>2, <2>3 DEF IInv, JobsAre
<1>13. Connections'
  <2> SUFFICES ASSUME NEW k \in 1..i PROVE Fits(jobs'[k], socks'[k], unready')
    BY <1>6 DEF Connections
  <2>1. CASE k <= n
    <3>1. k \in 1..n /\ jobs'[k] = jobs[k] /\ socks'[k] = socks[k] /\ unready' = unready
      BY <1>1, <1>2, <1>6, <1>7, <1>8, <2>1 DEF servers
    <3>2. Fits(jobs[k], socks[k], unready)
      BY <3>1 DEF IInv, Connections
    <3>3. QED
      BY ONLY <3>1, <3>2 DEF Fits, Nothing
  <2>2. CASE k > n
    <3>1. jobs'[k] = j /\ socks'[k] = s
      BY <1>2, <1>6, <1>7, <1>8, <2>2
    <3>2. QED
      BY <1>4, <1>5, <3>1 DEF Fits
  <2>3. QED
    BY <1>2, <1>8, <2>1, <2>2
<1>14. Added'
  <2>1. 1..joined = {} /\ UNCHANGED <<total, joined>>
    BY <1>1, <1>2
  <2>2. QED
    BY <2>1 DEF IInv, Added
<1>15. QED
  BY <1>9, <1>10, <1>11, <1>12, <1>13, <1>14 DEF IInv

\* A step of one thread, or of the server it is connected to, changes one job and its
\* connection, never the task or the server.
LEMMA JobMoves ==
  ASSUME IInv, NEW i \in 1..Len(jobs), NEW j \in JobRecords, NEW s \in SockRecords,
         j.task = jobs[i].task, j.server = jobs[i].server, Fits(j, s, unready),
         jobs' = [jobs EXCEPT ![i] = j], socks' = [socks EXCEPT ![i] = s],
         UNCHANGED <<pc, args, cfg, total, joined, requests, answers, servers>>
  PROVE  IInv'
<1>1. /\ jobs \in Seq(JobRecords) /\ socks \in Seq(SockRecords) /\ Len(socks) = Len(jobs) /\ joined \in 0..Len(jobs)
      /\ Len(jobs) \in Nat
  BY DEF IInv, ClientTyped, NetworkTyped
<1>2. jobs' \in Seq(JobRecords) /\ Len(jobs') = Len(jobs) /\ \A k \in 1..Len(jobs) : jobs'[k] = IF k = i THEN j ELSE jobs[k]
  BY <1>1
<1>3. socks' \in Seq(SockRecords) /\ Len(socks') = Len(jobs) /\ \A k \in 1..Len(jobs) : socks'[k] = IF k = i THEN s ELSE socks[k]
  BY <1>1
<1>4. \A k \in 1..Len(jobs) : jobs'[k].task = jobs[k].task /\ jobs'[k].server = jobs[k].server
  BY <1>2
<1>5. ClientTyped' /\ NetworkTyped' /\ ReadyOrNot' /\ FoundOnce'
  BY <1>2, <1>3 DEF IInv, ClientTyped, NetworkTyped, ReadyOrNot, FoundOnce, servers
<1>6. Stage'
  <2>1. jobs = <<>> <=> Len(jobs) = 0
    BY <1>1
  <2>2. i >= 1 /\ i <= Len(jobs)
    BY <1>1
  <2>3. QED
    BY <1>1, <1>2, <2>1, <2>2 DEF IInv, Stage, num_strips
<1>7. JobsAre'
  <2> SUFFICES ASSUME NEW k \in 1..Len(jobs) PROVE jobs'[k].task = Strip(k)' /\ jobs'[k].server = cfg'.server_list[k]
    BY <1>2 DEF JobsAre
  <2>1. Strip(k)' = Strip(k)
    BY DEF Strip, points_for_strip, num_strips
  <2>2. QED
    BY <1>4, <2>1 DEF IInv, JobsAre
<1>8. Connections'
  <2> SUFFICES ASSUME NEW k \in 1..Len(jobs) PROVE Fits(jobs'[k], socks'[k], unready')
    BY <1>2 DEF Connections
  <2>1. unready' = unready
    BY DEF servers
  <2>2. PICK a, b : a = jobs'[k] /\ b = socks'[k] /\ Fits(a, b, unready)
    BY <1>2, <1>3 DEF IInv, Connections
  <2>3. QED
    BY ONLY <2>1, <2>2 DEF Fits, Nothing
<1>9. Added'
  <2>1. \A k \in 1..joined : k \in 1..Len(jobs) /\ Answer(k)' = Answer(k)
    BY <1>1, <1>4 DEF Answer
  <2>2. joined' = joined /\ total' = total /\ unready' = unready
    BY DEF servers
  <2>3. Added
    BY DEF IInv
  <2>4. \A n \in 1..Len(total) : \E k \in 1..joined : total[n] = Answer(k)'
    BY <2>1, <2>3 DEF Added
  <2>5. \A k \in 1..joined : (\E n \in 1..Len(total) : total[n].task = jobs'[k].task) \/ jobs'[k].server \in unready
    BY <1>4, <2>1, <2>3 DEF Added
  <2>6. QED
    BY <2>2, <2>3, <2>4, <2>5 DEF Added
<1>10. QED
  BY <1>5, <1>6, <1>7, <1>8, <1>9 DEF IInv

\* The connection of a job at each place.
LEMMA OneJob ==
  ASSUME IInv, NEW i \in 1..Len(jobs)
  PROVE  /\ jobs[i] \in JobRecords /\ socks[i] \in SockRecords /\ Fits(jobs[i], socks[i], unready)
         /\ jobs[i].task \in Tasks /\ jobs[i].server \in Addresses
         /\ DOMAIN jobs = 1..Len(jobs) /\ DOMAIN socks = 1..Len(jobs)
         /\ jobs = [jobs EXCEPT ![i] = jobs[i]] /\ socks = [socks EXCEPT ![i] = socks[i]]
<1>1. jobs \in Seq(JobRecords) /\ socks \in Seq(SockRecords) /\ Len(socks) = Len(jobs) /\ Len(jobs) \in Nat
  BY DEF IInv, ClientTyped, NetworkTyped
<1>2. jobs[i] \in JobRecords /\ socks[i] \in SockRecords /\ Fits(jobs[i], socks[i], unready)
  BY <1>1 DEF IInv, Connections
<1>3. jobs[i].task \in Tasks /\ jobs[i].server \in Addresses
  BY <1>2 DEF JobRecords
<1>4. QED
  BY <1>1, <1>2, <1>3

\* A thread connects, writes its task and waits for the answer.
LEMMA ThreadKeepsInv ==
  ASSUME IInv, NEW i \in 1..Len(jobs), T_Connect(i) \/ T_Write(i) \/ T_Read(i)
  PROVE  IInv'
<1> DEFINE j == jobs[i]  s == socks[i]
<1>1. /\ j \in JobRecords /\ s \in SockRecords /\ Fits(j, s, unready) /\ j.task \in Tasks /\ j.server \in Addresses
      /\ DOMAIN jobs = 1..Len(jobs) /\ DOMAIN socks = 1..Len(jobs)
      /\ jobs = [jobs EXCEPT ![i] = j] /\ socks = [socks EXCEPT ![i] = s]
  BY OneJob
<1>2. CASE T_Connect(i)
  <2>1. CASE j.server \in tcp
    <3> DEFINE j1 == [j EXCEPT !.at = "write"]  s1 == [s EXCEPT !.state = "queued"]
    <3>1. j.at = "connect" /\ jobs' = [jobs EXCEPT ![i] = j1] /\ socks' = [socks EXCEPT ![i] = s1]
          /\ UNCHANGED <<pc, args, cfg, total, joined, requests, answers, servers>>
      BY <1>2, <2>1 DEF T_Connect
    <3>2. j1 \in JobRecords /\ j1.task = j.task /\ j1.server = j.server /\ j1.at = "write" /\ j1.status = j.status
      BY <1>1 DEF JobRecords
    <3>3. s1 \in SockRecords /\ s1.state = "queued" /\ s1.task = s.task /\ s1.result = s.result
      BY <1>1 DEF SockRecords
    <3> HIDE DEF j1, s1
    <3>4. Fits(j1, s1, unready)
      BY <1>1, <3>1, <3>2, <3>3 DEF Fits
    <3>5. QED
      BY <3>1, <3>2, <3>3, <3>4, JobMoves
  <2>2. CASE j.server \notin tcp
    <3> DEFINE j1 == [j EXCEPT !.at = "end"]
    <3>1. j.at = "connect" /\ jobs' = [jobs EXCEPT ![i] = j1] /\ socks' = [socks EXCEPT ![i] = s]
          /\ UNCHANGED <<pc, args, cfg, total, joined, requests, answers, servers>>
      BY <1>1, <1>2, <2>2 DEF T_Connect
    <3>2. j.server \in unready
      BY <1>1, <2>2 DEF IInv, ReadyOrNot
    <3>3. /\ j1 \in JobRecords /\ j1.task = j.task /\ j1.server = j.server
          /\ j1.at = "end" /\ j1.status = j.status /\ j1.result = j.result
      BY <1>1 DEF JobRecords
    <3> HIDE DEF j1
    <3>4. Fits(j1, s, unready)
      BY <1>1, <3>1, <3>2, <3>3 DEF Fits
    <3>5. QED
      BY <1>1, <3>1, <3>3, <3>4, JobMoves
  <2>3. QED
    BY <2>1, <2>2
<1>3. CASE T_Write(i)
  <2>1. CASE /\ jobs' = [jobs EXCEPT ![i].at = "read"]
             /\ socks' = [socks EXCEPT ![i].task = <<jobs[i].task>>]
    <3> DEFINE j1 == [j EXCEPT !.at = "read"]  s1 == [s EXCEPT !.task = <<j.task>>]
    <3>1. j.at = "write" /\ jobs' = [jobs EXCEPT ![i] = j1] /\ socks' = [socks EXCEPT ![i] = s1]
          /\ UNCHANGED <<pc, args, cfg, total, joined, requests, answers, servers>>
      BY <1>3, <2>1 DEF T_Write
    <3>2. j1 \in JobRecords /\ j1.task = j.task /\ j1.server = j.server /\ j1.at = "read" /\ j1.status = j.status
      BY <1>1 DEF JobRecords
    <3>3. s1 \in SockRecords /\ s1.state = s.state /\ s1.task = <<j.task>> /\ s1.result = s.result
      <4>1. <<j.task>> \in Seq(Tasks)
        BY <1>1
      <4> HIDE DEF j, s
      <4>2. QED
        BY <1>1, <4>1 DEF SockRecords
    <3> HIDE DEF j1, s1
    <3>4. Fits(j1, s1, unready)
      BY <1>1, <3>1, <3>2, <3>3 DEF Fits
    <3>5. QED
      BY <3>1, <3>2, <3>3, <3>4, JobMoves
  <2>2. CASE /\ socks[i].state = "closed"
             /\ jobs' = [jobs EXCEPT ![i].at = "end"] /\ UNCHANGED socks
    <3> DEFINE j1 == [j EXCEPT !.at = "end"]
    <3>1. j.at = "write" /\ s.state = "closed" /\ jobs' = [jobs EXCEPT ![i] = j1] /\ socks' = [socks EXCEPT ![i] = s]
          /\ UNCHANGED <<pc, args, cfg, total, joined, requests, answers, servers>>
      BY <1>1, <1>3, <2>2 DEF T_Write
    <3>2. /\ j1 \in JobRecords /\ j1.task = j.task /\ j1.server = j.server
          /\ j1.at = "end" /\ j1.status = j.status /\ j1.result = j.result
      BY <1>1 DEF JobRecords
    <3> HIDE DEF j1
    <3>3. Fits(j1, s, unready)
      BY <1>1, <3>1, <3>2 DEF Fits
    <3>4. QED
      BY <1>1, <3>1, <3>2, <3>3, JobMoves
  <2>3. QED
    BY <1>3, <2>1, <2>2 DEF T_Write
<1>4. CASE T_Read(i)
  <2> DEFINE j1 == [j EXCEPT !.at = "end", !.result = s.result, !.status = IF s.result = Nothing THEN -1 ELSE 0]
  <2>1. j.at = "read" /\ s.state = "closed" /\ jobs' = [jobs EXCEPT ![i] = j1] /\ socks' = [socks EXCEPT ![i] = s]
        /\ UNCHANGED <<pc, args, cfg, total, joined, requests, answers, servers>>
    <3>1. /\ j.at = "read" /\ s.state = "closed" /\ jobs' = [jobs EXCEPT ![i] = j1]
          /\ UNCHANGED <<pc, args, cfg, total, joined, network, servers>>
      BY <1>4 DEF T_Read
    <3> HIDE DEF j1, j
    <3>2. QED
      BY <1>1, <3>1 DEF network
  <2>2. j1 \in JobRecords /\ j1.task = j.task /\ j1.server = j.server /\ j1.at = "end" /\ j1.result = s.result
        /\ j1.status = IF s.result = Nothing THEN -1 ELSE 0
    BY <1>1 DEF JobRecords, SockRecords
  <2> HIDE DEF j1
  <2>3. Fits(j1, s, unready)
    BY <1>1, <2>1, <2>2 DEF Fits
  <2>4. QED
    BY <1>1, <2>1, <2>2, <2>3, JobMoves
<1>5. QED
  BY <1>2, <1>3, <1>4

\* A server takes a connection and answers the task.
LEMMA ServerKeepsInv ==
  ASSUME IInv, NEW i \in 1..Len(jobs), start_tcp_task_server(i) \/ handle_client(i)
  PROVE  IInv'
<1> DEFINE j == jobs[i]  s == socks[i]
<1>1. /\ j \in JobRecords /\ s \in SockRecords /\ Fits(j, s, unready) /\ j.task \in Tasks /\ j.server \in Addresses
      /\ DOMAIN jobs = 1..Len(jobs) /\ DOMAIN socks = 1..Len(jobs)
      /\ jobs = [jobs EXCEPT ![i] = j] /\ socks = [socks EXCEPT ![i] = s]
  BY OneJob
<1>2. CASE start_tcp_task_server(i)
  <2> DEFINE s1 == [s EXCEPT !.state = "served"]
  <2>1. s.state = "queued" /\ jobs' = [jobs EXCEPT ![i] = j] /\ socks' = [socks EXCEPT ![i] = s1]
        /\ UNCHANGED <<pc, args, cfg, total, joined, requests, answers, servers>>
    BY <1>1, <1>2 DEF start_tcp_task_server, client
  <2>2. s1 \in SockRecords /\ s1.state = "served" /\ s1.task = s.task /\ s1.result = s.result
    BY <1>1 DEF SockRecords
  <2> HIDE DEF s1
  <2>3. Fits(j, s1, unready)
    BY <1>1, <2>1, <2>2 DEF Fits
  <2>4. QED
    BY <1>1, <2>1, <2>2, <2>3, JobMoves
<1>3. CASE handle_client(i)
  <2> DEFINE s1 == [s EXCEPT !.state = "closed", !.result = <<Compute(Head(s.task))>>]
  <2>1. s.state = "served" /\ s.task # Nothing /\ jobs' = [jobs EXCEPT ![i] = j] /\ socks' = [socks EXCEPT ![i] = s1]
        /\ UNCHANGED <<pc, args, cfg, total, joined, requests, answers, servers>>
    BY <1>1, <1>3 DEF handle_client, client
  <2>2. Head(s.task) = j.task
    BY <1>1, <2>1 DEF Fits
  <2>3. Compute(j.task) \in Results
    BY <1>1, ComputeTyped
  <2>4. s1 = [s EXCEPT !.state = "closed", !.result = <<Compute(j.task)>>]
    BY <2>2
  <2>5. s1 \in SockRecords /\ s1.state = "closed" /\ s1.task = s.task /\ s1.result = <<Compute(j.task)>>
    <3>1. PICK r \in Seq(Results) : r = <<Compute(j.task)>>
      <4>1. PICK c \in Results : c = Compute(j.task)
        BY <2>3
      <4>2. <<c>> \in Seq(Results)
        OBVIOUS
      <4>3. QED
        BY <4>1, <4>2
    <3> HIDE DEF s1
    <3>2. s1 = [s EXCEPT !.state = "closed", !.result = r]
      BY <2>4, <3>1
    <3>3. QED
      BY <1>1, <3>1, <3>2 DEF SockRecords
  <2> HIDE DEF s1
  <2>6. Fits(j, s1, unready)
    BY <1>1, <2>1, <2>5 DEF Fits, Nothing
  <2>7. QED
    BY <1>1, <2>1, <2>5, <2>6, JobMoves
<1>4. QED
  BY <1>2, <1>3


-----------------------------------------------------------------------------
(* The sum. *)

\* Of two products by the same number, that of the greater number is not less.
LEMMA ProductsInOrder == \A a, b, w \in Nat : a <= b => a * w <= b * w
<1> SUFFICES ASSUME NEW a \in Nat, NEW b \in Nat, NEW w \in Nat, a <= b PROVE a * w <= b * w
  OBVIOUS
<1>1. PICK d \in Nat : b = a + d
  <2>1. b - a \in Nat /\ b = a + (b - a)
    OBVIOUS
  <2>2. QED
    BY <2>1
<1>2. b * w = a * w + d * w /\ d * w \in Nat /\ a * w \in Nat
  BY <1>1
<1>3. QED
  BY <1>2

\* A strip ends where the next one begins, or before.
LEMMA StripsInOrder ==
  ASSUME ClientTyped, NEW i \in 1..num_strips, NEW k \in 1..num_strips, k < i
  PROVE  Strip(k).x_max <= Strip(i).x_min
<1>1. num_strips \in Nat \ {0} /\ XMax \in Nat
  BY ConstantsTyped DEF ClientTyped, Configs, num_strips
<1>2. PICK w \in Nat : w = XMax \div num_strips
  BY <1>1
<1>3. Strip(k).x_max = k * w /\ Strip(i).x_min = (i - 1) * w
  <2>1. k # num_strips
    BY <1>1
  <2>2. QED
    BY <1>2, <2>1 DEF Strip
<1>4. k \in Nat /\ i - 1 \in Nat /\ k <= i - 1
  BY <1>1
<1>5. QED
  BY <1>3, <1>4, ProductsInOrder

\* A result is added after those of earlier strips.
LEMMA JoinKeepsInv == IInv /\ J_Join => IInv'
<1> SUFFICES ASSUME IInv, J_Join PROVE IInv'
  OBVIOUS
<1> DEFINE L == Len(total)
           i == joined + 1
<1>1. /\ pc = "join" /\ jobs[i].at = "end" /\ joined' = i
      /\ total' = IF jobs[i].status = 0 THEN total \o jobs[i].result ELSE total
      /\ pc' = IF i = num_strips THEN "done" ELSE "join"
      /\ UNCHANGED <<args, cfg, jobs, network, servers>>
  BY DEF J_Join
<1>2. /\ Len(jobs) = num_strips /\ joined < num_strips /\ joined \in Nat /\ num_strips \in Nat
      /\ total \in Seq(Results) /\ L \in Nat
  BY <1>1 DEF IInv, Stage, ClientTyped, Configs, num_strips
<1>3. i \in 1..Len(jobs) /\ i \in 1..num_strips /\ 1..joined \subseteq 1..Len(jobs)
  BY <1>2
<1>4. /\ jobs[i].task \in Tasks
      /\ \/ jobs[i].status = 0 /\ jobs[i].result = <<Answer(i)>>
         \/ jobs[i].status = -1 /\ jobs[i].server \in unready
  <2>1. Fits(jobs[i], socks[i], unready) /\ jobs[i].task \in Tasks
    BY <1>3, OneJob
  <2>2. QED
    BY <1>1, <2>1 DEF Fits, Answer
<1>5. Answer(i) \in Results /\ Answer(i).task = jobs[i].task
  BY <1>4, ComputeTyped DEF Answer
<1> HIDE DEF i, L
<1>6. i \in Nat /\ i = joined + 1 /\ L = Len(total)
  BY <1>2 DEF i, L
<1>7. NetworkTyped' /\ ReadyOrNot' /\ FoundOnce'
  BY <1>1 DEF IInv, NetworkTyped, ReadyOrNot, FoundOnce, network, servers
<1>8. Stage'
  BY <1>1, <1>2, <1>6 DEF Stage, num_strips
<1>9. JobsAre'
  <2>1. \A k : Strip(k)' = Strip(k)
    BY <1>1 DEF Strip, points_for_strip, num_strips
  <2>2. QED
    BY <1>1, <2>1 DEF IInv, JobsAre
<1>10. Connections'
  BY <1>1 DEF IInv, Connections, Fits, network, servers
<1>11. Added
  BY DEF IInv
<1>12. \A k : Answer(k)' = Answer(k)
  BY <1>1 DEF Answer
<1>13. CASE jobs[i].status = 0 /\ jobs[i].result = <<Answer(i)>>
  <2>1. PICK r \in Results : r = Answer(i)
    BY <1>5
  <2>2. total' = total \o <<r>>
    BY <1>1, <1>13, <2>1
  <2>3. /\ total' \in Seq(Results) /\ Len(total') = L + 1
        /\ \A k \in 1..L + 1 : total'[k] = IF k <= L THEN total[k] ELSE r
    BY ONLY <1>2, <1>6, <2>2
  <2>4. ClientTyped'
    BY <1>1, <1>2, <1>3, <2>3 DEF IInv, ClientTyped
  <2>5. \A n \in 1..L : n \in 1..L + 1 /\ total'[n] = total[n]
    BY <1>2, <2>3
  <2>6. L + 1 \in 1..L + 1 /\ total'[L + 1] = r /\ \A n \in 1..L + 1 : n \in 1..L \/ n = L + 1
    BY <1>2, <2>3
  <2>7. \A k \in 1..i : k \in 1..joined \/ k = i
    BY <1>2, <1>6
  <2>8. i \in 1..i /\ \A k \in 1..joined : k \in 1..i
    BY <1>2, <1>6
  <2>9. \A n \in 1..L : \E k \in 1..joined : total[n] = Answer(k)
    BY <1>6, <1>11 DEF Added
  <2>10. \A n \in 1..L + 1 : \E k \in 1..i : total'[n] = Answer(k)
    BY <2>1, <2>5, <2>6, <2>8, <2>9
  <2>11. \A m, n \in 1..L + 1 : m < n => total'[m].task.x_max <= total'[n].task.x_min
    <3> SUFFICES ASSUME NEW m \in 1..L + 1, NEW n \in 1..L + 1, m < n
                 PROVE  total'[m].task.x_max <= total'[n].task.x_min
      OBVIOUS
    <3>1. m \in 1..L
      BY <1>2
    <3>2. CASE n \in 1..L
      BY <1>6, <1>11, <2>5, <3>1, <3>2 DEF Added
    <3>3. CASE n = L + 1
      <4>1. PICK k \in 1..joined : total[m] = Answer(k)
        BY <2>9, <3>1
      <4>2. k \in 1..Len(jobs) /\ k \in 1..num_strips /\ k < i
        BY <1>2, <1>6
      <4>3. jobs[k].task = Strip(k) /\ jobs[i].task = Strip(i)
        BY <1>3, <4>2 DEF IInv, JobsAre
      <4>4. jobs[k].task \in Tasks
        BY <4>2, OneJob
      <4>5. total[m].task = Strip(k) /\ r.task = Strip(i)
        BY <1>5, <2>1, <4>1, <4>3, <4>4, ComputeTyped DEF Answer
      <4>6. Strip(k).x_max <= Strip(i).x_min
        BY <1>3, <4>2, StripsInOrder DEF IInv
      <4>7. QED
        BY <2>5, <2>6, <3>1, <3>3, <4>5, <4>6
    <3>4. QED
      BY <2>6, <3>2, <3>3
  <2>12. \A k \in 1..i : (\E n \in 1..L + 1 : total'[n].task = jobs[k].task) \/ jobs[k].server \in unready
    <3> SUFFICES ASSUME NEW k \in 1..i
                 PROVE  (\E n \in 1..L + 1 : total'[n].task = jobs[k].task) \/ jobs[k].server \in unready
      OBVIOUS
    <3>1. CASE k = i
      BY <1>5, <2>1, <2>6, <3>1
    <3>2. CASE k \in 1..joined
      <4>1. (\E n \in 1..L : total[n].task = jobs[k].task) \/ jobs[k].server \in unready
        BY <1>6, <1>11, <3>2 DEF Added
      <4>2. QED
        BY <2>5, <4>1
    <3>3. QED
      BY <2>7, <3>1, <3>2
  <2>13. Added'
    BY <1>1, <1>12, <2>3, <2>10, <2>11, <2>12 DEF Added, servers
  <2>14. QED
    BY <1>7, <1>8, <1>9, <1>10, <2>4, <2>13 DEF IInv
<1>14. CASE jobs[i].status = -1 /\ jobs[i].server \in unready
  <2>1. total' = total
    BY <1>1, <1>14
  <2>2. ClientTyped'
    <3>1. i \in 0..Len(jobs)
      BY <1>2, <1>3
    <3>2. pc' \in {"join", "done"}
      BY <1>1
    <3>3. QED
      BY <1>1, <1>2, <2>1, <3>1, <3>2 DEF IInv, ClientTyped
  <2>3. \A k \in 1..i : k \in 1..joined \/ k = i
    BY <1>2, <1>6
  <2>4. \A k \in 1..joined : k \in 1..i
    BY <1>2, <1>6
  <2>5. Added'
    BY <1>1, <1>11, <1>12, <1>14, <2>1, <2>3, <2>4 DEF Added, servers
  <2>6. QED
    BY <1>7, <1>8, <1>9, <1>10, <2>2, <2>5 DEF IInv
<1>15. QED
  BY <1>4, <1>13, <1>14

-----------------------------------------------------------------------------
(* The servers' discovery, starts and failures. *)

\* What is closed on a connection, and which servers have not been ready, excuses more
\* missing results, never fewer.
LEMMA ServersChange ==
  ASSUME IInv, UNCHANGED client, unready \subseteq unready', NetworkTyped', ReadyOrNot',
         \A i \in 1..Len(jobs) :
           \/ socks'[i] = socks[i]
           \/ /\ jobs[i].server \in unready' /\ socks[i].state # "none"
              /\ socks'[i] = [socks[i] EXCEPT !.state = "closed"]
  PROVE  IInv'
<1>1. ClientTyped' /\ Stage' /\ FoundOnce'
  BY DEF IInv, ClientTyped, Stage, FoundOnce, client, num_strips
<1>2. JobsAre'
  <2>1. \A k : Strip(k)' = Strip(k)
    BY DEF Strip, points_for_strip, num_strips, client
  <2>2. QED
    BY <2>1 DEF IInv, JobsAre, client
<1>3. Connections'
  <2> SUFFICES ASSUME NEW i \in 1..Len(jobs) PROVE Fits(jobs[i], socks'[i], unready')
    BY DEF Connections, client
  <2>1. Fits(jobs[i], socks[i], unready) /\ socks[i] \in SockRecords
    BY OneJob
  <2>2. CASE socks'[i] = socks[i]
    <3>1. PICK j, s : j = jobs[i] /\ s = socks[i] /\ s = socks'[i] /\ Fits(j, s, unready)
      BY <2>1, <2>2
    <3>2. Fits(j, s, unready')
      BY <3>1 DEF Fits
    <3>3. QED
      BY <3>1, <3>2
  <2>3. CASE /\ jobs[i].server \in unready' /\ socks[i].state # "none"
             /\ socks'[i] = [socks[i] EXCEPT !.state = "closed"]
    <3>1. PICK j, s : j = jobs[i] /\ s = socks[i] /\ s \in SockRecords /\ Fits(j, s, unready)
      BY <2>1
    <3>2. PICK s1 : s1 = socks'[i]
      OBVIOUS
    <3>3. s1.state = "closed" /\ s1.task = s.task /\ s1.result = s.result
      BY <2>3, <3>1, <3>2 DEF SockRecords
    <3>4. j.server \in unready' /\ s.state # "none"
      BY <2>3, <3>1
    <3>5. Fits(j, s1, unready')
      BY <3>1, <3>3, <3>4 DEF Fits
    <3>6. QED
      BY <3>1, <3>2, <3>5
  <2>4. QED
    BY <2>2, <2>3
<1>4. Added'
  <2>1. \A k : Answer(k)' = Answer(k)
    BY DEF Answer, client
  <2>2. QED
    BY <2>1 DEF IInv, Added, client
<1>5. QED
  BY <1>1, <1>2, <1>3, <1>4 DEF IInv

\* Discovery requests are answered; servers start, crash and stop.
LEMMA ServersKeepInv ==
  ASSUME IInv, NEW s \in Servers,
         start_udp_discovery_server(s) \/ OpenUdp(s) \/ OpenTcp(s) \/ Crash(s) \/ Stop(s)
  PROVE  IInv'
<1> USE DEF network, servers
<1>1. /\ requests \subseteq Servers /\ answers \in [Hosts -> Nat]
      /\ socks \in Seq(SockRecords) /\ Len(socks) = Len(jobs) /\ jobs \in Seq(JobRecords)
      /\ tcp \subseteq Servers /\ udp \subseteq Servers /\ stopped \subseteq Servers
      /\ Addresses \subseteq tcp \cup unready
  BY DEF IInv, NetworkTyped, ReadyOrNot, ClientTyped
<1>2. CASE start_udp_discovery_server(s)
  <2>1. /\ requests' = requests \ {s} /\ UNCHANGED <<client, socks, servers>>
        /\ \E n \in {0, 1, 2} : answers' = [answers EXCEPT ![s.host] = IF pc = "receive" THEN @ + n ELSE @]
    <3>1. \A n : n \in {1} \cup {0 : f \in Faults \cap {"loss"}} \cup {2 : f \in Faults \cap {"copy"}} => n \in {0, 1, 2}
      OBVIOUS
    <3>2. QED
      BY <1>2, <3>1 DEF start_udp_discovery_server
  <2>2. s.host \in Hosts
    BY DEF Hosts
  <2>3. answers' \in [Hosts -> Nat]
    BY <1>1, <2>1, <2>2
  <2>4. NetworkTyped'
    BY <1>1, <2>1, <2>3 DEF NetworkTyped, client
  <2>5. ReadyOrNot'
    BY <1>1, <2>1 DEF ReadyOrNot
  <2>6. QED
    BY <2>1, <2>4, <2>5, ServersChange
<1>3. CASE OpenUdp(s)
  <2>1. UNCHANGED <<client, network, tcp, stopped, unready>> /\ udp' = udp \cup {s}
    BY <1>3 DEF OpenUdp
  <2>2. NetworkTyped' /\ ReadyOrNot'
    BY <1>1, <2>1 DEF NetworkTyped, ReadyOrNot, client
  <2>3. QED
    BY <2>1, <2>2, ServersChange
<1>4. CASE OpenTcp(s)
  <2>1. UNCHANGED <<client, network, udp, stopped, unready>> /\ tcp' = tcp \cup {s}
    BY <1>4 DEF OpenTcp
  <2>2. NetworkTyped' /\ ReadyOrNot'
    BY <1>1, <2>1 DEF NetworkTyped, ReadyOrNot, client
  <2>3. QED
    BY <2>1, <2>2, ServersChange
<1>5. CASE Crash(s)
  <2>1. /\ udp' = udp \ {s} /\ tcp' = tcp \ {s} /\ unready' = unready \cup {s} /\ requests' = requests \ {s}
        /\ socks' = [i \in DOMAIN socks |->
                       IF jobs[i].server = s /\ socks[i].state # "none"
                       THEN [socks[i] EXCEPT !.state = "closed"] ELSE socks[i]]
        /\ UNCHANGED <<client, answers, stopped>>
    BY <1>5 DEF Crash
  <2>2. DOMAIN socks = 1..Len(jobs) /\ Len(jobs) \in Nat
    BY <1>1
  <2>3. \A i \in 1..Len(jobs) :
           \/ socks'[i] = socks[i]
           \/ /\ jobs[i].server \in unready' /\ socks[i].state # "none"
              /\ socks'[i] = [socks[i] EXCEPT !.state = "closed"]
    <3> SUFFICES ASSUME NEW i \in 1..Len(jobs), jobs[i].server = s, socks[i].state # "none"
                 PROVE  /\ jobs[i].server \in unready'
                        /\ socks'[i] = [socks[i] EXCEPT !.state = "closed"]
      BY <2>1, <2>2
    <3>1. QED
      BY <2>1, <2>2
  <2>4. \A i \in 1..Len(jobs) : socks'[i] \in SockRecords
    <3> SUFFICES ASSUME NEW i \in 1..Len(jobs) PROVE socks'[i] \in SockRecords
      OBVIOUS
    <3>1. PICK c : c = socks[i] /\ c \in SockRecords
      BY <1>1, <2>2
    <3>2. socks'[i] = c \/ socks'[i] = [c EXCEPT !.state = "closed"]
      BY <2>3, <3>1
    <3>3. [c EXCEPT !.state = "closed"] \in SockRecords
      BY <3>1 DEF SockRecords
    <3>4. QED
      BY <3>1, <3>2, <3>3
  <2>5. socks' \in Seq(SockRecords) /\ Len(socks') = Len(jobs)
    <3>1. socks' \in [1..Len(jobs) -> SockRecords]
      BY <2>1, <2>2, <2>4
    <3>2. QED
      BY <2>2, <3>1
  <2>6. NetworkTyped'
    BY <1>1, <2>1, <2>5 DEF NetworkTyped, client
  <2>7. ReadyOrNot'
    BY <1>1, <2>1 DEF ReadyOrNot
  <2>8. QED
    BY <2>1, <2>3, <2>6, <2>7, ServersChange
<1>6. CASE Stop(s)
  <2>1. stopped' = stopped \cup {s} /\ unready' = unready \cup {s} /\ UNCHANGED <<client, network, udp, tcp>>
    BY <1>6 DEF Stop
  <2>2. NetworkTyped' /\ ReadyOrNot'
    BY <1>1, <2>1 DEF NetworkTyped, ReadyOrNot, client
  <2>3. QED
    BY <2>1, <2>2, ServersChange
<1>7. QED
  BY <1>2, <1>3, <1>4, <1>5, <1>6

-----------------------------------------------------------------------------
(* The theorems. *)

\* Every step preserves the invariant.
LEMMA NextStep == IInv /\ [Next]_vars => IInv'
<1> SUFFICES ASSUME IInv, [Next]_vars PROVE IInv'
  OBVIOUS
<1>1. ASSUME NEW i \in DOMAIN jobs PROVE i \in 1..Len(jobs)
  BY DEF IInv, ClientTyped
<1>2. CASE parse_arguments
  BY <1>2, ParseKeepsInv
<1>3. CASE \/ discover_servers \/ discover_servers_udp \/ D_Done \/ validate_server_count
           \/ \E h \in Hosts : D_Receive(h)
  BY <1>3, DiscoveryKeepsInv
<1>4. CASE CreateThread
  BY <1>4, CreateKeepsInv
<1>5. CASE J_Join
  BY <1>5, JoinKeepsInv
<1>6. CASE \E i \in DOMAIN jobs : T_Connect(i) \/ T_Write(i) \/ T_Read(i)
  BY <1>1, <1>6, ThreadKeepsInv
<1>7. CASE \E i \in DOMAIN jobs : start_tcp_task_server(i) \/ handle_client(i)
  BY <1>1, <1>7, ServerKeepsInv
<1>8. CASE \E s \in Servers : start_udp_discovery_server(s) \/ OpenUdp(s) \/ OpenTcp(s) \/ Crash(s) \/ Stop(s)
  BY <1>8, ServersKeepInv
<1>9. CASE UNCHANGED vars
  <2>1. UNCHANGED client /\ UNCHANGED network /\ UNCHANGED servers
    BY <1>9 DEF vars
  <2>2. unready' = unready /\ socks' = socks /\ jobs' = jobs
    BY <2>1 DEF client, network, servers
  <2>3. NetworkTyped' /\ ReadyOrNot'
    BY <2>1 DEF IInv, NetworkTyped, ReadyOrNot, client, network, servers
  <2>4. QED
    BY <2>1, <2>2, <2>3, ServersChange
<1>10. QED
  BY <1>2, <1>3, <1>4, <1>5, <1>6, <1>7, <1>8, <1>9 DEF Next, Client, Serve, Changes

\* The inductive invariant.
THEOREM Invariance == Spec => []IInv
BY InitInvariant, NextStep, PTL DEF Spec

\* The types of the variables, as the runs check them.
THEOREM TypeCorrectness == Spec => []TypeOK
<1>1. IInv => TypeOK
  <2> SUFFICES ASSUME IInv PROVE TypeOK
    OBVIOUS
  <2>1. ClientTyped /\ NetworkTyped
    BY DEF IInv
  <2>2. Len(cfg.server_list) <= MAX_SERVERS /\ ToSet(cfg.server_list) \subseteq Addresses \ {Invalid}
    BY <2>1 DEF ClientTyped, Configs, ToSet
  <2>3. \A i \in DOMAIN jobs : jobs[i].at \in {"connect", "write", "read", "end"} /\ jobs[i].status \in {-1, 0}
    <3> SUFFICES ASSUME NEW i \in DOMAIN jobs
                 PROVE  jobs[i].at \in {"connect", "write", "read", "end"} /\ jobs[i].status \in {-1, 0}
      OBVIOUS
    <3>1. jobs[i] \in JobRecords
      BY <2>1 DEF ClientTyped
    <3>2. QED
      BY <3>1 DEF JobRecords
  <2>4. QED
    BY <2>1, <2>2, <2>3 DEF TypeOK, ClientTyped, NetworkTyped
<1>2. QED
  BY <1>1, Invariance, PTL

\* No server that the broadcast finds gets two strips: discover_servers_udp() looks for an
\* address in its list before it adds it.
THEOREM EachFoundOnce == Spec => []FoundOnce
<1>1. IInv => FoundOnce
  BY DEF IInv
<1>2. QED
  BY <1>1, Invariance, PTL

\* With no fewer points than strips, every strip has a point.
LEMMA EveryStripHasPoints ==
  ASSUME NEW p \in Nat, NEW n \in Nat \ {0}, p >= n
  PROVE  p \div n >= 1
<1>1. PICK q \in Nat : q = p \div n
  OBVIOUS
<1>2. p = n * q + (p % n) /\ (p % n) < n /\ (p % n) >= 0
  BY <1>1
<1>3. q # 0
  <2> SUFFICES ASSUME q = 0 PROVE FALSE
    OBVIOUS
  <2>1. n * q = 0
    OBVIOUS
  <2>2. QED
    BY <1>2, <2>1
<1>4. QED
  BY <1>1, <1>3

\* What is added are answers for different strips; what is missing is excused by a server
\* that was not ready; and the sum is a number.  compute_integral_distributed() leaves the
\* result of a thread that failed out and goes on.
THEOREM SumHasEachStrip == Spec => []SumOfStrips
<1>1. IInv => SumOfStrips
  <2> SUFFICES ASSUME IInv PROVE SumOfStrips
    OBVIOUS
  <2>1. ClientTyped /\ Added /\ total \in Seq(Results) /\ DOMAIN total = 1..Len(total)
    BY DEF IInv, ClientTyped
  <2>2. ASSUME cfg.points >= num_strips, NEW n \in DOMAIN total PROVE total[n].value = "number"
    <3>1. PICK i \in 1..joined : total[n] = Answer(i)
      BY <2>1 DEF Added
    <3>2. i \in 1..Len(jobs) /\ Len(jobs) \in Nat
      BY DEF IInv, ClientTyped
    <3>3. Len(jobs) <= num_strips /\ num_strips \in Nat
      BY <3>2 DEF IInv, ClientTyped, Stage, Configs, num_strips
    <3>4. cfg.points \in Nat /\ num_strips \in Nat \ {0}
      BY <3>2, <3>3 DEF IInv, ClientTyped, Configs
    <3>5. cfg.points \div num_strips \in Nat /\ cfg.points \div num_strips >= 1
      BY <2>2, <3>4, EveryStripHasPoints
    <3>6. points_for_strip(i) >= 1
      BY <3>5 DEF points_for_strip
    <3>7. jobs[i].task.points = points_for_strip(i)
      <4>1. jobs[i].task = Strip(i)
        BY <3>2 DEF IInv, JobsAre
      <4>2. QED
        BY <4>1 DEF Strip
    <3>8. QED
      BY <3>1, <3>6, <3>7 DEF Answer, Compute
  <2>3. QED
    BY <2>1, <2>2 DEF SumOfStrips, Added
<1>2. QED
  BY <1>1, Invariance, PTL

\* The fold of the library is the sum.
LEMMA FoldIsSum == \A fun : FoldFunction(+, 0, fun) = SumOf(fun)
<1> SUFFICES ASSUME NEW fun PROVE FoldFunction(+, 0, fun) = SumOf(fun)
  OBVIOUS
<1> DEFINE D == DOMAIN fun
<1>1. FoldFunction(+, 0, fun) =
        (CHOOSE sum : sum = [s \in SUBSET D |->
           IF s = {} THEN 0 ELSE fun[CHOOSE x \in s : TRUE] + sum[s \ {CHOOSE x \in s : TRUE}]])[D]
  BY DEF FoldFunction, FoldFunctionOnSet, MapThenFoldSet
<1>2. QED
  BY <1>1 DEF SumOf, IsSum, Pick

\* One of c equal numbers, and the others.
LEMMA OneOfEqual == \A c, q \in Nat : c > 0 => c * q = q + (c - 1) * q
  OBVIOUS

\* A number divided into n parts, one more for the first ones: the parts add up to it.
LEMMA PartsAddUp ==
  ASSUME NEW p \in Nat, NEW n \in Nat \ {0}, NEW g,
         g = [i \in 1..n |-> (p \div n) + (IF i <= p % n THEN 1 ELSE 0)]
  PROVE  SumOf(g) = p
<1>1. PICK q \in Nat, r \in Nat : q = p \div n /\ r = p % n /\ r < n /\ p = n * q + r
  OBVIOUS
<1> DEFINE sum == [s \in SUBSET (1..n) |-> Cardinality(s) * q + Cardinality(s \cap (1..r))]
<1>2. IsFiniteSet(1..n) /\ Cardinality(1..n) = n /\ Cardinality(1..r) = r
  BY <1>1, FS_Interval
<1>3. \A s \in SUBSET (1..n) : /\ IsFiniteSet(s) /\ Cardinality(s) \in Nat
                               /\ IsFiniteSet(s \cap (1..r)) /\ Cardinality(s \cap (1..r)) \in Nat
  <2> SUFFICES ASSUME NEW s \in SUBSET (1..n)
               PROVE  /\ IsFiniteSet(s) /\ Cardinality(s) \in Nat
                      /\ IsFiniteSet(s \cap (1..r)) /\ Cardinality(s \cap (1..r)) \in Nat
    OBVIOUS
  <2>1. PICK t : t = s \cap (1..r) /\ t \subseteq 1..n
    OBVIOUS
  <2>2. IsFiniteSet(s) /\ IsFiniteSet(t)
    BY <1>2, <2>1, FS_Subset
  <2>3. QED
    BY <2>1, <2>2, FS_CardinalityType
<1>4. sum \in [SUBSET (1..n) -> Int] /\ sum[{}] = 0
  <2>1. sum[{}] = 0
    <3>1. Cardinality({}) = 0 /\ {} \cap (1..r) = {} /\ {} \in SUBSET (1..n)
      BY FS_EmptySet
    <3>2. sum[{}] = 0 * q + 0
      BY <3>1
    <3> HIDE DEF sum
    <3>3. QED
      BY <3>2
  <2>2. \A s \in SUBSET (1..n) : Cardinality(s) * q + Cardinality(s \cap (1..r)) \in Int
    <3> SUFFICES ASSUME NEW s \in SUBSET (1..n)
                 PROVE  Cardinality(s) * q + Cardinality(s \cap (1..r)) \in Int
      OBVIOUS
    <3>1. PICK c, d \in Nat : c = Cardinality(s) /\ d = Cardinality(s \cap (1..r))
      BY <1>3
    <3>2. c * q + d \in Int
      OBVIOUS
    <3>3. QED
      BY <3>1, <3>2
  <2>3. sum \in [SUBSET (1..n) -> Int]
    BY <2>2
  <2>4. QED
    BY <2>1, <2>3
<1>5. DOMAIN g = 1..n /\ \A i \in 1..n : g[i] = q + (IF i <= r THEN 1 ELSE 0)
  BY <1>1
<1>6. ASSUME NEW s \in SUBSET (1..n), NEW x \in s
      PROVE  g[x] \in Int /\ sum[s] = g[x] + sum[s \ {x}]
  <2>1. g[x] = q + (IF x \in 1..r THEN 1 ELSE 0)
    BY <1>5
  <2>2. PICK t, u, v : t = s \cap (1..r) /\ u = s \ {x} /\ v = t \ {x}
    OBVIOUS
  <2>3. u \in SUBSET (1..n) /\ u \cap (1..r) = v
    BY <2>2
  <2>4. IsFiniteSet(s) /\ IsFiniteSet(t) /\ Cardinality(s) \in Nat /\ Cardinality(t) \in Nat
    BY <1>3, <2>2
  <2>5. Cardinality(u) \in Nat /\ Cardinality(u) = Cardinality(s) - 1 /\ Cardinality(v) \in Nat
    <3>1. Cardinality(u) \in Nat /\ Cardinality(v) \in Nat
      BY <1>3, <2>3
    <3>2. QED
      BY <2>2, <2>4, <3>1, FS_RemoveElement
  <2>6. PICK e \in {0, 1} : g[x] = q + e /\ Cardinality(t) = Cardinality(v) + e
    <3>1. CASE x \in 1..r
      <4>1. x \in t
        BY <2>2, <3>1
      <4>2. Cardinality(v) = Cardinality(t) - 1
        BY <2>2, <2>4, <4>1, FS_RemoveElement
      <4>3. QED
        BY <2>1, <2>4, <3>1, <4>2
    <3>2. CASE x \notin 1..r
      <4>1. v = t
        BY <2>2, <3>2
      <4>2. QED
        BY <2>1, <2>4, <3>2, <4>1
    <3>3. QED
      BY <3>1, <3>2
  <2>7. PICK a, b \in Int : a = Cardinality(s) * q /\ b = Cardinality(u) * q /\ a = q + b
    <3>1. Cardinality(s) > 0
      BY <2>4, <2>5
    <3>2. Cardinality(s) * q = q + Cardinality(u) * q
      BY <2>4, <2>5, <3>1, OneOfEqual
    <3>3. QED
      BY <2>4, <2>5, <3>2
  <2>8. sum[s] = a + Cardinality(t) /\ sum[u] = b + Cardinality(v)
    BY <2>2, <2>3, <2>7
  <2> HIDE DEF sum
  <2>9. g[x] \in Int /\ sum[s] = g[x] + sum[u]
    <3>1. PICK c \in Nat : c = Cardinality(v)
      BY <2>5
    <3>2. a = q + b /\ e \in Nat
      BY <2>6, <2>7
    <3>3. g[x] = q + e /\ sum[s] = a + (c + e) /\ sum[u] = b + c
      BY <2>6, <2>8, <3>1
    <3>4. q + e \in Int /\ (q + b) + (c + e) = (q + e) + (b + c)
      BY <3>2
    <3>5. QED
      BY <3>2, <3>3, <3>4
  <2>10. QED
    BY <2>2, <2>9
<1>7. Adds(sum, g)
  <2> HIDE DEF sum
  <2>1. QED
    BY <1>4, <1>5, <1>6 DEF Adds
<1>8. sum[1..n] = n * q + r
  <2>1. (1..n) \cap (1..r) = 1..r
    BY <1>1
  <2>2. QED
    BY <1>2, <2>1
<1> HIDE DEF sum
<1>9. QED
  BY <1>1, <1>2, <1>5, <1>7, <1>8, SumIs

\* Place x is in strip i of those of width w.
InStrip(x, i, w) == (i - 1) * w <= x /\ x < i * w

\* The n strips of width w cut up a region of this length: each place is in one of them.
CutUp(length, n, w) ==
  \A x \in 0..length - 1 : \E k \in 1..n : \A i \in 1..n : InStrip(x, i, w) <=> i = k

\* Strips of equal width cut up a region.
LEMMA OneStripForEach ==
  ASSUME NEW w \in Nat, NEW n \in Nat, NEW length, length = n * w
  PROVE  CutUp(length, n, w)
<1> SUFFICES ASSUME NEW x \in 0..length - 1
             PROVE  \E k \in 1..n : \A i \in 1..n : InStrip(x, i, w) <=> i = k
  BY DEF CutUp
<1>1. w > 0 /\ n > 0 /\ x \in Nat /\ x < n * w
  <2>1. w = 0 => n * w = 0
    OBVIOUS
  <2>2. n = 0 => n * w = 0
    OBVIOUS
  <2>3. n * w \in Nat
    OBVIOUS
  <2>4. QED
    BY <2>1, <2>2, <2>3
<1>2. PICK d \in Nat, r \in Nat : x = w * d + r /\ r < w
  <2>1. x \div w \in Nat /\ x % w \in Nat /\ x = w * (x \div w) + (x % w) /\ (x % w) < w
    BY <1>1
  <2>2. QED
    BY <2>1
<1>3. d * w <= x /\ x < (d + 1) * w
  BY <1>2
<1>4. \A a \in Nat : a * w <= x => a <= d
  <2> SUFFICES ASSUME NEW a \in Nat, a * w <= x, a > d PROVE FALSE
    OBVIOUS
  <2>1. (d + 1) * w <= a * w
    BY ProductsInOrder
  <2>2. (d + 1) * w \in Nat /\ a * w \in Nat
    OBVIOUS
  <2>3. QED
    BY <1>1, <1>3, <2>1, <2>2
<1>5. \A a \in Nat : x < a * w => a > d
  <2> SUFFICES ASSUME NEW a \in Nat, x < a * w, a <= d PROVE FALSE
    OBVIOUS
  <2>1. a * w <= d * w
    BY ProductsInOrder
  <2>2. d * w \in Nat /\ a * w \in Nat
    OBVIOUS
  <2>3. QED
    BY <1>1, <1>3, <2>1, <2>2
<1>6. d + 1 \in 1..n
  <2>1. n > d
    BY <1>1, <1>5
  <2>2. QED
    BY <2>1
<1>7. ASSUME NEW i \in 1..n PROVE (i - 1) * w <= x /\ x < i * w <=> i = d + 1
  <2>1. i - 1 \in Nat /\ i \in Nat
    OBVIOUS
  <2>2. (i - 1) * w <= x /\ x < i * w => i = d + 1
    <3>1. (i - 1) * w <= x => i - 1 <= d
      BY <1>4, <2>1
    <3>2. x < i * w => i > d
      BY <1>5, <2>1
    <3>3. QED
      BY <2>1, <3>1, <3>2
  <2>3. i = d + 1 => (i - 1) * w <= x /\ x < i * w
    <3>1. i = d + 1 => i - 1 = d
      OBVIOUS
    <3>2. QED
      BY <1>3, <3>1
  <2>4. QED
    BY <2>2, <2>3
<1>8. QED
  BY <1>6, <1>7 DEF InStrip

\* The tasks cut up the region and the points, for any number of servers:
\* compute_integral_distributed() gives the first strips the points that remain.
THEOREM StripsCutUp == Spec => []StripsPartition
<1>1. IInv => StripsPartition
  <2> SUFFICES ASSUME IInv, pc \in {"join", "done"}
               PROVE  /\ \A x \in 0..XMax - 1 :
                           Cardinality({i \in DOMAIN jobs : jobs[i].task.x_min <= x /\ x < jobs[i].task.x_max}) = 1
                      /\ FoldFunction(+, 0, [i \in DOMAIN jobs |-> jobs[i].task.points]) = cfg.points
    BY DEF StripsPartition
  <2>1. PICK n : n = num_strips
    OBVIOUS
  <2>2. /\ n \in Nat \ {0} /\ n <= MAX_SERVERS /\ DOMAIN jobs = 1..n /\ Len(jobs) = n
        /\ cfg.points \in Nat /\ XMax \in Nat
    <3>1. Len(jobs) = n /\ n > 0 /\ n \in Nat
      BY <2>1 DEF IInv, Stage, ClientTyped, Configs, num_strips
    <3>2. DOMAIN jobs = 1..n /\ n <= MAX_SERVERS /\ cfg.points \in Nat
      BY <2>1, <3>1 DEF IInv, ClientTyped, Configs, num_strips
    <3>3. QED
      BY <3>1, <3>2, ConstantsTyped
  <2>3. PICK w \in Nat : w = XMax \div n /\ XMax = n * w
    <3>1. n \in 1..MAX_SERVERS
      BY <2>2, ConstantsTyped
    <3>2. XMax % n = 0
      BY <3>1, ConstantsAssumption
    <3>3. PICK w \in Nat : w = XMax \div n
      BY <2>2
    <3>4. n * w \in Nat /\ XMax = n * w + (XMax % n)
      BY <2>2, <3>3
    <3>5. XMax = n * w
      BY <3>2, <3>4
    <3>6. QED
      BY <3>3, <3>5
  <2>4. \A i \in 1..n : jobs[i].task = Strip(i)
    BY <2>2 DEF IInv, JobsAre
  <2>5. \A i \in 1..n : /\ jobs[i].task.x_min = (i - 1) * w /\ jobs[i].task.x_max = i * w
                        /\ jobs[i].task.points = points_for_strip(i)
    <3> SUFFICES ASSUME NEW i \in 1..n
                 PROVE  /\ jobs[i].task.x_min = (i - 1) * w /\ jobs[i].task.x_max = i * w
                        /\ jobs[i].task.points = points_for_strip(i)
      OBVIOUS
    <3>1. i = n => XMax = i * w
      BY <2>3
    <3>2. Strip(i).x_min = (i - 1) * w /\ Strip(i).points = points_for_strip(i)
      BY <2>1, <2>3 DEF Strip
    <3>3. Strip(i).x_max = IF i = n THEN XMax ELSE i * w
      BY <2>1, <2>3 DEF Strip
    <3>4. QED
      BY <2>4, <3>1, <3>2, <3>3
  <2>6. ASSUME NEW x \in 0..XMax - 1
        PROVE  Cardinality({i \in DOMAIN jobs : jobs[i].task.x_min <= x /\ x < jobs[i].task.x_max}) = 1
    <3>1. n \in Nat
      BY <2>2
    <3>2. PICK k \in 1..n : \A i \in 1..n : InStrip(x, i, w) <=> i = k
      <4>1. CutUp(XMax, n, w)
        BY <2>3, <3>1, OneStripForEach
      <4>2. QED
        BY <4>1 DEF CutUp
    <3>3. \A i \in 1..n : InStrip(x, i, w) <=> jobs[i].task.x_min <= x /\ x < jobs[i].task.x_max
      BY <2>5 DEF InStrip
    <3>4. {i \in DOMAIN jobs : jobs[i].task.x_min <= x /\ x < jobs[i].task.x_max} = {k}
      BY <2>2, <3>2, <3>3
    <3>5. QED
      BY <3>4, FS_Singleton
  <2>7. FoldFunction(+, 0, [i \in DOMAIN jobs |-> jobs[i].task.points]) = cfg.points
    <3> DEFINE g == [i \in DOMAIN jobs |-> jobs[i].task.points]
    <3>1. g = [i \in 1..n |-> (cfg.points \div n) + (IF i <= cfg.points % n THEN 1 ELSE 0)]
      BY <2>1, <2>2, <2>5 DEF points_for_strip
    <3> HIDE DEF g
    <3>2. SumOf(g) = cfg.points
      BY <2>2, <3>1, PartsAddUp
    <3>3. FoldFunction(+, 0, g) = SumOf(g)
      BY FoldIsSum
    <3>4. QED
      BY <3>2, <3>3 DEF g
  <2>8. QED
    BY <2>6, <2>7
<1>2. QED
  BY <1>1, Invariance, PTL
=============================================================================

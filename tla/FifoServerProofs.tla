-------------------------- MODULE FifoServerProofs --------------------------
(***************************************************************************)
(* Proofs about FifoServer, for any number of clients and slots: types, the *)
(* descriptors of the server, and whose data are in whose pipe.             *)
(***************************************************************************)
EXTENDS FifoServer, FiniteSetTheorems, TLAPS

Found(c, f)  == f \in 1..Len(Wanted[c]) /\ Wanted[c][f] >= 0
Messages     == {m \in [client : Clients, file : Nat, part : Nat] : m.file # 0 => Found(m.client, m.file)}
Threads      == {t \in [client : Clients, file : Nat, client_fd : Fds, file_fd : Nat, part : Nat] :
                   Found(t.client, t.file) /\ t.part <= Wanted[t.client][t.file] + 1}
Entries      == [fd : Fds, what : {"tx", "rx", "file"}, client : Clients]
Registration == {"register", "openrx", "ack", "check"}
Stages       == {"start", "ack", "opentx", "openrx", "next", "size", "data", "close",
                 "cleantx", "cleanrx", "exit", "exited", "killed"}

\* Where the main thread is, and what it has read from its FIFO.
ServerTyped ==
  /\ spc \in {"wait", "events", "periodic", "registrations", "stopped"} \cup Registration
  /\ server_running \in BOOLEAN
  /\ counter \in 0..PERIOD - 1 /\ idx \in 0..MAX_CLIENTS /\ ready \subseteq Slots
  /\ lines \in Seq(Clients) /\ server_fifo \in Seq(Clients)
  /\ lines # <<>> <=> spc \in Registration

\* Clients and their pipes; a client that reads blocks has some more to come.
ClientsTyped ==
  /\ rx \in [Clients -> Seq(Nat)]
  /\ \A c \in Clients : \A k \in DOMAIN rx[c] : rx[c][k] <= Len(Wanted[c])
  /\ tx \in [Clients -> Seq(Messages)] /\ \A c \in Clients : Len(tx[c]) <= TxCapacity
  /\ rx_writer \in [Clients -> {"never", "open", "closed"}] /\ pc \in [Clients -> Stages]
  /\ cur \in [Clients -> Nat] /\ \A c \in Clients : cur[c] <= Len(Wanted[c])
  /\ received \in [Clients -> [blocks : Nat, size : Nat]]
  /\ \A c \in Clients : /\ received[c].blocks <= received[c].size
                        /\ pc[c] = "data" => received[c].blocks < received[c].size

\* The table and the descriptors: a number is open once.
TableTyped ==
  /\ clients \in [Slots -> [is_active : BOOLEAN, tx_fd : Nat, rx_fd : Nat]]
  /\ \A i \in Slots : clients[i].is_active \/ clients[i] = Free
  /\ fds \subseteq Entries /\ IsFiniteSet(fds)
  /\ \A d, e \in fds : d.fd = e.fd => d = e
  /\ tasks \subseteq Threads

\* Every slot has both pipes of its client, and no other slot has them; every
\* other pipe is that of the registration.
Has(i, fd) == clients[i].is_active /\ fd \in {clients[i].tx_fd, clients[i].rx_fd}
SlotOpen(i, c) == {Entry(clients[i].tx_fd, "tx", c), Entry(clients[i].rx_fd, "rx", c)} \subseteq fds
SlotsHold ==
  /\ \A i \in Slots : clients[i].is_active => \E c \in Clients : SlotOpen(i, c)
  /\ \A i, j \in Slots : \A fd \in {clients[i].tx_fd, clients[i].rx_fd} : Has(i, fd) /\ Has(j, fd) => i = j
  /\ \A e \in fds : e.what # "file" => (Registering(e) <=> \A i \in Slots : ~Has(i, e.fd))

\* Every open file is that of one thread.
ThreadsHold ==
  /\ \A e \in fds : e.what = "file" => \E t \in tasks : t.file_fd = e.fd
  /\ \A t \in tasks : t.file_fd # NoFd => Entry(t.file_fd, "file", t.client) \in fds
  /\ \A t, u \in tasks : t.file_fd = u.file_fd /\ t.file_fd # NoFd => t = u

\* A client registers once, and until it is its turn the server has no pipe of it.
NoPipes(c) == \A e \in fds : e.client = c => e.what = "file"
Queued ==
  /\ \A j, k \in DOMAIN lines : lines[j] = lines[k] => j = k
  /\ \A j, k \in DOMAIN server_fifo : server_fifo[j] = server_fifo[k] => j = k
  /\ \A j \in DOMAIN lines, k \in DOMAIN server_fifo : lines[j] # server_fifo[k]
  /\ \A j \in DOMAIN lines : /\ pc[lines[j]] # "start"
                             /\ j > 1 \/ spc = "register" => NoPipes(lines[j])
  /\ \A k \in DOMAIN server_fifo : pc[server_fifo[k]] # "start" /\ NoPipes(server_fifo[k])
  /\ \A c \in Clients : pc[c] = "start" => NoPipes(c)

\* The registration in progress.
Opening ==
  /\ spc = "openrx" =>
       /\ FreeSlots # {}
       /\ \E e \in fds : Registering(e) /\ \A d \in fds : d.client = e.client /\ d.what # "file" => d = e
  /\ spc \in {"ack", "check"} => \E i \in Slots : clients[i].is_active /\ SlotOpen(i, Head(lines))

DescriptorsInv ==
  ServerTyped /\ ClientsTyped /\ TableTyped /\ SlotsHold /\ ThreadsHold /\ Queued /\ Opening

-----------------------------------------------------------------------------
(* Lemmas about the operators of the model. *)

\* A set of positive numbers that is not empty has a least element.
LEMMA MinOfNumbers ==
  ASSUME NEW S, S \subseteq Nat, S # {}
  PROVE  Min(S) \in S /\ \A y \in S : Min(S) <= y
<1>1. PICK x \in S : \A y \in S : <<y, x>> \notin OpToRel(<, Nat)
  BY NatLessThanWellFounded, WFMin
<1>2. \A y \in S : x <= y
  <2> SUFFICES ASSUME NEW y \in S, y < x PROVE FALSE
    OBVIOUS
  <2>1. <<y, x>> \in Nat \X Nat /\ <<y, x>>[1] = y /\ <<y, x>>[2] = x
    OBVIOUS
  <2>2. <<y, x>> \in {p \in Nat \X Nat : p[1] < p[2]}
    BY <2>1
  <2>3. QED
    BY <1>1, <2>2 DEF OpToRel
<1>3. QED
  BY <1>2 DEF Min

\* open() returns a number that is not open: among one more numbers than there
\* are descriptors, one is free.
LEMMA LowestIsFree ==
  ASSUME TableTyped
  PROVE  LowestFd \in Fds /\ \A e \in fds : e.fd # LowestFd
<1> DEFINE n == Cardinality(fds)
           used == {e.fd : e \in fds}
           S == {m \in 1..n + 1 : \A e \in fds : e.fd # m}
<1>1. n \in Nat /\ IsFiniteSet(fds)
  BY FS_CardinalityType DEF TableTyped
<1>2. IsFiniteSet(used) /\ Cardinality(used) <= n
  <2> DEFINE f == [e \in fds |-> e.fd]
  <2>1. f \in Surjection(fds, used)
    BY DEF Surjection
  <2> HIDE DEF f
  <2>2. QED
    BY <1>1, <2>1, FS_Surjection
<1>3. S # {}
  <2>1. IsFiniteSet(1..n + 1) /\ Cardinality(1..n + 1) = n + 1
    BY <1>1, FS_Interval
  <2>2. 1..n + 1 \subseteq used => Cardinality(1..n + 1) <= Cardinality(used)
    BY <1>2, FS_Subset
  <2>3. Cardinality(used) \in Nat
    BY <1>2, FS_CardinalityType
  <2>4. ~(1..n + 1 \subseteq used)
    BY <1>1, <1>2, <2>1, <2>2, <2>3
  <2>5. QED
    BY <2>4
<1>4. LowestFd = Min(S)
  BY DEF LowestFd
<1>5. S \subseteq Nat
  BY <1>1
<1>6. Min(S) \in S
  BY <1>3, <1>5, MinOfNumbers
<1> HIDE DEF n
<1>7. QED
  BY <1>1, <1>4, <1>6 DEF Fds, NoFd

\* The client of a slot is the owner of its rx pipe, and has both.
LEMMA OwnerOfSlot ==
  ASSUME TableTyped, SlotsHold, NEW i \in Slots, clients[i].is_active
  PROVE  Owner(clients[i].rx_fd) \in Clients /\ SlotOpen(i, Owner(clients[i].rx_fd))
<1>1. PICK c \in Clients : SlotOpen(i, c)
  BY DEF SlotsHold
<1>2. PICK e \in fds : e = Entry(clients[i].rx_fd, "rx", c)
  BY <1>1 DEF SlotOpen
<1>3. e.fd = clients[i].rx_fd /\ e.client = c
  BY <1>2 DEF Entry
<1>4. \A d \in fds : d.fd = clients[i].rx_fd => d = e
  BY <1>3 DEF TableTyped
<1>5. (CHOOSE d \in fds : d.fd = clients[i].rx_fd) = e
  BY <1>3, <1>4
<1>6. QED
  BY <1>1, <1>3, <1>5 DEF Owner

\* SlotOf finds the slot of a client that has one.
LEMMA SlotOfClient ==
  ASSUME TableTyped, SlotsHold, NEW c \in Clients,
         \E i \in Slots : clients[i].is_active /\ SlotOpen(i, c)
  PROVE  /\ SlotOf(c) \in Slots /\ clients[SlotOf(c)].is_active
         /\ SlotOpen(SlotOf(c), c) /\ Owner(clients[SlotOf(c)].rx_fd) = c
<1>1. PICK i \in Slots : clients[i].is_active /\ SlotOpen(i, c)
  OBVIOUS
<1>2. Owner(clients[i].rx_fd) = c
  <2>1. SlotOpen(i, Owner(clients[i].rx_fd))
    BY <1>1, OwnerOfSlot
  <2>2. Entry(clients[i].rx_fd, "rx", c) \in fds /\ Entry(clients[i].rx_fd, "rx", Owner(clients[i].rx_fd)) \in fds
    BY <1>1, <2>1 DEF SlotOpen
  <2>3. Entry(clients[i].rx_fd, "rx", c) = Entry(clients[i].rx_fd, "rx", Owner(clients[i].rx_fd))
    BY <2>2 DEF TableTyped, Entry
  <2>4. QED
    BY <2>3 DEF Entry
<1>3. SlotOf(c) \in Slots /\ clients[SlotOf(c)].is_active /\ Owner(clients[SlotOf(c)].rx_fd) = c
  BY <1>1, <1>2 DEF SlotOf
<1>4. QED
  BY <1>3, OwnerOfSlot

\* What a slot holds is open, and is a pipe.
LEMMA HeldIsPipe ==
  ASSUME TableTyped, SlotsHold, NEW i \in Slots, NEW fd, Has(i, fd)
  PROVE  /\ fd \in Fds
         /\ \E e \in fds : e.fd = fd
         /\ \A e \in fds : e.fd = fd => e.what # "file"
<1>1. PICK c \in Clients : SlotOpen(i, c)
  BY DEF SlotsHold, Has
<1>2. PICK d \in fds : d.fd = fd /\ d.what # "file"
  BY <1>1 DEF SlotOpen, Entry, Has
<1>3. QED
  BY <1>2 DEF TableTyped, Entries

\* The slot for a new client is free.
LEMMA FreeSlot ==
  ASSUME FreeSlots # {}
  PROVE  find_free_client_slot \in Slots /\ ~clients[find_free_client_slot].is_active
<1>1. FreeSlots \subseteq Nat
  BY ConstantsAssumption DEF FreeSlots, Slots
<1>2. Min(FreeSlots) \in FreeSlots
  BY <1>1, MinOfNumbers
<1>3. QED
  BY <1>2 DEF FreeSlots, find_free_client_slot

-----------------------------------------------------------------------------
(* What the handlers do to the table and the descriptors. *)

TableInv == TableTyped /\ SlotsHold /\ ThreadsHold

\* New threads, whose files are not open yet.
NewThreads == {t \in Threads : t.file_fd = NoFd}

\* A step that leaves the table alone keeps what holds of it.
LEMMA TableUnchanged ==
  ASSUME TableInv, UNCHANGED table, UNCHANGED tasks,
         spc' = "openrx" <=> spc = "openrx", spc = "openrx" => lines' = lines
  PROVE  TableInv'
  BY DEF TableInv, TableTyped, SlotsHold, SlotOpen, Has, ThreadsHold, table, Registering

\* Threads are added: nothing of the server is opened or closed.
LEMMA ThreadsStarted ==
  ASSUME TableInv, UNCHANGED table, spc # "openrx", spc' # "openrx",
         NEW N \in SUBSET NewThreads, tasks' = tasks \cup N
  PROVE  TableInv'
<1>1. TableTyped'
  BY DEF TableInv, TableTyped, table, NewThreads
<1>2. SlotsHold'
  BY DEF TableInv, SlotsHold, SlotOpen, Has, table, Registering
<1>3. ThreadsHold'
  BY DEF TableInv, ThreadsHold, table, NewThreads
<1>4. QED
  BY <1>1, <1>2, <1>3 DEF TableInv

\* A slot is closed, and threads may have been added: the slot's two numbers are
\* those of its own pipes, and every other slot and every thread keeps its own.
LEMMA SlotClosed ==
  ASSUME TableInv, spc # "openrx", spc' # "openrx",
         NEW i \in Slots, clients[i].is_active, close_client_connection(i),
         NEW N \in SUBSET NewThreads, tasks' = tasks \cup N
  PROVE  TableInv' /\ fds' \subseteq fds
<1> DEFINE both == {clients[i].tx_fd, clients[i].rx_fd}
<1>1. clients' = [clients EXCEPT ![i] = Free] /\ fds' = {e \in fds : e.fd \notin both}
  BY DEF close_client_connection
<1>2. fds' \subseteq fds
  BY <1>1
<1>3. clients \in [Slots -> [is_active : BOOLEAN, tx_fd : Nat, rx_fd : Nat]]
      /\ Free \in [is_active : BOOLEAN, tx_fd : Nat, rx_fd : Nat] /\ ~Free.is_active
  BY DEF TableInv, TableTyped, Free, NoFd
<1>4. \A j \in Slots : clients'[j] = IF j = i THEN Free ELSE clients[j]
  BY <1>1, <1>3
<1>5. TableTyped'
  <2>1. clients' \in [Slots -> [is_active : BOOLEAN, tx_fd : Nat, rx_fd : Nat]]
    BY <1>1, <1>3
  <2>2. \A j \in Slots : clients'[j].is_active \/ clients'[j] = Free
    BY <1>4 DEF TableInv, TableTyped
  <2>3. fds' \subseteq Entries /\ IsFiniteSet(fds')
    BY <1>2, FS_Subset DEF TableInv, TableTyped
  <2>4. \A d, e \in fds' : d.fd = e.fd => d = e
    BY <1>2 DEF TableInv, TableTyped
  <2>5. tasks' \subseteq Threads
    BY DEF TableInv, TableTyped, NewThreads
  <2>6. QED
    BY <2>1, <2>2, <2>3, <2>4, <2>5 DEF TableTyped
<1>6. \A fd : Has(i, fd) <=> fd \in both
  BY DEF Has
<1>7. \A j \in Slots : \A fd : Has(j, fd)' <=> Has(j, fd) /\ j # i
  BY <1>3, <1>4 DEF Has
<1>8. \A j, k \in Slots : \A fd : Has(j, fd) /\ Has(k, fd) => j = k
  <2>1. \A j, k \in Slots : \A fd \in {clients[j].tx_fd, clients[j].rx_fd} : Has(j, fd) /\ Has(k, fd) => j = k
    BY DEF TableInv, SlotsHold
  <2>2. QED
    BY <2>1 DEF Has
<1>9. SlotsHold'
  <2>1. ASSUME NEW j \in Slots, clients'[j].is_active PROVE \E c \in Clients : SlotOpen(j, c)'
    <3>1. j # i /\ clients[j].is_active /\ clients'[j] = clients[j]
      BY <1>3, <1>4, <2>1
    <3>2. PICK c \in Clients : SlotOpen(j, c)
      BY <3>1 DEF TableInv, SlotsHold
    <3>3. clients[j].tx_fd \notin both /\ clients[j].rx_fd \notin both
      BY <1>6, <1>8, <3>1 DEF Has
    <3>4. SlotOpen(j, c)'
      BY <1>1, <3>1, <3>2, <3>3 DEF SlotOpen, Entry
    <3>5. QED
      BY <3>4
  <2>2. \A j, k \in Slots : \A fd \in {clients'[j].tx_fd, clients'[j].rx_fd} : Has(j, fd)' /\ Has(k, fd)' => j = k
    BY <1>7, <1>8
  <2>3. \A e \in fds' : e.what # "file" => (Registering(e)' <=> \A j \in Slots : ~Has(j, e.fd)')
    <3> SUFFICES ASSUME NEW e \in fds', e.what # "file" PROVE \E j \in Slots : Has(j, e.fd)'
      BY DEF Registering
    <3>1. PICK j \in Slots : Has(j, e.fd)
      BY <1>2 DEF TableInv, SlotsHold, Registering
    <3>2. j # i
      BY <1>1, <1>6, <3>1
    <3>3. QED
      BY <1>7, <3>1, <3>2
  <2>4. QED
    BY <2>1, <2>2, <2>3 DEF SlotsHold
<1>10. ThreadsHold'
  <2>1. \A e \in fds' : e.what = "file" => \E t \in tasks' : t.file_fd = e.fd
    BY <1>2 DEF TableInv, ThreadsHold
  <2>2. ASSUME NEW t \in tasks', t.file_fd # NoFd PROVE Entry(t.file_fd, "file", t.client) \in fds'
    <3>1. t \in tasks
      BY <2>2 DEF NewThreads
    <3>2. Entry(t.file_fd, "file", t.client) \in fds
      BY <2>2, <3>1 DEF TableInv, ThreadsHold
    <3>3. ~Has(i, t.file_fd)
      <4>1. Has(i, t.file_fd) => \A e \in fds : e.fd = t.file_fd => e.what # "file"
        BY HeldIsPipe DEF TableInv
      <4>2. QED
        BY <3>2, <4>1 DEF Entry
    <3>4. QED
      BY <1>1, <1>6, <3>2, <3>3 DEF Entry
  <2>3. \A t, u \in tasks' : t.file_fd = u.file_fd /\ t.file_fd # NoFd => t = u
    BY DEF TableInv, ThreadsHold, NewThreads
  <2>4. QED
    BY <2>1, <2>2, <2>3 DEF ThreadsHold
<1>11. QED
  BY <1>2, <1>5, <1>9, <1>10 DEF TableInv

\* The commands that a client has sent are 0, or numbers of its files.
Commands(c, cmds) == \A k \in DOMAIN cmds : cmds[k] \in Nat /\ cmds[k] <= Len(Wanted[c])

\* A batch of commands starts threads for files that exist.
LEMMA CommandsStartThreads ==
  ASSUME TableInv, NEW i \in Slots, clients[i].is_active, NEW cmds,
         Commands(Owner(clients[i].rx_fd), cmds), process_client_commands(i, cmds)
  PROVE  /\ \E N \in SUBSET NewThreads : tasks' = tasks \cup N
         /\ UNCHANGED table \/ close_client_connection(i)
<1> DEFINE c == Owner(clients[i].rx_fd)
<1>1. c \in Clients /\ SlotOpen(i, c)
  BY OwnerOfSlot DEF TableInv
<1>2. clients[i].tx_fd \in Fds
  BY <1>1 DEF SlotOpen, Entry, TableInv, TableTyped, Entries
<1>3. \A f \in ToSet(cmds) \ {DISCONNECT} : Wanted[c][f] >= 0 => Found(c, f)
  BY <1>1, ConstantsAssumption DEF ToSet, Commands, DISCONNECT, Found
<1>4. ASSUME NEW f \in ToSet(cmds) \ {DISCONNECT}, Wanted[c][f] >= 0
      PROVE  [client |-> c, file |-> f, client_fd |-> clients[i].tx_fd, file_fd |-> NoFd, part |-> 0] \in NewThreads
  <2>1. Found(c, f)
    BY <1>3, <1>4
  <2>2. 0 <= Wanted[c][f] + 1
    BY <1>1, <2>1, ConstantsAssumption DEF Found
  <2>3. f \in Nat
    BY <2>1, <1>1, ConstantsAssumption DEF Found
  <2>4. QED
    BY <1>1, <1>2, <2>1, <2>2, <2>3 DEF NewThreads, Threads, NoFd
<1>5. PICK gets \in SUBSET {f \in ToSet(cmds) \ {DISCONNECT} : Wanted[c][f] >= 0} :
        tasks' = tasks \cup
          {[client |-> c, file |-> f, client_fd |-> clients[i].tx_fd, file_fd |-> NoFd, part |-> 0] : f \in gets}
  BY DEF process_client_commands
<1>6. \E N \in SUBSET NewThreads : tasks' = tasks \cup N
  BY <1>4, <1>5
<1>7. UNCHANGED table \/ close_client_connection(i)
  BY DEF process_client_commands
<1>8. QED
  BY <1>6, <1>7

\* The descriptors and the threads stay in order when the commands in a client's
\* pipe are run.
LEMMA CommandsKeepTable ==
  ASSUME TableInv, spc # "openrx", spc' # "openrx", NEW i \in Slots, clients[i].is_active, NEW cmds,
         Commands(Owner(clients[i].rx_fd), cmds), process_client_commands(i, cmds)
  PROVE  TableInv' /\ fds' \subseteq fds
<1>1. PICK N \in SUBSET NewThreads : tasks' = tasks \cup N
  BY CommandsStartThreads
<1>2. CASE UNCHANGED table
  <2>1. TableInv'
    BY <1>1, <1>2, ThreadsStarted
  <2>2. QED
    BY <1>2, <2>1 DEF table
<1>3. CASE close_client_connection(i)
  BY <1>1, <1>3, SlotClosed
<1>4. QED
  BY <1>2, <1>3, CommandsStartThreads

-----------------------------------------------------------------------------
(* Every step of the server keeps the invariant of the descriptors. *)

\* The registration that has been handled is taken off the list.
LEMMA NextLineTakesHead ==
  ASSUME ServerTyped, spc \in Registration, NextLine
  PROVE  /\ lines' \in Seq(Clients) /\ spc' \in {"register", "registrations"}
         /\ lines' # <<>> <=> spc' \in Registration
         /\ \A j \in DOMAIN lines' : j + 1 \in DOMAIN lines /\ lines'[j] = lines[j + 1] /\ j \in Nat \ {0}
<1>1. lines \in Seq(Clients) /\ lines # <<>> /\ Len(lines) \in Nat /\ lines' = Tail(lines)
      /\ DOMAIN lines = 1..Len(lines)
  BY DEF ServerTyped, NextLine
<1>2. Len(lines') = Len(lines) - 1 /\ lines' \in Seq(Clients) /\ \A j \in 1..Len(lines) - 1 : lines'[j] = lines[j + 1]
  BY <1>1
<1>3. DOMAIN lines' = 1..Len(lines) - 1
  BY <1>1, <1>2
<1>4. \A j \in DOMAIN lines' : j + 1 \in DOMAIN lines /\ lines'[j] = lines[j + 1] /\ j \in Nat \ {0}
  BY <1>1, <1>2, <1>3
<1>5. spc' = IF Len(lines) = 1 THEN "registrations" ELSE "register"
  BY DEF NextLine
<1>6. lines' = <<>> <=> Len(lines) = 1
  <2>1. PICK n \in Nat, s \in Seq(Clients) : n = Len(lines) /\ s = lines' /\ Len(s) = n - 1
    BY <1>1, <1>2
  <2>2. s = <<>> <=> Len(s) = 0
    OBVIOUS
  <2>3. QED
    BY <2>1, <2>2
<1>7. QED
  BY <1>2, <1>4, <1>5, <1>6 DEF Registration

\* The client being registered is the first of those read from the FIFO.
LEMMA HeadIsFirst ==
  ASSUME ServerTyped, spc \in Registration
  PROVE  Head(lines) \in Clients /\ 1 \in DOMAIN lines /\ lines[1] = Head(lines)
  BY DEF ServerTyped

\* After it the others wait as before.
LEMMA NextLineKeepsQueue ==
  ASSUME ServerTyped, spc \in Registration, Queued, NextLine, UNCHANGED <<pc, server_fifo>>,
         \A e \in fds' : e.what # "file" => e \in fds
  PROVE  Queued'
<1>1. \A j \in DOMAIN lines' : j + 1 \in DOMAIN lines /\ lines'[j] = lines[j + 1] /\ j + 1 > 1
  BY NextLineTakesHead
<1>2. \A c : NoPipes(c) => NoPipes(c)'
  BY DEF NoPipes
<1>3. \A j \in DOMAIN lines' : pc'[lines'[j]] # "start" /\ NoPipes(lines[j])'
  BY <1>1, <1>2 DEF Queued
<1>4. \A j, k \in DOMAIN lines' : lines'[j] = lines'[k] => j = k
  <2> SUFFICES ASSUME NEW j \in DOMAIN lines', NEW k \in DOMAIN lines', lines'[j] = lines'[k] PROVE j = k
    OBVIOUS
  <2>1. j + 1 = k + 1
    BY <1>1 DEF Queued
  <2>2. QED
    BY <2>1, NextLineTakesHead
<1>5. \A j \in DOMAIN lines', k \in DOMAIN server_fifo : lines'[j] # server_fifo[k]
  BY <1>1 DEF Queued
<1>6. QED
  BY <1>2, <1>3, <1>4, <1>5 DEF Queued

\* A step that leaves the registrations where they are.
LEMMA QueueUnchanged ==
  ASSUME Queued, UNCHANGED <<lines, server_fifo, pc>>, spc' = "register" => spc = "register",
         \A e \in fds' : e.what # "file" => e \in fds
  PROVE  Queued'
  BY DEF Queued, NoPipes

\* The steps of the main thread that only move it on.
LEMMA MainThreadMoves ==
  ASSUME DescriptorsInv,
         S_Wait \/ S_FifoEvent \/ S_EventsDone \/ S_PeriodicDone \/ S_ReadFifo \/ S_Reject
  PROVE  DescriptorsInv'
<1>1. UNCHANGED table /\ UNCHANGED tasks /\ UNCHANGED client /\ UNCHANGED <<rx, tx>>
  BY DEF S_Wait, S_FifoEvent, S_EventsDone, S_PeriodicDone, S_ReadFifo, S_Reject, pipes, table, client
<1>2. spc \notin {"openrx", "ack", "check"} /\ spc' \notin {"openrx", "ack", "check"}
  BY DEF S_Wait, S_FifoEvent, S_EventsDone, S_PeriodicDone, S_ReadFifo, S_Reject, NextLine
<1>3. TableInv'
  BY <1>1, <1>2, TableUnchanged DEF DescriptorsInv, TableInv
<1>4. ClientsTyped'
  BY <1>1 DEF DescriptorsInv, ClientsTyped, client
<1>5. Opening'
  BY <1>2 DEF Opening
<1>6. \A e \in fds' : e.what # "file" => e \in fds
  BY <1>1 DEF table
<1>7. ServerTyped' /\ Queued'
  <2>1. CASE S_Wait \/ S_FifoEvent \/ S_EventsDone \/ S_PeriodicDone
    <3>1. UNCHANGED <<lines, server_fifo, pc>> /\ spc' # "register"
      BY <2>1, <1>1 DEF S_Wait, S_FifoEvent, S_EventsDone, S_PeriodicDone, pipes, client
    <3>2. Queued'
      BY <1>6, <3>1, QueueUnchanged DEF DescriptorsInv
    <3>3. counter' \in 0..PERIOD - 1
      BY <2>1, ConstantsAssumption
         DEF S_Wait, S_FifoEvent, S_EventsDone, S_PeriodicDone, DescriptorsInv, ServerTyped
    <3>4. idx' \in 0..MAX_CLIENTS
      BY <2>1, ConstantsAssumption
         DEF S_Wait, S_FifoEvent, S_EventsDone, S_PeriodicDone, DescriptorsInv, ServerTyped
    <3>5. ready' \subseteq Slots /\ UNCHANGED server_running
      <4>1. ReadyTags \subseteq Slots
        BY ConstantsAssumption DEF ReadyTags, Slots
      <4>2. QED
        BY <2>1, <4>1 DEF S_Wait, S_FifoEvent, S_EventsDone, S_PeriodicDone, DescriptorsInv, ServerTyped
    <3>6. spc \notin Registration /\ spc' \in {"wait", "events", "periodic", "registrations"}
      BY <2>1 DEF S_Wait, S_FifoEvent, S_EventsDone, S_PeriodicDone, Registration
    <3>7. ServerTyped'
      BY <3>1, <3>3, <3>4, <3>5, <3>6 DEF DescriptorsInv, ServerTyped, Registration
    <3>8. QED
      BY <3>2, <3>7
  <2>2. CASE S_ReadFifo
    <3>1. lines' = server_fifo /\ server_fifo' = <<>> /\ spc' = (IF server_fifo = <<>> THEN "events" ELSE "register")
          /\ UNCHANGED <<counter, ready, idx, server_running>> /\ UNCHANGED pc
      BY <2>2, <1>1 DEF S_ReadFifo, client
    <3>2. ServerTyped'
      BY <3>1 DEF DescriptorsInv, ServerTyped, Registration
    <3>3. \A c : NoPipes(c)' <=> NoPipes(c)
      BY <1>1 DEF NoPipes, table
    <3>4. DOMAIN server_fifo' = {}
      BY <3>1
    <3>5. Queued'
      BY <3>1, <3>3, <3>4 DEF DescriptorsInv, Queued
    <3>6. QED
      BY <3>2, <3>5
  <2>3. CASE S_Reject
    <3>1. NextLine /\ spc = "register" /\ UNCHANGED <<counter, ready, idx, server_running, server_fifo>> /\ UNCHANGED pc
      BY <2>3, <1>1 DEF S_Reject, client, pipes
    <3>2. Queued'
      BY <1>6, <3>1, NextLineKeepsQueue DEF DescriptorsInv, Registration
    <3>3. ServerTyped'
      BY <3>1, NextLineTakesHead DEF DescriptorsInv, ServerTyped, Registration
    <3>4. QED
      BY <3>2, <3>3
  <2>4. QED
    BY <2>1, <2>2, <2>3
<1>8. QED
  BY <1>3, <1>4, <1>5, <1>7 DEF DescriptorsInv, TableInv

\* What is read from the pipe of a slot are commands of its client.
LEMMA PipeHasCommands ==
  ASSUME ClientsTyped, NEW c \in Clients
  PROVE  Commands(c, rx[c])
  BY DEF ClientsTyped, Commands

\* Reading all commands of a pipe, as the server does, keeps the types of the
\* clients.
LEMMA PipeEmptied ==
  ASSUME ClientsTyped, NEW c \in Clients, UNCHANGED <<tx, client>>,
         rx' = [rx EXCEPT ![c] = <<>>]
  PROVE  ClientsTyped'
<1>1. rx' \in [Clients -> Seq(Nat)]
  BY DEF ClientsTyped
<1>2. \A d \in Clients : rx'[d] = IF d = c THEN <<>> ELSE rx[d]
  BY DEF ClientsTyped
<1>3. \A d \in Clients : \A k \in DOMAIN rx'[d] : rx'[d][k] <= Len(Wanted[d])
  BY <1>2 DEF ClientsTyped
<1>4. QED
  BY <1>1, <1>3 DEF ClientsTyped, client

\* A slot is served, whether its client has ended or not.
LEMMA ServeKeepsTable ==
  ASSUME TableInv, ClientsTyped, spc # "openrx", spc' # "openrx", NEW i \in Slots, NEW ended, Serve(i, ended),
         UNCHANGED <<tx, client>>
  PROVE  TableInv' /\ ClientsTyped' /\ fds' \subseteq fds
<1>1. CASE ~clients[i].is_active
  <2>1. UNCHANGED <<table, tasks, rx>>
    BY <1>1 DEF Serve
  <2>2. TableInv'
    BY <2>1, TableUnchanged
  <2>3. QED
    BY <2>1, <2>2 DEF ClientsTyped, client, table
<1>2. CASE clients[i].is_active
  <2> DEFINE c == Owner(clients[i].rx_fd)
  <2>1. c \in Clients
    BY <1>2, OwnerOfSlot DEF TableInv
  <2>2. rx' = [rx EXCEPT ![c] = <<>>]
        /\ IF c \in ended THEN close_client_connection(i) /\ tasks' = tasks
           ELSE process_client_commands(i, rx[c])
    BY <1>2 DEF Serve
  <2>3. ClientsTyped'
    BY <2>1, <2>2, PipeEmptied
  <2>4. CASE c \in ended
    <3>1. tasks' = tasks \cup {} /\ {} \in SUBSET NewThreads
      BY <2>2, <2>4
    <3>2. TableInv' /\ fds' \subseteq fds
      BY <1>2, <2>2, <2>4, <3>1, SlotClosed
    <3>3. QED
      BY <2>3, <3>2
  <2>5. CASE c \notin ended
    <3>1. Commands(c, rx[c])
      BY <2>1, PipeHasCommands
    <3>2. TableInv' /\ fds' \subseteq fds
      BY <1>2, <2>2, <2>5, <3>1, CommandsKeepTable
    <3>3. QED
      BY <2>3, <3>2
  <2>6. QED
    BY <2>4, <2>5
<1>3. QED
  BY <1>1, <1>2

\* The steps of the main thread that read and run commands keep the invariant.
LEMMA ServersKeepInv ==
  ASSUME DescriptorsInv, S_ClientEvent \/ S_Periodic
  PROVE  DescriptorsInv'
<1>1. UNCHANGED <<spc, server_running, counter, lines, server_fifo, pc>> /\ UNCHANGED <<tx, client>>
      /\ spc \in {"events", "periodic"}
  BY DEF S_ClientEvent, S_Periodic, client
<1>2. \E i \in Slots, ended \in SUBSET Clients : Serve(i, ended)
  <2>1. CASE S_ClientEvent
    BY <2>1 DEF S_ClientEvent, DescriptorsInv, ServerTyped
  <2>2. CASE S_Periodic
    <3>1. idx \in Slots
      BY <2>2, ConstantsAssumption DEF S_Periodic, DescriptorsInv, ServerTyped, Slots
    <3>2. QED
      BY <2>2, <3>1 DEF S_Periodic
  <2>3. QED
    BY <2>1, <2>2
<1>3. PICK i \in Slots, ended \in SUBSET Clients : Serve(i, ended)
  BY <1>2
<1>4. spc # "openrx" /\ spc' # "openrx"
  BY <1>1
<1>5. TableInv' /\ ClientsTyped' /\ fds' \subseteq fds
  BY <1>1, <1>3, <1>4, ServeKeepsTable DEF DescriptorsInv, TableInv
<1>6. Queued'
  BY <1>1, <1>5, QueueUnchanged DEF DescriptorsInv
<1>7. Opening'
  BY <1>1 DEF Opening
<1>8. idx' \in 0..MAX_CLIENTS /\ ready' \subseteq Slots
  <2>1. CASE S_ClientEvent
    BY <2>1 DEF S_ClientEvent, DescriptorsInv, ServerTyped
  <2>2. CASE S_Periodic
    BY <2>2, ConstantsAssumption DEF S_Periodic, DescriptorsInv, ServerTyped
  <2>3. QED
    BY <2>1, <2>2
<1>9. ServerTyped'
  BY <1>1, <1>8 DEF DescriptorsInv, ServerTyped
<1>10. QED
  BY <1>5, <1>6, <1>7, <1>9 DEF DescriptorsInv, TableInv

\* Closing all of the table at the end keeps the invariant.
LEMMA ShutdownKeepsInv ==
  ASSUME DescriptorsInv, S_Shutdown
  PROVE  DescriptorsInv'
<1>1. /\ clients' = [j \in Slots |-> Free] /\ fds' = {} /\ tasks' = {} /\ server_fifo' = <<>>
      /\ spc = "wait" /\ spc' = "stopped"
      /\ UNCHANGED <<server_running, counter, ready, lines, idx, rx, tx>> /\ UNCHANGED client
  BY DEF S_Shutdown
<1>2. ServerTyped'
  BY <1>1 DEF DescriptorsInv, ServerTyped, Registration
<1>3. ClientsTyped'
  BY <1>1 DEF DescriptorsInv, ClientsTyped, client
<1>4. Free \in [is_active : BOOLEAN, tx_fd : Nat, rx_fd : Nat] /\ ~Free.is_active
  BY DEF Free, NoFd
<1>5. TableTyped'
  BY <1>1, <1>4, FS_EmptySet DEF TableTyped
<1>6. SlotsHold' /\ ThreadsHold'
  BY <1>1, <1>4 DEF SlotsHold, Has, ThreadsHold
<1>7. Opening'
  BY <1>1 DEF Opening
<1>8. lines = <<>> /\ DOMAIN lines' = {} /\ DOMAIN server_fifo' = {}
  BY <1>1 DEF DescriptorsInv, ServerTyped, Registration
<1>9. Queued'
  BY <1>1, <1>8 DEF Queued, NoPipes
<1>10. QED
  BY <1>2, <1>3, <1>5, <1>6, <1>7, <1>9 DEF DescriptorsInv

-----------------------------------------------------------------------------
(* Registration. *)

\* open() of tx: for the first time the server has a pipe of this client.
LEMMA OpenTxKeepsInv ==
  ASSUME DescriptorsInv, S_OpenTx
  PROVE  DescriptorsInv'
<1>1. /\ spc = "register" /\ spc' = "openrx" /\ FreeSlots # {} /\ fds' = fds \cup {Entry(LowestFd, "tx", Head(lines))}
      /\ UNCHANGED <<server_running, counter, ready, lines, idx, clients, tasks>>
      /\ UNCHANGED <<server_fifo, rx, tx, pc>> /\ UNCHANGED client
  BY DEF S_OpenTx, pipes, client
<1>2. PICK c \in Clients : c = Head(lines) /\ 1 \in DOMAIN lines /\ lines[1] = c
  BY <1>1, HeadIsFirst DEF DescriptorsInv, Registration
<1>3. LowestFd \in Fds /\ \A e \in fds : e.fd # LowestFd
  BY LowestIsFree DEF DescriptorsInv
<1>4. PICK new \in Entries : fds' = fds \cup {new} /\ new.fd = LowestFd /\ new.what = "tx" /\ new.client = c
  <2> DEFINE e == Entry(LowestFd, "tx", c)
  <2>1. e \in Entries /\ e.fd = LowestFd /\ e.what = "tx" /\ e.client = c
    BY <1>2, <1>3 DEF Entry, Entries
  <2>2. fds' = fds \cup {e}
    BY <1>1, <1>2
  <2> HIDE DEF e
  <2>3. QED
    BY <2>1, <2>2
<1>5. ServerTyped'
  BY <1>1 DEF DescriptorsInv, ServerTyped, Registration
<1>6. ClientsTyped'
  BY <1>1 DEF DescriptorsInv, ClientsTyped, client
<1>7. TableTyped'
  <2>1. IsFiniteSet(fds')
    BY <1>4, FS_AddElement DEF DescriptorsInv, TableTyped
  <2>2. \A d, e \in fds' : d.fd = e.fd => d = e
    BY <1>1, <1>3, <1>4 DEF DescriptorsInv, TableTyped
  <2>3. QED
    BY <1>1, <1>4, <2>1, <2>2 DEF DescriptorsInv, TableTyped
<1>8. \A i \in Slots : \A fd : Has(i, fd)' <=> Has(i, fd)
  BY <1>1 DEF Has
<1>9. \A e \in fds : e.client = c => e.what = "file"
  BY <1>1, <1>2 DEF DescriptorsInv, Queued, NoPipes
<1>10. \A i \in Slots : ~Has(i, LowestFd)
  BY <1>3, HeldIsPipe DEF DescriptorsInv
<1>11. SlotsHold'
  <2>1. \A i \in Slots : clients'[i].is_active => \E d \in Clients : SlotOpen(i, d)'
    BY <1>1, <1>4 DEF DescriptorsInv, SlotsHold, SlotOpen
  <2>2. \A i, j \in Slots : \A fd \in {clients'[i].tx_fd, clients'[i].rx_fd} : Has(i, fd)' /\ Has(j, fd)' => i = j
    BY <1>1, <1>8 DEF DescriptorsInv, SlotsHold
  <2>3. ASSUME NEW e \in fds', e.what # "file"
        PROVE  Registering(e)' <=> \A i \in Slots : ~Has(i, e.fd)'
    <3>1. CASE e \in fds
      <4>1. ~Registering(e) /\ ~Registering(e)'
        BY <1>1, <1>2, <1>9, <2>3, <3>1 DEF Registering
      <4>2. QED
        BY <1>8, <2>3, <3>1, <4>1 DEF DescriptorsInv, SlotsHold
    <3>2. CASE e = new
      BY <1>1, <1>2, <1>4, <1>8, <1>10, <3>2 DEF Registering
    <3>3. QED
      BY <1>4, <3>1, <3>2
  <2>4. QED
    BY <2>1, <2>2, <2>3 DEF SlotsHold
<1>12. ThreadsHold'
  BY <1>1, <1>4 DEF DescriptorsInv, ThreadsHold
<1>13. Queued'
  <2>1. ASSUME NEW d, d # c, NoPipes(d) PROVE NoPipes(d)'
    BY <1>1, <1>4, <2>1 DEF NoPipes
  <2>2. \A j \in DOMAIN lines : j > 1 => lines[j] # c
    BY <1>2 DEF DescriptorsInv, Queued
  <2>3. \A k \in DOMAIN server_fifo : server_fifo[k] # c
    BY <1>2 DEF DescriptorsInv, Queued
  <2>4. pc[c] # "start"
    BY <1>2 DEF DescriptorsInv, Queued
  <2>5. \A j \in DOMAIN lines : pc[lines[j]] # "start" /\ (j > 1 => NoPipes(lines[j]))
    BY <1>1 DEF DescriptorsInv, Queued
  <2>6. \A j \in DOMAIN lines' : pc'[lines'[j]] # "start" /\ ((j > 1 \/ spc' = "register") => NoPipes(lines[j])')
    BY <1>1, <2>1, <2>2, <2>5
  <2>7. \A k \in DOMAIN server_fifo' : pc'[server_fifo'[k]] # "start" /\ NoPipes(server_fifo[k])'
    BY <1>1, <2>1, <2>3 DEF DescriptorsInv, Queued
  <2>8. \A d \in Clients : pc'[d] = "start" => NoPipes(d)'
    BY <1>1, <2>1, <2>4 DEF DescriptorsInv, Queued
  <2>9. QED
    BY <1>1, <2>6, <2>7, <2>8 DEF DescriptorsInv, Queued
<1>14. Opening'
  <2>1. Registering(new)' /\ new \in fds'
    BY <1>1, <1>2, <1>4 DEF Registering
  <2>2. \A d \in fds' : d.client = new.client /\ d.what # "file" => d = new
    BY <1>1, <1>4, <1>9
  <2>3. FreeSlots' # {}
    BY <1>1 DEF FreeSlots
  <2>4. QED
    BY <1>1, <2>1, <2>2, <2>3 DEF Opening
<1>15. QED
  BY <1>5, <1>6, <1>7, <1>11, <1>12, <1>13, <1>14 DEF DescriptorsInv

\* open() of rx fills the slot, or finds that the client has removed the pipe:
\* the registration's descriptor is the only one of this client.
LEMMA OpenRxKeepsInv ==
  ASSUME DescriptorsInv, S_OpenRx
  PROVE  DescriptorsInv'
<1>1. /\ spc = "openrx"
      /\ UNCHANGED <<server_running, counter, ready, idx, tasks>>
      /\ UNCHANGED <<server_fifo, rx, tx, pc>> /\ UNCHANGED client
  BY DEF S_OpenRx, pipes, client
<1>2. PICK c \in Clients : c = Head(lines) /\ 1 \in DOMAIN lines /\ lines[1] = c
  BY <1>1, HeadIsFirst DEF DescriptorsInv, Registration
<1> DEFINE txe == CHOOSE e \in fds : e.what = "tx" /\ e.client = c
           new == Entry(LowestFd, "rx", c)
<1>3. txe \in fds /\ txe.what = "tx" /\ txe.client = c /\ \A d \in fds : d.client = c /\ d.what # "file" => d = txe
  <2>1. PICK e \in fds : Registering(e) /\ \A d \in fds : d.client = e.client /\ d.what # "file" => d = e
    BY <1>1 DEF DescriptorsInv, Opening
  <2>2. e.what = "tx" /\ e.client = c
    BY <1>2, <2>1 DEF Registering
  <2>3. txe = e
    BY <2>1, <2>2
  <2>4. QED
    BY <2>1, <2>2, <2>3
<1> HIDE DEF txe
<1>4. Registering(txe) /\ \A i \in Slots : ~Has(i, txe.fd)
  BY <1>1, <1>2, <1>3 DEF Registering, DescriptorsInv, SlotsHold
<1>5. \A e \in fds : e # txe => ~Registering(e)
  BY <1>2, <1>3 DEF Registering
<1>6. ClientsTyped'
  BY <1>1 DEF DescriptorsInv, ClientsTyped, client
<1>7. CASE RxExists(c)
  <2>2. PICK s \in Slots : s = find_free_client_slot /\ ~clients[s].is_active
    BY <1>1, FreeSlot DEF DescriptorsInv, Opening
  <2>1. /\ fds' = fds \cup {new}
        /\ clients' = [clients EXCEPT ![s] = [is_active |-> TRUE, tx_fd |-> txe.fd, rx_fd |-> LowestFd]]
        /\ spc' = "ack" /\ lines' = lines
    BY <1>2, <1>7, <2>2 DEF S_OpenRx, txe
  <2>3. LowestFd \in Fds /\ \A e \in fds : e.fd # LowestFd
    BY LowestIsFree DEF DescriptorsInv
  <2>4. new \in Entries /\ new.fd = LowestFd /\ new.what = "rx" /\ new.client = c
    BY <1>2, <2>3 DEF Entry, Entries
  <2>5. txe = Entry(txe.fd, "tx", c) /\ new = Entry(LowestFd, "rx", c) /\ txe.fd \in Nat /\ LowestFd \in Nat
    <3>1. txe \in [fd : Fds, what : {"tx", "rx", "file"}, client : Clients]
      BY <1>3 DEF DescriptorsInv, TableTyped, Entries
    <3>2. QED
      BY <1>3, <2>3, <3>1 DEF Entry, Fds
  <2> HIDE DEF new
  <2>6. ServerTyped'
    BY <1>1, <2>1 DEF DescriptorsInv, ServerTyped, Registration
  <2>7. clients \in [Slots -> [is_active : BOOLEAN, tx_fd : Nat, rx_fd : Nat]]
    BY DEF DescriptorsInv, TableTyped
  <2>8. \A i \in Slots : clients'[i] = IF i = s THEN [is_active |-> TRUE, tx_fd |-> txe.fd, rx_fd |-> LowestFd] ELSE clients[i]
    BY <2>1, <2>7
  <2>9. TableTyped'
    <3>1. clients' \in [Slots -> [is_active : BOOLEAN, tx_fd : Nat, rx_fd : Nat]]
      BY <2>1, <2>5, <2>7
    <3>2. \A i \in Slots : clients'[i].is_active \/ clients'[i] = Free
      BY <2>8 DEF DescriptorsInv, TableTyped
    <3>3. IsFiniteSet(fds')
      BY <2>1, FS_AddElement DEF DescriptorsInv, TableTyped
    <3>4. \A d, e \in fds' : d.fd = e.fd => d = e
      BY <2>1, <2>3, <2>4 DEF DescriptorsInv, TableTyped
    <3>5. QED
      BY <1>1, <2>1, <2>4, <3>1, <3>2, <3>3, <3>4 DEF DescriptorsInv, TableTyped
  <2>10. \A i \in Slots : \A fd : Has(i, fd)' <=> IF i = s THEN fd \in {txe.fd, LowestFd} ELSE Has(i, fd)
    <3>1. ASSUME NEW fd PROVE Has(s, fd)' <=> fd \in {txe.fd, LowestFd}
      BY <2>2, <2>8 DEF Has
    <3>2. ASSUME NEW i \in Slots, i # s, NEW fd PROVE Has(i, fd)' <=> Has(i, fd)
      BY <2>8, <3>2 DEF Has
    <3>3. QED
      BY <3>1, <3>2
  <2>11. \A i \in Slots : ~Has(i, LowestFd)
    BY <2>3, HeldIsPipe DEF DescriptorsInv
  <2>12. SlotOpen(s, c)' /\ clients'[s].is_active
    BY <1>3, <2>1, <2>2, <2>5, <2>8 DEF SlotOpen
  <2>13. SlotsHold'
    <3>1. ASSUME NEW i \in Slots, clients'[i].is_active PROVE \E d \in Clients : SlotOpen(i, d)'
      <4>1. CASE i = s
        BY <1>2, <2>12, <4>1
      <4>2. CASE i # s
        BY <2>1, <2>8, <3>1, <4>2 DEF DescriptorsInv, SlotsHold, SlotOpen
      <4>3. QED
        BY <4>1, <4>2
    <3>2. ASSUME NEW i \in Slots, NEW j \in Slots, NEW fd, Has(i, fd)', Has(j, fd)' PROVE i = j
      <4>1. Has(i, fd) /\ Has(j, fd) => i = j
        BY DEF DescriptorsInv, SlotsHold, Has
      <4>2. QED
        BY <1>4, <2>10, <2>11, <3>2, <4>1
    <3>3. ASSUME NEW e \in fds', e.what # "file"
          PROVE  Registering(e)' <=> \A i \in Slots : ~Has(i, e.fd)'
      <4>1. ~Registering(e)'
        BY <2>1 DEF Registering
      <4>2. CASE e = new \/ e = txe
        BY <2>2, <2>4, <2>10, <4>1, <4>2
      <4>3. CASE e \in fds /\ e # txe
        <5>1. PICK i \in Slots : Has(i, e.fd)
          BY <1>5, <3>3, <4>3 DEF DescriptorsInv, SlotsHold
        <5>2. i # s
          BY <2>2, <5>1 DEF Has
        <5>3. QED
          BY <2>10, <4>1, <5>1, <5>2
      <4>4. QED
        BY <2>1, <4>2, <4>3
    <3>4. QED
      BY <3>1, <3>2, <3>3 DEF SlotsHold
  <2>14. ThreadsHold'
    BY <1>1, <2>1, <2>4 DEF DescriptorsInv, ThreadsHold
  <2>15. Queued'
    <3>1. ASSUME NEW d, d # c, NoPipes(d) PROVE NoPipes(d)'
      BY <2>1, <2>4, <3>1 DEF NoPipes
    <3>2. \A j \in DOMAIN lines : j > 1 => lines[j] # c
      BY <1>2 DEF DescriptorsInv, Queued
    <3>3. \A k \in DOMAIN server_fifo : server_fifo[k] # c
      BY <1>2 DEF DescriptorsInv, Queued
    <3>4. pc[c] # "start"
      BY <1>2 DEF DescriptorsInv, Queued
    <3>5. \A j \in DOMAIN lines : pc[lines[j]] # "start" /\ (j > 1 => NoPipes(lines[j]))
      BY <1>1 DEF DescriptorsInv, Queued
    <3>6. \A j \in DOMAIN lines' : pc'[lines'[j]] # "start" /\ ((j > 1 \/ spc' = "register") => NoPipes(lines[j])')
      BY <1>1, <2>1, <3>1, <3>2, <3>5
    <3>7. \A k \in DOMAIN server_fifo' : pc'[server_fifo'[k]] # "start" /\ NoPipes(server_fifo[k])'
      BY <1>1, <3>1, <3>3 DEF DescriptorsInv, Queued
    <3>8. \A d \in Clients : pc'[d] = "start" => NoPipes(d)'
      BY <1>1, <3>1, <3>4 DEF DescriptorsInv, Queued
    <3>9. QED
      BY <1>1, <2>1, <3>6, <3>7, <3>8 DEF DescriptorsInv, Queued
  <2>16. Opening'
    BY <1>2, <2>1, <2>2, <2>12 DEF Opening
  <2>17. QED
    BY <1>6, <2>6, <2>9, <2>13, <2>14, <2>15, <2>16 DEF DescriptorsInv
<1>8. CASE ~RxExists(c)
  <2>1. fds' = fds \ {txe} /\ clients' = clients /\ NextLine
    BY <1>2, <1>8 DEF S_OpenRx, txe
  <2>2. lines' \in Seq(Clients) /\ spc' \in {"register", "registrations"} /\ (lines' # <<>> <=> spc' \in Registration)
    BY <1>1, <2>1, NextLineTakesHead DEF DescriptorsInv, Registration
  <2>3. ServerTyped'
    BY <1>1, <2>2 DEF DescriptorsInv, ServerTyped, Registration
  <2>4. TableTyped'
    <3>1. IsFiniteSet(fds')
      BY <2>1, FS_Subset DEF DescriptorsInv, TableTyped
    <3>2. QED
      BY <1>1, <2>1, <3>1 DEF DescriptorsInv, TableTyped
  <2>5. \A i \in Slots : \A fd : Has(i, fd)' <=> Has(i, fd)
    BY <2>1 DEF Has
  <2>6. SlotsHold'
    <3>1. ASSUME NEW i \in Slots, clients'[i].is_active PROVE \E d \in Clients : SlotOpen(i, d)'
      <4>1. PICK d \in Clients : SlotOpen(i, d)
        BY <2>1, <3>1 DEF DescriptorsInv, SlotsHold
      <4>2. txe.fd # clients[i].tx_fd /\ txe.fd # clients[i].rx_fd
        BY <1>4, <2>1, <3>1 DEF Has
      <4>3. SlotOpen(i, d)'
        BY <2>1, <4>1, <4>2 DEF SlotOpen, Entry
      <4>4. QED
        BY <4>3
    <3>2. ASSUME NEW e \in fds', e.what # "file"
          PROVE  Registering(e)' <=> \A i \in Slots : ~Has(i, e.fd)'
      <4>1. ~Registering(e)'
        BY <2>2 DEF Registering
      <4>2. \E i \in Slots : Has(i, e.fd)
        BY <1>5, <2>1, <3>2 DEF DescriptorsInv, SlotsHold
      <4>3. QED
        BY <2>5, <4>1, <4>2
    <3>3. \A i, j \in Slots : \A fd \in {clients'[i].tx_fd, clients'[i].rx_fd} : Has(i, fd)' /\ Has(j, fd)' => i = j
      BY <2>1, <2>5 DEF DescriptorsInv, SlotsHold
    <3>4. QED
      BY <3>1, <3>2, <3>3 DEF SlotsHold
  <2>7. ThreadsHold'
    <3>1. \A t \in tasks : Entry(t.file_fd, "file", t.client) # txe
      BY <1>3 DEF Entry
    <3>2. QED
      BY <1>1, <2>1, <3>1 DEF DescriptorsInv, ThreadsHold
  <2>8. Queued'
    BY <1>1, <2>1, NextLineKeepsQueue DEF DescriptorsInv, Registration
  <2>9. Opening'
    BY <2>2 DEF Opening
  <2>10. QED
    BY <1>6, <2>3, <2>4, <2>6, <2>7, <2>8, <2>9 DEF DescriptorsInv
<1>9. QED
  BY <1>7, <1>8

\* A message fits into a pipe that is not full.
LEMMA MessageSent ==
  ASSUME ClientsTyped, NEW c \in Clients, NEW m \in Messages, Len(tx[c]) < TxCapacity,
         tx' = [tx EXCEPT ![c] = Append(@, m)]
  PROVE  tx' \in [Clients -> Seq(Messages)] /\ \A d \in Clients : Len(tx'[d]) <= TxCapacity
<1>1. tx \in [Clients -> Seq(Messages)] /\ \A d \in Clients : Len(tx[d]) <= TxCapacity
  BY DEF ClientsTyped
<1>2. Append(tx[c], m) \in Seq(Messages) /\ Len(Append(tx[c], m)) = Len(tx[c]) + 1 /\ Len(tx[c]) \in Nat
  BY <1>1
<1>3. \A d \in Clients : tx'[d] = IF d = c THEN Append(tx[c], m) ELSE tx[d]
  BY <1>1
<1>4. Len(tx'[c]) <= TxCapacity
  BY <1>2, <1>3, ConstantsAssumption
<1>5. QED
  BY <1>1, <1>2, <1>3, <1>4

\* Entering the client into the table and writing its ACK keeps the invariant.
LEMMA AckKeepsInv ==
  ASSUME DescriptorsInv, S_Ack
  PROVE  DescriptorsInv'
<1>1. /\ spc = "ack" /\ UNCHANGED <<server_running, counter, ready, idx, tasks>>
      /\ UNCHANGED <<server_fifo, rx, pc>> /\ UNCHANGED client
  BY DEF S_Ack, client
<1>2. PICK c \in Clients : c = Head(lines)
  BY <1>1, HeadIsFirst DEF DescriptorsInv, Registration
<1>3. CASE HasReader(c)
  <2>1. /\ Len(tx[c]) < TxCapacity /\ tx' = [tx EXCEPT ![c] = Append(@, ACK(c))]
        /\ spc' = "check" /\ UNCHANGED table /\ UNCHANGED lines
    BY <1>2, <1>3 DEF S_Ack
  <2>2. ACK(c) \in Messages
    BY <1>2 DEF ACK, Messages
  <2>3. ClientsTyped'
    <3>1. tx' \in [Clients -> Seq(Messages)] /\ \A d \in Clients : Len(tx'[d]) <= TxCapacity
      BY <2>1, <2>2, MessageSent DEF DescriptorsInv
    <3>2. QED
      BY <1>1, <3>1 DEF DescriptorsInv, ClientsTyped, client
  <2>4. ServerTyped'
    BY <1>1, <2>1 DEF DescriptorsInv, ServerTyped, Registration
  <2>5. TableInv'
    BY <1>1, <2>1, TableUnchanged DEF DescriptorsInv, TableInv
  <2>6. Queued'
    <3>1. \A e \in fds' : e.what # "file" => e \in fds
      BY <2>1 DEF table
    <3>2. QED
      BY <1>1, <2>1, <3>1, QueueUnchanged DEF DescriptorsInv
  <2>7. Opening'
    BY <1>1, <2>1 DEF DescriptorsInv, Opening, table, SlotOpen
  <2>8. QED
    BY <2>3, <2>4, <2>5, <2>6, <2>7 DEF DescriptorsInv, TableInv
<1>4. CASE ~HasReader(c)
  <2>1. close_client_connection(SlotOf(c)) /\ tx' = tx /\ NextLine
    BY <1>2, <1>4 DEF S_Ack
  <2>2. SlotOf(c) \in Slots /\ clients[SlotOf(c)].is_active
    BY <1>1, <1>2, SlotOfClient DEF DescriptorsInv, Opening
  <2>3. lines' \in Seq(Clients) /\ spc' \in {"register", "registrations"} /\ (lines' # <<>> <=> spc' \in Registration)
    BY <1>1, <2>1, NextLineTakesHead DEF DescriptorsInv, Registration
  <2>4. ServerTyped'
    BY <1>1, <2>3 DEF DescriptorsInv, ServerTyped, Registration
  <2>5. tasks' = tasks \cup {} /\ {} \in SUBSET NewThreads
    BY <1>1
  <2>6. spc # "openrx" /\ spc' # "openrx"
    BY <1>1, <2>3
  <2>7. TableInv' /\ fds' \subseteq fds
    BY <2>1, <2>2, <2>5, <2>6, SlotClosed DEF DescriptorsInv, TableInv
  <2>8. Queued'
    BY <1>1, <2>1, <2>7, NextLineKeepsQueue DEF DescriptorsInv, Registration
  <2>9. ClientsTyped'
    BY <1>1, <2>1 DEF DescriptorsInv, ClientsTyped, client
  <2>10. Opening'
    BY <2>3 DEF Opening
  <2>11. QED
    BY <2>4, <2>7, <2>8, <2>9, <2>10 DEF DescriptorsInv, TableInv
<1>5. QED
  BY <1>3, <1>4

\* The first read of the new client's commands keeps the invariant.
LEMMA CheckKeepsInv ==
  ASSUME DescriptorsInv, S_Check
  PROVE  DescriptorsInv'
<1>1. /\ spc = "check" /\ UNCHANGED <<server_running, counter, ready, idx>> /\ NextLine
      /\ UNCHANGED <<server_fifo, pc>> /\ UNCHANGED <<tx, client>>
  BY DEF S_Check, client
<1>2. PICK c \in Clients : c = Head(lines)
  BY <1>1, HeadIsFirst DEF DescriptorsInv, Registration
<1>3. process_client_commands(SlotOf(c), rx[c]) /\ rx' = [rx EXCEPT ![c] = <<>>]
  BY <1>2 DEF S_Check
<1>4. SlotOf(c) \in Slots /\ clients[SlotOf(c)].is_active /\ Owner(clients[SlotOf(c)].rx_fd) = c
  BY <1>1, <1>2, SlotOfClient DEF DescriptorsInv, Opening
<1>5. Commands(Owner(clients[SlotOf(c)].rx_fd), rx[c])
  BY <1>4, PipeHasCommands DEF DescriptorsInv
<1>6. lines' \in Seq(Clients) /\ spc' \in {"register", "registrations"} /\ (lines' # <<>> <=> spc' \in Registration)
  BY <1>1, NextLineTakesHead DEF DescriptorsInv, Registration
<1>7. ServerTyped'
  BY <1>1, <1>6 DEF DescriptorsInv, ServerTyped, Registration
<1>8. spc # "openrx" /\ spc' # "openrx"
  BY <1>1, <1>6
<1>9. TableInv' /\ fds' \subseteq fds
  BY <1>3, <1>4, <1>5, <1>8, CommandsKeepTable DEF DescriptorsInv, TableInv
<1>10. Queued'
  BY <1>1, <1>9, NextLineKeepsQueue DEF DescriptorsInv, Registration
<1>11. ClientsTyped'
  BY <1>1, <1>3, PipeEmptied DEF DescriptorsInv
<1>12. Opening'
  BY <1>6 DEF Opening
<1>13. QED
  BY <1>7, <1>9, <1>10, <1>11, <1>12 DEF DescriptorsInv, TableInv

-----------------------------------------------------------------------------
(* Transfer threads. *)

\* A thread gets a number that no one has for its file.
LEMMA OpenFileKeepsInv ==
  ASSUME DescriptorsInv, NEW t \in tasks, T_Open(t)
  PROVE  DescriptorsInv'
<1>1. /\ t.file_fd = NoFd /\ fds' = fds \cup {Entry(LowestFd, "file", t.client)}
      /\ tasks' = (tasks \ {t}) \cup {[t EXCEPT !.file_fd = LowestFd]}
      /\ UNCHANGED <<loop, clients, pipes, client>>
  BY DEF T_Open, Advance
<1>2. LowestFd \in Fds /\ \A e \in fds : e.fd # LowestFd
  BY LowestIsFree DEF DescriptorsInv
<1>3. t \in Threads
  BY DEF DescriptorsInv, TableTyped
<1>4. PICK new \in Entries : fds' = fds \cup {new} /\ new.fd = LowestFd /\ new.what = "file" /\ new.client = t.client
                             /\ new = Entry(LowestFd, "file", t.client)
  <2> DEFINE e == Entry(LowestFd, "file", t.client)
  <2>1. e \in Entries /\ e.fd = LowestFd /\ e.what = "file" /\ e.client = t.client
    BY <1>2, <1>3 DEF Entry, Entries, Threads
  <2>2. fds' = fds \cup {e}
    BY <1>1
  <2> HIDE DEF e
  <2>3. QED
    BY <2>1, <2>2 DEF e
<1>5. PICK u \in Threads : tasks' = (tasks \ {t}) \cup {u} /\ u.file_fd = LowestFd /\ u.client = t.client
  <2> DEFINE v == [t EXCEPT !.file_fd = LowestFd]
  <2>1. v \in Threads /\ v.file_fd = LowestFd /\ v.client = t.client
    BY <1>2, <1>3 DEF Threads, Fds
  <2>2. tasks' = (tasks \ {t}) \cup {v}
    BY <1>1
  <2> HIDE DEF v
  <2>3. QED
    BY <2>1, <2>2
<1>6. ServerTyped' /\ ClientsTyped'
  BY <1>1 DEF DescriptorsInv, ServerTyped, ClientsTyped, loop, pipes, client
<1>7. TableTyped'
  <2>1. IsFiniteSet(fds')
    BY <1>4, FS_AddElement DEF DescriptorsInv, TableTyped
  <2>2. \A d, e \in fds' : d.fd = e.fd => d = e
    BY <1>2, <1>4 DEF DescriptorsInv, TableTyped
  <2>3. QED
    BY <1>1, <1>4, <1>5, <2>1, <2>2 DEF DescriptorsInv, TableTyped
<1>8. SlotsHold'
  <2>1. \A i \in Slots : clients'[i].is_active => \E d \in Clients : SlotOpen(i, d)'
    BY <1>1, <1>4 DEF DescriptorsInv, SlotsHold, SlotOpen
  <2>2. \A e \in fds' : e.what # "file" => (Registering(e)' <=> \A i \in Slots : ~Has(i, e.fd)')
    <3>1. \A e \in fds' : e.what # "file" => e \in fds
      BY <1>4
    <3>2. \A e : Registering(e)' <=> Registering(e)
      BY <1>1 DEF Registering, loop
    <3>3. \A i \in Slots : \A fd : Has(i, fd)' <=> Has(i, fd)
      BY <1>1 DEF Has
    <3>4. QED
      BY <3>1, <3>2, <3>3 DEF DescriptorsInv, SlotsHold
  <2>3. \A i, j \in Slots : \A fd \in {clients'[i].tx_fd, clients'[i].rx_fd} : Has(i, fd)' /\ Has(j, fd)' => i = j
    BY <1>1 DEF DescriptorsInv, SlotsHold, Has
  <2>4. QED
    BY <2>1, <2>2, <2>3 DEF SlotsHold
<1>9. ThreadsHold'
  <2>1. \A v \in tasks : v.file_fd # NoFd => Entry(v.file_fd, "file", v.client) \in fds /\ v.file_fd # LowestFd
    BY <1>2 DEF DescriptorsInv, ThreadsHold, Entry
  <2>2. \A e \in fds' : e.what = "file" => \E v \in tasks' : v.file_fd = e.fd
    <3>1. \A e \in fds : e.what = "file" => e.fd # NoFd
      BY DEF DescriptorsInv, TableTyped, Entries, Fds
    <3>2. \A e \in fds : e.what = "file" => \E v \in tasks \ {t} : v.file_fd = e.fd
      BY <1>1, <3>1 DEF DescriptorsInv, ThreadsHold
    <3>3. QED
      BY <1>4, <1>5, <3>2
  <2>3. \A v \in tasks' : v.file_fd # NoFd => Entry(v.file_fd, "file", v.client) \in fds'
    BY <1>4, <1>5, <2>1
  <2>4. \A v, w \in tasks' : v.file_fd = w.file_fd /\ v.file_fd # NoFd => v = w
    BY <1>5, <2>1 DEF DescriptorsInv, ThreadsHold
  <2>5. QED
    BY <2>2, <2>3, <2>4 DEF ThreadsHold
<1>10. Queued'
  <2>1. \A e \in fds' : e.what # "file" => e \in fds
    BY <1>4
  <2>2. UNCHANGED <<lines, server_fifo, pc>> /\ UNCHANGED spc
    BY <1>1 DEF loop, pipes, client
  <2>3. QED
    BY <2>1, <2>2, QueueUnchanged DEF DescriptorsInv
<1>11. Opening'
  <2>1. UNCHANGED <<spc, lines, clients>>
    BY <1>1 DEF loop
  <2>2. \A e : Registering(e)' <=> Registering(e)
    BY <2>1 DEF Registering
  <2>3. CASE spc = "openrx"
    <3>1. PICK e \in fds : Registering(e) /\ \A d \in fds : d.client = e.client /\ d.what # "file" => d = e
      BY <2>3 DEF DescriptorsInv, Opening
    <3>2. e \in fds' /\ Registering(e)' /\ \A d \in fds' : d.client = e.client /\ d.what # "file" => d = e
      BY <1>4, <2>2, <3>1
    <3>3. FreeSlots' # {}
      BY <2>1, <2>3 DEF DescriptorsInv, Opening, FreeSlots
    <3>4. QED
      BY <2>1, <2>3, <3>2, <3>3 DEF Opening
  <2>4. CASE spc # "openrx"
    BY <1>4, <2>1, <2>4 DEF DescriptorsInv, Opening, SlotOpen
  <2>5. QED
    BY <2>3, <2>4
<1>12. QED
  BY <1>6, <1>7, <1>8, <1>9, <1>10, <1>11 DEF DescriptorsInv

\* A thread that has written a part goes on with the next.
LEMMA WriteKeepsInv ==
  ASSUME DescriptorsInv, NEW t \in tasks, T_Write(t)
  PROVE  DescriptorsInv'
<1> DEFINE m == [client |-> t.client, file |-> t.file, part |-> t.part]
<1>1. PICK c \in Targets(t) :
        HasReader(c) /\ Len(tx[c]) < TxCapacity /\ tx' = [tx EXCEPT ![c] = Append(@, m)]
  BY DEF T_Write
<1>2. /\ t.file_fd # NoFd /\ t.part <= Size(t) /\ tasks' = (tasks \ {t}) \cup {[t EXCEPT !.part = @ + 1]}
      /\ UNCHANGED <<loop, table, server_fifo, rx, client>>
  BY DEF T_Write, Advance, Going
<1>3. t \in Threads /\ c \in Clients
  BY <1>1 DEF DescriptorsInv, TableTyped, Targets, Entries
<1>4. m \in Messages
  BY <1>3 DEF Messages, Threads
<1>5. PICK u \in Threads : tasks' = (tasks \ {t}) \cup {u} /\ u.file_fd = t.file_fd /\ u.client = t.client
  <2> DEFINE v == [t EXCEPT !.part = @ + 1]
  <2>1. v \in Threads
    <3>1. Wanted[t.client][t.file] \in Int /\ t.part \in Nat
      BY <1>3, ConstantsAssumption DEF Threads, Found
    <3>2. t.part + 1 \in Nat /\ t.part + 1 <= Wanted[t.client][t.file] + 1
      BY <1>2, <3>1 DEF Size
    <3>3. QED
      BY <1>3, <3>2 DEF Threads
  <2>2. v.file_fd = t.file_fd /\ v.client = t.client
    BY <1>3 DEF Threads
  <2>3. tasks' = (tasks \ {t}) \cup {v}
    BY <1>2
  <2> HIDE DEF v
  <2>4. QED
    BY <2>1, <2>2, <2>3
<1>6. ClientsTyped'
  <2>1. tx' \in [Clients -> Seq(Messages)] /\ \A d \in Clients : Len(tx'[d]) <= TxCapacity
    BY <1>1, <1>3, <1>4, MessageSent DEF DescriptorsInv
  <2>2. QED
    BY <1>2, <2>1 DEF DescriptorsInv, ClientsTyped, client
<1>7. ServerTyped' /\ SlotsHold' /\ Queued' /\ Opening'
  BY <1>2 DEF DescriptorsInv, ServerTyped, SlotsHold, SlotOpen, Has, Registering, Queued, NoPipes, Opening,
              FreeSlots, loop, table, client
<1>8. TableTyped' /\ ThreadsHold'
  <2>1. TableTyped'
    BY <1>2, <1>5 DEF DescriptorsInv, TableTyped, table
  <2>2. \A e \in fds' : e.what = "file" => \E v \in tasks' : v.file_fd = e.fd
    BY <1>2, <1>5 DEF DescriptorsInv, ThreadsHold, table
  <2>3. \A v \in tasks' : v.file_fd # NoFd => Entry(v.file_fd, "file", v.client) \in fds'
    BY <1>2, <1>5 DEF DescriptorsInv, ThreadsHold, table
  <2>4. \A v, w \in tasks' : v.file_fd = w.file_fd /\ v.file_fd # NoFd => v = w
    BY <1>2, <1>5 DEF DescriptorsInv, ThreadsHold
  <2>5. QED
    BY <2>1, <2>2, <2>3, <2>4 DEF ThreadsHold
<1>9. QED
  BY <1>6, <1>7, <1>8 DEF DescriptorsInv

\* A thread that ends closes its file, and nothing else.
LEMMA EndKeepsInv ==
  ASSUME DescriptorsInv, NEW t \in tasks, T_End(t)
  PROVE  DescriptorsInv'
<1>1. /\ t.file_fd # NoFd /\ fds' = {e \in fds : e.fd # t.file_fd} /\ tasks' = tasks \ {t}
      /\ UNCHANGED <<loop, clients, pipes, client>>
  BY DEF T_End
<1>2. \A e \in fds : e.what # "file" => e \in fds'
  <2>1. Entry(t.file_fd, "file", t.client) \in fds
    BY <1>1 DEF DescriptorsInv, ThreadsHold
  <2>2. QED
    BY <1>1, <2>1 DEF DescriptorsInv, TableTyped, Entry
<1>3. fds' \subseteq fds
  BY <1>1
<1>4. ServerTyped' /\ ClientsTyped'
  BY <1>1 DEF DescriptorsInv, ServerTyped, ClientsTyped, loop, pipes, client
<1>5. TableTyped'
  <2>1. IsFiniteSet(fds')
    BY <1>3, FS_Subset DEF DescriptorsInv, TableTyped
  <2>2. QED
    BY <1>1, <1>3, <2>1 DEF DescriptorsInv, TableTyped
<1>6. \A i \in Slots, d \in Clients : SlotOpen(i, d) => SlotOpen(i, d)'
  BY <1>1, <1>2 DEF SlotOpen, Entry
<1>7. SlotsHold'
  <2>1. \A i \in Slots : clients'[i].is_active => \E d \in Clients : SlotOpen(i, d)'
    BY <1>1, <1>6 DEF DescriptorsInv, SlotsHold
  <2>2. \A e : Registering(e)' <=> Registering(e)
    BY <1>1 DEF Registering, loop
  <2>3. \A i \in Slots : \A fd : Has(i, fd)' <=> Has(i, fd)
    BY <1>1 DEF Has
  <2>4. \A e \in fds' : e.what # "file" => (Registering(e)' <=> \A i \in Slots : ~Has(i, e.fd)')
    BY <1>3, <2>2, <2>3 DEF DescriptorsInv, SlotsHold
  <2>5. \A i, j \in Slots : \A fd \in {clients'[i].tx_fd, clients'[i].rx_fd} : Has(i, fd)' /\ Has(j, fd)' => i = j
    BY <1>1, <2>3 DEF DescriptorsInv, SlotsHold
  <2>6. QED
    BY <2>1, <2>4, <2>5 DEF SlotsHold
<1>8. ThreadsHold'
  <2>1. \A e \in fds' : e.what = "file" => \E v \in tasks' : v.file_fd = e.fd
    BY <1>1 DEF DescriptorsInv, ThreadsHold
  <2>2. \A v \in tasks' : v.file_fd # NoFd => Entry(v.file_fd, "file", v.client) \in fds'
    BY <1>1 DEF DescriptorsInv, ThreadsHold, Entry
  <2>3. \A v, w \in tasks' : v.file_fd = w.file_fd /\ v.file_fd # NoFd => v = w
    BY <1>1 DEF DescriptorsInv, ThreadsHold
  <2>4. QED
    BY <2>1, <2>2, <2>3 DEF ThreadsHold
<1>9. UNCHANGED <<lines, server_fifo, pc>> /\ UNCHANGED <<spc, clients>>
  BY <1>1 DEF loop, pipes, client
<1>10. Queued'
  BY <1>3, <1>9, QueueUnchanged DEF DescriptorsInv
<1>11. Opening'
  <2>1. CASE spc = "openrx"
    <3>1. PICK e \in fds : Registering(e) /\ \A d \in fds : d.client = e.client /\ d.what # "file" => d = e
      BY <2>1 DEF DescriptorsInv, Opening
    <3>2. e \in fds' /\ Registering(e)' /\ \A d \in fds' : d.client = e.client /\ d.what # "file" => d = e
      BY <1>2, <1>3, <1>9, <3>1 DEF Registering
    <3>3. FreeSlots' # {}
      BY <1>9, <2>1 DEF DescriptorsInv, Opening, FreeSlots
    <3>4. QED
      BY <1>9, <2>1, <3>2, <3>3 DEF Opening
  <2>2. CASE spc \in {"ack", "check"}
    <3>1. PICK d \in Clients : d = Head(lines)
      BY <2>2, HeadIsFirst DEF DescriptorsInv, Registration
    <3>2. PICK i \in Slots : clients[i].is_active /\ SlotOpen(i, d)
      BY <2>2, <3>1 DEF DescriptorsInv, Opening
    <3>3. SlotOpen(i, d)'
      BY <1>6, <3>2
    <3>4. QED
      BY <1>9, <2>2, <3>1, <3>2, <3>3 DEF Opening, SlotOpen
  <2>3. CASE spc \notin {"openrx", "ack", "check"}
    BY <1>9, <2>3 DEF Opening
  <2>4. QED
    BY <2>1, <2>2, <2>3
<1>12. QED
  BY <1>4, <1>5, <1>7, <1>8, <1>10, <1>11 DEF DescriptorsInv

-----------------------------------------------------------------------------
(* Clients and signals. *)

\* A pipe that is read from has nothing else in it than before.
LEMMA MessagesRead ==
  ASSUME ClientsTyped, NEW c \in Clients, NEW n \in 1..2, n <= Len(tx[c]),
         tx' = [tx EXCEPT ![c] = SubSeq(@, n + 1, Len(@))]
  PROVE  tx' \in [Clients -> Seq(Messages)] /\ \A d \in Clients : Len(tx'[d]) <= TxCapacity
<1>1. tx \in [Clients -> Seq(Messages)] /\ \A d \in Clients : Len(tx[d]) <= TxCapacity
  BY DEF ClientsTyped
<1>2. tx[c] \in Seq(Messages) /\ Len(tx[c]) \in Nat
  BY <1>1
<1>3. SubSeq(tx[c], n + 1, Len(tx[c])) \in Seq(Messages) /\ Len(SubSeq(tx[c], n + 1, Len(tx[c]))) = Len(tx[c]) - n
  BY <1>2
<1>4. \A d \in Clients : tx'[d] = IF d = c THEN SubSeq(tx[c], n + 1, Len(tx[c])) ELSE tx[d]
  BY <1>1
<1>5. Len(tx'[c]) <= TxCapacity
  BY <1>1, <1>2, <1>3, <1>4, ConstantsAssumption
<1>6. QED
  BY <1>1, <1>3, <1>4, <1>5

\* A client that reads one message leaves the others.
LEMMA MessageTaken ==
  ASSUME ClientsTyped, NEW c \in Clients, tx[c] # <<>>,
         tx' = [tx EXCEPT ![c] = Tail(@)]
  PROVE  tx' \in [Clients -> Seq(Messages)] /\ \A d \in Clients : Len(tx'[d]) <= TxCapacity
<1>1. tx \in [Clients -> Seq(Messages)] /\ \A d \in Clients : Len(tx[d]) <= TxCapacity
  BY DEF ClientsTyped
<1>2. tx[c] \in Seq(Messages) /\ Len(tx[c]) \in Nat
  BY <1>1
<1>3. Tail(tx[c]) \in Seq(Messages) /\ Len(Tail(tx[c])) = Len(tx[c]) - 1
  BY <1>2
<1>4. \A d \in Clients : tx'[d] = IF d = c THEN Tail(tx[c]) ELSE tx[d]
  BY <1>1
<1>5. Len(tx'[c]) <= TxCapacity
  BY <1>1, <1>2, <1>3, <1>4, ConstantsAssumption
<1>6. QED
  BY <1>1, <1>3, <1>4, <1>5

\* A pipe that is gone has no message.
LEMMA PipeCleared ==
  ASSUME ClientsTyped, NEW c \in Clients, tx' = [tx EXCEPT ![c] = <<>>]
  PROVE  tx' \in [Clients -> Seq(Messages)] /\ \A d \in Clients : Len(tx'[d]) <= TxCapacity
<1>1. <<>> \in Seq(Messages) /\ Len(<<>>) <= TxCapacity
  BY ConstantsAssumption
<1>2. QED
  BY <1>1 DEF ClientsTyped

\* The types of the five parts of a client's state.
RxTyped == rx \in [Clients -> Seq(Nat)] /\ \A c \in Clients : \A k \in DOMAIN rx[c] : rx[c][k] <= Len(Wanted[c])
TxTyped == tx \in [Clients -> Seq(Messages)] /\ \A c \in Clients : Len(tx[c]) <= TxCapacity
CurTyped == cur \in [Clients -> Nat] /\ \A c \in Clients : cur[c] <= Len(Wanted[c])
ReceivedTyped ==
  /\ received \in [Clients -> [blocks : Nat, size : Nat]]
  /\ \A c \in Clients : /\ received[c].blocks <= received[c].size
                        /\ pc[c] = "data" => received[c].blocks < received[c].size

\* The types of the clients are those of their parts.
LEMMA ClientsTypedParts ==
  ClientsTyped <=> /\ RxTyped /\ TxTyped /\ CurTyped /\ ReceivedTyped
                   /\ rx_writer \in [Clients -> {"never", "open", "closed"}] /\ pc \in [Clients -> Stages]
  BY DEF ClientsTyped, RxTyped, TxTyped, CurTyped, ReceivedTyped

\* A command goes to the client's own pipe, if that is open.
LEMMA CommandSent ==
  ASSUME RxTyped, NEW c \in Clients, NEW n \in Nat, n <= Len(Wanted[c]), Send(c, n)
  PROVE  RxTyped'
<1>1. CASE ~IsOpen(c, "rx")
  BY <1>1 DEF Send, RxTyped
<1>2. CASE IsOpen(c, "rx")
  <2>1. rx' = [rx EXCEPT ![c] = Append(@, n)] /\ rx \in [Clients -> Seq(Nat)]
    BY <1>2 DEF Send, RxTyped
  <2>2. rx[c] \in Seq(Nat) /\ Append(rx[c], n) \in Seq(Nat)
    BY <2>1
  <2>3. \A d \in Clients : rx'[d] = IF d = c THEN Append(rx[c], n) ELSE rx[d]
    BY <2>1
  <2>4. \A k \in DOMAIN Append(rx[c], n) : Append(rx[c], n)[k] <= Len(Wanted[c])
    <3>1. \A k \in DOMAIN rx[c] : rx[c][k] <= Len(Wanted[c])
      BY DEF RxTyped
    <3>2. \A k \in DOMAIN Append(rx[c], n) : (k \in DOMAIN rx[c] /\ Append(rx[c], n)[k] = rx[c][k])
                                             \/ Append(rx[c], n)[k] = n
      BY <2>2
    <3>3. QED
      BY <3>1, <3>2
  <2>5. rx' \in [Clients -> Seq(Nat)]
    BY <2>1, <2>2
  <2>6. QED
    BY <2>3, <2>4, <2>5 DEF RxTyped
<1>3. QED
  BY <1>1, <1>2

\* pc moves along the stages, and only C_Size and C_Data go to "data".
LEMMA ClientMoves ==
  ASSUME pc \in [Clients -> Stages], NEW c \in Clients, NEW from, NEW to \in Stages, Goto(c, from, to)
  PROVE  pc' \in [Clients -> Stages] /\ pc[c] = from /\ pc'[c] = to /\ \A d \in Clients : d # c => pc'[d] = pc[d]
  BY DEF Goto

\* A client that leaves the transfer keeps its counters.
LEMMA ReceivedStays ==
  ASSUME ReceivedTyped, UNCHANGED received, NEW c \in Clients, pc'[c] # "data",
         \A d \in Clients : d # c => pc'[d] = pc[d]
  PROVE  ReceivedTyped'
  BY DEF ReceivedTyped

\* Every step of a client keeps the types.
LEMMA ClientKeepsTypes ==
  ASSUME ClientsTyped, NEW c \in Clients, Client(c) \/ Kill(c)
  PROVE  /\ ClientsTyped' /\ pc'[c] # "start" /\ \A d \in Clients : d # c => pc'[d] = pc[d]
         /\ UNCHANGED <<loop, table, tasks>>
<1>0. /\ RxTyped /\ TxTyped /\ CurTyped /\ ReceivedTyped
      /\ rx_writer \in [Clients -> {"never", "open", "closed"}] /\ pc \in [Clients -> Stages]
  BY ClientsTypedParts
<1>1. UNCHANGED <<loop, table, tasks>>
  BY DEF Client, C_Start, C_Ack, C_Timeout, C_OpenTx, C_OpenRx, C_Get, C_Disconnect, C_Size, C_Data, C_Eof,
         C_Close, C_Clean, C_Exit, Kill
<1> DEFINE Kept == /\ RxTyped' /\ TxTyped' /\ CurTyped' /\ ReceivedTyped'
                   /\ rx_writer' \in [Clients -> {"never", "open", "closed"}] /\ pc' \in [Clients -> Stages]
                   /\ pc'[c] # "start" /\ \A d \in Clients : d # c => pc'[d] = pc[d]
<1>2. ASSUME C_Start(c) PROVE Kept
  <2>1. UNCHANGED <<rx, tx, rx_writer, cur, received>> /\ (Goto(c, "start", "ack") \/ Goto(c, "start", "exited"))
    BY <1>2 DEF C_Start
  <2>2. pc' \in [Clients -> Stages] /\ pc'[c] \in {"ack", "exited"} /\ \A d \in Clients : d # c => pc'[d] = pc[d]
    BY <1>0, <2>1 DEF Goto, Stages
  <2>3. ReceivedTyped'
    BY <1>0, <2>1, <2>2, ReceivedStays
  <2>4. QED
    BY <1>0, <2>1, <2>2, <2>3 DEF RxTyped, TxTyped, CurTyped
<1>3. ASSUME C_Ack(c) PROVE Kept
  <2>1. UNCHANGED <<rx, rx_writer, cur, received>> /\ (Goto(c, "ack", "opentx") \/ Goto(c, "ack", "cleantx"))
    BY <1>3 DEF C_Ack
  <2>2. pc' \in [Clients -> Stages] /\ pc'[c] \in {"opentx", "cleantx"} /\ \A d \in Clients : d # c => pc'[d] = pc[d]
    BY <1>0, <2>1 DEF Goto, Stages
  <2>3. TxTyped'
    <3>1. PICK n \in 1..2 : n = (IF Len(tx[c]) > 1 /\ tx[c][2].part = 0 THEN 2 ELSE 1)
      OBVIOUS
    <3>2. tx' = [tx EXCEPT ![c] = SubSeq(@, n + 1, Len(@))]
      BY <1>3, <3>1 DEF C_Ack
    <3>3. tx[c] \in Seq(Messages) /\ tx[c] # <<>>
      BY <1>0, <1>3 DEF C_Ack, TxTyped
    <3>4. n <= Len(tx[c])
      <4>1. Len(tx[c]) \in Nat \ {0}
        BY <3>3
      <4>2. n = 1 \/ Len(tx[c]) > 1
        BY <3>1
      <4>3. QED
        BY <4>1, <4>2
    <3>5. QED
      BY <3>2, <3>4, MessagesRead DEF TxTyped
  <2>4. ReceivedTyped'
    BY <1>0, <2>1, <2>2, ReceivedStays
  <2>5. QED
    BY <1>0, <2>1, <2>2, <2>3, <2>4 DEF RxTyped, CurTyped
<1>4. ASSUME C_Timeout(c) \/ C_OpenTx(c) \/ C_OpenRx(c) \/ C_Eof(c) \/ C_Close(c) \/ C_Clean(c) PROVE Kept
  <2>1. UNCHANGED <<rx, tx, cur, received>>
    BY <1>4 DEF C_Timeout, C_OpenTx, C_OpenRx, C_Eof, C_Close, C_Clean, pipes
  <2>2. \E to \in {"cleantx", "openrx", "next", "cleanrx", "exit"} : \E from : Goto(c, from, to)
    BY <1>4 DEF C_Timeout, C_OpenTx, C_OpenRx, C_Eof, C_Close, C_Clean
  <2>3. pc' \in [Clients -> Stages] /\ pc'[c] \in {"cleantx", "openrx", "next", "cleanrx", "exit"}
        /\ \A d \in Clients : d # c => pc'[d] = pc[d]
    BY <1>0, <2>2 DEF Goto, Stages
  <2>4. rx_writer' \in [Clients -> {"never", "open", "closed"}]
    BY <1>0, <1>4 DEF C_Timeout, C_OpenTx, C_OpenRx, C_Eof, C_Close, C_Clean
  <2>5. ReceivedTyped'
    BY <1>0, <2>1, <2>3, ReceivedStays
  <2>6. QED
    BY <1>0, <2>1, <2>3, <2>4, <2>5 DEF RxTyped, TxTyped, CurTyped
<1>5. ASSUME C_Get(c) PROVE Kept
  <2>1. /\ cur[c] < Len(Wanted[c]) /\ cur' = [cur EXCEPT ![c] = @ + 1] /\ Send(c, cur[c] + 1)
        /\ UNCHANGED <<tx, rx_writer, received>> /\ Goto(c, "next", IF IsOpen(c, "rx") THEN "size" ELSE "next")
    BY <1>5 DEF C_Get
  <2>2. cur[c] \in Nat /\ Len(Wanted[c]) \in Nat
    BY <1>0, ConstantsAssumption DEF CurTyped
  <2>3. cur[c] + 1 \in Nat /\ cur[c] + 1 <= Len(Wanted[c])
    BY <2>1, <2>2
  <2>4. RxTyped'
    BY <1>0, <2>1, <2>3, CommandSent
  <2>5. CurTyped'
    BY <1>0, <2>1, <2>3 DEF CurTyped
  <2>6. pc' \in [Clients -> Stages] /\ pc'[c] \in {"size", "next"} /\ \A d \in Clients : d # c => pc'[d] = pc[d]
    BY <1>0, <2>1 DEF Goto, Stages
  <2>7. ReceivedTyped'
    BY <1>0, <2>1, <2>6, ReceivedStays
  <2>8. QED
    BY <1>0, <2>1, <2>4, <2>5, <2>6, <2>7 DEF TxTyped
<1>6. ASSUME C_Disconnect(c) PROVE Kept
  <2>1. Send(c, DISCONNECT) /\ UNCHANGED <<tx, rx_writer, cur, received>> /\ Goto(c, "next", "close")
    BY <1>6 DEF C_Disconnect
  <2>2. DISCONNECT \in Nat /\ DISCONNECT <= Len(Wanted[c])
    BY ConstantsAssumption DEF DISCONNECT
  <2>3. RxTyped'
    BY <1>0, <2>1, <2>2, CommandSent
  <2>4. pc' \in [Clients -> Stages] /\ pc'[c] = "close" /\ \A d \in Clients : d # c => pc'[d] = pc[d]
    BY <1>0, <2>1 DEF Goto, Stages
  <2>5. ReceivedTyped'
    BY <1>0, <2>1, <2>4, ReceivedStays
  <2>6. QED
    BY <1>0, <2>1, <2>3, <2>4, <2>5 DEF TxTyped, CurTyped
<1>7. ASSUME C_Size(c) PROVE Kept
  <2>1. UNCHANGED <<rx, rx_writer, cur>> /\ tx[c] # <<>>
    BY <1>7 DEF C_Size
  <2>2. CASE Head(tx[c]).part = 0 /\ Head(tx[c]).file > 0
    <3> DEFINE h == Head(tx[c])
               n == Wanted[h.client][h.file]
    <3>1. h \in Messages
      BY <1>0, <2>1 DEF TxTyped
    <3>2. n \in Nat
      BY <2>2, <3>1, ConstantsAssumption DEF Messages, Found
    <3>3. Goto(c, "size", IF n = 0 THEN "next" ELSE "data") /\ tx' = [tx EXCEPT ![c] = Tail(@)]
          /\ received' = [received EXCEPT ![c] = [blocks |-> 0, size |-> n]]
      BY <1>7, <2>2 DEF C_Size
    <3> HIDE DEF n
    <3>4. TxTyped'
      BY <2>1, <3>3, MessageTaken DEF TxTyped
    <3>5. pc' \in [Clients -> Stages] /\ pc'[c] = (IF n = 0 THEN "next" ELSE "data") /\ \A d \in Clients : d # c => pc'[d] = pc[d]
      BY <1>0, <3>3 DEF Goto, Stages
    <3>6. ReceivedTyped'
      BY <1>0, <3>2, <3>3, <3>5 DEF ReceivedTyped
    <3>7. QED
      BY <1>0, <2>1, <3>4, <3>5, <3>6 DEF RxTyped, CurTyped
  <2>3. CASE ~(Head(tx[c]).part = 0 /\ Head(tx[c]).file > 0)
    <3>1. Goto(c, "size", "next") /\ UNCHANGED <<received, tx>>
      BY <1>7, <2>3 DEF C_Size
    <3>2. pc' \in [Clients -> Stages] /\ pc'[c] = "next" /\ \A d \in Clients : d # c => pc'[d] = pc[d]
      BY <1>0, <3>1 DEF Goto, Stages
    <3>3. ReceivedTyped'
      BY <1>0, <3>1, <3>2, ReceivedStays
    <3>4. QED
      BY <1>0, <2>1, <3>1, <3>2, <3>3 DEF RxTyped, TxTyped, CurTyped
  <2>4. QED
    BY <2>2, <2>3
<1>8. ASSUME C_Data(c) PROVE Kept
  <2>1. /\ tx[c] # <<>> /\ tx' = [tx EXCEPT ![c] = Tail(@)] /\ UNCHANGED <<rx, rx_writer, cur>>
        /\ received' = [received EXCEPT ![c].blocks = @ + 1]
        /\ Goto(c, "data", IF received'[c].blocks = received[c].size THEN "next" ELSE "data")
    BY <1>8 DEF C_Data
  <2>2. TxTyped'
    BY <2>1, MessageTaken DEF TxTyped
  <2>3. pc[c] = "data" /\ pc' \in [Clients -> Stages]
        /\ pc'[c] = (IF received'[c].blocks = received[c].size THEN "next" ELSE "data")
        /\ \A d \in Clients : d # c => pc'[d] = pc[d]
    BY <1>0, <2>1 DEF Goto, Stages
  <2>4. received \in [Clients -> [blocks : Nat, size : Nat]] /\ received[c].blocks < received[c].size
        /\ received[c].blocks \in Nat /\ received[c].size \in Nat
    BY <1>0, <2>3 DEF ReceivedTyped
  <2>5. received' \in [Clients -> [blocks : Nat, size : Nat]] /\ received'[c].blocks = received[c].blocks + 1
        /\ received'[c].size = received[c].size /\ \A d \in Clients : d # c => received'[d] = received[d]
    BY <2>1, <2>4
  <2>6. ReceivedTyped'
    <3>1. ASSUME NEW d \in Clients, d # c
          PROVE  received'[d].blocks <= received'[d].size /\ (pc'[d] = "data" => received'[d].blocks < received'[d].size)
      BY <1>0, <2>3, <2>5, <3>1 DEF ReceivedTyped
    <3>2. received'[c].blocks <= received'[c].size
      BY <2>4, <2>5
    <3>3. pc'[c] = "data" => received'[c].blocks < received'[c].size
      BY <2>3, <2>4, <2>5
    <3>4. QED
      BY <2>5, <3>1, <3>2, <3>3 DEF ReceivedTyped
  <2>7. QED
    BY <1>0, <2>1, <2>2, <2>3, <2>6 DEF RxTyped, CurTyped
<1>9. ASSUME C_Exit(c) \/ Kill(c) PROVE Kept
  <2>1. UNCHANGED <<rx, cur, received>> /\ tx' = [tx EXCEPT ![c] = <<>>]
    BY <1>9 DEF C_Exit, Kill
  <2>2. pc' \in [Clients -> Stages] /\ pc'[c] \in {"exited", "killed"} /\ \A d \in Clients : d # c => pc'[d] = pc[d]
    BY <1>0, <1>9 DEF C_Exit, Kill, Goto, Stages
  <2>3. rx_writer' \in [Clients -> {"never", "open", "closed"}]
    BY <1>0, <1>9 DEF C_Exit, Kill
  <2>4. TxTyped'
    BY <2>1, PipeCleared DEF TxTyped
  <2>5. ReceivedTyped'
    BY <1>0, <2>1, <2>2, ReceivedStays
  <2>6. QED
    BY <1>0, <2>1, <2>2, <2>3, <2>4, <2>5 DEF RxTyped, CurTyped
<1>10. Kept
  BY <1>2, <1>3, <1>4, <1>5, <1>6, <1>7, <1>8, <1>9 DEF Client
<1>11. ClientsTyped'
  BY <1>10 DEF ClientsTyped, RxTyped, TxTyped, CurTyped, ReceivedTyped
<1>12. QED
  BY <1>1, <1>10, <1>11

\* No step of a client, and no kill, changes what the server holds.
LEMMA ClientKeepsInv ==
  ASSUME DescriptorsInv, NEW c \in Clients, Client(c) \/ Kill(c)
  PROVE  DescriptorsInv'
<1>1. /\ ClientsTyped' /\ pc'[c] # "start" /\ \A d \in Clients : d # c => pc'[d] = pc[d]
      /\ UNCHANGED <<loop, table, tasks>>
  BY ClientKeepsTypes DEF DescriptorsInv
<1>2. UNCHANGED <<spc, server_running, counter, ready, lines, idx>> /\ UNCHANGED <<clients, fds>>
  BY <1>1 DEF loop, table
<1>3. TableInv'
  BY <1>1, <1>2, TableUnchanged DEF DescriptorsInv, TableInv
<1>4. Opening'
  BY <1>2 DEF DescriptorsInv, Opening, FreeSlots, Registering, SlotOpen
<1>5. \/ server_fifo' = server_fifo
      \/ server_fifo' = Append(server_fifo, c) /\ pc[c] = "start"
  BY DEF Client, C_Start, C_Ack, C_Timeout, C_OpenTx, C_OpenRx, C_Get, C_Disconnect, C_Size, C_Data, C_Eof,
         C_Close, C_Clean, C_Exit, Kill, Goto, pipes
<1>6. server_fifo \in Seq(Clients) /\ lines \in Seq(Clients)
  BY DEF DescriptorsInv, ServerTyped
<1>7. \A d \in Clients : pc[d] # "start" => pc'[d] # "start"
  BY <1>1
<1>8. \A d : NoPipes(d)' <=> NoPipes(d)
  BY <1>2 DEF NoPipes
<1>9. \A j \in DOMAIN lines : lines[j] \in Clients
  BY <1>6
<1>10. \A j \in DOMAIN lines : pc'[lines[j]] # "start" /\ (j > 1 \/ spc' = "register" => NoPipes(lines[j]))
  BY <1>2, <1>7, <1>9 DEF DescriptorsInv, Queued
<1>11. \A d \in Clients : pc'[d] = "start" => NoPipes(d)
  BY <1>1 DEF DescriptorsInv, Queued
<1>12. \A k \in DOMAIN server_fifo : server_fifo[k] \in Clients /\ pc'[server_fifo[k]] # "start" /\ NoPipes(server_fifo[k])
  BY <1>6, <1>7 DEF DescriptorsInv, Queued
<1>13. CASE server_fifo' = server_fifo
  <2>1. ServerTyped'
    BY <1>2, <1>13 DEF DescriptorsInv, ServerTyped
  <2>2. Queued'
    BY <1>2, <1>8, <1>10, <1>11, <1>12, <1>13 DEF DescriptorsInv, Queued
  <2>3. QED
    BY <1>1, <1>3, <1>4, <2>1, <2>2 DEF DescriptorsInv, TableInv
<1>14. CASE server_fifo' = Append(server_fifo, c) /\ pc[c] = "start"
  <2>1. server_fifo' \in Seq(Clients)
    BY <1>6, <1>14
  <2>2. ServerTyped'
    BY <1>2, <2>1 DEF DescriptorsInv, ServerTyped
  <2>3. \A k \in DOMAIN server_fifo' : \/ k \in DOMAIN server_fifo /\ server_fifo'[k] = server_fifo[k]
                                       \/ k = Len(server_fifo) + 1 /\ server_fifo'[k] = c
    BY <1>6, <1>14
  <2>4. \A k \in DOMAIN server_fifo : server_fifo[k] # c
    BY <1>14 DEF DescriptorsInv, Queued
  <2>5. \A j \in DOMAIN lines : lines[j] # c
    BY <1>14 DEF DescriptorsInv, Queued
  <2>6. NoPipes(c)
    BY <1>14 DEF DescriptorsInv, Queued
  <2>7. \A k \in DOMAIN server_fifo' : pc'[server_fifo'[k]] # "start" /\ NoPipes(server_fifo'[k])
    BY <1>1, <1>12, <2>3, <2>6
  <2>8. \A j, k \in DOMAIN server_fifo' : server_fifo'[j] = server_fifo'[k] => j = k
    BY <2>3, <2>4 DEF DescriptorsInv, Queued
  <2>9. \A j \in DOMAIN lines, k \in DOMAIN server_fifo' : lines[j] # server_fifo'[k]
    BY <2>3, <2>5 DEF DescriptorsInv, Queued
  <2>10. \A d : (\A e \in fds' : e.client = d => e.what = "file") <=> NoPipes(d)
    BY <1>2 DEF NoPipes
  <2>11. Queued'
    BY <1>2, <1>10, <1>11, <2>7, <2>8, <2>9, <2>10 DEF DescriptorsInv, Queued, NoPipes
  <2>12. QED
    BY <1>1, <1>3, <1>4, <2>2, <2>11 DEF DescriptorsInv, TableInv
<1>15. QED
  BY <1>5, <1>13, <1>14

\* The signal only asks the main loop to end.
LEMMA SignalKeepsInv ==
  ASSUME DescriptorsInv, server_signal_handler
  PROVE  DescriptorsInv'
<1>1. server_running' = FALSE
      /\ UNCHANGED <<spc, counter, ready, lines, idx, clients, fds, tasks, server_fifo, rx, tx, rx_writer, pc, cur, received>>
  BY DEF server_signal_handler, table, pipes, client
<1>2. ServerTyped' /\ ClientsTyped' /\ TableTyped' /\ ThreadsHold'
  BY <1>1 DEF DescriptorsInv, ServerTyped, ClientsTyped, TableTyped, ThreadsHold
<1>3. SlotsHold' /\ Queued' /\ Opening'
  BY <1>1 DEF DescriptorsInv, SlotsHold, SlotOpen, Has, Registering, Queued, NoPipes, Opening, FreeSlots
<1>4. QED
  BY <1>2, <1>3 DEF DescriptorsInv

-----------------------------------------------------------------------------
\* At the start nothing is open.
LEMMA DescriptorsInit == Init => DescriptorsInv
<1> SUFFICES ASSUME Init PROVE DescriptorsInv
  OBVIOUS
<1>1. ServerTyped
  BY ConstantsAssumption DEF Init, ServerTyped, Registration
<1>2. ClientsTyped
  BY ConstantsAssumption DEF Init, ClientsTyped, Stages
<1>3. TableTyped
  BY FS_EmptySet DEF Init, TableTyped, Free, NoFd
<1>4. SlotsHold /\ ThreadsHold /\ Queued /\ Opening
  BY DEF Init, SlotsHold, Has, Free, ThreadsHold, Queued, NoPipes, Opening
<1>5. QED
  BY <1>1, <1>2, <1>3, <1>4 DEF DescriptorsInv

\* Every step keeps the invariant about the descriptors.
LEMMA DescriptorsNext == DescriptorsInv /\ [Next]_vars => DescriptorsInv'
<1> SUFFICES ASSUME DescriptorsInv, [Next]_vars PROVE DescriptorsInv'
  OBVIOUS
<1>1. CASE Server
  BY <1>1, MainThreadMoves, ServersKeepInv, ShutdownKeepsInv, OpenTxKeepsInv, OpenRxKeepsInv, AckKeepsInv,
     CheckKeepsInv DEF Server
<1>2. CASE Thread
  BY <1>2, OpenFileKeepsInv, WriteKeepsInv, EndKeepsInv DEF Thread
<1>3. CASE server_signal_handler
  BY <1>3, SignalKeepsInv
<1>4. CASE \E c \in Clients : Client(c) \/ Kill(c)
  BY <1>4, ClientKeepsInv
<1>5. CASE UNCHANGED vars
  <2>1. UNCHANGED <<spc, server_running, counter, ready, lines, idx, clients, fds, tasks, server_fifo, rx, tx,
                    rx_writer, pc, cur, received>>
    BY <1>5 DEF vars, loop, table, pipes, client
  <2>2. ServerTyped' /\ ClientsTyped' /\ TableTyped' /\ ThreadsHold'
    BY <2>1 DEF DescriptorsInv, ServerTyped, ClientsTyped, TableTyped, ThreadsHold
  <2>3. SlotsHold' /\ Queued' /\ Opening'
    BY <2>1 DEF DescriptorsInv, SlotsHold, SlotOpen, Has, Registering, Queued, NoPipes, Opening, FreeSlots
  <2>4. QED
    BY <2>2, <2>3 DEF DescriptorsInv
<1>6. QED
  BY <1>1, <1>2, <1>3, <1>4, <1>5 DEF Next

\* The invariant of the descriptors holds in every state.
THEOREM DescriptorsInvariance == Spec => []DescriptorsInv
  BY DescriptorsInit, DescriptorsNext, PTL DEF Spec

\* Every variable keeps its type: no descriptor is used that is not open, no file
\* is sent that does not exist, and no client counts more blocks than it was told.
THEOREM TypeCorrectness == Spec => []TypeOK
<1>1. DescriptorsInv => TypeOK
  <2> SUFFICES ASSUME DescriptorsInv PROVE TypeOK
    OBVIOUS
  <2>1. clients \in [Slots -> [is_active : BOOLEAN, tx_fd : Fds \cup {NoFd}, rx_fd : Fds \cup {NoFd}]]
    BY DEF DescriptorsInv, TableTyped, Fds, NoFd
  <2>2. \A t \in tasks : /\ t.client \in Clients /\ t.file \in DOMAIN Wanted[t.client]
                         /\ t.client_fd \in Fds /\ t.file_fd \in Fds \cup {NoFd}
                         /\ t.part \in 0..Size(t) + 1
    <3> SUFFICES ASSUME NEW t \in tasks
                 PROVE  /\ t.client \in Clients /\ t.file \in DOMAIN Wanted[t.client]
                        /\ t.client_fd \in Fds /\ t.file_fd \in Fds \cup {NoFd}
                        /\ t.part \in 0..Size(t) + 1
      OBVIOUS
    <3>1. t \in Threads
      BY DEF DescriptorsInv, TableTyped
    <3>2. t.client \in Clients /\ t.client_fd \in Fds /\ t.file_fd \in Fds \cup {NoFd} /\ t.part \in Nat
      BY <3>1 DEF Threads, Fds, NoFd
    <3>3. t.file \in DOMAIN Wanted[t.client] /\ Size(t) \in Nat /\ t.part <= Size(t) + 1
      BY <3>1, <3>2, ConstantsAssumption DEF Threads, Found, Size
    <3>4. QED
      BY <3>2, <3>3
  <2>3. \A c \in Clients : cur[c] \in 0..Len(Wanted[c]) /\ received[c].blocks <= received[c].size
    BY ConstantsAssumption DEF DescriptorsInv, ClientsTyped
  <2>4. QED
    BY <2>1, <2>2, <2>3 DEF TypeOK, DescriptorsInv, ServerTyped, ClientsTyped, TableTyped, Entries, Registration, Stages
<1>2. QED
  BY <1>1, DescriptorsInvariance, PTL

\* A set with exactly one element has cardinality 1.
LEMMA OneElement ==
  ASSUME NEW S, NEW x \in S, \A y \in S : y = x
  PROVE  Cardinality(S) = 1
<1>1. S = {x}
  OBVIOUS
<1>2. QED
  BY <1>1, FS_Singleton

\* No descriptor of the server is leaked or used by two: every pipe belongs to one
\* slot or to the registration in progress, every open file to a thread.
THEOREM DescriptorsAccounted == Spec => []FdsAccounted
<1>1. DescriptorsInv => FdsAccounted
  <2> SUFFICES ASSUME DescriptorsInv PROVE FdsAccounted
    OBVIOUS
  <2>1. ASSUME NEW e \in fds, e.what # "file"
        PROVE  Cardinality({i \in Slots : e.fd \in {clients[i].tx_fd, clients[i].rx_fd}}) = IF Registering(e) THEN 0 ELSE 1
    <3> DEFINE S == {i \in Slots : e.fd \in {clients[i].tx_fd, clients[i].rx_fd}}
    <3>1. e.fd # NoFd
      BY DEF DescriptorsInv, TableTyped, Entries, Fds
    <3>2. \A i \in Slots : i \in S <=> Has(i, e.fd)
      BY <3>1 DEF DescriptorsInv, TableTyped, Has, Free
    <3>3. CASE Registering(e)
      <4>1. S = {}
        BY <2>1, <3>2, <3>3 DEF DescriptorsInv, SlotsHold
      <4>2. QED
        BY <3>3, <4>1, FS_EmptySet
    <3>4. CASE ~Registering(e)
      <4>1. PICK i \in Slots : Has(i, e.fd)
        BY <2>1, <3>4 DEF DescriptorsInv, SlotsHold
      <4>2. \A j \in S : j = i
        BY <3>2, <4>1 DEF DescriptorsInv, SlotsHold, Has
      <4>3. i \in S
        BY <3>2, <4>1
      <4> HIDE DEF S
      <4>4. Cardinality(S) = 1
        BY <4>2, <4>3, OneElement
      <4>5. QED
        BY <3>4, <4>4 DEF S
    <3>5. QED
      BY <3>3, <3>4
  <2>2. \A d, e \in fds : d.fd = e.fd => d = e
    BY DEF DescriptorsInv, TableTyped
  <2>3. \A i \in Slots : clients[i].is_active =>
          \E c \in Clients : {Entry(clients[i].tx_fd, "tx", c), Entry(clients[i].rx_fd, "rx", c)} \subseteq fds
    BY DEF DescriptorsInv, SlotsHold, SlotOpen
  <2>4. \A e \in fds : e.what = "file" => \E t \in tasks : t.file_fd = e.fd
    BY DEF DescriptorsInv, ThreadsHold
  <2>5. QED
    BY <2>1, <2>2, <2>3, <2>4 DEF FdsAccounted
<1>2. QED
  BY <1>1, DescriptorsInvariance, PTL

-----------------------------------------------------------------------------
(* What is on its way to and from each client. *)

\* All of this holds as long as no client is killed.
NoneKilled == \A c \in Clients : pc[c] # "killed"
Asking(c)  == pc[c] \in {"size", "data"}
Waits(c)   == \/ \E j \in DOMAIN lines : lines[j] = c /\ (j > 1 \/ spc \in {"register", "openrx", "ack"})
              \/ \E k \in DOMAIN server_fifo : server_fifo[k] = c
Taken(c)   == IF pc[c] = "size" THEN 0 ELSE received[c].blocks + 1
Done(t)    == t.part = Size(t) + 1

\* A client that has not had its ACK is one that waits for it or has given up.
BeforeAck(c) ==
  Waits(c) => /\ pc[c] \in {"ack", "cleantx", "cleanrx", "exit", "exited"}
              /\ tx[c] = <<>>

\* Outside of a transfer only the ACK is in its pipe.
Idle(c) ==
  /\ ~Asking(c) => \/ tx[c] = <<>>
                   \/ tx[c] = <<ACK(c)>> /\ pc[c] \in {"ack", "cleantx", "cleanrx", "exit"}
  /\ pc[c] \in {"next", "size", "data"} => rx_writer[c] = "open"
  /\ spc # "stopped" /\ ~Asking(c) =>
       \/ rx[c] = <<>>
       \/ rx[c] = <<DISCONNECT>> /\ pc[c] \in {"close", "cleantx", "cleanrx", "exit", "exited"}
  /\ spc # "stopped" /\ pc[c] \in {"next", "size", "data"} =>
       \E i \in Slots : clients[i].is_active /\ SlotOpen(i, c)

\* In a transfer its pipe has the next parts of the file, up to where the thread is.
Transfer(c) ==
  Asking(c) =>
    /\ cur[c] > 0
    /\ \A k \in DOMAIN tx[c] : tx[c][k] = [client |-> c, file |-> cur[c], part |-> k - 1 + Taken(c)]
    /\ tx[c] # <<>> => Found(c, cur[c]) /\ Taken(c) + Len(tx[c]) <= Wanted[c][cur[c]] + 1
    /\ pc[c] = "data" => Found(c, cur[c]) /\ received[c].size = Wanted[c][cur[c]]
    /\ spc # "stopped" =>
         \/ rx[c] = <<>>
         \/ /\ rx[c] = <<cur[c]>> /\ pc[c] = "size" /\ tx[c] = <<>>
            /\ \A t \in tasks : t.client = c => t.file # cur[c]

\* A thread has sent all, or it sends to its own client what that asks for.
ThreadSends(t) ==
  \/ Done(t)
  \/ LET c == t.client IN
     /\ Asking(c) /\ t.file = cur[c] /\ t.part = Taken(c) + Len(tx[c])
     /\ Entry(t.client_fd, "tx", c) \in fds

FlowInv ==
  /\ \A c \in Clients : BeforeAck(c) /\ Idle(c) /\ Transfer(c)
  /\ \A t \in tasks : ThreadSends(t) /\ t.file <= cur[t.client]
  /\ \A t, u \in tasks : t.client = u.client /\ t.file = u.file => t = u


TransferInv == NoneKilled => FlowInv

Served(c) == pc[c] \in {"next", "size", "data"}

\* A step of the server that takes no pipe from a client it serves, and no
\* message from any.
LEMMA FlowUnchanged ==
  ASSUME FlowInv, UNCHANGED <<tasks, rx, tx>>, UNCHANGED client, spc # "stopped", spc' # "stopped",
         TableTyped,
         \A c \in Clients : Waits(c)' => Waits(c),
         \A e \in fds : Served(e.client) => e \in fds',
         \A i \in Slots, c \in Clients : clients[i].is_active /\ SlotOpen(i, c) /\ Served(c) => clients'[i] = clients[i]
  PROVE  FlowInv'
<1>1. UNCHANGED <<pc, cur, received, rx_writer>>
  BY DEF client
<1>2. ASSUME NEW c \in Clients PROVE BeforeAck(c)' /\ Idle(c)' /\ Transfer(c)'
  <2>1. BeforeAck(c)'
    BY <1>1 DEF FlowInv, BeforeAck
  <2>2. ASSUME Served(c)
        PROVE  \E i \in Slots : clients'[i].is_active /\ SlotOpen(i, c)'
    <3>1. PICK i \in Slots : clients[i].is_active /\ SlotOpen(i, c)
      BY <2>2 DEF FlowInv, Idle, Served
    <3>2. clients'[i] = clients[i]
      BY <2>2, <3>1
    <3>3. Entry(clients[i].tx_fd, "tx", c) \in fds' /\ Entry(clients[i].rx_fd, "rx", c) \in fds'
      BY <2>2, <3>1 DEF SlotOpen, Entry
    <3>4. QED
      BY <3>1, <3>2, <3>3 DEF SlotOpen
  <2>3. Idle(c)'
    BY <1>1, <2>2 DEF FlowInv, Idle, Asking, Served
  <2>4. Transfer(c)'
    BY <1>1 DEF FlowInv, Transfer, Asking, Taken
  <2>5. QED
    BY <2>1, <2>3, <2>4
<1>3. ASSUME NEW t \in tasks PROVE ThreadSends(t)'
  <2>1. CASE Done(t)
    BY <2>1 DEF ThreadSends, Done, Size
  <2>2. CASE ~Done(t)
    <3>1. /\ Asking(t.client) /\ t.file = cur[t.client] /\ t.part = Taken(t.client) + Len(tx[t.client])
          /\ Entry(t.client_fd, "tx", t.client) \in fds
      BY <2>2 DEF FlowInv, ThreadSends
    <3>2. Entry(t.client_fd, "tx", t.client) \in fds'
      BY <3>1 DEF Entry, Asking, Served
    <3>3. QED
      BY <1>1, <3>1, <3>2 DEF ThreadSends, Asking, Taken
  <2>3. QED
    BY <2>1, <2>2
<1>4. QED
  BY <1>1, <1>2, <1>3 DEF FlowInv

\* Closing the slot of a client takes pipes from no other.
LEMMA ClosedForOne ==
  ASSUME DescriptorsInv, NEW i \in Slots, clients[i].is_active, NEW c \in Clients, SlotOpen(i, c), ~Served(c),
         close_client_connection(i)
  PROVE  /\ \A e \in fds : Served(e.client) => e \in fds'
         /\ \A j \in Slots, d \in Clients : clients[j].is_active /\ SlotOpen(j, d) /\ Served(d) => clients'[j] = clients[j]
<1>1. clients' = [clients EXCEPT ![i] = Free] /\ fds' = {e \in fds : e.fd \notin {clients[i].tx_fd, clients[i].rx_fd}}
  BY DEF close_client_connection
<1>2. \A e \in fds : e.fd \in {clients[i].tx_fd, clients[i].rx_fd} => e.client = c
  BY DEF DescriptorsInv, TableTyped, SlotOpen, Entry
<1>3. \A d : SlotOpen(i, d) => d = c
  BY <1>2 DEF SlotOpen, Entry
<1>4. \A j \in Slots : j # i => clients'[j] = clients[j]
  BY <1>1 DEF DescriptorsInv, TableTyped
<1>5. QED
  BY <1>1, <1>2, <1>3, <1>4

\* The turn of a client comes once.
LEMMA WaitsInLine ==
  ASSUME DescriptorsInv, spc \in Registration, NextLine, UNCHANGED server_fifo, NEW c, Waits(c)'
  PROVE  Waits(c)
<1>1. \A j \in DOMAIN lines' : j + 1 \in DOMAIN lines /\ lines'[j] = lines[j + 1] /\ j \in Nat \ {0}
  BY NextLineTakesHead DEF DescriptorsInv
<1>2. CASE \E k \in DOMAIN server_fifo' : server_fifo'[k] = c
  BY <1>2 DEF Waits
<1>3. CASE \E j \in DOMAIN lines' : lines'[j] = c
  <2>1. PICK j \in DOMAIN lines' : lines'[j] = c
    BY <1>3
  <2>2. j + 1 \in DOMAIN lines /\ lines[j + 1] = c /\ j + 1 > 1
    BY <1>1, <2>1
  <2>3. QED
    BY <2>2 DEF Waits
<1>4. QED
  BY <1>2, <1>3 DEF Waits

\* The client being registered has not had its ACK: the server has sent it nothing
\* else.
LEMMA HeadWaits ==
  ASSUME DescriptorsInv, spc \in {"register", "openrx", "ack"}, FlowInv
  PROVE  Head(lines) \in Clients /\ Waits(Head(lines)) /\ BeforeAck(Head(lines)) /\ ~Served(Head(lines))
<1>1. Head(lines) \in Clients /\ 1 \in DOMAIN lines /\ lines[1] = Head(lines)
  BY HeadIsFirst DEF DescriptorsInv, Registration
<1>2. Waits(Head(lines))
  BY <1>1 DEF Waits
<1>3. QED
  BY <1>1, <1>2 DEF FlowInv, BeforeAck, Served

\* The steps of the main thread that write to no client and read no command.
LEMMA MainThreadKeepsFlow ==
  ASSUME DescriptorsInv, FlowInv,
         \/ S_Wait \/ S_FifoEvent \/ S_EventsDone \/ S_PeriodicDone \/ S_ReadFifo \/ S_Reject
         \/ S_OpenTx \/ S_OpenRx
  PROVE  FlowInv'
<1>1. UNCHANGED <<tasks, rx, tx>> /\ UNCHANGED client /\ spc # "stopped" /\ TableTyped
  BY DEF S_Wait, S_FifoEvent, S_EventsDone, S_PeriodicDone, S_ReadFifo, S_Reject, S_OpenTx, S_OpenRx, pipes, DescriptorsInv
<1>2. CASE S_Wait \/ S_FifoEvent \/ S_EventsDone \/ S_PeriodicDone \/ S_ReadFifo
  <2>1. UNCHANGED <<clients, fds>> /\ spc' # "stopped"
    BY <1>2 DEF S_Wait, S_FifoEvent, S_EventsDone, S_PeriodicDone, S_ReadFifo, table
  <2>2. lines = <<>> /\ DOMAIN lines = {}
    BY <1>2 DEF S_Wait, S_FifoEvent, S_EventsDone, S_PeriodicDone, S_ReadFifo, DescriptorsInv, ServerTyped, Registration
  <2>3. \/ lines' = lines /\ server_fifo' = server_fifo
        \/ lines' = server_fifo /\ server_fifo' = <<>>
    BY <1>2 DEF S_Wait, S_FifoEvent, S_EventsDone, S_PeriodicDone, S_ReadFifo, pipes
  <2>4. \A c \in Clients : Waits(c)' => Waits(c)
    BY <2>2, <2>3 DEF Waits
  <2>5. QED
    BY <1>1, <2>1, <2>4, FlowUnchanged
<1>3. CASE S_Reject
  <2>1. UNCHANGED <<clients, fds, server_fifo>> /\ NextLine /\ spc \in Registration
    BY <1>3 DEF S_Reject, table, pipes, Registration
  <2>2. spc' # "stopped"
    BY <2>1 DEF NextLine
  <2>3. QED
    BY <1>1, <2>1, <2>2, WaitsInLine, FlowUnchanged
<1>4. CASE S_OpenTx
  <2>1. UNCHANGED <<clients, lines, server_fifo>> /\ fds \subseteq fds' /\ spc' # "stopped" /\ spc = "register"
    BY <1>4 DEF S_OpenTx, pipes
  <2>2. \A c \in Clients : Waits(c)' => Waits(c)
    BY <2>1 DEF Waits
  <2>3. QED
    BY <1>1, <2>1, <2>2, FlowUnchanged
<1>5. CASE S_OpenRx
  <2>1. spc = "openrx" /\ UNCHANGED server_fifo
    BY <1>5 DEF S_OpenRx, pipes
  <2>2. PICK c \in Clients : c = Head(lines) /\ Waits(c) /\ ~Served(c)
    BY <2>1, HeadWaits
  <2>3. CASE RxExists(c)
    <3>1. fds \subseteq fds' /\ clients' = [clients EXCEPT ![find_free_client_slot] = clients'[find_free_client_slot]]
          /\ spc' = "ack" /\ UNCHANGED lines
      BY <1>5, <2>2, <2>3 DEF S_OpenRx, DescriptorsInv, TableTyped
    <3>2. find_free_client_slot \in Slots /\ ~clients[find_free_client_slot].is_active
      BY <2>1, FreeSlot DEF DescriptorsInv, Opening
    <3>3. \A i \in Slots : clients[i].is_active => clients'[i] = clients[i]
      BY <3>1, <3>2 DEF DescriptorsInv, TableTyped
    <3>4. \A d \in Clients : Waits(d)' => Waits(d)
      BY <2>1, <3>1 DEF Waits
    <3>5. QED
      BY <1>1, <3>1, <3>3, <3>4, FlowUnchanged
  <2>4. CASE ~RxExists(c)
    <3>1. \A e \in fds : e \in fds' \/ e = CHOOSE f \in fds : f.what = "tx" /\ f.client = c
      BY <1>5, <2>2, <2>4 DEF S_OpenRx
    <3>2. UNCHANGED clients /\ NextLine
      BY <1>5, <2>2, <2>4 DEF S_OpenRx
    <3>3. (CHOOSE f \in fds : f.what = "tx" /\ f.client = c).client = c
      BY <2>1, <2>2 DEF DescriptorsInv, Opening, Registering
    <3>4. \A d \in Clients : Waits(d)' => Waits(d)
      BY <2>1, <3>2, WaitsInLine DEF Registration
    <3>5. \A e \in fds : Served(e.client) => e \in fds'
      BY <2>2, <3>1, <3>3
    <3>6. spc' # "stopped"
      BY <3>2 DEF NextLine
    <3>7. QED
      BY <1>1, <3>2, <3>4, <3>5, <3>6, FlowUnchanged
  <2>5. QED
    BY <2>3, <2>4
<1>6. QED
  BY <1>2, <1>3, <1>4, <1>5

\* Messages, commands and places of the other clients do not change.
LEMMA OtherClient ==
  ASSUME FlowInv, NEW d \in Clients,
         UNCHANGED <<pc[d], rx[d], tx[d], cur[d], received[d], rx_writer[d]>>,
         spc' # "stopped" => spc # "stopped",
         Waits(d)' => Waits(d),
         spc' # "stopped" /\ Served(d) /\ (\E i \in Slots : clients[i].is_active /\ SlotOpen(i, d)) =>
           \E i \in Slots : clients'[i].is_active /\ SlotOpen(i, d)',
         \A t \in tasks' : t.client = d =>
           \E u \in tasks : u.client = d /\ u.file = t.file
  PROVE  BeforeAck(d)' /\ Idle(d)' /\ Transfer(d)'
<1>1. BeforeAck(d)'
  BY DEF FlowInv, BeforeAck
<1>2. Idle(d)'
  BY DEF FlowInv, Idle, Asking, Served
<1>3. Transfer(d)'
  BY DEF FlowInv, Transfer, Asking, Taken
<1>4. QED
  BY <1>1, <1>2, <1>3

\* A thread whose client does not change sends as before.
LEMMA OtherThread ==
  ASSUME FlowInv, NEW t \in tasks,
         UNCHANGED <<pc[t.client], tx[t.client], cur[t.client], received[t.client]>>,
         Entry(t.client_fd, "tx", t.client) \in fds /\ Asking(t.client) => Entry(t.client_fd, "tx", t.client) \in fds'
  PROVE  ThreadSends(t)' /\ t.file <= cur'[t.client]
<1>1. Done(t)' <=> Done(t)
  BY DEF Done, Size
<1>2. ThreadSends(t) /\ t.file <= cur[t.client]
  BY DEF FlowInv
<1>3. QED
  BY <1>1, <1>2 DEF ThreadSends, Asking, Taken

\* The end of the server takes its threads with it.
LEMMA ShutdownKeepsFlow ==
  ASSUME DescriptorsInv, FlowInv, S_Shutdown
  PROVE  FlowInv'
<1>1. /\ tasks' = {} /\ server_fifo' = <<>> /\ spc' = "stopped" /\ spc = "wait"
      /\ UNCHANGED <<lines, rx, tx>> /\ UNCHANGED <<rx_writer, pc, cur, received>>
  BY DEF S_Shutdown, client
<1>2. lines' = <<>> /\ DOMAIN lines' = {} /\ DOMAIN server_fifo' = {}
  BY <1>1 DEF DescriptorsInv, ServerTyped, Registration
<1>3. \A c \in Clients : ~Waits(c)'
  BY <1>2 DEF Waits
<1>4. ASSUME NEW c \in Clients PROVE BeforeAck(c)' /\ Idle(c)' /\ Transfer(c)'
  BY <1>1, <1>3, OtherClient
<1>5. QED
  BY <1>1, <1>4 DEF FlowInv

\* The signal changes nothing that is on its way.
LEMMA SignalKeepsFlow ==
  ASSUME FlowInv, server_signal_handler
  PROVE  FlowInv'
  BY DEF server_signal_handler, FlowInv, BeforeAck, Waits, Idle, Asking, SlotOpen, Transfer, Taken, ThreadSends,
         Done, Size, table, pipes, client

\* The ACK is the first message in the client's pipe.
LEMMA AckKeepsFlow ==
  ASSUME DescriptorsInv, FlowInv, NoneKilled, S_Ack
  PROVE  FlowInv'
<1>1. spc = "ack" /\ UNCHANGED <<tasks, server_fifo, rx>> /\ UNCHANGED client /\ UNCHANGED <<rx_writer, pc, cur, received>>
  BY DEF S_Ack, client
<1>2. PICK c \in Clients : c = Head(lines) /\ Waits(c) /\ BeforeAck(c) /\ ~Served(c) /\ 1 \in DOMAIN lines /\ lines[1] = c
  BY <1>1, HeadWaits, HeadIsFirst DEF Registration, DescriptorsInv
<1>3. pc[c] \in {"ack", "cleantx", "cleanrx", "exit", "exited"} /\ tx[c] = <<>>
  BY <1>2 DEF BeforeAck
<1>4. CASE HasReader(c)
  <2>1. tx' = [tx EXCEPT ![c] = Append(@, ACK(c))] /\ spc' = "check" /\ UNCHANGED <<clients, fds, lines>>
    BY <1>2, <1>4 DEF S_Ack, table
  <2>2. tx'[c] = <<ACK(c)>> /\ \A d \in Clients : d # c => tx'[d] = tx[d]
    <3>1. Append(tx[c], ACK(c)) = <<ACK(c)>>
      BY <1>3
    <3>2. QED
      BY <2>1, <3>1 DEF DescriptorsInv, ClientsTyped
  <2>3. ~Waits(c)'
    <3>1. \A j \in DOMAIN lines : lines[j] = c => j = 1
      BY <1>2 DEF DescriptorsInv, Queued
    <3>2. \A k \in DOMAIN server_fifo : server_fifo[k] # c
      BY <1>2 DEF DescriptorsInv, Queued
    <3>3. QED
      BY <1>1, <2>1, <3>1, <3>2 DEF Waits
  <2>4. \A d \in Clients : Waits(d)' => Waits(d)
    BY <1>1, <2>1 DEF Waits
  <2>5. \A i \in Slots, d \in Clients : SlotOpen(i, d)' <=> SlotOpen(i, d)
    BY <2>1 DEF SlotOpen
  <2>6. BeforeAck(c)' /\ Idle(c)' /\ Transfer(c)'
    <3>1. pc'[c] \in {"ack", "cleantx", "cleanrx", "exit"}
      BY <1>1, <1>3, <1>4 DEF HasReader
    <3>2. BeforeAck(c)' /\ Transfer(c)'
      BY <2>3, <3>1 DEF BeforeAck, Transfer, Asking
    <3>3. Idle(c)'
      <4>1. Idle(c) /\ spc # "stopped" /\ pc[c] \in {"ack", "cleantx", "cleanrx", "exit"}
        BY <1>1, <3>1 DEF FlowInv
      <4>2. rx[c] = <<>> \/ (rx[c] = <<DISCONNECT>> /\ pc[c] \in {"close", "cleantx", "cleanrx", "exit", "exited"})
        BY <4>1 DEF Idle, Asking
      <4>3. tx'[c] = <<ACK(c)>>'
        BY <2>2 DEF ACK
      <4>4. QED
        BY <1>1, <3>1, <4>2, <4>3 DEF Idle, Asking
    <3>4. QED
      BY <3>2, <3>3
  <2>7. ASSUME NEW d \in Clients, d # c PROVE BeforeAck(d)' /\ Idle(d)' /\ Transfer(d)'
    BY <1>1, <2>1, <2>2, <2>4, <2>5, <2>7, OtherClient
  <2>8. ASSUME NEW t \in tasks PROVE ThreadSends(t)' /\ t.file <= cur'[t.client]
    <3>1. CASE t.client = c
      <4>1. Done(t) /\ t.file <= cur[t.client]
        BY <1>2, <3>1 DEF FlowInv, ThreadSends, Served, Asking
      <4>2. QED
        BY <1>1, <4>1 DEF ThreadSends, Done, Size
    <3>2. CASE t.client # c
      <4>1. t.client \in Clients
        BY DEF DescriptorsInv, TableTyped, Threads
      <4>2. QED
        BY <1>1, <2>1, <2>2, <3>2, <4>1, OtherThread
    <3>3. QED
      BY <3>1, <3>2
  <2>9. QED
    BY <1>1, <2>6, <2>7, <2>8 DEF FlowInv
<1>5. CASE ~HasReader(c)
  <2>1. close_client_connection(SlotOf(c)) /\ tx' = tx /\ NextLine
    BY <1>2, <1>5 DEF S_Ack
  <2>2. SlotOf(c) \in Slots /\ clients[SlotOf(c)].is_active /\ SlotOpen(SlotOf(c), c)
    BY <1>1, <1>2, SlotOfClient DEF DescriptorsInv, Opening
  <2>3. /\ \A e \in fds : Served(e.client) => e \in fds'
        /\ \A j \in Slots, d \in Clients : clients[j].is_active /\ SlotOpen(j, d) /\ Served(d) => clients'[j] = clients[j]
    BY <1>2, <2>1, <2>2, ClosedForOne
  <2>4. \A d \in Clients : Waits(d)' => Waits(d)
    BY <1>1, <2>1, WaitsInLine DEF Registration
  <2>5. spc # "stopped" /\ spc' # "stopped"
    BY <1>1, <2>1 DEF NextLine
  <2>6. UNCHANGED <<tasks, rx, tx>> /\ TableTyped
    BY <1>1, <2>1 DEF DescriptorsInv
  <2>7. QED
    BY <1>1, <2>3, <2>4, <2>5, <2>6, FlowUnchanged
<1>6. QED
  BY <1>4, <1>5

-----------------------------------------------------------------------------
(* Commands. *)

\* A pipe with one command.
LEMMA OneCommand == \A x : DOMAIN <<x>> = {1} /\ <<x>>[1] = x /\ ToSet(<<x>>) = {x} /\ <<x>> # <<>>
<1> SUFFICES ASSUME NEW x PROVE DOMAIN <<x>> = {1} /\ <<x>>[1] = x /\ ToSet(<<x>>) = {x} /\ <<x>> # <<>>
  OBVIOUS
<1>1. DOMAIN <<x>> = {1} /\ <<x>>[1] = x
  OBVIOUS
<1>2. QED
  BY <1>1 DEF ToSet

\* An empty pipe.
LEMMA NoCommand == DOMAIN <<>> = {} /\ ToSet(<<>>) = {}
  BY DEF ToSet

\* The pipe of one client is emptied, and what it asks for there is started: it
\* has not asked for more than one file.
LEMMA CommandsKeepFlow ==
  ASSUME DescriptorsInv, FlowInv, spc # "stopped", spc' # "stopped",
         NEW i \in Slots, clients[i].is_active, NEW c \in Clients, c = Owner(clients[i].rx_fd),
         process_client_commands(i, rx[c]), rx' = [rx EXCEPT ![c] = <<>>], UNCHANGED tx, UNCHANGED client,
         \A d \in Clients : Waits(d)' => Waits(d)
  PROVE  FlowInv'
<1>1. UNCHANGED <<rx_writer, pc, cur, received>>
  BY DEF client
<1>2. SlotOpen(i, c)
  BY OwnerOfSlot DEF DescriptorsInv
<1>3. rx'[c] = <<>> /\ \A d \in Clients : d # c => rx'[d] = rx[d]
  BY DEF DescriptorsInv, ClientsTyped
<1>4. CASE rx[c] = <<>>
  <2>1. UNCHANGED table /\ rx' = rx
    <3>1. DISCONNECT \notin ToSet(rx[c])
      BY <1>4, NoCommand
    <3>2. QED
      BY <1>4, <3>1 DEF process_client_commands, DescriptorsInv, ClientsTyped
  <2>2. tasks' = tasks
    <3>1. \A f : f \notin ToSet(rx[c])
      BY <1>4, NoCommand
    <3>2. QED
      BY <3>1 DEF process_client_commands
  <2>3. QED
    BY <2>1, <2>2, FlowUnchanged DEF table, DescriptorsInv
<1>5. CASE rx[c] = <<DISCONNECT>> /\ ~Asking(c)
  <2>1. ToSet(rx[c]) = {DISCONNECT}
    BY <1>5, OneCommand
  <2>2. tasks' = tasks /\ close_client_connection(i)
    BY <2>1 DEF process_client_commands
  <2>3. ~Served(c)
    <3>1. rx[c] # <<>>
      BY <1>5, OneCommand
    <3>2. QED
      BY <1>5, <3>1 DEF FlowInv, Idle, Served, Asking
  <2>4. /\ \A e \in fds : Served(e.client) => e \in fds'
        /\ \A j \in Slots, d \in Clients : clients[j].is_active /\ SlotOpen(j, d) /\ Served(d) => clients'[j] = clients[j]
    BY <1>2, <2>2, <2>3, ClosedForOne
  <2>5. ASSUME NEW d \in Clients, Served(d), \E j \in Slots : clients[j].is_active /\ SlotOpen(j, d)
        PROVE  \E j \in Slots : clients'[j].is_active /\ SlotOpen(j, d)'
    <3>1. PICK j \in Slots : clients[j].is_active /\ SlotOpen(j, d)
      BY <2>5
    <3>2. clients'[j] = clients[j]
      BY <2>4, <2>5, <3>1
    <3>3. Entry(clients[j].tx_fd, "tx", d) \in fds' /\ Entry(clients[j].rx_fd, "rx", d) \in fds'
      BY <2>4, <2>5, <3>1 DEF SlotOpen, Entry
    <3>4. QED
      BY <3>1, <3>2, <3>3 DEF SlotOpen
  <2>6. ASSUME NEW d \in Clients, d # c PROVE BeforeAck(d)' /\ Idle(d)' /\ Transfer(d)'
    BY <1>1, <1>3, <2>2, <2>5, <2>6, OtherClient
  <2>7. BeforeAck(c)' /\ Idle(c)' /\ Transfer(c)'
    <3>1. ~Asking(c)' /\ ~Served(c)'
      BY <1>1, <1>5, <2>3 DEF Asking, Served
    <3>2. BeforeAck(c)' /\ Transfer(c)'
      BY <1>1, <3>1 DEF FlowInv, BeforeAck, Transfer
    <3>3. Idle(c)'
      BY <1>1, <1>3, <1>5, <3>1 DEF FlowInv, Idle, Asking, Served
    <3>4. QED
      BY <3>2, <3>3
  <2>8. ASSUME NEW t \in tasks PROVE ThreadSends(t)' /\ t.file <= cur'[t.client]
    <3>1. Asking(t.client) => Served(t.client)
      BY DEF Asking, Served
    <3>2. Entry(t.client_fd, "tx", t.client).client = t.client
      BY DEF Entry
    <3>3. QED
      BY <1>1, <2>4, <3>1, <3>2, OtherThread
  <2>9. QED
    BY <2>2, <2>6, <2>7, <2>8 DEF FlowInv
<1>6. CASE /\ rx[c] = <<cur[c]>> /\ pc[c] = "size" /\ tx[c] = <<>> /\ cur[c] > 0
           /\ \A t \in tasks : t.client = c => t.file # cur[c]
  <2> DEFINE u == [client |-> c, file |-> cur[c], client_fd |-> clients[i].tx_fd, file_fd |-> NoFd, part |-> 0]
  <2>1. ToSet(rx[c]) = {cur[c]} /\ cur[c] # DISCONNECT /\ cur[c] \in Nat
    BY <1>6, OneCommand DEF DISCONNECT, DescriptorsInv, ClientsTyped
  <2>2. UNCHANGED <<clients, fds>>
    BY <2>1 DEF process_client_commands, table
  <2>3. tasks' \subseteq tasks \cup {u} /\ tasks \subseteq tasks'
    BY <2>1 DEF process_client_commands
  <2>4. u.client = c /\ u.file = cur[c] /\ u.part = 0 /\ u.client_fd = clients[i].tx_fd
    OBVIOUS
  <2> HIDE DEF u
  <2>5. \A j \in Slots, d \in Clients : SlotOpen(j, d)' <=> SlotOpen(j, d)
    BY <2>2 DEF SlotOpen
  <2>6. ASSUME NEW d \in Clients, d # c PROVE BeforeAck(d)' /\ Idle(d)' /\ Transfer(d)'
    BY <1>1, <1>3, <2>2, <2>3, <2>4, <2>5, <2>6, OtherClient
  <2>7. BeforeAck(c)' /\ Idle(c)' /\ Transfer(c)'
    <3>1. BeforeAck(c)'
      BY <1>1 DEF FlowInv, BeforeAck
    <3>2. Idle(c)'
      BY <1>1, <1>6, <2>2, <2>5 DEF FlowInv, Idle, Asking
    <3>3. Transfer(c)'
      <4>1. DOMAIN tx'[c] = {} /\ tx'[c] = <<>>
        BY <1>6, NoCommand
      <4>2. QED
        BY <1>1, <1>3, <1>6, <4>1 DEF Transfer, Asking
    <3>4. QED
      BY <3>1, <3>2, <3>3
  <2>8. ASSUME NEW t \in tasks' PROVE ThreadSends(t)' /\ t.file <= cur'[t.client]
    <3>1. CASE t \in tasks
      BY <1>1, <2>2, <3>1, OtherThread
    <3>2. CASE t = u
      <4>1. Asking(c)' /\ cur'[c] = cur[c] /\ Taken(c)' = 0 /\ Len(tx'[c]) = 0
        BY <1>1, <1>6 DEF Asking, Taken
      <4>2. Entry(t.client_fd, "tx", c) \in fds'
        BY <1>2, <2>2, <2>4, <3>2 DEF SlotOpen
      <4>3. QED
        BY <2>1, <2>4, <3>2, <4>1, <4>2 DEF ThreadSends
    <3>3. QED
      BY <2>3, <3>1, <3>2
  <2>9. \A t, v \in tasks' : t.client = v.client /\ t.file = v.file => t = v
    BY <1>6, <2>3, <2>4 DEF FlowInv
  <2>10. QED
    BY <2>6, <2>7, <2>8, <2>9 DEF FlowInv
<1>7. QED
  BY <1>4, <1>5, <1>6 DEF FlowInv, Idle, Transfer, Asking

\* The steps of the main thread that run commands: it starts one thread for the
\* file asked for.
LEMMA ServersKeepFlow ==
  ASSUME DescriptorsInv, FlowInv, S_ClientEvent \/ S_Periodic
  PROVE  FlowInv'
<1>1. UNCHANGED <<spc, lines, server_fifo>> /\ UNCHANGED tx /\ UNCHANGED client /\ spc \in {"events", "periodic"}
  BY DEF S_ClientEvent, S_Periodic
<1>2. \E i \in Slots, ended \in SUBSET Clients : Serve(i, ended) /\ \A c \in ended : rx_writer[c] # "open"
  <2>1. CASE S_ClientEvent
    BY <2>1 DEF S_ClientEvent, DescriptorsInv, ServerTyped
  <2>2. CASE S_Periodic
    <3>1. idx \in Slots
      BY <2>2, ConstantsAssumption DEF S_Periodic, DescriptorsInv, ServerTyped, Slots
    <3>2. QED
      BY <2>2, <3>1 DEF S_Periodic, AtEof
  <2>3. QED
    BY <2>1, <2>2
<1>3. PICK i \in Slots, ended \in SUBSET Clients : Serve(i, ended) /\ \A c \in ended : rx_writer[c] # "open"
  BY <1>2
<1>4. spc # "stopped" /\ spc' # "stopped"
  BY <1>1
<1>5. \A d \in Clients : Waits(d)' => Waits(d)
  BY <1>1 DEF Waits
<1>6. CASE ~clients[i].is_active
  <2>1. UNCHANGED <<table, tasks, rx>>
    BY <1>3, <1>6 DEF Serve
  <2>2. QED
    BY <1>1, <1>4, <1>5, <2>1, FlowUnchanged DEF table, DescriptorsInv
<1>7. CASE clients[i].is_active
  <2>1. PICK c \in Clients : c = Owner(clients[i].rx_fd) /\ SlotOpen(i, c)
    BY <1>7, OwnerOfSlot DEF DescriptorsInv
  <2>2. rx' = [rx EXCEPT ![c] = <<>>]
        /\ IF c \in ended THEN close_client_connection(i) /\ tasks' = tasks
           ELSE process_client_commands(i, rx[c])
    BY <1>3, <1>7, <2>1 DEF Serve
  <2>3. CASE c \notin ended
    BY <1>1, <1>4, <1>5, <1>7, <2>1, <2>2, <2>3, CommandsKeepFlow
  <2>4. CASE c \in ended
    <3>1. ~Served(c)
      BY <1>3, <2>4 DEF FlowInv, Idle, Served
    <3>2. /\ \A e \in fds : Served(e.client) => e \in fds'
          /\ \A j \in Slots, d \in Clients : clients[j].is_active /\ SlotOpen(j, d) /\ Served(d) => clients'[j] = clients[j]
      BY <1>7, <2>1, <2>2, <2>4, <3>1, ClosedForOne
    <3>3. ASSUME NEW d \in Clients, Served(d), \E j \in Slots : clients[j].is_active /\ SlotOpen(j, d)
          PROVE  \E j \in Slots : clients'[j].is_active /\ SlotOpen(j, d)'
      <4>1. PICK j \in Slots : clients[j].is_active /\ SlotOpen(j, d)
        BY <3>3
      <4>2. clients'[j] = clients[j]
        BY <3>2, <3>3, <4>1
      <4>3. Entry(clients[j].tx_fd, "tx", d) \in fds' /\ Entry(clients[j].rx_fd, "rx", d) \in fds'
        BY <3>2, <3>3, <4>1 DEF SlotOpen, Entry
      <4>4. QED
        BY <4>1, <4>2, <4>3 DEF SlotOpen
    <3>4. UNCHANGED <<rx_writer, pc, cur, received, tasks>>
      BY <1>1, <2>2, <2>4 DEF client
    <3>5. rx'[c] = <<>> /\ \A d \in Clients : d # c => rx'[d] = rx[d]
      BY <2>2 DEF DescriptorsInv, ClientsTyped
    <3>6. ASSUME NEW d \in Clients, d # c PROVE BeforeAck(d)' /\ Idle(d)' /\ Transfer(d)'
      BY <1>1, <1>5, <3>3, <3>4, <3>5, <3>6, OtherClient
    <3>7. BeforeAck(c)' /\ Idle(c)' /\ Transfer(c)'
      <4>1. ~Asking(c)' /\ ~Served(c)' /\ ~Asking(c)
        BY <3>1, <3>4 DEF Asking, Served
      <4>2. BeforeAck(c)' /\ Transfer(c)'
        BY <1>1, <1>5, <3>4, <4>1 DEF FlowInv, BeforeAck, Transfer
      <4>3. Idle(c)'
        BY <1>1, <3>4, <3>5, <4>1 DEF FlowInv, Idle, Served, Asking
      <4>4. QED
        BY <4>2, <4>3
    <3>8. ASSUME NEW t \in tasks PROVE ThreadSends(t)' /\ t.file <= cur'[t.client]
      <4>1. Asking(t.client) => Served(t.client)
        BY DEF Asking, Served
      <4>2. Entry(t.client_fd, "tx", t.client).client = t.client
        BY DEF Entry
      <4>3. QED
        BY <1>1, <3>2, <3>4, <4>1, <4>2, OtherThread
    <3>9. QED
      BY <3>4, <3>6, <3>7, <3>8 DEF FlowInv
  <2>5. QED
    BY <2>3, <2>4
<1>8. QED
  BY <1>6, <1>7

\* The first read of the new client's commands: it has had its ACK, so it may have
\* asked for one file.
LEMMA CheckKeepsFlow ==
  ASSUME DescriptorsInv, FlowInv, S_Check
  PROVE  FlowInv'
<1>1. spc = "check" /\ NextLine /\ UNCHANGED server_fifo /\ UNCHANGED tx /\ UNCHANGED client
  BY DEF S_Check
<1>2. PICK c \in Clients : c = Head(lines)
  BY <1>1, HeadIsFirst DEF DescriptorsInv, Registration
<1>3. PICK i \in Slots : i = SlotOf(c) /\ clients[i].is_active /\ Owner(clients[i].rx_fd) = c
  BY <1>1, <1>2, SlotOfClient DEF DescriptorsInv, Opening
<1>4. process_client_commands(i, rx[c]) /\ rx' = [rx EXCEPT ![c] = <<>>]
  BY <1>2, <1>3 DEF S_Check
<1>5. \A d \in Clients : Waits(d)' => Waits(d)
  BY <1>1, WaitsInLine DEF Registration
<1>6. spc # "stopped" /\ spc' # "stopped"
  BY <1>1 DEF NextLine
<1>7. QED
  BY <1>1, <1>3, <1>4, <1>5, <1>6, CommandsKeepFlow

-----------------------------------------------------------------------------
(* Threads. *)

\* What Append adds is at the end.
LEMMA AppendedLast ==
  ASSUME NEW S, NEW s \in Seq(S), NEW x \in S
  PROVE  /\ Len(Append(s, x)) = Len(s) + 1 /\ Len(s) \in Nat /\ Append(s, x) # <<>>
         /\ \A k \in DOMAIN Append(s, x) :
              (k \in DOMAIN s /\ Append(s, x)[k] = s[k]) \/ (k = Len(s) + 1 /\ Append(s, x)[k] = x)
<1>1. Len(Append(s, x)) = Len(s) + 1 /\ Len(s) \in Nat /\ Append(s, x) # <<>>
  OBVIOUS
<1>2. \A k \in DOMAIN Append(s, x) :
              (k \in DOMAIN s /\ Append(s, x)[k] = s[k]) \/ (k = Len(s) + 1 /\ Append(s, x)[k] = x)
  OBVIOUS
<1>3. QED
  BY <1>1, <1>2

\* A thread that opens its file sends what it would have sent.
LEMMA OpenFileKeepsFlow ==
  ASSUME DescriptorsInv, FlowInv, NEW t \in tasks, T_Open(t)
  PROVE  FlowInv'
<1>1. /\ tasks' = (tasks \ {t}) \cup {[t EXCEPT !.file_fd = LowestFd]} /\ fds \subseteq fds'
      /\ UNCHANGED <<spc, lines, clients, server_fifo, rx, tx, rx_writer, pc, cur, received>>
  BY DEF T_Open, Advance, loop, pipes, client
<1>2. PICK u : /\ tasks' = (tasks \ {t}) \cup {u} /\ u.client = t.client /\ u.file = t.file
               /\ u.client_fd = t.client_fd /\ u.part = t.part
  <2> DEFINE v == [t EXCEPT !.file_fd = LowestFd]
  <2>1. t \in Threads
    BY DEF DescriptorsInv, TableTyped
  <2>2. v.client = t.client /\ v.file = t.file /\ v.client_fd = t.client_fd /\ v.part = t.part
    BY <2>1 DEF Threads
  <2>3. tasks' = (tasks \ {t}) \cup {v}
    BY <1>1
  <2> HIDE DEF v
  <2>4. QED
    BY <2>2, <2>3
<1>3. \A i \in Slots, d \in Clients : SlotOpen(i, d) => SlotOpen(i, d)'
  BY <1>1 DEF SlotOpen
<1>4. \A d \in Clients : Waits(d)' => Waits(d)
  BY <1>1 DEF Waits
<1>5. \A v \in tasks' : \E w \in tasks : w.client = v.client /\ w.file = v.file
  BY <1>2
<1>6. ASSUME NEW d \in Clients PROVE BeforeAck(d)' /\ Idle(d)' /\ Transfer(d)'
  BY <1>1, <1>3, <1>4, <1>5, OtherClient
<1>7. \A v \in tasks : ThreadSends(v)' /\ v.file <= cur'[v.client]
  BY <1>1, OtherThread
<1>8. ThreadSends(u)' /\ u.file <= cur'[u.client]
  <2>1. ThreadSends(t)' /\ t.file <= cur'[t.client]
    BY <1>7
  <2>2. QED
    BY <1>2, <2>1 DEF ThreadSends, Done, Size
<1>9. \A v, w \in tasks' : v.client = w.client /\ v.file = w.file => v = w
  BY <1>2 DEF FlowInv
<1>10. QED
  BY <1>2, <1>6, <1>7, <1>8, <1>9 DEF FlowInv

\* A thread that ends has sent everything.
LEMMA EndKeepsFlow ==
  ASSUME DescriptorsInv, FlowInv, NEW t \in tasks, T_End(t)
  PROVE  FlowInv'
<1>1. /\ t.file_fd # NoFd /\ tasks' = tasks \ {t} /\ fds' = {e \in fds : e.fd # t.file_fd}
      /\ UNCHANGED <<spc, lines, clients, server_fifo, rx, tx, rx_writer, pc, cur, received>>
  BY DEF T_End, loop, pipes, client
<1>2. \A e \in fds : e.what # "file" => e \in fds'
  <2>1. Entry(t.file_fd, "file", t.client) \in fds
    BY <1>1 DEF DescriptorsInv, ThreadsHold
  <2>2. QED
    BY <1>1, <2>1 DEF DescriptorsInv, TableTyped, Entry
<1>3. \A i \in Slots, d \in Clients : SlotOpen(i, d) => SlotOpen(i, d)'
  BY <1>1, <1>2 DEF SlotOpen, Entry
<1>4. \A d \in Clients : Waits(d)' => Waits(d)
  BY <1>1 DEF Waits
<1>5. ASSUME NEW d \in Clients PROVE BeforeAck(d)' /\ Idle(d)' /\ Transfer(d)'
  BY <1>1, <1>3, <1>4, OtherClient
<1>6. \A v \in tasks : Entry(v.client_fd, "tx", v.client) \in fds => Entry(v.client_fd, "tx", v.client) \in fds'
  BY <1>2 DEF Entry
<1>7. \A v \in tasks : ThreadSends(v)' /\ v.file <= cur'[v.client]
  BY <1>1, <1>6, OtherThread
<1>8. QED
  BY <1>1, <1>5, <1>7 DEF FlowInv

\* A thread that has something to send has a client that waits for it, and
\* writes the next part to that client's pipe.
LEMMA WriteKeepsFlow ==
  ASSUME DescriptorsInv, FlowInv, NEW t \in tasks, T_Write(t)
  PROVE  FlowInv'
<1> DEFINE c == t.client
           m == [client |-> t.client, file |-> t.file, part |-> t.part]
<1>1. PICK d \in Targets(t) : tx' = [tx EXCEPT ![d] = Append(@, m)]
  BY DEF T_Write
<1>2. /\ t.part <= Size(t) /\ tasks' = (tasks \ {t}) \cup {[t EXCEPT !.part = @ + 1]}
      /\ UNCHANGED <<spc, lines, clients, fds, server_fifo, rx, rx_writer, pc, cur, received>>
  BY DEF T_Write, Advance, Going, loop, table, client
<1>3. t \in Threads
  BY DEF DescriptorsInv, TableTyped
<1>4. c \in Clients /\ Found(c, t.file) /\ t.part \in Nat /\ Size(t) \in Nat /\ Size(t) = Wanted[c][t.file]
  BY <1>3, ConstantsAssumption DEF Threads, Found, Size
<1>5. ~Done(t)
  BY <1>2, <1>4 DEF Done
<1>6. Asking(c) /\ t.file = cur[c] /\ t.part = Taken(c) + Len(tx[c]) /\ Entry(t.client_fd, "tx", c) \in fds
  BY <1>5 DEF FlowInv, ThreadSends
<1>7. d = c
  BY <1>1, <1>6 DEF Targets, DescriptorsInv, TableTyped, Entry
<1>8. tx[c] \in Seq(Messages) /\ Taken(c) \in Nat
  BY <1>4 DEF DescriptorsInv, ClientsTyped, Taken
<1>9. tx'[c] = Append(tx[c], m) /\ \A e \in Clients : e # c => tx'[e] = tx[e]
  BY <1>1, <1>4, <1>7 DEF DescriptorsInv, ClientsTyped
<1>10. PICK u : /\ tasks' = (tasks \ {t}) \cup {u} /\ u.client = c /\ u.file = t.file
                /\ u.client_fd = t.client_fd /\ u.part = t.part + 1
  <2> DEFINE v == [t EXCEPT !.part = @ + 1]
  <2>1. v.client = c /\ v.file = t.file /\ v.client_fd = t.client_fd /\ v.part = t.part + 1
    BY <1>3 DEF Threads
  <2>2. tasks' = (tasks \ {t}) \cup {v}
    BY <1>2
  <2> HIDE DEF v
  <2>3. QED
    BY <2>1, <2>2
<1>11. \A i \in Slots, e \in Clients : SlotOpen(i, e)' <=> SlotOpen(i, e)
  BY <1>2 DEF SlotOpen
<1>12. \A e \in Clients : Waits(e)' => Waits(e)
  BY <1>2 DEF Waits
<1>13. \A v \in tasks' : \E w \in tasks : w.client = v.client /\ w.file = v.file
  BY <1>10
<1>14. ASSUME NEW e \in Clients, e # c PROVE BeforeAck(e)' /\ Idle(e)' /\ Transfer(e)'
  BY <1>2, <1>9, <1>11, <1>12, <1>13, <1>14, OtherClient
<1>15. Len(tx'[c]) = Len(tx[c]) + 1 /\ Len(tx[c]) \in Nat /\ tx'[c] # <<>>
       /\ \A k \in DOMAIN tx'[c] :
              (k \in DOMAIN tx[c] /\ tx'[c][k] = tx[c][k]) \/ (k = Len(tx[c]) + 1 /\ tx'[c][k] = m)
  <2>1. m \in Messages
    BY <1>3 DEF Messages, Threads
  <2> HIDE DEF m, c
  <2>2. QED
    BY ONLY <1>8, <1>9, <2>1, AppendedLast
<1>16. PICK f : f = c
  OBVIOUS
<1>17. BeforeAck(f)' /\ Idle(f)' /\ Transfer(f)'
  <2>1. f \in Clients /\ Asking(f) /\ Asking(f)' /\ BeforeAck(f) /\ Idle(f) /\ Transfer(f)
    BY <1>2, <1>4, <1>6, <1>16 DEF Asking, FlowInv
  <2>2. ~Waits(f)
    BY <2>1 DEF BeforeAck, Asking
  <2>3. BeforeAck(f)'
    BY <1>12, <2>1, <2>2 DEF BeforeAck
  <2>4. Idle(f)'
    BY <1>2, <1>11, <2>1 DEF Idle
  <2>5. Taken(f)' = Taken(f)
    BY <1>2 DEF Taken
  <2>6. \A k \in DOMAIN tx'[f] : tx'[f][k] = [client |-> f, file |-> cur[f], part |-> k - 1 + Taken(f)]
    <3>1. \A k \in DOMAIN tx[f] : tx[f][k] = [client |-> f, file |-> cur[f], part |-> k - 1 + Taken(f)]
      BY <2>1 DEF Transfer
    <3>2. m = [client |-> f, file |-> cur[f], part |-> (Len(tx[f]) + 1) - 1 + Taken(f)]
      <4>1. (Len(tx[f]) + 1) - 1 + Taken(f) = Taken(f) + Len(tx[f])
        BY <1>8, <1>15, <1>16
      <4>2. QED
        BY <1>6, <1>16, <4>1
    <3> HIDE DEF m
    <3>3. QED
      BY SMTT(30), <1>15, <1>16, <3>1, <3>2
  <2>7. Found(f, cur[f]) /\ Taken(f) + Len(tx'[f]) <= Wanted[f][cur[f]] + 1
    BY <1>2, <1>4, <1>6, <1>8, <1>15, <1>16
  <2>8. spc # "stopped" => rx[f] = <<>>
    BY <1>6, <1>16, <2>1 DEF Transfer
  <2>9. Transfer(f)'
    BY <1>2, <2>1, <2>5, <2>6, <2>7, <2>8 DEF Transfer
  <2>10. QED
    BY <2>3, <2>4, <2>9
<1>18. ASSUME NEW v \in tasks', v # u PROVE ThreadSends(v)' /\ v.file <= cur'[v.client]
  <2>1. v \in tasks /\ v # t
    BY <1>10, <1>18
  <2>2. CASE v.client = c
    <3>1. Done(v)
      BY <1>6, <2>1, <2>2 DEF FlowInv, ThreadSends
    <3>2. QED
      BY <1>2, <2>1, <3>1 DEF FlowInv, ThreadSends, Done, Size
  <2>3. CASE v.client # c
    <3>1. v.client \in Clients
      BY <2>1 DEF DescriptorsInv, TableTyped, Threads
    <3>2. QED
      BY <1>2, <1>9, <2>1, <2>3, <3>1, OtherThread
  <2>4. QED
    BY <2>2, <2>3
<1>19. ThreadSends(u)' /\ u.file <= cur'[u.client]
  <2>1. Taken(f)' = Taken(f) /\ Asking(f)'
    BY <1>2, <1>6, <1>16 DEF Taken, Asking
  <2>2. u.client = f /\ u.part = Taken(f)' + Len(tx'[f]) /\ u.file = cur'[f]
    BY <1>2, <1>4, <1>6, <1>8, <1>10, <1>15, <1>16, <2>1
  <2>3. Entry(u.client_fd, "tx", f) \in fds'
    BY <1>2, <1>6, <1>10, <1>16
  <2>4. u.file <= cur'[u.client]
    BY <1>2, <1>10 DEF FlowInv
  <2>5. QED
    BY <2>1, <2>2, <2>3, <2>4 DEF ThreadSends
<1>20. \A v, w \in tasks' : v.client = w.client /\ v.file = w.file => v = w
  BY <1>10 DEF FlowInv
<1>21. QED
  BY <1>10, <1>14, <1>16, <1>17, <1>18, <1>19, <1>20 DEF FlowInv

-----------------------------------------------------------------------------
(* Clients. *)

\* What a step of client c has to show: that of c itself, and of its threads.
LEMMA ClientStepFlow ==
  ASSUME DescriptorsInv, FlowInv, NEW c \in Clients, UNCHANGED <<loop, table, tasks>>,
         \A d \in Clients : d # c =>
           UNCHANGED <<pc[d], rx[d], tx[d], cur[d], received[d], rx_writer[d]>> /\ (Waits(d)' => Waits(d)),
         BeforeAck(c)' /\ Idle(c)' /\ Transfer(c)',
         \A t \in tasks : t.client = c => ThreadSends(t)',
         cur'[c] \in {cur[c], cur[c] + 1}
  PROVE  FlowInv'
<1>1. UNCHANGED <<spc, lines, clients, fds>>
  BY DEF loop, table
<1>2. \A i \in Slots, d \in Clients : SlotOpen(i, d)' <=> SlotOpen(i, d)
  BY <1>1 DEF SlotOpen
<1>3. ASSUME NEW d \in Clients, d # c PROVE BeforeAck(d)' /\ Idle(d)' /\ Transfer(d)'
  BY <1>1, <1>2, <1>3, OtherClient
<1>4. ASSUME NEW t \in tasks PROVE ThreadSends(t)' /\ t.file <= cur'[t.client]
  <2>1. t \in Threads
    BY DEF DescriptorsInv, TableTyped
  <2>2. t.client \in Clients /\ t.file \in Nat
    BY <2>1 DEF Threads
  <2>3. CASE t.client # c
    BY <1>1, <2>2, <2>3, OtherThread
  <2>4. CASE t.client = c
    <3>1. t.file <= cur[c] /\ cur[c] \in Nat
      BY <2>4 DEF FlowInv, DescriptorsInv, ClientsTyped
    <3>2. t.file <= cur'[c]
      BY <2>2, <3>1
    <3>3. QED
      BY <2>4, <3>2
  <2>5. QED
    BY <2>3, <2>4
<1>5. QED
  BY <1>3, <1>4 DEF FlowInv

\* A client that is not in a transfer has no thread with anything left to send.
LEMMA IdleThreads ==
  ASSUME FlowInv, NEW t \in tasks, ~Asking(t.client)
  PROVE  Done(t)
  BY DEF FlowInv, ThreadSends

\* A client changes nothing of another.
LEMMA ClientAlone ==
  ASSUME DescriptorsInv, NEW c \in Clients, Client(c)
  PROVE  /\ UNCHANGED <<loop, table, tasks>>
         /\ \A d \in Clients : d # c =>
              UNCHANGED <<pc[d], rx[d], tx[d], cur[d], received[d], rx_writer[d]>> /\ (Waits(d)' => Waits(d))
<1>1. UNCHANGED <<loop, table, tasks>>
  BY DEF Client, C_Start, C_Ack, C_Timeout, C_OpenTx, C_OpenRx, C_Get, C_Disconnect, C_Size, C_Data, C_Eof,
         C_Close, C_Clean, C_Exit
<1>2. UNCHANGED <<lines, spc>>
  BY <1>1 DEF loop
<1>3. server_fifo' \in {server_fifo, Append(server_fifo, c)}
  BY DEF Client, C_Start, C_Ack, C_Timeout, C_OpenTx, C_OpenRx, C_Get, C_Disconnect, C_Size, C_Data, C_Eof,
         C_Close, C_Clean, C_Exit, pipes
<1>4. ASSUME NEW d \in Clients, d # c PROVE Waits(d)' => Waits(d)
  <2>1. \A k \in DOMAIN server_fifo' : server_fifo'[k] = d => k \in DOMAIN server_fifo /\ server_fifo[k] = d
    <3>1. CASE server_fifo' = server_fifo
      BY <3>1
    <3>2. CASE server_fifo' = Append(server_fifo, c)
      <4>1. server_fifo \in Seq(Clients)
        BY DEF DescriptorsInv, ServerTyped
      <4>2. QED
        BY <1>4, <3>2, <4>1, AppendedLast
    <3>3. QED
      BY <1>3, <3>1, <3>2
  <2>2. QED
    BY <1>2, <2>1 DEF Waits
<1>5. \A d \in Clients : d # c => pc'[d] = pc[d]
  BY ClientKeepsTypes DEF DescriptorsInv
<1>6. rx' = rx \/ \E n : rx' = [rx EXCEPT ![c] = Append(@, n)]
  BY DEF Client, C_Start, C_Ack, C_Timeout, C_OpenTx, C_OpenRx, C_Get, C_Disconnect, C_Size, C_Data, C_Eof,
         C_Close, C_Clean, C_Exit, Send, pipes
<1>7. \E s : tx' = tx \/ tx' = [tx EXCEPT ![c] = s]
  BY DEF Client, C_Start, C_Ack, C_Timeout, C_OpenTx, C_OpenRx, C_Get, C_Disconnect, C_Size, C_Data, C_Eof,
         C_Close, C_Clean, C_Exit, pipes
<1>8. cur' = cur \/ cur' = [cur EXCEPT ![c] = @ + 1]
  BY DEF Client, C_Start, C_Ack, C_Timeout, C_OpenTx, C_OpenRx, C_Get, C_Disconnect, C_Size, C_Data, C_Eof,
         C_Close, C_Clean, C_Exit, pipes
<1>9. \E r : received' = received \/ received' = [received EXCEPT ![c] = r]
  <2>1. CASE C_Size(c)
    BY <2>1 DEF C_Size
  <2>2. CASE C_Data(c)
    <3>1. received' = [received EXCEPT ![c] = [received[c] EXCEPT !.blocks = @ + 1]]
      BY <2>2 DEF C_Data
    <3>2. QED
      BY <3>1
  <2>3. CASE ~C_Size(c) /\ ~C_Data(c)
    <3>1. received' = received
      BY <2>3 DEF Client, C_Start, C_Ack, C_Timeout, C_OpenTx, C_OpenRx, C_Get, C_Disconnect, C_Eof,
         C_Close, C_Clean, C_Exit
    <3>2. QED
      BY <3>1
  <2>4. QED
    BY <2>1, <2>2, <2>3
<1>10. \E w : rx_writer' = rx_writer \/ rx_writer' = [rx_writer EXCEPT ![c] = w]
  BY DEF Client, C_Start, C_Ack, C_Timeout, C_OpenTx, C_OpenRx, C_Get, C_Disconnect, C_Size, C_Data, C_Eof,
         C_Close, C_Clean, C_Exit
<1>11. \A d \in Clients : d # c => UNCHANGED <<rx[d], tx[d], cur[d], received[d], rx_writer[d]>>
  BY <1>6, <1>7, <1>8, <1>9, <1>10 DEF DescriptorsInv, ClientsTyped
<1>12. QED
  BY <1>1, <1>4, <1>5, <1>11

\* Threads of a client that asks for nothing have sent all.
LEMMA DoneThreads ==
  ASSUME FlowInv, NEW c, ~Asking(c)
  PROVE  \A t \in tasks : t.client = c => ThreadSends(t)'
  BY DEF FlowInv, ThreadSends, Done, Size

\* Before its first file, and after the last.
LEMMA ClientOutsideKeepsFlow ==
  ASSUME DescriptorsInv, FlowInv, NEW c \in Clients,
         \/ C_Start(c) \/ C_Ack(c) \/ C_Timeout(c) \/ C_OpenTx(c) \/ C_OpenRx(c) \/ C_Disconnect(c)
         \/ C_Close(c) \/ C_Clean(c) \/ C_Exit(c)
  PROVE  FlowInv'
<1>1. Client(c)
  BY DEF Client
<1>2. UNCHANGED <<loop, table, tasks>> /\ \A d \in Clients : d # c =>
              UNCHANGED <<pc[d], rx[d], tx[d], cur[d], received[d], rx_writer[d]>> /\ (Waits(d)' => Waits(d))
  BY <1>1, ClientAlone
<1>3. UNCHANGED <<spc, lines, clients, fds>>
  BY <1>2 DEF loop, table
<1>4. /\ pc \in [Clients -> Stages] /\ rx \in [Clients -> Seq(Nat)] /\ tx \in [Clients -> Seq(Messages)]
      /\ rx_writer \in [Clients -> {"never", "open", "closed"}]
  BY DEF DescriptorsInv, ClientsTyped
<1>5. BeforeAck(c) /\ Idle(c)
  BY DEF FlowInv
<1>6. ~Asking(c)
  BY DEF C_Start, C_Ack, C_Timeout, C_OpenTx, C_OpenRx, C_Disconnect, C_Close, C_Clean, C_Exit, Goto, Asking
<1>7. cur' = cur
  BY DEF C_Start, C_Ack, C_Timeout, C_OpenTx, C_OpenRx, C_Disconnect, C_Close, C_Clean, C_Exit
<1>8. \A t \in tasks : t.client = c => ThreadSends(t)'
  BY <1>6, DoneThreads
<1>9. tx[c] = <<>> \/ (tx[c] = <<ACK(c)>> /\ pc[c] \in {"ack", "cleantx", "cleanrx", "exit"})
  BY <1>5, <1>6 DEF Idle
<1>10. spc # "stopped" =>
         rx[c] = <<>> \/ (rx[c] = <<DISCONNECT>> /\ pc[c] \in {"close", "cleantx", "cleanrx", "exit", "exited"})
  BY <1>5, <1>6 DEF Idle
<1> DEFINE Parts == BeforeAck(c)' /\ Idle(c)' /\ Transfer(c)'
<1>11. ASSUME ~Asking(c)', ~Served(c)', Waits(c)' => pc'[c] \in {"ack", "cleantx", "cleanrx", "exit", "exited"} /\ tx'[c] = <<>>,
              tx'[c] = <<>> \/ (tx'[c] = <<ACK(c)>> /\ pc'[c] \in {"ack", "cleantx", "cleanrx", "exit"}),
              spc # "stopped" =>
                rx'[c] = <<>> \/ (rx'[c] = <<DISCONNECT>> /\ pc'[c] \in {"close", "cleantx", "cleanrx", "exit", "exited"})
       PROVE  Parts
  <2>1. BeforeAck(c)'
    BY <1>11 DEF BeforeAck
  <2>2. Transfer(c)'
    BY <1>11 DEF Transfer
  <2>3. ACK(c)' = ACK(c)
    BY DEF ACK
  <2>4. Idle(c)'
    BY <1>3, <1>11, <2>3 DEF Idle, Served
  <2>5. QED
    BY <2>1, <2>2, <2>4
<1>12. ASSUME C_Start(c) PROVE Parts
  <2>1. pc[c] = "start" /\ pc'[c] \in {"ack", "exited"} /\ UNCHANGED <<rx, tx>>
    BY <1>4, <1>12 DEF C_Start, Goto
  <2>2. tx'[c] = <<>> /\ (spc # "stopped" => rx'[c] = <<>>)
    BY <1>9, <1>10, <2>1
  <2>3. ~Asking(c)' /\ ~Served(c)'
    BY <2>1 DEF Asking, Served
  <2>4. QED
    BY <1>11, <2>1, <2>2, <2>3
<1>13. ASSUME Waits(c)' PROVE C_Start(c) \/ Waits(c)
  <2>1. C_Start(c) \/ server_fifo' = server_fifo
    BY DEF C_Ack, C_Timeout, C_OpenTx, C_OpenRx, C_Disconnect, C_Close, C_Clean, C_Exit, pipes
  <2>2. QED
    BY <1>3, <1>13, <2>1 DEF Waits
<1>14. ASSUME C_Ack(c) PROVE Parts
  <2>1. pc[c] = "ack" /\ tx[c] # <<>> /\ tx[c] = <<ACK(c)>>
    BY <1>9, <1>14 DEF C_Ack, Goto
  <2>2. pc'[c] \in {"opentx", "cleantx"} /\ UNCHANGED rx
    BY <1>4, <1>14 DEF C_Ack, Goto
  <2>3. Len(tx[c]) = 1
    BY <2>1
  <2>4. tx'[c] = SubSeq(tx[c], 2, 1)
    BY <1>4, <1>14, <2>3 DEF C_Ack
  <2>5. SubSeq(tx[c], 2, 1) = <<>>
    BY <1>4, <2>3
  <2>6. ~Waits(c)
    BY <1>5, <2>1 DEF BeforeAck
  <2>7. ~C_Start(c)
    BY <2>1 DEF C_Start, Goto
  <2>8. ~Asking(c)' /\ ~Served(c)' /\ ~Waits(c)'
    BY <1>13, <2>2, <2>6, <2>7 DEF Asking, Served
  <2>9. spc # "stopped" => rx'[c] = <<>>
    BY <1>10, <2>1, <2>2
  <2>10. QED
    BY <1>11, <2>2, <2>4, <2>5, <2>8, <2>9
<1>15. ASSUME C_OpenTx(c) PROVE Parts
  <2>1. pc[c] = "opentx" /\ pc'[c] = "openrx" /\ UNCHANGED <<rx, tx>>
    BY <1>4, <1>15 DEF C_OpenTx, Goto, pipes
  <2>2. ~C_Start(c) /\ ~Waits(c)
    BY <1>5, <2>1 DEF C_Start, Goto, BeforeAck
  <2>3. ~Asking(c)' /\ ~Served(c)' /\ ~Waits(c)'
    BY <1>13, <2>1, <2>2 DEF Asking, Served
  <2>4. tx'[c] = <<>> /\ (spc # "stopped" => rx'[c] = <<>>)
    BY <1>9, <1>10, <2>1
  <2>5. QED
    BY <1>11, <2>3, <2>4
<1>16. ASSUME C_OpenRx(c) PROVE Parts
  <2>1. pc[c] = "openrx" /\ pc'[c] = "next" /\ UNCHANGED <<rx, tx>> /\ rx_writer'[c] = "open" /\ IsOpen(c, "rx")
    BY <1>4, <1>16 DEF C_OpenRx, Goto, pipes
  <2>2. ~C_Start(c) /\ ~Waits(c)
    BY <1>5, <2>1 DEF C_Start, Goto, BeforeAck
  <2>3. BeforeAck(c)' /\ Transfer(c)'
    BY <1>13, <2>1, <2>2 DEF BeforeAck, Transfer, Asking
  <2>4. tx'[c] = <<>> /\ (spc # "stopped" => rx'[c] = <<>>)
    BY <1>9, <1>10, <2>1
  <2>5. PICK e \in fds : e.what = "rx" /\ e.client = c
    BY <2>1 DEF IsOpen
  <2>6. PICK i \in Slots : Has(i, e.fd)
    BY <2>5 DEF DescriptorsInv, SlotsHold, Registering
  <2>7. PICK d \in Clients : SlotOpen(i, d)
    BY <2>6 DEF DescriptorsInv, SlotsHold, Has
  <2>8. \E f \in fds : f.fd = e.fd /\ f.client = d
    BY <2>6, <2>7 DEF SlotOpen, Entry, Has
  <2>9. d = c
    BY <2>5, <2>8 DEF DescriptorsInv, TableTyped
  <2>10. clients'[i].is_active /\ SlotOpen(i, c)'
    BY <1>3, <2>6, <2>7, <2>9 DEF Has, SlotOpen
  <2>11. Idle(c)'
    BY <1>3, <2>1, <2>4, <2>10 DEF Idle
  <2>12. QED
    BY <2>3, <2>11
<1>17. ASSUME C_Disconnect(c) PROVE Parts
  <2>1. pc[c] = "next" /\ pc'[c] = "close" /\ UNCHANGED tx /\ Send(c, DISCONNECT)
    BY <1>4, <1>17 DEF C_Disconnect, Goto
  <2>2. ~C_Start(c) /\ ~Waits(c)
    BY <1>5, <2>1 DEF C_Start, Goto, BeforeAck
  <2>3. ~Asking(c)' /\ ~Served(c)' /\ ~Waits(c)'
    BY <1>13, <2>1, <2>2 DEF Asking, Served
  <2>4. tx'[c] = <<>> /\ (spc # "stopped" => rx[c] = <<>>)
    BY <1>9, <1>10, <2>1
  <2>5. rx'[c] \in {rx[c], Append(rx[c], DISCONNECT)}
    BY <1>4, <2>1 DEF Send
  <2>6. Append(<<>>, DISCONNECT) = <<DISCONNECT>>
    OBVIOUS
  <2>7. spc # "stopped" => rx'[c] = <<>> \/ rx'[c] = <<DISCONNECT>>
    BY <2>4, <2>5, <2>6
  <2>8. QED
    BY <1>11, <2>1, <2>3, <2>4, <2>7
<1>18. ASSUME C_Timeout(c) \/ C_Close(c) \/ C_Clean(c) PROVE Parts
  <2>1. /\ \/ pc[c] = "ack" /\ tx[c] = <<>> /\ pc'[c] = "cleantx"
           \/ pc[c] = "close" /\ pc'[c] = "cleantx"
           \/ pc[c] = "cleantx" /\ pc'[c] = "cleanrx"
           \/ pc[c] = "cleanrx" /\ pc'[c] = "exit"
        /\ UNCHANGED <<rx, tx>>
    BY <1>4, <1>18 DEF C_Timeout, C_Close, C_Clean, Goto, pipes
  <2>2. ~C_Start(c) /\ ~Asking(c)' /\ ~Served(c)'
    BY <2>1 DEF C_Start, Goto, Asking, Served
  <2>3. Waits(c)' => pc'[c] \in {"ack", "cleantx", "cleanrx", "exit", "exited"} /\ tx'[c] = <<>>
    BY <1>5, <1>13, <2>1, <2>2 DEF BeforeAck
  <2>4. tx'[c] = <<>> \/ (tx'[c] = <<ACK(c)>> /\ pc'[c] \in {"ack", "cleantx", "cleanrx", "exit"})
    BY <1>9, <2>1
  <2>5. spc # "stopped" =>
          rx'[c] = <<>> \/ (rx'[c] = <<DISCONNECT>> /\ pc'[c] \in {"close", "cleantx", "cleanrx", "exit", "exited"})
    BY <1>10, <2>1
  <2>6. QED
    BY <1>11, <2>2, <2>3, <2>4, <2>5
<1>19. ASSUME C_Exit(c) PROVE Parts
  <2>1. pc[c] = "exit" /\ pc'[c] = "exited" /\ UNCHANGED rx /\ tx'[c] = <<>>
    BY <1>4, <1>19 DEF C_Exit, Goto
  <2>2. ~Asking(c)' /\ ~Served(c)'
    BY <2>1 DEF Asking, Served
  <2>3. spc # "stopped" => rx'[c] = <<>> \/ rx'[c] = <<DISCONNECT>>
    BY <1>10, <2>1
  <2>4. QED
    BY <1>11, <2>1, <2>2, <2>3
<1>20. Parts
  BY <1>12, <1>14, <1>15, <1>16, <1>17, <1>18, <1>19
<1> HIDE DEF Parts
<1>21. BeforeAck(c)' /\ Idle(c)' /\ Transfer(c)'
  BY <1>20 DEF Parts
<1>22. QED
  BY <1>2, <1>7, <1>8, <1>21, ClientStepFlow

\* The next file: no thread sends it yet.
LEMMA GetKeepsFlow ==
  ASSUME DescriptorsInv, FlowInv, NEW c \in Clients, C_Get(c)
  PROVE  FlowInv'
<1>1. Client(c)
  BY DEF Client
<1>2. UNCHANGED <<loop, table, tasks>> /\ \A d \in Clients : d # c =>
              UNCHANGED <<pc[d], rx[d], tx[d], cur[d], received[d], rx_writer[d]>> /\ (Waits(d)' => Waits(d))
  BY <1>1, ClientAlone
<1>3. UNCHANGED <<spc, lines, clients, fds, tasks, server_fifo>>
  BY <1>2 DEF loop, table, C_Get
<1>4. /\ pc \in [Clients -> Stages] /\ rx \in [Clients -> Seq(Nat)] /\ cur \in [Clients -> Nat]
  BY DEF DescriptorsInv, ClientsTyped
<1>5. BeforeAck(c) /\ Idle(c)
  BY DEF FlowInv
<1>6. /\ pc[c] = "next" /\ UNCHANGED <<tx, rx_writer, received>> /\ Send(c, cur[c] + 1)
      /\ pc'[c] = (IF IsOpen(c, "rx") THEN "size" ELSE "next") /\ cur'[c] = cur[c] + 1
  BY <1>4 DEF C_Get, Goto
<1>7. ~Asking(c) /\ ~Waits(c)
  BY <1>5, <1>6 DEF Asking, BeforeAck
<1>8. tx'[c] = <<>> /\ (spc # "stopped" => rx[c] = <<>>) /\ rx_writer'[c] = "open"
  BY <1>5, <1>6, <1>7 DEF Idle
<1>9. BeforeAck(c)'
  BY <1>3, <1>7 DEF BeforeAck, Waits
<1>10. \A t \in tasks : t.client = c => ThreadSends(t)'
  BY <1>7, DoneThreads
<1>11. \A t \in tasks : t.client = c => t.file # cur[c] + 1
  <2>1. \A t \in tasks : t.client = c => t.file <= cur[c] /\ t.file \in Nat
    BY DEF FlowInv, DescriptorsInv, TableTyped, Threads
  <2>2. cur[c] \in Nat
    BY <1>4
  <2>3. QED
    BY <2>1, <2>2
<1>12. spc # "stopped" => IsOpen(c, "rx") /\ \E i \in Slots : clients[i].is_active /\ SlotOpen(i, c)
  <2> SUFFICES ASSUME spc # "stopped"
               PROVE  IsOpen(c, "rx") /\ \E i \in Slots : clients[i].is_active /\ SlotOpen(i, c)
    OBVIOUS
  <2>1. PICK i \in Slots : clients[i].is_active /\ SlotOpen(i, c)
    BY <1>5, <1>6 DEF Idle
  <2>2. IsOpen(c, "rx")
    BY <2>1 DEF SlotOpen, Entry, IsOpen
  <2>3. QED
    BY <2>1, <2>2
<1>13. spc # "stopped" => \E i \in Slots : clients'[i].is_active /\ SlotOpen(i, c)'
  BY <1>3, <1>12 DEF SlotOpen
<1>14. spc # "stopped" => rx'[c] = <<cur'[c]>> /\ pc'[c] = "size"
  <2>1. IsOpen(c, "rx") => rx'[c] = Append(rx[c], cur[c] + 1)
    BY <1>4, <1>6 DEF Send
  <2>2. Append(<<>>, cur[c] + 1) = <<cur[c] + 1>>
    OBVIOUS
  <2>3. QED
    BY <1>6, <1>8, <1>12, <2>1, <2>2
<1>15. Idle(c)'
  BY <1>3, <1>8, <1>13, <1>14 DEF Idle, Asking
<1>16. Transfer(c)'
  <2>1. cur'[c] > 0
    BY <1>4, <1>6
  <2>2. DOMAIN tx'[c] = {}
    BY <1>8, NoCommand
  <2>3. pc'[c] # "data"
    BY <1>6
  <2>4. QED
    BY <1>3, <1>6, <1>8, <1>11, <1>14, <2>1, <2>2, <2>3 DEF Transfer
<1>17. cur'[c] \in {cur[c], cur[c] + 1}
  BY <1>6
<1>18. QED
  BY <1>2, <1>9, <1>10, <1>15, <1>16, <1>17, ClientStepFlow

\* What is left of a pipe when its first message is taken.
LEMMA FirstTaken ==
  ASSUME NEW S, NEW s \in Seq(S), s # <<>>
  PROVE  /\ Len(s) \in Nat \ {0} /\ Tail(s) \in Seq(S) /\ Len(Tail(s)) = Len(s) - 1
         /\ 1 \in DOMAIN s /\ Head(s) = s[1] /\ (Len(s) = 1 => Tail(s) = <<>>)
         /\ \A k \in DOMAIN Tail(s) : k \in Nat /\ k + 1 \in DOMAIN s /\ Tail(s)[k] = s[k + 1]
<1>1. Len(s) \in Nat \ {0} /\ Tail(s) \in Seq(S) /\ Len(Tail(s)) = Len(s) - 1
      /\ 1 \in DOMAIN s /\ Head(s) = s[1]
  OBVIOUS
<1>2. Len(s) = 1 => Tail(s) = <<>>
  <2> SUFFICES ASSUME Len(s) = 1 PROVE Tail(s) = <<>>
    OBVIOUS
  <2>1. Tail(s) \in Seq(S) /\ Len(Tail(s)) = 0
    BY <1>1
  <2>2. \A q \in Seq(S) : Len(q) = 0 => q = <<>>
    <3> SUFFICES ASSUME NEW q \in Seq(S), Len(q) = 0 PROVE q = <<>>
      OBVIOUS
    <3>1. <<>> \in Seq(S) /\ Len(<<>>) = 0 /\ \A i \in 1..0 : FALSE
      OBVIOUS
    <3>2. QED
      BY <3>1, SMT
  <2>3. QED
    BY ONLY <2>1, <2>2
<1>3. \A k \in DOMAIN Tail(s) : k \in Nat /\ k + 1 \in DOMAIN s /\ Tail(s)[k] = s[k + 1]
  OBVIOUS
<1>4. QED
  BY <1>1, <1>2, <1>3

\* One part of the file is taken from the pipe, with r the parts taken so far and
\* r + 1 those taken after it: either there are more to come, or the thread is done.
LEMMA PartTaken ==
  ASSUME DescriptorsInv, FlowInv, NEW c \in Clients, Asking(c), C_Size(c) \/ C_Data(c),
         tx[c] # <<>>, tx' = [tx EXCEPT ![c] = Tail(@)], UNCHANGED <<rx, rx_writer, cur>>,
         \/ Asking(c)' /\ Taken(c)' = Taken(c) + 1
         \/ pc'[c] = "next" /\ Taken(c) = Wanted[c][cur[c]],
         pc'[c] = "data" => received'[c].size = Wanted[c][cur[c]]
  PROVE  FlowInv'
<1>1. Client(c)
  BY DEF Client
<1>2. UNCHANGED <<loop, table, tasks>> /\ \A d \in Clients : d # c =>
              UNCHANGED <<pc[d], rx[d], tx[d], cur[d], received[d], rx_writer[d]>> /\ (Waits(d)' => Waits(d))
  BY <1>1, ClientAlone
<1>3. UNCHANGED <<spc, lines, clients, fds, tasks, server_fifo>>
  BY <1>2 DEF loop, table, C_Size, C_Data
<1>4. tx[c] \in Seq(Messages) /\ tx'[c] = Tail(tx[c]) /\ pc \in [Clients -> Stages]
  BY DEF DescriptorsInv, ClientsTyped
<1>5. BeforeAck(c) /\ Idle(c) /\ Transfer(c)
  BY DEF FlowInv
<1>6. /\ Found(c, cur[c]) /\ Taken(c) + Len(tx[c]) <= Wanted[c][cur[c]] + 1
      /\ \A k \in DOMAIN tx[c] : tx[c][k] = [client |-> c, file |-> cur[c], part |-> k - 1 + Taken(c)]
      /\ cur[c] > 0 /\ (spc # "stopped" => rx[c] = <<>>)
  BY <1>5 DEF Transfer
<1>7. Wanted[c][cur[c]] \in Nat /\ Taken(c) \in Nat
  <2>1. Wanted[c] \in Seq(Nat \cup {-1}) /\ cur[c] \in 1..Len(Wanted[c]) /\ Wanted[c][cur[c]] >= 0
    BY <1>6, ConstantsAssumption DEF Found
  <2>2. Wanted[c][cur[c]] \in Nat \cup {-1}
    BY <2>1
  <2>3. Wanted[c][cur[c]] \in Nat
    BY <2>1, <2>2
  <2>4. received[c].blocks \in Nat
    BY DEF DescriptorsInv, ClientsTyped
  <2>5. QED
    BY <2>3, <2>4 DEF Taken
<1>8. /\ Len(tx[c]) \in Nat \ {0} /\ Len(tx'[c]) = Len(tx[c]) - 1 /\ (Len(tx[c]) = 1 => tx'[c] = <<>>)
      /\ \A k \in DOMAIN tx'[c] : k \in Nat /\ k + 1 \in DOMAIN tx[c] /\ tx'[c][k] = tx[c][k + 1]
  BY ZenonT(30), <1>4, FirstTaken
<1>9. ~Waits(c)
  BY <1>5 DEF BeforeAck, Asking
<1>10. BeforeAck(c)'
  BY <1>3, <1>9 DEF BeforeAck, Waits
<1>11. spc # "stopped" => \E i \in Slots : clients'[i].is_active /\ SlotOpen(i, c)'
  BY <1>3, <1>5 DEF Idle, Asking, SlotOpen
<1>12. rx_writer'[c] = "open"
  BY <1>5 DEF Idle, Asking
<1>13. CASE Asking(c)' /\ Taken(c)' = Taken(c) + 1
  <2>1. Idle(c)'
    BY <1>3, <1>11, <1>12, <1>13 DEF Idle
  <2>2. \A k \in DOMAIN tx'[c] : tx'[c][k] = [client |-> c, file |-> cur[c], part |-> k - 1 + Taken(c)']
    <3> SUFFICES ASSUME NEW k \in DOMAIN tx'[c]
                 PROVE  tx'[c][k] = [client |-> c, file |-> cur[c], part |-> k - 1 + Taken(c)']
      OBVIOUS
    <3>1. k \in Nat /\ tx'[c][k] = [client |-> c, file |-> cur[c], part |-> (k + 1) - 1 + Taken(c)]
      BY <1>6, <1>8
    <3>2. (k + 1) - 1 + Taken(c) = k - 1 + Taken(c)'
      BY <1>7, <1>13, <3>1
    <3>3. QED
      BY <3>1, <3>2
  <2>3. Taken(c)' + Len(tx'[c]) <= Wanted[c][cur[c]] + 1 /\ Taken(c)' + Len(tx'[c]) = Taken(c) + Len(tx[c])
    BY <1>6, <1>7, <1>8, <1>13
  <2>4. Transfer(c)'
    BY <1>3, <1>6, <1>13, <2>2, <2>3 DEF Transfer
  <2>5. \A t \in tasks : t.client = c => ThreadSends(t)'
    <3> SUFFICES ASSUME NEW t \in tasks, t.client = c PROVE ThreadSends(t)'
      OBVIOUS
    <3>1. CASE Done(t)
      BY <3>1 DEF ThreadSends, Done, Size
    <3>2. CASE ~Done(t)
      <4>1. t.file = cur[c] /\ t.part = Taken(c) + Len(tx[c]) /\ Entry(t.client_fd, "tx", c) \in fds
        BY <3>2 DEF FlowInv, ThreadSends
      <4>2. t.file = cur'[c] /\ t.part = Taken(c)' + Len(tx'[c]) /\ Entry(t.client_fd, "tx", c) \in fds'
        BY <1>3, <2>3, <4>1
      <4>3. QED
        BY <1>13, <4>2 DEF ThreadSends
    <3>3. QED
      BY <3>1, <3>2
  <2>6. QED
    BY <1>2, <1>10, <2>1, <2>4, <2>5, ClientStepFlow
<1>14. CASE pc'[c] = "next" /\ Taken(c) = Wanted[c][cur[c]]
  <2>1. Len(tx[c]) = 1 /\ tx'[c] = <<>>
    <3>1. PICK l : l = Len(tx[c])
      OBVIOUS
    <3>2. PICK n : n = Wanted[c][cur[c]]
      OBVIOUS
    <3>3. l \in Nat \ {0} /\ n \in Nat /\ n + l <= n + 1
      BY <1>6, <1>7, <1>8, <1>14, <3>1, <3>2
    <3>4. l = 1
      BY ONLY <3>3
    <3>5. QED
      BY <1>8, <3>1, <3>4
  <2>2. ~Asking(c)'
    BY <1>14 DEF Asking
  <2>3. Transfer(c)'
    BY <2>2 DEF Transfer
  <2>4. Idle(c)'
    BY <1>3, <1>6, <1>11, <1>12, <1>14, <2>1 DEF Idle
  <2>5. \A t \in tasks : t.client = c => ThreadSends(t)'
    <3> SUFFICES ASSUME NEW t \in tasks, t.client = c PROVE ThreadSends(t)'
      OBVIOUS
    <3>1. Done(t)
      <4>1. CASE Done(t)
        BY <4>1
      <4>2. CASE ~Done(t)
        <5>1. t.file = cur[c] /\ t.part = Taken(c) + Len(tx[c])
          BY <4>2 DEF FlowInv, ThreadSends
        <5>2. t.part = Wanted[c][cur[c]] + 1
          BY <1>14, <2>1, <5>1
        <5>3. QED
          BY <5>1, <5>2 DEF Done, Size
      <4>3. QED
        BY <4>1, <4>2
    <3>2. QED
      BY <3>1 DEF ThreadSends, Done, Size
  <2>6. QED
    BY <1>2, <1>10, <2>3, <2>4, <2>5, ClientStepFlow
<1>15. QED
  BY <1>13, <1>14

\* The client reads the size that precedes the file.
LEMMA SizeKeepsFlow ==
  ASSUME DescriptorsInv, FlowInv, NEW c \in Clients, C_Size(c)
  PROVE  FlowInv'
<1>1. pc[c] = "size" /\ tx[c] # <<>> /\ UNCHANGED <<rx, rx_writer, cur>>
  BY DEF C_Size, Goto
<1>2. tx[c] \in Seq(Messages) /\ pc \in [Clients -> Stages] /\ received \in [Clients -> [blocks : Nat, size : Nat]]
      /\ cur[c] \in Nat
  BY DEF DescriptorsInv, ClientsTyped
<1>3. Asking(c) /\ Taken(c) = 0
  BY <1>1 DEF Asking, Taken
<1>4. Found(c, cur[c]) /\ cur[c] > 0
      /\ \A k \in DOMAIN tx[c] : tx[c][k] = [client |-> c, file |-> cur[c], part |-> k - 1 + Taken(c)]
  BY <1>1, <1>3 DEF FlowInv, Transfer
<1>5. 1 \in DOMAIN tx[c] /\ Head(tx[c]) = tx[c][1]
  BY <1>1, <1>2, FirstTaken
<1>6. Head(tx[c]).part = 0 /\ Head(tx[c]).file = cur[c] /\ Head(tx[c]).client = c
  <2>1. tx[c][1] = [client |-> c, file |-> cur[c], part |-> 1 - 1 + Taken(c)]
    BY <1>4, <1>5
  <2>2. 1 - 1 + Taken(c) = 0
    BY <1>3
  <2>3. QED
    BY <1>5, <2>1, <2>2
<1>7. PICK n : n = Wanted[c][cur[c]]
  OBVIOUS
<1>8. /\ Goto(c, "size", IF n = 0 THEN "next" ELSE "data") /\ tx' = [tx EXCEPT ![c] = Tail(@)]
      /\ received' = [received EXCEPT ![c] = [blocks |-> 0, size |-> n]]
  BY <1>4, <1>6, <1>7 DEF C_Size
<1>9. pc'[c] = (IF n = 0 THEN "next" ELSE "data") /\ received'[c] = [blocks |-> 0, size |-> n]
  BY <1>2, <1>8 DEF Goto
<1>10. \/ Asking(c)' /\ Taken(c)' = Taken(c) + 1
       \/ pc'[c] = "next" /\ Taken(c) = Wanted[c][cur[c]]
  BY <1>3, <1>7, <1>9 DEF Asking, Taken
<1>11. pc'[c] = "data" => received'[c].size = Wanted[c][cur[c]]
  BY <1>7, <1>9
<1>12. QED
  BY <1>1, <1>3, <1>8, <1>10, <1>11, PartTaken

\* The client reads one block of the file.
LEMMA DataKeepsFlow ==
  ASSUME DescriptorsInv, FlowInv, NEW c \in Clients, C_Data(c)
  PROVE  FlowInv'
<1>1. /\ pc[c] = "data" /\ tx[c] # <<>> /\ UNCHANGED <<rx, rx_writer, cur>> /\ tx' = [tx EXCEPT ![c] = Tail(@)]
      /\ received' = [received EXCEPT ![c].blocks = @ + 1]
  BY DEF C_Data, Goto
<1>2. pc \in [Clients -> Stages] /\ received \in [Clients -> [blocks : Nat, size : Nat]]
  BY DEF DescriptorsInv, ClientsTyped
<1>3. Asking(c) /\ Taken(c) = received[c].blocks + 1 /\ received[c].blocks \in Nat
  BY <1>1, <1>2 DEF Asking, Taken
<1>4. received'[c].blocks = received[c].blocks + 1 /\ received'[c].size = received[c].size
  BY <1>1, <1>2
<1>5. pc'[c] = (IF received'[c].blocks = received[c].size THEN "next" ELSE "data")
  BY <1>2 DEF C_Data, Goto
<1>6. received[c].size = Wanted[c][cur[c]]
  BY <1>1, <1>3 DEF FlowInv, Transfer
<1>7. \/ Asking(c)' /\ Taken(c)' = Taken(c) + 1
      \/ pc'[c] = "next" /\ Taken(c) = Wanted[c][cur[c]]
  BY <1>3, <1>4, <1>5, <1>6 DEF Asking, Taken
<1>8. pc'[c] = "data" => received'[c].size = Wanted[c][cur[c]]
  BY <1>4, <1>6
<1>9. QED
  BY <1>1, <1>3, <1>7, <1>8, PartTaken

\* The end of the pipe is met when the server has stopped, and its threads with it.
LEMMA EofKeepsFlow ==
  ASSUME DescriptorsInv, FlowInv, NEW c \in Clients, C_Eof(c)
  PROVE  FlowInv'
<1>1. Client(c)
  BY DEF Client
<1>2. UNCHANGED <<loop, table, tasks>> /\ \A d \in Clients : d # c =>
              UNCHANGED <<pc[d], rx[d], tx[d], cur[d], received[d], rx_writer[d]>> /\ (Waits(d)' => Waits(d))
  BY <1>1, ClientAlone
<1>3. UNCHANGED <<spc, lines, clients, fds, server_fifo, rx, tx, rx_writer, cur>> /\ tx[c] = <<>> /\ ~IsOpen(c, "tx")
  BY <1>2 DEF loop, table, C_Eof, pipes
<1>4. pc[c] \in {"size", "data"} /\ pc'[c] = "next"
  BY DEF C_Eof, Goto, DescriptorsInv, ClientsTyped
<1>5. BeforeAck(c) /\ Idle(c) /\ Asking(c)
  BY <1>4 DEF FlowInv, Asking
<1>6. spc = "stopped"
  BY <1>3, <1>4, <1>5 DEF Idle, SlotOpen, Entry, IsOpen
<1>7. ~Waits(c)
  BY <1>5 DEF BeforeAck, Asking
<1>8. BeforeAck(c)'
  BY <1>3, <1>7 DEF BeforeAck, Waits
<1>9. ~Asking(c)'
  BY <1>4 DEF Asking
<1>10. Transfer(c)'
  BY <1>9 DEF Transfer
<1>11. Idle(c)'
  BY <1>3, <1>4, <1>5, <1>6 DEF Idle
<1>12. \A t \in tasks : t.client = c => ThreadSends(t)'
  <2>1. \A t \in tasks : t.client = c => Done(t)
    BY <1>3 DEF FlowInv, ThreadSends, IsOpen, Entry
  <2>2. QED
    BY <2>1 DEF ThreadSends, Done, Size
<1>13. QED
  BY <1>2, <1>3, <1>8, <1>10, <1>11, <1>12, ClientStepFlow

-----------------------------------------------------------------------------
\* At the start nothing is on its way.
LEMMA FlowInit == Init => TransferInv
<1> SUFFICES ASSUME Init PROVE FlowInv
  BY DEF TransferInv
<1>1. lines = <<>> /\ server_fifo = <<>> /\ DOMAIN lines = {} /\ DOMAIN server_fifo = {} /\ tasks = {}
  BY NoCommand DEF Init
<1>2. ASSUME NEW c \in Clients PROVE BeforeAck(c) /\ Idle(c) /\ Transfer(c)
  <2>1. pc[c] = "start" /\ tx[c] = <<>> /\ rx[c] = <<>>
    BY DEF Init
  <2>2. ~Waits(c)
    BY <1>1 DEF Waits
  <2>3. QED
    BY <2>1, <2>2 DEF BeforeAck, Idle, Transfer, Asking
<1>3. QED
  BY <1>1, <1>2 DEF FlowInv

\* A killed client stays killed.
LEMMA KilledStays == DescriptorsInv /\ [Next]_vars /\ NoneKilled' => NoneKilled /\ ~\E c \in Clients : Kill(c)
<1> SUFFICES ASSUME DescriptorsInv, [Next]_vars, NoneKilled'
             PROVE  NoneKilled /\ ~\E c \in Clients : Kill(c)
  OBVIOUS
<1>1. \A c \in Clients : ~Kill(c)
  BY DEF Kill, NoneKilled, DescriptorsInv, ClientsTyped
<1>2. ASSUME NEW c \in Clients, pc[c] = "killed" PROVE FALSE
  <2>1. CASE UNCHANGED pc
    BY <1>2, <2>1 DEF NoneKilled
  <2>2. CASE \E d \in Clients : Client(d)
    <3>1. PICK d \in Clients : Client(d)
      BY <2>2
    <3>2. pc[d] # "killed"
      BY <3>1 DEF Client, C_Start, C_Ack, C_Timeout, C_OpenTx, C_OpenRx, C_Get, C_Disconnect, C_Size, C_Data, C_Eof,
                  C_Close, C_Clean, C_Exit, Goto
    <3>3. pc'[c] = pc[c]
      BY <1>2, <3>1, <3>2, ClientKeepsTypes DEF DescriptorsInv
    <3>4. QED
      BY <1>2, <3>3 DEF NoneKilled
  <2>3. CASE Server
    <3>1. UNCHANGED pc
      BY <2>3 DEF Server, S_Wait, S_FifoEvent, S_ClientEvent, S_EventsDone, S_Periodic, S_PeriodicDone, S_Shutdown,
                  S_ReadFifo, S_Reject, S_OpenTx, S_OpenRx, S_Ack, S_Check, client
    <3>2. QED
      BY <2>1, <3>1
  <2>4. CASE Thread \/ server_signal_handler \/ UNCHANGED vars
    <3>1. UNCHANGED pc
      BY <2>4 DEF Thread, T_Open, T_Write, T_End, server_signal_handler, vars, client
    <3>2. QED
      BY <2>1, <3>1
  <2>5. QED
    BY <1>1, <2>2, <2>3, <2>4 DEF Next
<1>3. QED
  BY <1>1, <1>2 DEF NoneKilled

\* Every step after which no client is killed keeps what is on its way in order.
LEMMA FlowNext == DescriptorsInv /\ TransferInv /\ [Next]_vars => TransferInv'
<1> SUFFICES ASSUME DescriptorsInv, TransferInv, [Next]_vars, NoneKilled' PROVE FlowInv'
  BY DEF TransferInv
<1>1. NoneKilled /\ ~\E c \in Clients : Kill(c)
  BY KilledStays
<1>2. FlowInv
  BY <1>1 DEF TransferInv
<1>3. CASE Server
  BY <1>1, <1>2, <1>3, MainThreadKeepsFlow, ServersKeepFlow, ShutdownKeepsFlow, AckKeepsFlow, CheckKeepsFlow DEF Server
<1>4. CASE Thread
  BY <1>2, <1>4, OpenFileKeepsFlow, WriteKeepsFlow, EndKeepsFlow DEF Thread
<1>5. CASE server_signal_handler
  BY <1>2, <1>5, SignalKeepsFlow
<1>6. CASE \E c \in Clients : Client(c)
  BY <1>2, <1>6, ClientOutsideKeepsFlow, GetKeepsFlow, SizeKeepsFlow, DataKeepsFlow, EofKeepsFlow DEF Client
<1>7. CASE UNCHANGED vars
  <2>1. UNCHANGED <<spc, lines, clients, fds, tasks, server_fifo, rx, tx, rx_writer, pc, cur, received>>
    BY <1>7 DEF vars, loop, table, pipes, client
  <2>2. QED
    BY <1>2, <2>1 DEF FlowInv, BeforeAck, Waits, Idle, Asking, SlotOpen, Transfer, Taken, ThreadSends, Done, Size
<1>8. QED
  BY <1>1, <1>3, <1>4, <1>5, <1>6, <1>7 DEF Next

\* As long as no client is killed, every thread that has anything left to send
\* sends it to the client that waits for it, and every pipe has the next parts of
\* the file its client asks for.
THEOREM TransferInvariance == Spec => [](DescriptorsInv /\ TransferInv)
<1>1. Init => DescriptorsInv /\ TransferInv
  BY DescriptorsInit, FlowInit
<1>2. DescriptorsInv /\ TransferInv /\ [Next]_vars => (DescriptorsInv /\ TransferInv)'
  BY DescriptorsNext, FlowNext
<1>3. QED
  BY <1>1, <1>2, PTL DEF Spec

\* Data of one client are in the pipe of another only if some client was killed.
THEOREM DataReachOwner == Spec => []OwnData
<1>1. DescriptorsInv /\ TransferInv => OwnData
  <2> SUFFICES ASSUME DescriptorsInv, TransferInv, NoneKilled,
                      NEW c \in Clients, NEW k \in DOMAIN tx[c]
               PROVE  tx[c][k].client = c
    BY DEF OwnData, NoneKilled
  <2>1. Idle(c) /\ Transfer(c)
    BY DEF TransferInv, FlowInv
  <2>2. CASE Asking(c)
    <3>1. tx[c][k] = [client |-> c, file |-> cur[c], part |-> k - 1 + Taken(c)]
      BY <2>1, <2>2 DEF Transfer
    <3>2. QED
      BY <3>1
  <2>3. CASE ~Asking(c)
    <3>1. tx[c] # <<>>
      BY NoCommand
    <3>2. tx[c] = <<ACK(c)>>
      BY <2>1, <2>3, <3>1 DEF Idle
    <3>3. tx[c][k] = ACK(c)
      BY <3>2, OneCommand
    <3>4. QED
      BY <3>3 DEF ACK
  <2>4. QED
    BY <2>2, <2>3
<1>2. QED
  BY <1>1, TransferInvariance, PTL

\* If no client is killed, a client finds in its pipe the next parts of the file
\* it asks for, in order and without a gap.
THEOREM FilesArriveInOrder == Spec => []FileInOrder
<1>1. DescriptorsInv /\ TransferInv => FileInOrder
  <2> SUFFICES ASSUME DescriptorsInv, TransferInv, NoneKilled,
                      NEW c \in Clients, pc[c] \in {"size", "data"}, NEW k \in DOMAIN tx[c]
               PROVE  tx[c][k] = [client |-> c, file |-> cur[c],
                                  part |-> k + IF pc[c] = "size" THEN -1 ELSE received[c].blocks]
    BY DEF FileInOrder, NoneKilled
  <2>1. tx[c][k] = [client |-> c, file |-> cur[c], part |-> k - 1 + Taken(c)]
    BY DEF TransferInv, FlowInv, Transfer, Asking
  <2>2. k \in Nat /\ received[c].blocks \in Nat
    BY DEF DescriptorsInv, ClientsTyped
  <2>3. k - 1 + Taken(c) = k + IF pc[c] = "size" THEN -1 ELSE received[c].blocks
    BY <2>2 DEF Taken
  <2>4. QED
    BY <2>1, <2>3
<1>2. QED
  BY <1>1, TransferInvariance, PTL
=============================================================================

----------------------------- MODULE FifoServer -----------------------------
(***************************************************************************)
(* task_7/homework: a server sends files to clients through named pipes.   *)
(* A client writes the names of its two pipes to the server's FIFO, waits  *)
(* for an ACK on its tx pipe, opens tx for reading and rx for writing, and *)
(* asks for one file after the other.  The server is one thread around     *)
(* epoll_wait(); each file is sent by a detached thread that is given the  *)
(* number of the descriptor of tx, not the client.                         *)
(***************************************************************************)
EXTENDS Integers, Sequences, FiniteSets, SequencesExt, FiniteSetsExt

CONSTANTS
  Clients,       \* client processes
  MAX_CLIENTS,   \* slots of the server's table
  PERIOD,        \* the server looks at every client in every PERIOD-th loop
  Wanted,        \* Wanted[c][i]: blocks of the i-th file c asks for, -1 if missing
  TxCapacity,    \* blocks that fit into a pipe
  Unruly,        \* clients that may be killed or interrupted
  MayStop        \* the server may be sent SIGTERM

ASSUME ConstantsAssumption ==
  /\ IsFiniteSet(Clients) /\ Unruly \subseteq Clients
  /\ MAX_CLIENTS \in Nat \ {0} /\ PERIOD \in Nat \ {0} /\ TxCapacity \in Nat \ {0}
  /\ Wanted \in [Clients -> Seq(Nat \cup {-1})]
  /\ MayStop \in BOOLEAN

Slots  == 0..MAX_CLIENTS - 1
NoFd   == 0
Fds    == Nat \ {NoFd}
ACK(c) == [client |-> c, file |-> 0, part |-> 0]
DISCONNECT == 0

VARIABLES
  spc,            \* where the server's main thread is
  server_running,
  counter,        \* loops since the last look at all clients
  ready,          \* tags of the events of this loop not yet handled
  lines,          \* registrations read from the server's FIFO
  idx,            \* the next slot to look at
  clients,        \* the table: the descriptors of each slot
  fds,            \* open descriptors of the server: number, what it is, whose
  tasks,          \* transfer threads
  server_fifo,    \* registrations in the server's FIFO
  rx, tx,         \* contents of each client's pipes
  rx_writer,      \* the client has "never" opened rx, has it "open", has "closed" it
  pc,             \* where each client is
  cur,            \* the file it asks for
  received        \* blocks of that file it has, and the size it was told

loop   == <<spc, server_running, counter, ready, lines, idx>>
table  == <<clients, fds>>
pipes  == <<server_fifo, rx, tx>>
client == <<rx_writer, pc, cur, received>>
vars   == <<loop, table, tasks, pipes, client>>

Free == [is_active |-> FALSE, tx_fd |-> NoFd, rx_fd |-> NoFd]

Init ==
  /\ spc = "wait" /\ server_running = TRUE
  /\ counter = 0 /\ ready = {} /\ lines = <<>> /\ idx = 0
  /\ clients = [i \in Slots |-> Free]
  /\ fds = {} /\ tasks = {}
  /\ server_fifo = <<>>
  /\ rx = [c \in Clients |-> <<>>] /\ tx = [c \in Clients |-> <<>>]
  /\ rx_writer = [c \in Clients |-> "never"]
  /\ pc = [c \in Clients |-> "start"]
  /\ cur = [c \in Clients |-> 0]
  /\ received = [c \in Clients |-> [blocks |-> 0, size |-> 0]]

-----------------------------------------------------------------------------
(* Pipes and descriptors. *)

HasReader(c)  == pc[c] \notin {"start", "exited", "killed"}    \* preopen_fd
TxExists(c)   == pc[c] \notin {"start", "cleanrx", "exit", "exited"}
RxExists(c)   == pc[c] \notin {"start", "exit", "exited"}
IsOpen(c, end) == \E e \in fds : e.what = end /\ e.client = c
Owner(fd)     == (CHOOSE e \in fds : e.fd = fd).client
LowestFd      == Min({n \in 1..Cardinality(fds) + 1 : \A e \in fds : e.fd # n})
Entry(fd, what, c) == [fd |-> fd, what |-> what, client |-> c]

\* The slot of a client, by the descriptor of its rx pipe.
SlotOf(c) == CHOOSE i \in Slots : clients[i].is_active /\ Owner(clients[i].rx_fd) = c

\* What poll() reports on rx: data, or the writer has come and gone.
RxReady(c) == rx[c] # <<>> \/ rx_writer[c] = "closed"
AtEof_Empty(c) == rx[c] = <<>>                            \* variant: EAGAIN is taken for the end
AtEof(c)   == rx[c] = <<>> /\ rx_writer[c] # "open"       \* read() returns 0

FreeSlots == {i \in Slots : ~clients[i].is_active}
find_free_client_slot == Min(FreeSlots)

close_client_connection_Leaks(i) ==      \* a variant: rx stays open
  /\ clients' = [clients EXCEPT ![i] = Free]
  /\ fds' = {e \in fds : e.fd # clients[i].tx_fd}

close_client_connection(i) ==
  /\ clients' = [clients EXCEPT ![i] = Free]
  /\ fds' = {e \in fds : e.fd \notin {clients[i].tx_fd, clients[i].rx_fd}}

\* A batch of commands read from slot i: each GET of a file that exists starts
\* a thread, a DISCONNECT closes the slot and makes what follows it stale.
process_client_commands(i, cmds) ==
  LET c    == Owner(clients[i].rx_fd)
      Stale(k) == \E j \in 1..k - 1 : cmds[j] = DISCONNECT
      gets == {f \in ToSet(cmds) \ {DISCONNECT} :
                 Wanted[c][f] >= 0 /\ \E k \in DOMAIN cmds : cmds[k] = f /\ ~Stale(k)}
  IN /\ tasks' = tasks \cup
           {[client |-> c, file |-> f, client_fd |-> clients[i].tx_fd, file_fd |-> NoFd, part |-> 0] : f \in gets}
     /\ IF DISCONNECT \in ToSet(cmds) THEN close_client_connection(i) ELSE UNCHANGED table

-----------------------------------------------------------------------------
(* The server's main thread: while (server_running) ... *)

ReadyTags ==
  {i \in Slots : clients[i].is_active /\ RxReady(Owner(clients[i].rx_fd))}
    \cup (IF server_fifo # <<>> THEN {0} ELSE {})

\* epoll_wait(); an empty set of events is a timeout of one second.
S_Wait ==
  /\ spc = "wait" /\ spc' = "events"
  /\ server_running
  /\ ready' = ReadyTags
  /\ UNCHANGED <<server_running, counter, lines, idx, table, tasks, pipes, client>>

\* Tag 0 is the server's FIFO, and the first slot of the table.
S_FifoEvent ==
  /\ spc = "events" /\ spc' = "registrations"
  /\ 0 \in ready /\ ready' = ready \ {0}
  /\ UNCHANGED <<server_running, counter, lines, idx, table, tasks, pipes, client>>

\* Read what is in the rx pipe of slot i.  If the read meets the end of the pipe
\* the slot is closed, and commands read before it are stale.
Serve(i, ended) ==
  IF ~clients[i].is_active
  THEN UNCHANGED <<table, tasks, rx>>
  ELSE LET c == Owner(clients[i].rx_fd) IN
       /\ rx' = [rx EXCEPT ![c] = <<>>]
       /\ IF c \in ended
          THEN close_client_connection(i) /\ tasks' = tasks
          ELSE process_client_commands(i, rx[c])

\* The handler of an event reads until the pipe is empty.
S_ClientEvent ==
  /\ spc = "events"
  /\ \E i \in ready \ {0} :
       /\ ready' = ready \ {i}
       /\ Serve(i, {c \in Clients : rx_writer[c] # "open"})
  /\ UNCHANGED <<spc, server_running, counter, lines, idx, server_fifo, tx, client>>

S_EventsDone_FromOne ==    \* a variant: slot 0 is left to the events
  /\ spc = "events" /\ ready = {}
  /\ counter' = (counter + 1) % PERIOD
  /\ IF counter' = 0 THEN spc' = "periodic" /\ idx' = 1 ELSE spc' = "wait" /\ idx' = idx
  /\ UNCHANGED <<server_running, ready, lines, table, tasks, pipes, client>>

S_EventsDone ==
  /\ spc = "events" /\ ready = {}
  /\ counter' = (counter + 1) % PERIOD
  /\ IF counter' = 0 THEN spc' = "periodic" /\ idx' = 0 ELSE spc' = "wait" /\ idx' = idx
  /\ UNCHANGED <<server_running, ready, lines, table, tasks, pipes, client>>

\* Every PERIOD-th loop: one read() for each slot.
S_Periodic ==
  /\ spc = "periodic" /\ idx < MAX_CLIENTS
  /\ idx' = idx + 1
  /\ Serve(idx, {c \in Clients : AtEof(c)})
  /\ UNCHANGED <<spc, server_running, counter, ready, lines, server_fifo, tx, client>>

S_PeriodicDone ==
  /\ spc = "periodic" /\ idx = MAX_CLIENTS
  /\ spc' = "wait" /\ idx' = 0
  /\ UNCHANGED <<server_running, counter, ready, lines, table, tasks, pipes, client>>

\* After the loop the server closes everything and its threads end with it.
S_Shutdown ==
  /\ spc = "wait" /\ spc' = "stopped"
  /\ ~server_running
  /\ clients' = [i \in Slots |-> Free]
  /\ fds' = {} /\ tasks' = {}
  /\ server_fifo' = <<>>
  /\ UNCHANGED <<server_running, counter, ready, lines, idx, rx, tx, client>>

-----------------------------------------------------------------------------
(* The server's main thread: process_registration_commands, register_new_client. *)

S_ReadFifo ==
  /\ spc = "registrations"
  /\ lines' = server_fifo /\ server_fifo' = <<>>
  /\ spc' = IF server_fifo = <<>> THEN "events" ELSE "register"
  /\ UNCHANGED <<server_running, counter, ready, idx, table, tasks, rx, tx, client>>

NextLine ==
  /\ lines' = Tail(lines)
  /\ spc' = IF Len(lines) = 1 THEN "registrations" ELSE "register"

\* No free slot, or the pipe is gone: the client is not told.
S_Reject ==
  /\ spc = "register"
  /\ FreeSlots = {} \/ ~TxExists(Head(lines))
  /\ NextLine
  /\ UNCHANGED <<server_running, counter, ready, idx, table, tasks, pipes, client>>

\* open(tx, O_WRONLY) sleeps until the pipe has a reader.
S_OpenTx ==
  /\ spc = "register" /\ spc' = "openrx"
  /\ FreeSlots # {}
  /\ LET c == Head(lines) IN
     /\ TxExists(c) /\ HasReader(c)
     /\ fds' = fds \cup {Entry(LowestFd, "tx", c)}
  /\ UNCHANGED <<server_running, counter, ready, lines, idx, clients, tasks, pipes, client>>

S_OpenRx ==
  /\ spc = "openrx"
  /\ LET c   == Head(lines)
         txe == CHOOSE e \in fds : e.what = "tx" /\ e.client = c
     IN IF RxExists(c)
        THEN /\ fds' = fds \cup {Entry(LowestFd, "rx", c)}
             /\ clients' = [clients EXCEPT ![find_free_client_slot] =
                              [is_active |-> TRUE, tx_fd |-> txe.fd, rx_fd |-> LowestFd]]
             /\ spc' = "ack" /\ lines' = lines
        ELSE fds' = fds \ {txe} /\ clients' = clients /\ NextLine
  /\ UNCHANGED <<server_running, counter, ready, idx, tasks, pipes, client>>

S_Ack ==
  /\ spc = "ack"
  /\ LET c == Head(lines) IN
     IF HasReader(c)
     THEN /\ Len(tx[c]) < TxCapacity
          /\ tx' = [tx EXCEPT ![c] = Append(@, ACK(c))]
          /\ spc' = "check" /\ UNCHANGED <<table, lines>>
     ELSE close_client_connection(SlotOf(c)) /\ tx' = tx /\ NextLine
  /\ UNCHANGED <<server_running, counter, ready, idx, tasks, server_fifo, rx, client>>

\* A first read of rx, which ignores the end of the file.
S_Check ==
  /\ spc = "check"
  /\ LET c == Head(lines) IN
     /\ process_client_commands(SlotOf(c), rx[c])
     /\ rx' = [rx EXCEPT ![c] = <<>>]
  /\ NextLine
  /\ UNCHANGED <<server_running, counter, ready, idx, server_fifo, tx, client>>

-----------------------------------------------------------------------------
(* send_file_to_client: a transfer thread. *)

Advance(t, u) == tasks' = (tasks \ {t}) \cup {u}

T_Open(t) ==
  /\ t.file_fd = NoFd
  /\ fds' = fds \cup {Entry(LowestFd, "file", t.client)}
  /\ Advance(t, [t EXCEPT !.file_fd = LowestFd])
  /\ UNCHANGED <<loop, clients, pipes, client>>

Size(t)    == Wanted[t.client][t.file]
Targets(t) == {e.client : e \in {e \in fds : e.fd = t.client_fd /\ e.what = "tx"}}
Going(t)   == t.part <= Size(t) /\ (server_running \/ t.part = 0)

T_Write_NeverWaits(t) ==    \* a variant: a full pipe takes more
  /\ t.file_fd # NoFd /\ Going(t)
  /\ \E c \in Targets(t) :
       tx' = [tx EXCEPT ![c] = Append(@, [client |-> t.client, file |-> t.file, part |-> t.part])]
  /\ Advance(t, [t EXCEPT !.part = @ + 1])
  /\ UNCHANGED <<loop, table, server_fifo, rx, client>>

\* write() of the header (part 0) or of a block to the descriptor t was given.
T_Write(t) ==
  /\ t.file_fd # NoFd /\ Going(t)
  /\ \E c \in Targets(t) :
       /\ HasReader(c)
       /\ Len(tx[c]) < TxCapacity
       /\ tx' = [tx EXCEPT ![c] = Append(@, [client |-> t.client, file |-> t.file, part |-> t.part])]
  /\ Advance(t, [t EXCEPT !.part = @ + 1])
  /\ UNCHANGED <<loop, table, server_fifo, rx, client>>

\* All is sent, the server stops, or write() fails: EPIPE or EBADF.
T_End(t) ==
  /\ t.file_fd # NoFd
  /\ Going(t) => \A c \in Targets(t) : ~HasReader(c)
  /\ fds' = {e \in fds : e.fd # t.file_fd}
  /\ tasks' = tasks \ {t}
  /\ UNCHANGED <<loop, clients, pipes, client>>

-----------------------------------------------------------------------------
(* A client. *)

Goto(c, from, to) == pc[c] = from /\ pc' = [pc EXCEPT ![c] = to]

\* Its pipes are made, tx has a reader, and the registration is written.
C_Start(c) ==
  /\ IF spc # "stopped"
     THEN Goto(c, "start", "ack") /\ server_fifo' = Append(server_fifo, c)
     ELSE Goto(c, "start", "exited") /\ UNCHANGED server_fifo
  /\ UNCHANGED <<loop, table, tasks, rx, tx, rx_writer, cur, received>>

\* The read takes up to 31 bytes: the ACK and a header that follows it.
C_Ack(c) ==
  /\ tx[c] # <<>>
  /\ IF Head(tx[c]) = ACK(c) THEN Goto(c, "ack", "opentx") ELSE Goto(c, "ack", "cleantx")
  /\ LET n == IF Len(tx[c]) > 1 /\ tx[c][2].part = 0 THEN 2 ELSE 1 IN
     tx' = [tx EXCEPT ![c] = SubSeq(@, n + 1, Len(@))]
  /\ UNCHANGED <<loop, table, tasks, server_fifo, rx, rx_writer, cur, received>>

\* Five seconds without an answer, or a signal in the wait for it.
C_Timeout(c) ==
  /\ Goto(c, "ack", "cleantx")
  /\ tx[c] = <<>>
  /\ UNCHANGED <<loop, table, tasks, pipes, rx_writer, cur, received>>

\* open() sleeps until the server has the other end open.
C_OpenTx(c) ==
  /\ Goto(c, "opentx", "openrx")
  /\ IsOpen(c, "tx")
  /\ UNCHANGED <<loop, table, tasks, pipes, rx_writer, cur, received>>

C_OpenRx(c) ==
  /\ Goto(c, "openrx", "next")
  /\ IsOpen(c, "rx")
  /\ rx_writer' = [rx_writer EXCEPT ![c] = "open"]
  /\ UNCHANGED <<loop, table, tasks, pipes, cur, received>>

\* write() to rx, which fails with EPIPE when the server has closed it.
Send(c, cmd) == rx' = IF IsOpen(c, "rx") THEN [rx EXCEPT ![c] = Append(@, cmd)] ELSE rx

C_Get(c) ==
  /\ cur[c] < Len(Wanted[c])
  /\ cur' = [cur EXCEPT ![c] = @ + 1]
  /\ Goto(c, "next", IF IsOpen(c, "rx") THEN "size" ELSE "next")
  /\ Send(c, cur[c] + 1)
  /\ UNCHANGED <<loop, table, tasks, server_fifo, tx, rx_writer, received>>

C_Disconnect(c) ==
  /\ Goto(c, "next", "close")
  /\ cur[c] = Len(Wanted[c]) \/ c \in Unruly       \* should_exit
  /\ Send(c, DISCONNECT)
  /\ UNCHANGED <<loop, table, tasks, server_fifo, tx, rx_writer, cur, received>>

\* The size header; of a block that stands there instead at most 63 bytes are read.
C_Size(c) ==
  /\ tx[c] # <<>>
  /\ LET h == Head(tx[c]) IN
     IF h.part = 0 /\ h.file > 0
     THEN LET n == Wanted[h.client][h.file] IN
          /\ Goto(c, "size", IF n = 0 THEN "next" ELSE "data")
          /\ received' = [received EXCEPT ![c] = [blocks |-> 0, size |-> n]]
          /\ tx' = [tx EXCEPT ![c] = Tail(@)]
     ELSE Goto(c, "size", "next") /\ UNCHANGED <<received, tx>>
  /\ UNCHANGED <<loop, table, tasks, server_fifo, rx, rx_writer, cur>>

C_Data(c) ==
  /\ tx[c] # <<>>
  /\ received' = [received EXCEPT ![c].blocks = @ + 1]
  /\ tx' = [tx EXCEPT ![c] = Tail(@)]
  /\ Goto(c, "data", IF received'[c].blocks = received[c].size THEN "next" ELSE "data")
  /\ UNCHANGED <<loop, table, tasks, server_fifo, rx, rx_writer, cur>>

\* read() returns 0: nothing in the pipe and no writer.
C_Eof(c) ==
  /\ Goto(c, "size", "next") \/ Goto(c, "data", "next")
  /\ tx[c] = <<>> /\ ~IsOpen(c, "tx")
  /\ UNCHANGED <<loop, table, tasks, pipes, rx_writer, cur, received>>

C_Close(c) ==
  /\ Goto(c, "close", "cleantx")
  /\ rx_writer' = [rx_writer EXCEPT ![c] = "closed"]
  /\ UNCHANGED <<loop, table, tasks, pipes, cur, received>>

\* The names of the pipes are removed one after the other, then the process exits.
C_Clean(c) ==
  /\ Goto(c, "cleantx", "cleanrx") \/ Goto(c, "cleanrx", "exit")
  /\ UNCHANGED <<loop, table, tasks, pipes, rx_writer, cur, received>>

C_Exit(c) ==
  /\ Goto(c, "exit", "exited")
  /\ tx' = [tx EXCEPT ![c] = <<>>]
  /\ UNCHANGED <<loop, table, tasks, server_fifo, rx, rx_writer, cur, received>>

-----------------------------------------------------------------------------
(* Signals. *)

Kill(c) ==
  /\ c \in Unruly
  /\ pc[c] \notin {"start", "cleanrx", "exit", "exited", "killed"}
  /\ pc' = [pc EXCEPT ![c] = "killed"]
  /\ rx_writer' = [rx_writer EXCEPT ![c] = IF @ = "open" THEN "closed" ELSE @]
  /\ tx' = [tx EXCEPT ![c] = <<>>]
  /\ UNCHANGED <<loop, table, tasks, server_fifo, rx, cur, received>>

server_signal_handler ==
  /\ MayStop /\ server_running /\ server_running' = FALSE
  /\ UNCHANGED <<spc, counter, ready, lines, idx, table, tasks, pipes, client>>

-----------------------------------------------------------------------------
Server ==
  \/ S_Wait \/ S_FifoEvent \/ S_ClientEvent \/ S_EventsDone
  \/ S_Periodic \/ S_PeriodicDone \/ S_Shutdown
  \/ S_ReadFifo \/ S_Reject \/ S_OpenTx \/ S_OpenRx \/ S_Ack \/ S_Check

Thread == \E t \in tasks : T_Open(t) \/ T_Write(t) \/ T_End(t)

Client(c) ==
  \/ C_Start(c) \/ C_Ack(c) \/ C_Timeout(c) \/ C_OpenTx(c) \/ C_OpenRx(c)
  \/ C_Get(c) \/ C_Disconnect(c) \/ C_Size(c) \/ C_Data(c) \/ C_Eof(c)
  \/ C_Close(c) \/ C_Clean(c) \/ C_Exit(c)

Next == Server \/ Thread \/ server_signal_handler \/ \E c \in Clients : Client(c) \/ Kill(c)

Spec == Init /\ [][Next]_vars

\* The kernel runs every process and thread; a thread has finitely many steps.
FairSpec == Spec /\ WF_vars(Server) /\ WF_vars(Thread) /\ \A c \in Clients : WF_vars(Client(c))

-----------------------------------------------------------------------------
(* Properties. *)

TypeOK ==
  /\ spc \in {"wait", "events", "periodic", "registrations", "register",
              "openrx", "ack", "check", "stopped"}
  /\ server_running \in BOOLEAN
  /\ counter \in 0..PERIOD - 1 /\ idx \in 0..MAX_CLIENTS
  /\ ready \subseteq Slots
  /\ lines \in Seq(Clients) /\ server_fifo \in Seq(Clients)
  /\ clients \in [Slots -> [is_active : BOOLEAN, tx_fd : Fds \cup {NoFd}, rx_fd : Fds \cup {NoFd}]]
  /\ fds \subseteq [fd : Fds, what : {"tx", "rx", "file"}, client : Clients]
  /\ \A t \in tasks :
       /\ t.client \in Clients /\ t.file \in DOMAIN Wanted[t.client]
       /\ t.client_fd \in Fds /\ t.file_fd \in Fds \cup {NoFd}
       /\ t.part \in 0..Size(t) + 1
  /\ rx \in [Clients -> Seq(Nat)]
  /\ \A c \in Clients : Len(tx[c]) <= TxCapacity
  /\ rx_writer \in [Clients -> {"never", "open", "closed"}]
  /\ pc \in [Clients -> {"start", "ack", "opentx", "openrx", "next", "size", "data", "close",
                         "cleantx", "cleanrx", "exit", "exited", "killed"}]
  /\ \A c \in Clients : cur[c] \in 0..Len(Wanted[c]) /\ received[c].blocks <= received[c].size

Gone(c)  == pc[c] \in {"exited", "killed"}
Blocked  == spc = "register" /\ FreeSlots # {} /\ pc[Head(lines)] = "killed"
Missing(c) == cur[c] > 0 /\ Wanted[c][cur[c]] = -1

Registering(e) == spc = "openrx" /\ e.what = "tx" /\ e.client = Head(lines)

\* Every descriptor of a pipe belongs to the slot of one client, or to the
\* registration in progress, and every open file to a thread: whatever order
\* clients, signals and threads act in, none is leaked or used by two.
FdsAccounted ==
  /\ \A d, e \in fds : d.fd = e.fd => d = e
  /\ \A i \in Slots : clients[i].is_active =>
       \E c \in Clients :
         {Entry(clients[i].tx_fd, "tx", c), Entry(clients[i].rx_fd, "rx", c)} \subseteq fds
  /\ \A e \in fds :
       IF e.what = "file"
       THEN \E t \in tasks : t.file_fd = e.fd
       ELSE Cardinality({i \in Slots : e.fd \in {clients[i].tx_fd, clients[i].rx_fd}})
              = IF Registering(e) THEN 0 ELSE 1

\* A thread keeps a descriptor number after its slot has been closed, and the
\* number may be given to the next client; data of one client can be in the
\* pipe of another only if some client was killed, perhaps a third one whose
\* late data made the first give up a transfer.
OwnData ==
  \A c \in Clients : \A k \in DOMAIN tx[c] :
    tx[c][k].client # c => \E d \in Clients : pc[d] = "killed"

\* If no client is killed, what a client that waits for a file finds in its pipe
\* is the next part of that very file, in order and without a gap, although
\* every file is sent by a thread of its own.
FileInOrder ==
  (\A c \in Clients : pc[c] # "killed") =>
    \A c \in Clients : pc[c] \in {"size", "data"} =>
      \A k \in DOMAIN tx[c] :
        tx[c][k] = [client |-> c, file |-> cur[c],
                    part |-> k + IF pc[c] = "size" THEN -1 ELSE received[c].blocks]

\* The slot and the descriptors of a client that has gone are released, also
\* those of slot 0, whose events look like registrations, unless the server
\* sleeps in open() because a client was killed before it was registered.
SlotsReclaimed ==
  <>[](Blocked \/ \A c \in Clients : Gone(c) => ~IsOpen(c, "tx") /\ ~IsOpen(c, "rx"))

\* A client that has opened both pipes ends, also when the server stops, unless
\* it asks for a file that does not exist.
ServedClientEnds ==
  \A c \in Clients : pc[c] = "next" ~> Gone(c) \/ Missing(c) \/ Blocked

\* run.sh waits for the clients it has started.
ClientsEnd == \A c \in Clients : <>Gone(c)

=============================================================================

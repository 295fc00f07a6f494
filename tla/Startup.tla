------------------------------ MODULE Startup ------------------------------
(***************************************************************************)
(* How the process starts (main.cpp:20-98, 160-181): the configuration     *)
(* file (config.cpp), the settings of the server (TcpServer::LoadConfig)   *)
(* and its threads (TcpServer::StartServer).                               *)
(*                                                                         *)
(* A line of the file is a record with its kind.  "tooLong" does not fit   *)
(* into line_size; for the others, TrimAll has been applied.  The value of *)
(* a pair stands for what the program makes of the text: the number that   *)
(* atoi returns, 0 for text that is none; for server_ip, whether inet_pton *)
(* accepts it.                                                             *)
(***************************************************************************)
EXTENDS Integers, Sequences, FiniteSets, FiniteSetsExt

CONSTANTS
  ConfigFiles,      \* bound: the configuration files to start with
  DefaultBacklog,   \* 2048, for back_log_size
  DefaultThreads,   \* 500
  DefaultQueue,     \* 300, for queue_size and for sockets_size
  AcceptThreadNum,  \* k_accept_thread_num
  MaxThreads        \* bound: threads the system allows

Kinds == {"comment", "blank", "noEquals", "tooLong", "pair"}
Keys  == {"log_config_path", "server_ip", "server_port", "process_log_file_path",
          "back_log_size", "thread_num", "queue_size", "sockets_size"}

ASSUME StartupConstants ==
  /\ ConfigFiles \subseteq Seq([kind : Kinds, key : Keys, value : Int])
  /\ DefaultBacklog \in Nat
  /\ DefaultThreads \in Nat
  /\ DefaultQueue \in Nat
  /\ AcceptThreadNum \in Nat
  /\ MaxThreads \in Nat

VARIABLES
  server_type,   \* server_type, from argv
  config_file,   \* the file
  pc,            \* where main is
  index,         \* the next line
  lines,         \* lines, in config::Open
  content,       \* config_content_
  settings,      \* back_log_size_, thread_num_size_, queue_size_, max_clients_size_
  workers,       \* threads that run ServerLoop
  acceptors      \* threads that run AcceptThreadLoop

vars == <<server_type, config_file, pc, index, lines, content, settings, workers,
          acceptors>>

-----------------------------------------------------------------------------
(* config::Open.                                                           *)

\* getline fails at the end of the file, and at a line that does not fit.
NoMoreLines ==
  index > Len(config_file) \/ config_file[index].kind = "tooLong"

ReadLine ==
  /\ pc = "read"
  /\ IF NoMoreLines
     THEN /\ pc' = IF lines = <<>> THEN "stopped" ELSE "parse"
          /\ index' = 1
          /\ UNCHANGED lines
     ELSE /\ lines' = Append(lines, config_file[index])
          /\ index' = index + 1
          /\ UNCHANGED pc
  /\ UNCHANGED <<server_type, config_file, content, settings, workers, acceptors>>

\* Mutant of Insert: config_content_[key] = value.
Assign(line) ==
  [k \in DOMAIN content \cup {line.key} |->
     IF k = line.key THEN line.value ELSE content[k]]

\* map::insert keeps what is there.
Insert(line) ==
  [k \in DOMAIN content \cup {line.key} |->
     IF k \in DOMAIN content THEN content[k] ELSE line.value]

ParseLine ==
  /\ pc = "parse"
  /\ IF index > Len(lines)
     THEN pc' = "logger" /\ UNCHANGED <<index, content>>
     ELSE /\ index' = index + 1
          /\ content' = IF lines[index].kind = "pair" THEN Insert(lines[index])
                                                      ELSE content
          /\ UNCHANGED pc
  /\ UNCHANGED <<server_type, config_file, lines, settings, workers, acceptors>>

-----------------------------------------------------------------------------
(* main.                                                                   *)

Go(label) ==
  /\ pc' = label
  /\ UNCHANGED <<server_type, config_file, index, lines, content, settings,
                 workers, acceptors>>

\* logger::Init ends without a return statement: what main tests may be anything.
InitLogger ==
  /\ pc = "logger"
  /\ \/ "log_config_path" \in DOMAIN content /\ Go("address")
     \/ Go("stopped")

\* The keys that both kinds of process need, and the one of the client.  The
\* split size has a default.
GetAddress ==
  LET needed == {"server_ip", "server_port"} \cup
                IF server_type = "client" THEN {"process_log_file_path"} ELSE {}
  IN  /\ pc = "address"
      /\ IF ~(needed \subseteq DOMAIN content) THEN Go("stopped")
         ELSE IF server_type = "client" THEN Go("client") ELSE Go("settings")

Setting(key, default) == IF key \in DOMAIN content THEN content[key] ELSE default

LoadConfig ==
  /\ pc = "settings"
  /\ settings' = [backlog |-> Setting("back_log_size", DefaultBacklog),
                  threads |-> Setting("thread_num", DefaultThreads),
                  queue   |-> Setting("queue_size", DefaultQueue),
                  sockets |-> Setting("sockets_size", DefaultQueue)]
  /\ pc' = "listen"
  /\ UNCHANGED <<server_type, config_file, index, lines, content, workers, acceptors>>

-----------------------------------------------------------------------------
(* StartServer.                                                            *)

\* inet_pton, socket, bind, listen and the locks.
Listen ==
  /\ pc = "listen"
  /\ \/ content["server_ip"] # 0 /\ Go("workers")
     \/ Go("stopped")

\* Mutant of AllWorkers: index < thread_num_size_ as the condition of the loop.
AllWorkersBelow == workers >= settings.threads

\* The loop is left when index equals thread_num_size_, which a negative number
\* never lets happen.
AllWorkers == workers = settings.threads

\* Mutant of CannotCreate: the loop tries again.
TryAgain == Go(pc)

\* StartServer returns an error, main returns, and the threads that were created are
\* left to the end of the process.
CannotCreate == Go("stopped")

CreateWorker ==
  /\ pc = "workers"
  /\ IF AllWorkers THEN Go("acceptors")
     ELSE \/ /\ workers + acceptors < MaxThreads
             /\ workers' = workers + 1
             /\ UNCHANGED <<server_type, config_file, pc, index, lines, content,
                            settings, acceptors>>
          \/ CannotCreate

CreateAcceptor ==
  /\ pc = "acceptors"
  /\ IF acceptors = AcceptThreadNum THEN Go("serving")
     ELSE \/ /\ workers + acceptors < MaxThreads
             /\ acceptors' = acceptors + 1
             /\ UNCHANGED <<server_type, config_file, pc, index, lines, content,
                            settings, workers>>
          \/ CannotCreate

-----------------------------------------------------------------------------

Init ==
  /\ server_type \in {"client", "server"}
  /\ config_file \in ConfigFiles
  /\ pc = "read"
  /\ index = 1
  /\ lines = <<>>
  /\ content = << >>
  /\ settings = << >>
  /\ workers = 0
  /\ acceptors = 0

Main ==
  \/ ReadLine \/ ParseLine \/ InitLogger \/ GetAddress \/ LoadConfig \/ Listen
  \/ CreateWorker \/ CreateAcceptor

Started == pc \in {"serving", "client", "stopped"} /\ UNCHANGED vars

Next == Main \/ Started

Spec == Init /\ [][Next]_vars

\* main runs.
FairSpec == Spec /\ WF_vars(Main)

-----------------------------------------------------------------------------
(* What a start keeps true.                                                *)

\* What the file defines, read off the file: the first line of a key counts, and
\* nothing from a line on that does not fit.
Definitions(key) ==
  {i \in DOMAIN config_file :
     /\ config_file[i].kind = "pair" /\ config_file[i].key = key
     /\ \A j \in 1 .. i : config_file[j].kind # "tooLong"}

Asked(key, default) ==
  IF Definitions(key) = {} THEN default ELSE config_file[Min(Definitions(key))].value

\* A server that serves has the accept threads, the limits and exactly the workers that
\* the file asks for, or the defaults: config::Open finds what the file defines
\* whatever else is in it, StartServer does not succeed with fewer workers, and no
\* negative number counts as none.
ServesAsConfigured ==
  pc = "serving" =>
    /\ acceptors = AcceptThreadNum
    /\ workers = Asked("thread_num", DefaultThreads)
    /\ settings.backlog = Asked("back_log_size", DefaultBacklog)
    /\ settings.queue = Asked("queue_size", DefaultQueue)
    /\ settings.sockets = Asked("sockets_size", DefaultQueue)

\* A start comes to an end, also with a number of threads that the loop never
\* reaches.
StartEnds == <>(pc \in {"serving", "client", "stopped"})
=============================================================================

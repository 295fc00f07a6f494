--------------------------- MODULE StartupProofs ---------------------------
(***************************************************************************)
(* That a server serves with what its configuration file asks for, for     *)
(* every file and every number of threads.                                 *)
(*                                                                         *)
(* The lines read are the file's, up to its end or to the first line that  *)
(* does not fit (LinesInv); content_ holds, of the lines gone through, the *)
(* first value of every key (ContentInv); the settings are what Asked      *)
(* reads off the file (SettingsInv); and the loops of StartServer are left *)
(* with the numbers they count up to (ThreadsInv).                         *)
(***************************************************************************)
EXTENDS Startup, TLAPS

\* The places of main that config::Open has been left for.
Opened == {"logger", "address", "client", "settings", "listen", "workers",
           "acceptors", "serving"}

\* lines is the file, or what comes before a line that does not fit.
LinesInv ==
  /\ config_file \in Seq([kind : Kinds, key : Keys, value : Int])
  /\ lines \in Seq([kind : Kinds, key : Keys, value : Int])
  /\ Len(lines) <= Len(config_file)
  /\ \A i \in 1 .. Len(lines) :
       lines[i] = config_file[i] /\ config_file[i].kind # "tooLong"
  /\ pc = "read" => index = Len(lines) + 1
  /\ pc \in Opened \cup {"parse"} /\ Len(lines) < Len(config_file) =>
       config_file[Len(lines) + 1].kind = "tooLong"

\* Line i gives key a value.
Gives(i, key) == config_file[i].kind = "pair" /\ config_file[i].key = key

\* Line i is the first of the first n lines that gives key a value.
FirstOf(n, i, key) ==
  i \in 1 .. n /\ Gives(i, key) /\ \A j \in 1 .. n : Gives(j, key) => i <= j

\* content_ holds the first value of every key in the first n lines, and no other.
Holds(n) ==
  /\ \A key \in DOMAIN content :
       \E i \in 1 .. n : FirstOf(n, i, key) /\ content[key] = config_file[i].value
  /\ \A i \in 1 .. n, key \in Keys : Gives(i, key) => key \in DOMAIN content

ContentInv ==
  /\ pc = "read" => Holds(0)
  /\ pc = "parse" => index \in 1 .. Len(lines) + 1 /\ Holds(index - 1)
  /\ pc \in Opened => Holds(Len(lines))

\* Once LoadConfig has run, the settings are the ones the file asks for.
SettingsInv ==
  pc \in {"listen", "workers", "acceptors", "serving"} =>
    /\ settings.backlog = Asked("back_log_size", DefaultBacklog)
    /\ settings.threads = Asked("thread_num", DefaultThreads)
    /\ settings.queue = Asked("queue_size", DefaultQueue)
    /\ settings.sockets = Asked("sockets_size", DefaultQueue)

\* The loops of StartServer are left with as many threads as they count up to.
ThreadsInv ==
  /\ pc \in {"acceptors", "serving"} => workers = settings.threads
  /\ pc = "serving" => acceptors = AcceptThreadNum

Inv == LinesInv /\ ContentInv /\ SettingsInv /\ ThreadsInv

-----------------------------------------------------------------------------
\* A line of the file has its parts.
LEMMA FileLines ==
  ASSUME LinesInv
  PROVE  /\ Len(lines) \in Nat /\ Len(config_file) \in Nat
         /\ \A i \in 1 .. Len(config_file) :
              /\ config_file[i] \in [kind : Kinds, key : Keys, value : Int]
              /\ config_file[i].key \in Keys
         /\ \A i \in 1 .. Len(lines) : i \in 1 .. Len(config_file)
         /\ DOMAIN config_file = 1 .. Len(config_file)
<1> DEFINE Line == [kind : Kinds, key : Keys, value : Int]
<1>0. config_file \in Seq(Line) /\ lines \in Seq(Line)
  BY DEF LinesInv
<1>1. /\ Len(lines) \in Nat /\ Len(config_file) \in Nat
      /\ DOMAIN config_file = 1 .. Len(config_file)
  BY <1>0
<1>2. \A i \in 1 .. Len(config_file) : config_file[i] \in Line
  <2> HIDE DEF Line
  <2> QED
    BY <1>0
<1>3. \A i \in 1 .. Len(lines) : i \in 1 .. Len(config_file)
  BY <1>1 DEF LinesInv
<1> QED
  BY <1>1, <1>2, <1>3

\* Whoever asks content_ for a key, or else takes the default, gets what the file says
\* (config::GetInt and its like, after config::Open).
LEMMA SettingIsAsked ==
  ASSUME LinesInv, pc \in Opened, Holds(Len(lines)), NEW key \in Keys, NEW default
  PROVE  Setting(key, default) = Asked(key, default)
<1> DEFINE D == Definitions(key)
<1>1. ASSUME NEW i
      PROVE  i \in D <=> i \in 1 .. Len(lines) /\ Gives(i, key)
  <2>1. ASSUME i \in 1 .. Len(lines), Gives(i, key)
        PROVE  i \in D
    <3>1. i \in DOMAIN config_file /\ \A j \in 1 .. i : j \in 1 .. Len(lines)
      BY <2>1, FileLines
    <3> QED
      BY <2>1, <3>1 DEF LinesInv, Gives, Definitions
  <2>2. ASSUME i \in D
        PROVE  i \in 1 .. Len(lines) /\ Gives(i, key)
    <3>1. i \in 1 .. Len(config_file) /\ Gives(i, key)
          /\ \A j \in 1 .. i : config_file[j].kind # "tooLong"
      BY <2>2 DEF LinesInv, Gives, Definitions
    <3>2. ASSUME i > Len(lines)
          PROVE  FALSE
      <4>1. config_file[Len(lines) + 1].kind = "tooLong"
        BY <3>1, <3>2, FileLines DEF LinesInv
      <4>2. Len(lines) + 1 \in 1 .. i
        BY <3>1, <3>2, FileLines
      <4> QED
        BY <3>1, <4>1, <4>2
    <3> QED
      BY <3>1, <3>2, FileLines
  <2> QED
    BY <2>1, <2>2
<1>2. CASE key \in DOMAIN content
  <2>1. PICK i \in 1 .. Len(lines) :
          FirstOf(Len(lines), i, key) /\ content[key] = config_file[i].value
    BY <1>2 DEF Holds
  <2>2. i \in D /\ \A j \in D : i <= j
    BY <1>1, <2>1 DEF FirstOf
  <2>3. \A j \in D : j \in Int
    BY <1>1
  <2>4. ASSUME NEW k \in D, \A j \in D : k <= j
        PROVE  k = i
    <3>1. k <= i /\ i <= k
      BY <2>2, <2>4
    <3> QED
      BY <2>2, <2>3, <3>1
  <2>5. Min(D) = i
    BY <2>2, <2>4 DEF Min
  <2> QED
    BY <1>2, <2>1, <2>2, <2>5 DEF Setting, Asked
<1>3. CASE key \notin DOMAIN content
  <2>1. D = {}
    BY <1>1, <1>3 DEF Holds
  <2> QED
    BY <1>3, <2>1 DEF Setting, Asked
<1> QED
  BY <1>2, <1>3

\* ParseLine's work on one line: content_ holds one line more.
LEMMA InsertHolds ==
  ASSUME LinesInv, NEW n \in 1 .. Len(lines), Holds(n - 1),
         config_file' = config_file,
         content' = IF lines[n].kind = "pair" THEN Insert(lines[n]) ELSE content
  PROVE  Holds(n)'
<1> DEFINE line == config_file[n]
<1>1. lines[n] = line /\ n \in Int /\ line.key \in Keys
  BY FileLines DEF LinesInv
<1>2. \A i : i \in 1 .. n <=> i \in 1 .. n - 1 \/ i = n
  BY <1>1
<1>3. \A i \in 1 .. n - 1 : i <= n /\ i # n
  BY <1>1
<1>4. CASE line.kind = "pair"
  <2>1. content' = Insert(line)
    BY <1>1, <1>4
  <2>2. DOMAIN content' = DOMAIN content \cup {line.key}
    BY <2>1 DEF Insert
  <2>3. ASSUME NEW key \in DOMAIN content'
        PROVE  \E i \in 1 .. n : FirstOf(n, i, key)' /\ content'[key] = config_file[i].value
    <3>1. CASE key \in DOMAIN content
      <4>1. PICK i \in 1 .. n - 1 :
              FirstOf(n - 1, i, key) /\ content[key] = config_file[i].value
        BY <3>1 DEF Holds
      <4>2. FirstOf(n, i, key)'
        BY <1>2, <1>3, <4>1 DEF FirstOf, Gives
      <4>3. content'[key] = content[key]
        BY <2>1, <3>1 DEF Insert
      <4> QED
        BY <1>2, <4>1, <4>2, <4>3
    <3>2. CASE key \notin DOMAIN content
      <4>1. key = line.key /\ content'[key] = line.value
        BY <2>1, <2>2, <3>2 DEF Insert
      <4>2. \A j \in 1 .. n - 1 : ~Gives(j, key)
        BY <1>1, <3>2, <4>1 DEF Holds
      <4>3. n \in 1 .. n /\ n <= n
        BY <1>1
      <4>4. FirstOf(n, n, key)'
        BY <1>2, <1>4, <4>1, <4>2, <4>3 DEF FirstOf, Gives
      <4> QED
        BY <4>1, <4>3, <4>4
    <3> QED
      BY <3>1, <3>2
  <2>4. ASSUME NEW i \in 1 .. n, NEW key \in Keys, Gives(i, key)'
        PROVE  key \in DOMAIN content'
    BY <1>2, <2>2, <2>4 DEF Holds, Gives
  <2> QED
    BY <2>3, <2>4 DEF Holds
<1>5. CASE line.kind # "pair"
  <2>1. content' = content /\ \A key : ~Gives(n, key)
    BY <1>1, <1>5 DEF Gives
  <2>2. ASSUME NEW key \in DOMAIN content
        PROVE  \E i \in 1 .. n : FirstOf(n, i, key)' /\ content'[key] = config_file[i].value
    <3>1. PICK i \in 1 .. n - 1 :
            FirstOf(n - 1, i, key) /\ content[key] = config_file[i].value
      BY <2>2 DEF Holds
    <3>2. FirstOf(n, i, key)'
      BY <1>2, <2>1, <3>1 DEF FirstOf, Gives
    <3> QED
      BY <1>2, <2>1, <3>1, <3>2
  <2>3. ASSUME NEW i \in 1 .. n, NEW key \in Keys, Gives(i, key)'
        PROVE  key \in DOMAIN content'
    BY <1>2, <2>1, <2>3 DEF Holds, Gives
  <2> QED
    BY <2>1, <2>2, <2>3 DEF Holds
<1> QED
  BY <1>4, <1>5

-----------------------------------------------------------------------------
(* The invariant.                                                          *)

\* Before the file is read.
LEMMA InvInit == Init => Inv
<1> SUFFICES ASSUME Init
             PROVE  Inv
  OBVIOUS
<1>1. LinesInv
  <2>1. /\ config_file \in Seq([kind : Kinds, key : Keys, value : Int])
        /\ lines = <<>> /\ index = 1 /\ pc = "read"
    BY StartupConstants DEF Init
  <2>2. Len(lines) = 0 /\ Len(config_file) \in Nat
    BY <2>1
  <2>3. lines \in Seq([kind : Kinds, key : Keys, value : Int])
    BY <2>1
  <2> QED
    BY <2>1, <2>2, <2>3 DEF LinesInv, Opened
<1>2. ContentInv
  BY DEF Init, ContentInv, Holds, Opened
<1> QED
  BY <1>1, <1>2 DEF Init, Inv, SettingsInv, ThreadsInv

\* A step of main that leaves the file, the lines and content_ alone.
LEMMA KeptInv ==
  ASSUME LinesInv, ContentInv, pc \in Opened, pc' \in Opened \cup {"stopped"},
         UNCHANGED <<config_file, index, lines, content>>
  PROVE  LinesInv' /\ ContentInv'
<1>1. pc' # "read" /\ pc' # "parse"
  BY DEF Opened
<1>2. LinesInv'
  BY <1>1 DEF LinesInv
<1>3. Holds(Len(lines))'
  BY DEF ContentInv, Holds, FirstOf, Gives
<1> QED
  BY <1>1, <1>2, <1>3 DEF ContentInv

\* What Asked reads off the file only depends on the file.
LEMMA AskedKept ==
  ASSUME config_file' = config_file, NEW key, NEW default
  PROVE  Asked(key, default)' = Asked(key, default)
BY DEF Asked, Definitions

\* A step of main that leaves the settings alone too, and comes from where they are set.
LEMMA SettingsKept ==
  ASSUME SettingsInv, UNCHANGED <<config_file, settings>>,
         pc' \in {"listen", "workers", "acceptors", "serving"} =>
           pc \in {"listen", "workers", "acceptors", "serving"}
  PROVE  SettingsInv'
BY AskedKept DEF SettingsInv

\* config::Open's loop over the file.
LEMMA ReadLineInv ==
  ASSUME Inv, ReadLine
  PROVE  Inv'
<1>1. pc = "read" /\ index = Len(lines) + 1 /\ Holds(0)
      /\ UNCHANGED <<config_file, content, settings, workers, acceptors>>
  BY DEF Inv, LinesInv, ContentInv, ReadLine
<1>2. pc' \in {"read", "parse", "stopped"}
  BY <1>1 DEF ReadLine
<1>3. Holds(0)'
  BY <1>1 DEF Holds, FirstOf, Gives
<1>4. CASE NoMoreLines
  <2>1. pc' \in {"parse", "stopped"} /\ index' = 1 /\ lines' = lines
    BY <1>1, <1>4 DEF ReadLine
  <2>2. Len(lines) < Len(config_file) => config_file[Len(lines) + 1].kind = "tooLong"
    BY <1>1, <1>4, FileLines DEF Inv, NoMoreLines
  <2>3. LinesInv'
    BY <1>1, <2>1, <2>2 DEF Inv, LinesInv
  <2>4. 1 \in 1 .. Len(lines) + 1 /\ 1 - 1 = 0
    BY FileLines DEF Inv
  <2>5. ContentInv'
    BY <1>3, <2>1, <2>4 DEF ContentInv, Opened
  <2> QED
    BY <2>1, <2>3, <2>5 DEF Inv, SettingsInv, ThreadsInv
<1>5. CASE ~NoMoreLines
  <2>1. /\ pc' = "read" /\ index' = index + 1
        /\ lines' = Append(lines, config_file[index])
        /\ index \in 1 .. Len(config_file) /\ config_file[index].kind # "tooLong"
    BY <1>1, <1>5, FileLines DEF Inv, ReadLine, NoMoreLines
  <2>2. config_file[index] \in [kind : Kinds, key : Keys, value : Int]
    BY <2>1, FileLines DEF Inv
  <2>3. /\ lines' \in Seq([kind : Kinds, key : Keys, value : Int])
        /\ Len(lines') = index
        /\ \A i \in 1 .. index :
             lines'[i] = IF i = index THEN config_file[index] ELSE lines[i]
    BY <1>1, <2>1, <2>2 DEF Inv, LinesInv
  <2>4. \A i \in 1 .. index : i = index \/ i \in 1 .. Len(lines)
    BY <1>1, FileLines DEF Inv
  <2>5. LinesInv'
    BY <1>1, <2>1, <2>3, <2>4, FileLines DEF Inv, LinesInv, Opened
  <2>6. ContentInv'
    BY <1>3, <2>1 DEF ContentInv, Opened
  <2> QED
    BY <2>1, <2>5, <2>6 DEF Inv, SettingsInv, ThreadsInv
<1> QED
  BY <1>4, <1>5

\* config::Open's loop over the lines.
LEMMA ParseLineInv ==
  ASSUME Inv, ParseLine
  PROVE  Inv'
<1>1. pc = "parse" /\ index \in 1 .. Len(lines) + 1 /\ Holds(index - 1)
      /\ UNCHANGED <<config_file, lines, settings, workers, acceptors>>
  BY DEF Inv, ContentInv, ParseLine
<1>2. CASE index > Len(lines)
  <2>1. pc' = "logger" /\ UNCHANGED <<index, content>> /\ index - 1 = Len(lines)
    BY <1>1, <1>2, FileLines DEF Inv, ParseLine
  <2>2. LinesInv'
    BY <1>1, <2>1 DEF Inv, LinesInv
  <2>3. Holds(Len(lines))'
    BY <1>1, <2>1 DEF Holds, FirstOf, Gives
  <2>4. ContentInv'
    BY <1>1, <2>1, <2>3 DEF ContentInv
  <2> QED
    BY <2>1, <2>2, <2>4 DEF Inv, SettingsInv, ThreadsInv
<1>3. CASE ~(index > Len(lines))
  <2>1. /\ pc' = "parse" /\ index' = index + 1 /\ index \in 1 .. Len(lines)
        /\ content' = IF lines[index].kind = "pair" THEN Insert(lines[index])
                                                    ELSE content
    BY <1>1, <1>3, FileLines DEF Inv, ParseLine
  <2>2. LinesInv'
    BY <1>1, <2>1 DEF Inv, LinesInv
  <2>3. Holds(index - 1)'
    <3>1. PICK n : n = index
      OBVIOUS
    <3>2. Holds(n)'
      BY <1>1, <2>1, <3>1, InsertHolds DEF Inv
    <3>3. index' - 1 = n
      BY <2>1, <3>1
    <3> QED
      BY <3>2, <3>3 DEF Holds
  <2>4. index' \in 1 .. Len(lines') + 1
    BY <1>1, <2>1, FileLines DEF Inv
  <2>5. ContentInv'
    BY <2>1, <2>3, <2>4 DEF ContentInv, Opened
  <2> QED
    BY <2>1, <2>2, <2>5 DEF Inv, SettingsInv, ThreadsInv
<1> QED
  BY <1>2, <1>3
\* The rest of main, which leaves the file, the lines and content_ alone: what a step
\* from one place to the next keeps.
LEMMA MainInv ==
  ASSUME Inv,
         InitLogger \/ GetAddress \/ LoadConfig \/ Listen \/ CreateWorker \/ CreateAcceptor
  PROVE  Inv'
<1>1. pc \in Opened /\ pc' \in Opened \cup {"stopped"}
      /\ UNCHANGED <<config_file, index, lines, content>>
  BY DEF InitLogger, GetAddress, LoadConfig, Listen, CreateWorker, CreateAcceptor, Go,
         CannotCreate, Opened
<1>2. LinesInv' /\ ContentInv'
  BY <1>1, KeptInv DEF Inv
<1>3. CASE InitLogger
  <2>1. pc' \in {"address", "stopped"}
    BY <1>3 DEF InitLogger, Go
  <2> QED
    BY <1>2, <2>1 DEF Inv, SettingsInv, ThreadsInv
<1>4. CASE GetAddress
  <2>1. pc' \in {"client", "settings", "stopped"}
    BY <1>4 DEF GetAddress, Go
  <2> QED
    BY <1>2, <2>1 DEF Inv, SettingsInv, ThreadsInv
<1>5. CASE LoadConfig
  <2>1. pc' = "listen" /\ pc = "settings"
        /\ settings' = [backlog |-> Setting("back_log_size", DefaultBacklog),
                        threads |-> Setting("thread_num", DefaultThreads),
                        queue   |-> Setting("queue_size", DefaultQueue),
                        sockets |-> Setting("sockets_size", DefaultQueue)]
    BY <1>5 DEF LoadConfig
  <2>2. LinesInv /\ Holds(Len(lines))
    BY <1>1 DEF Inv, ContentInv
  <2>3. ASSUME NEW key \in Keys, NEW default
        PROVE  Setting(key, default) = Asked(key, default)'
    BY <1>1, <2>2, SettingIsAsked, AskedKept
  <2>4. SettingsInv'
    BY <2>1, <2>3 DEF SettingsInv, Keys
  <2> QED
    BY <1>2, <2>1, <2>4 DEF Inv, ThreadsInv
<1>6. CASE Listen
  <2>1. pc = "listen" /\ pc' \in {"workers", "stopped"} /\ settings' = settings
    BY <1>6 DEF Listen, Go
  <2>2. SettingsInv'
    BY <1>1, <2>1, SettingsKept DEF Inv
  <2> QED
    BY <1>2, <2>1, <2>2 DEF Inv, ThreadsInv
<1>7. CASE CreateWorker
  <2>1. /\ pc = "workers" /\ pc' \in {"workers", "acceptors", "stopped"}
        /\ settings' = settings
        /\ pc' = "acceptors" => workers' = workers /\ workers = settings.threads
    BY <1>7 DEF CreateWorker, AllWorkers, CannotCreate, Go
  <2>2. SettingsInv'
    BY <1>1, <2>1, SettingsKept DEF Inv
  <2> QED
    BY <1>2, <2>1, <2>2 DEF Inv, ThreadsInv
<1>8. CASE CreateAcceptor
  <2>1. /\ pc = "acceptors" /\ pc' \in {"acceptors", "serving", "stopped"}
        /\ settings' = settings /\ workers' = workers
        /\ pc' = "serving" => acceptors' = AcceptThreadNum
    BY <1>8 DEF CreateAcceptor, CannotCreate, Go
  <2>2. SettingsInv'
    BY <1>1, <2>1, SettingsKept DEF Inv
  <2> QED
    BY <1>2, <2>1, <2>2 DEF Inv, ThreadsInv
<1> QED
  BY <1>3, <1>4, <1>5, <1>6, <1>7, <1>8

\* Every step keeps the invariant.
LEMMA InvNext == Inv /\ [Next]_vars => Inv'
<1> SUFFICES ASSUME Inv, [Next]_vars
             PROVE  Inv'
  OBVIOUS
<1>1. CASE ReadLine
  BY <1>1, ReadLineInv
<1>2. CASE ParseLine
  BY <1>2, ParseLineInv
<1>3. CASE InitLogger \/ GetAddress \/ LoadConfig \/ Listen \/ CreateWorker \/ CreateAcceptor
  BY <1>3, MainInv
<1>4. CASE Started \/ UNCHANGED vars
  <2>1. UNCHANGED vars
    BY <1>4 DEF Started
  <2> QED
    BY <2>1 DEF vars, Inv, LinesInv, ContentInv, Holds, FirstOf, Gives, SettingsInv,
                ThreadsInv, Asked, Definitions
<1> QED
  BY <1>1, <1>2, <1>3, <1>4 DEF Next, Main

\* What ServesAsConfigured says, of every state the invariant holds in.
LEMMA InvServes == Inv => ServesAsConfigured
BY DEF Inv, SettingsInv, ThreadsInv, ServesAsConfigured

\* A server that serves has the accept threads, the workers and the limits that its file
\* asks for, or the defaults, whatever the file holds (main.cpp:20-98, config::Open,
\* TcpServer::LoadConfig and StartServer).
THEOREM ServesAsConfiguredCorrect == Spec => []ServesAsConfigured
<1>1. Spec => []Inv
  BY InvInit, InvNext, PTL DEF Spec
<1> QED
  BY <1>1, InvServes, PTL
=============================================================================

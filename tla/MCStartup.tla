----------------------------- MODULE MCStartup -----------------------------
(* Startup with files that hold what a start needs and two more lines, in  *)
(* any place.                                                              *)
EXTENDS Startup

Pair(k, v) == [kind |-> "pair", key |-> k, value |-> v]
Other(how) == [kind |-> how, key |-> "server_ip", value |-> 0]

Needed ==
  <<Pair("log_config_path", 1), Pair("server_ip", 1), Pair("server_port", 1),
    Pair("process_log_file_path", 1)>>

Extra ==
  {Other(how) : how \in {"comment", "blank", "noEquals", "tooLong"}}
    \cup {Pair("thread_num", n) : n \in {-1, 0, 2}}
    \cup {Pair("server_ip", 0), Pair("back_log_size", 5), Pair("queue_size", 1),
            Pair("sockets_size", 4)}

InsertAt(s, i, x) == SubSeq(s, 1, i) \o <<x>> \o SubSeq(s, i + 1, Len(s))

MCConfigFiles ==
  {InsertAt(InsertAt(Needed, i, x), j, y) :
     i \in 0 .. Len(Needed), j \in 0 .. Len(Needed) + 1, x \in Extra, y \in Extra}
=============================================================================

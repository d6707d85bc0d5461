------------------------------ MODULE Startup ------------------------------
(***************************************************************************)
(* The host process from its start to its end (src/App/App.cpp, main):     *)
(* server.ini is loaded and checked, the log, the enclave and the listener *)
(* are set up, and all is taken down after ENTER or a failure.             *)
(***************************************************************************)
EXTENDS IniConfig

CONSTANTS
  Files,       \* contents of server.ini
  NoFile,      \* there is none
  Render(_),   \* the characters of a content
  Atoi(_),     \* the number that a text starts with, 0 if none
  Meaning(_,_), \* the value that a content gives a key, <<>> if none
  Plain(_,_)   \* the value of a key, and the line of its section, are plainly written

ASSUME RenderAssumption == \A f \in Files : Render(f) \in Seq(Chars)

VARIABLES
  at,         \* where main is
  file,       \* the content of server.ini
  rest,       \* ini_cfg, what of it is not parsed yet
  section,    \* str_root
  config,     \* m_config, its entries in the order of the file
  settings,   \* what main read from it
  log,        \* glog_helper is there
  enclave,    \* the enclave
  id,         \* enclave_id is allocated
  listener,   \* g_httpServer
  code        \* how the process ended

vars == <<at, file, rest, section, config, settings, log, enclave, id, listener, code>>

Mandatory == {"host_address", "key_shard_generation_path", "key_shard_query_path"}
Keys      == Mandatory \cup {"max_thread_task_count", "log_enable", "log_path"}
Home(key) == IF key \in {"log_enable", "log_path"} THEN <<"log">> ELSE <<"server">>
Unset     == [key \in Keys |-> <<>>]

TypeOK ==
  /\ at \in {"start", "parse", "read", "log", "create", "identify", "init", "serve", "listening",
             "shutdown", "free", "cleanup", "ended"}
  /\ file \in Files \cup {NoFile}
  /\ rest \in Seq(Chars) /\ section \in Seq(Chars)
  /\ \A i \in 1..Len(config) : <<>> \notin {config[i].section, config[i].key, config[i].value}
  /\ DOMAIN settings = Keys /\ \A key \in Keys : settings[key] \in Seq(Chars)
  /\ log \in BOOLEAN /\ id \in BOOLEAN
  /\ enclave \in {"none", "created", "ready", "destroyed"}
  /\ listener \in {"none", "open", "closed"}
  /\ code \in {"none", "0", "-1", "terminate"}

Init ==
  /\ at = "start"
  /\ file \in Files \cup {NoFile}
  /\ rest = <<>> /\ section = <<>> /\ config = <<>> /\ settings = Unset
  /\ log = FALSE /\ enclave = "none" /\ id = FALSE /\ listener = "none"
  /\ code = "none"

End(c) == at' = "ended" /\ code' = c

\* load_file: an empty file and one that cannot be read are failures.
LoadFile ==
  /\ at = "start"
  /\ \/ /\ file # NoFile /\ Render(file) # <<>>
        /\ at' = "parse" /\ rest' = Render(file) /\ UNCHANGED code
     \/ /\ End("-1") /\ UNCHANGED rest
  /\ UNCHANGED <<file, section, config, settings, log, enclave, id, listener>>

ParseLine ==
  /\ at = "parse" /\ rest # <<>>
  /\ rest' = AfterLine(rest)
  /\ section' = SectionAfter(section, Line(rest))
  /\ config' = config \o Entries(section', Line(rest))
  /\ UNCHANGED <<at, file, settings, log, enclave, id, listener, code>>

ParseDone ==
  /\ at = "parse" /\ rest = <<>>
  /\ at' = "read"
  /\ UNCHANGED <<file, rest, section, config, settings, log, enclave, id, listener, code>>

\* The four mandatory settings, each with its return from main.
ReadSettings ==
  /\ at = "read"
  /\ settings' = [key \in Keys |-> get_string(config, Home(key), <<key>>)]
  /\ IF /\ \A key \in Mandatory : settings'[key] # <<>>
        /\ Atoi(settings'["max_thread_task_count"]) > 0
     THEN at' = "log" /\ UNCHANGED code
     ELSE End("-1")
  /\ UNCHANGED <<file, rest, section, config, log, enclave, id, listener>>

StartLog ==
  /\ at = "log"
  /\ at' = "create"
  /\ log' = (Atoi(settings["log_enable"]) = 1)
  /\ UNCHANGED <<file, rest, section, config, settings, enclave, id, listener, code>>

CreateEnclave ==
  /\ at = "create"
  /\ \/ at' = "identify" /\ enclave' = "created"
     \/ at' = "shutdown" /\ UNCHANGED enclave
  /\ UNCHANGED <<file, rest, section, config, settings, log, id, listener, code>>

\* ecall_get_enclave_id: it fails where its ECALL or malloc_outside does.
GetEnclaveId ==
  /\ at = "identify"
  /\ \/ at' = "init" /\ id' = TRUE
     \/ at' = "shutdown" /\ UNCHANGED id
  /\ UNCHANGED <<file, rest, section, config, settings, log, enclave, listener, code>>

\* (mutant: a failure is logged and main goes on)
InitEnclaveAnyway ==
  /\ at = "init"
  /\ at' = "serve"
  /\ enclave' \in {"ready", "created"}
  /\ UNCHANGED <<file, rest, section, config, settings, log, id, listener, code>>

\* ecall_init: the dispatcher knows its two tasks.
InitEnclave ==
  /\ at = "init"
  /\ \/ at' = "serve" /\ enclave' = "ready"
     \/ at' = "shutdown" /\ UNCHANGED enclave
  /\ UNCHANGED <<file, rest, section, config, settings, log, id, listener, code>>

\* HttpServer_Start: nobody catches what open().wait() throws.
StartServer ==
  /\ at = "serve"
  /\ \/ at' = "listening" /\ listener' = "open" /\ UNCHANGED code
     \/ End("terminate") /\ UNCHANGED listener
  /\ UNCHANGED <<file, rest, section, config, settings, log, enclave, id>>

PressEnter ==
  /\ at = "listening"
  /\ at' = "shutdown"
  /\ UNCHANGED <<file, rest, section, config, settings, log, enclave, id, listener, code>>

\* HttpServer_Shutdown, where main comes after a failure too.
ShutdownServer ==
  /\ at = "shutdown"
  /\ at' = "free"
  /\ listener' = IF listener = "open" THEN "closed" ELSE listener
  /\ UNCHANGED <<file, rest, section, config, settings, log, enclave, id, code>>

\* (mutant: only what ecall_init has set up is destroyed)
FreeEnclaveReady ==
  /\ at = "free"
  /\ at' = "cleanup"
  /\ enclave' = IF enclave = "ready" THEN "destroyed" ELSE enclave
  /\ UNCHANGED <<file, rest, section, config, settings, log, id, listener, code>>

\* ecall_free and sgx_destroy_enclave, which do nothing without an enclave.
FreeEnclave ==
  /\ at = "free"
  /\ at' = "cleanup"
  /\ enclave' = IF enclave = "none" THEN "none" ELSE "destroyed"
  /\ UNCHANGED <<file, rest, section, config, settings, log, id, listener, code>>

Cleanup ==
  /\ at = "cleanup"
  /\ log' = FALSE /\ id' = FALSE
  /\ End("0")
  /\ UNCHANGED <<file, rest, section, config, settings, enclave, listener>>

Main ==
  \/ LoadFile \/ ParseLine \/ ParseDone \/ ReadSettings \/ StartLog
  \/ CreateEnclave \/ GetEnclaveId \/ InitEnclave \/ StartServer
  \/ ShutdownServer \/ FreeEnclave \/ Cleanup

Next == Main \/ PressEnter

\* The thread of main runs on; nobody has to press ENTER.
Spec == Init /\ [][Next]_vars /\ WF_vars(Main)

-----------------------------------------------------------------------------
(* Correctness.                                                             *)

\* The file has all that main asks for.
Complete(f) ==
  /\ \A key \in Mandatory : Meaning(f, key) # <<>>
  /\ Atoi(Meaning(f, "max_thread_task_count")) > 0

\* Main works with what the file says of every setting that is plainly
\* written: its section line is not indented (iniconfig.cpp:139 takes the
\* section for "log]"), no value from there on has brackets (the same line
\* takes an address like [::] for a section), and its own value has no blank
\* inside (iniconfig.cpp:315 deletes what stands behind it).  How the other
\* lines are written does not count, so the damage stays in the section or the
\* line it is done to.  A file that lacks something is never served, and one
\* that lacks nothing is only refused for a line that is not plainly written
\* (iniconfig.cpp:113-174, 309-317, App.cpp:55-82).
ServesAsWritten ==
  /\ settings # Unset => \A key \in Keys : Plain(file, key) => settings[key] = Meaning(file, key)
  /\ listener = "open" => settings # Unset /\ Complete(file)
  /\ at = "ended" /\ code = "-1" /\ settings # Unset =>
       ~Complete(file) \/ \E key \in Mandatory \cup {"max_thread_task_count"} : ~Plain(file, key)

\* Requests are only accepted while the enclave has its tasks: after
\* ecall_init, and the listener is closed before ecall_free (App.cpp:108-133).
ListensReady == listener = "open" => enclave = "ready"

\* A process that ends in main has given back what it took, from whichever
\* failure it came (App.cpp:123-145).
AllGivenBack ==
  at = "ended" /\ code # "terminate" =>
    ~log /\ ~id /\ enclave \in {"none", "destroyed"} /\ listener # "open"

\* The process comes to listen or ends: no text keeps the parser for ever
\* (iniconfig.cpp:128, 312).
StartsOrEnds == <>(at \in {"listening", "ended"})

=============================================================================

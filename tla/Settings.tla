------------------------------ MODULE Settings ------------------------------
(***************************************************************************)
(* What the program remembers between two starts: the settings (settings   *)
(* and nvs_flash), a cache in memory of the file .xiaozhi_config, and the  *)
(* three parts of the start that use them: Board makes up an identity,     *)
(* Ota::CheckVersion stores what the server answers, MqttProtocol reads    *)
(* the broker's address.  All of it is on the main thread; the program may *)
(* end at any point, by a crash or by exit(0) when the window is closed.   *)
(*                                                                         *)
(* Nothing is ever erased: nobody calls EraseKey or EraseAll.  The values  *)
(* are not empty and have neither blanks at their ends nor line breaks, so *)
(* that parseLine reads back what was written.                             *)
(***************************************************************************)
EXTENDS Naturals

CONSTANTS MaxValue, \* bound: the values the server may answer, 1..MaxValue
          MaxExits  \* bound: how often the program ends

ASSUME BoundsAssumption == MaxValue \in Nat /\ MaxExits \in Nat

\* The keys of the sections "board", "mqtt" (the two that matter) and
\* "websocket".
MqttKey == {"endpoint", "publish_topic"}
ServerKey == MqttKey \cup {"url"}
Key == ServerKey \cup {"uuid"}

Section(k) == IF k \in MqttKey THEN "mqtt" ELSE k

None == 0 \* an absent key
Store == [Key -> Nat]
Empty == [k \in Key |-> None]
NoAnswer == [k \in ServerKey |-> None]

VARIABLES
  nv_caches, \* the settings in memory
  file,      \* the settings in .xiaozhi_config
  pc,        \* where the main thread is
  next,      \* where it goes after nvs_commit
  uuid,      \* Board's uuid_, or None
  generated, \* identities made up (names the next one)
  answer,    \* what the server has answered in this start
  broker,    \* the endpoint the MQTT client was started with, or None
  exits,     \* how often the program has ended
  \* What the properties need to know of the past.
  identity,  \* the Client-Id sent to the server last, or None
  lost,      \* an exit, or a file that could not be read, has taken the
             \* identity since
  failed     \* the file could not be opened for the last load or commit

run_vars == <<uuid, answer, broker>>
history == <<identity, lost, failed>>
vars == <<nv_caches, file, pc, next, generated, exits, run_vars, history>>

PC == {"load", "board", "commit", "write", "check", "mqtt", "websocket",
       "start", "running"}

TypeOK ==
  /\ nv_caches \in Store
  /\ file \in Store
  /\ pc \in PC
  /\ next \in {"check", "websocket", "start"}
  /\ uuid \in Nat
  /\ generated \in Nat
  /\ answer \in [ServerKey -> 0..MaxValue]
  /\ exits \in 0..MaxExits
  /\ identity \in Nat
  /\ broker \in Nat
  /\ lost \in BOOLEAN
  /\ failed \in BOOLEAN

\* The first start: there is no file.
Init ==
  /\ nv_caches = Empty
  /\ file = Empty
  /\ pc = "load"
  /\ next = "check"
  /\ uuid = None
  /\ generated = 0
  /\ answer = NoAnswer
  /\ exits = 0
  /\ identity = None
  /\ broker = None
  /\ lost = FALSE
  /\ failed = FALSE

\* Keys whose values in f are not those in g.
Differ(f, g) == {k \in Key : f[k] # g[k]}
-----------------------------------------------------------------------------
(***************************************************************************)
(* Reading and writing the file.                                           *)
(***************************************************************************)
\* The first nvs_open, of Ota's constructor: initNvRam reads the file, or goes
\* on with nothing when it cannot be opened.
InitNvRam ==
  /\ pc = "load"
  /\ nv_caches' \in {file, Empty}
  /\ failed' = (nv_caches' # file)
  /\ lost' = (lost \/ nv_caches'["uuid"] # file["uuid"])
  /\ pc' = "board"
  /\ UNCHANGED <<file, next, generated, exits, run_vars, identity>>

\* commitNvRam opens the file, which empties it, ...
OpenForCommit ==
  /\ pc = "commit"
  /\ file' = Empty
  /\ pc' = "write"
  /\ UNCHANGED <<nv_caches, next, generated, exits, run_vars, history>>

\* ... or cannot, and gives up; nvs_commit returns ESP_OK all the same.
CommitFails ==
  /\ pc = "commit"
  /\ failed' = TRUE
  /\ pc' = next
  /\ UNCHANGED <<nv_caches, file, next, generated, exits, run_vars, identity,
                 lost>>

Unwritten == Differ(nv_caches, file)

\* A section is written as a whole before the next one.
InProgress(s) ==
  /\ \E k \in Unwritten : Section(k) = s
  /\ \E k \in Key \ Unwritten : Section(k) = s /\ file[k] # None

\* Write one line and flush it.
WriteLine ==
  /\ pc = "write"
  /\ \E k \in Unwritten :
       /\ \A j \in Key : InProgress(Section(j)) => Section(k) = Section(j)
       /\ file' = [file EXCEPT ![k] = nv_caches[k]]
  /\ UNCHANGED <<nv_caches, pc, next, generated, exits, run_vars, history>>

CommitDone ==
  /\ pc = "write"
  /\ Unwritten = {}
  /\ failed' = FALSE
  /\ pc' = next
  /\ UNCHANGED <<nv_caches, file, next, generated, exits, run_vars, identity,
                 lost>>

\* nvs_set_str for each pair of new: emplace leaves a value that is there
\* alone.
SetStr(new) ==
  [k \in Key |-> IF nv_caches[k] = None /\ k \in DOMAIN new THEN new[k]
                 ELSE nv_caches[k]]

\* GetString, of nvs_get_str: None when there is no such key.
GetString(k) == nv_caches[k]

\* A slip: SetString does not mark the settings dirty.
DestroyClean(dirty, return) ==
  /\ next' = return
  /\ pc' = return

\* ~Settings commits when anything was set.
Destroy(dirty, return) ==
  /\ next' = return
  /\ pc' = IF dirty THEN "commit" ELSE return
-----------------------------------------------------------------------------
(***************************************************************************)
(* The start.                                                              *)
(***************************************************************************)
\* A slip: a new identity at every start.
BoardForgets ==
  /\ pc = "board"
  /\ generated' = generated + 1
  /\ uuid' = generated'
  /\ nv_caches' = SetStr([k \in {"uuid"} |-> uuid'])
  /\ Destroy(TRUE, "check")
  /\ UNCHANGED <<file, answer, broker, exits, history>>

\* Board's constructor finds the identity in the settings, or makes one up.
Board ==
  /\ pc = "board"
  /\ IF GetString("uuid") # None
       THEN /\ uuid' = GetString("uuid")
            /\ UNCHANGED <<generated, nv_caches>>
            /\ Destroy(FALSE, "check")
       ELSE /\ generated' = generated + 1
            /\ uuid' = generated'
            /\ nv_caches' = SetStr([k \in {"uuid"} |-> uuid'])
            /\ Destroy(TRUE, "check")
  /\ UNCHANGED <<file, answer, broker, exits, history>>

\* CheckVersion sends the identity to the server, and gets an answer with the
\* sections "mqtt" and "websocket", or without, or none.
CheckVersion ==
  /\ pc = "check"
  /\ identity' = uuid
  /\ lost' = FALSE
  /\ \/ pc' = "start" /\ UNCHANGED answer
     \/ pc' = "mqtt" /\ answer' \in [ServerKey -> 0..MaxValue]
  /\ UNCHANGED <<nv_caches, file, next, uuid, broker, generated, exits, failed>>

\* CheckVersion sets the strings of the section "mqtt" that are not what is
\* stored.
StoreMqtt ==
  /\ pc = "mqtt"
  /\ nv_caches' = SetStr([k \in MqttKey |-> answer[k]])
  /\ Destroy(\E k \in MqttKey : answer[k] \notin {None, GetString(k)},
             "websocket")
  /\ UNCHANGED <<file, generated, exits, run_vars, history>>

\* It sets those of the section "websocket" whatever is stored.
StoreWebsocket ==
  /\ pc = "websocket"
  /\ nv_caches' = SetStr([k \in {"url"} |-> answer[k]])
  /\ Destroy(answer["url"] # None, "start")
  /\ UNCHANGED <<file, generated, exits, run_vars, history>>

\* StartMqttClient reads the endpoint; without one there is no client.
StartMqttClient ==
  /\ pc = "start"
  /\ pc' = "running"
  /\ broker' = GetString("endpoint")
  /\ UNCHANGED <<nv_caches, file, next, uuid, answer, generated, exits, history>>

\* The program ends, and is started again.
Exit ==
  /\ pc # "load"
  /\ exits < MaxExits
  /\ exits' = exits + 1
  /\ lost' = (lost \/ "uuid" \in Unwritten)
  /\ nv_caches' = Empty
  /\ pc' = "load"
  /\ uuid' = None
  /\ answer' = NoAnswer
  /\ broker' = None
  /\ failed' = FALSE
  /\ UNCHANGED <<file, next, generated, identity>>
-----------------------------------------------------------------------------
Commit == OpenForCommit \/ CommitFails \/ WriteLine \/ CommitDone

Start == Board \/ CheckVersion \/ StoreMqtt \/ StoreWebsocket \/ StartMqttClient

Next == InitNvRam \/ Commit \/ Start \/ Exit

Spec == Init /\ [][Next]_vars
-----------------------------------------------------------------------------
(***************************************************************************)
(* Properties.                                                             *)
(***************************************************************************)
\* Whenever no commit is under way everything that was set is in the file,
\* unless the file could not be opened: an exit loses nothing then.
NothingUnsaved ==
  pc \notin {"load", "commit", "write"} /\ ~failed => file = nv_caches

\* The server sees the same identity at every start, unless the line was lost
\* to an exit during a commit or to a file that could not be opened.
IdentityKept ==
  [][identity' # identity => identity = None \/ lost]_vars

\* The settings that count: those in memory once they have been read.
Current == IF pc = "load" THEN file ELSE nv_caches

\* Why the action property holds.
Kept ==
  /\ identity # None /\ ~lost => Current["uuid"] = identity
  /\ pc \notin {"load", "board"} => uuid = nv_caches["uuid"]

IInv == TypeOK /\ NothingUnsaved /\ Kept

\* What ota.cc:138-139 is for: CheckVersion looks at each string of the answer's
\* "mqtt" and sets those that are not what is stored, a new broker address for
\* one, so that the settings hold it and the client is started with it (if the
\* file could be opened).
NewBrokerIsStored ==
  answer["endpoint"] # None /\ ~failed =>
    /\ pc \in {"websocket", "start"} => GetString("endpoint") = answer["endpoint"]
    /\ pc = "running" => broker = answer["endpoint"]
=============================================================================

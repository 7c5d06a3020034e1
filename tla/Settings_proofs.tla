-------------------------- MODULE Settings_proofs --------------------------
(***************************************************************************)
(* Proofs about Settings, for any number of values and of exits.           *)
(***************************************************************************)
EXTENDS Settings, TLAPS

\* Setting strings gives settings again, and changes nothing that is there.
LEMMA SetStrKeeps ==
  ASSUME nv_caches \in Store, NEW K \in SUBSET Key, NEW f \in [K -> Nat]
  PROVE  /\ SetStr(f) \in Store
         /\ \A k \in Key : nv_caches[k] # None => SetStr(f)[k] = nv_caches[k]
         /\ (\A k \in K : f[k] \in {None, nv_caches[k]}) => SetStr(f) = nv_caches
<1>1. SetStr(f) \in Store
  BY DEF SetStr, Store
<1>2. \A k \in Key : nv_caches[k] # None => SetStr(f)[k] = nv_caches[k]
  BY DEF SetStr
<1>3. ASSUME \A k \in K : f[k] \in {None, nv_caches[k]}
      PROVE  SetStr(f) = nv_caches
  <2>1. \A k \in Key : SetStr(f)[k] = nv_caches[k]
    BY <1>3 DEF SetStr
  <2> QED BY <2>1 DEF SetStr, Store
<1> QED BY <1>1, <1>2, <1>3

\* Two stores that do not differ are one.
LEMMA SameStore ==
  ASSUME NEW f \in Store, NEW g \in Store, Differ(f, g) = {}
  PROVE  f = g
BY DEF Differ, Store

LEMMA InitIInv == Init => IInv
<1> SUFFICES ASSUME Init PROVE IInv
  OBVIOUS
<1>1. Empty \in Store
  BY DEF Empty, Store, None
<1>2. TypeOK
  <2>1. NoAnswer \in [ServerKey -> 0..MaxValue] /\ 0 \in 0..MaxExits
    BY BoundsAssumption DEF NoAnswer, None
  <2> QED BY <1>1, <2>1 DEF Init, TypeOK, PC, None
<1>3. NothingUnsaved /\ Kept
  BY DEF Init, NothingUnsaved, Kept
<1> QED BY <1>2, <1>3 DEF IInv

\* Reading the file at the start.
LEMMA LoadIInv == IInv /\ InitNvRam => IInv'
<1> SUFFICES ASSUME IInv, InitNvRam PROVE IInv'
  OBVIOUS
<1>1. nv_caches' \in Store /\ lost' \in BOOLEAN /\ failed' \in BOOLEAN
  BY DEF IInv, TypeOK, InitNvRam, Differ, Empty, Store, None
<1>2. TypeOK'
  BY <1>1 DEF IInv, TypeOK, InitNvRam, PC, run_vars
<1>3. NothingUnsaved'
  BY <1>1 DEF IInv, TypeOK, InitNvRam, NothingUnsaved
<1>4. Kept'
  <2>1. ~lost' => ~lost /\ nv_caches'["uuid"] = file["uuid"]
    BY DEF InitNvRam
  <2> QED BY <2>1 DEF IInv, InitNvRam, Kept, Current
<1> QED BY <1>2, <1>3, <1>4 DEF IInv

LEMMA CommitIInv == IInv /\ Commit => IInv'
<1> SUFFICES ASSUME IInv, Commit PROVE IInv'
  OBVIOUS
<1>0. pc \in {"commit", "write"} /\ pc' # "load" /\ pc' \in PC \ {"board"}
  BY DEF IInv, TypeOK, Commit, OpenForCommit, CommitFails, WriteLine,
     CommitDone, PC
<1>1. file' \in Store
  BY DEF IInv, TypeOK, Commit, OpenForCommit, CommitFails, WriteLine,
     CommitDone, Empty, Store, None
<1>2. /\ UNCHANGED <<nv_caches, next, generated, exits, run_vars, identity,
                     lost>>
      /\ failed' \in BOOLEAN
  BY DEF IInv, TypeOK, Commit, OpenForCommit, CommitFails, WriteLine,
     CommitDone, history
<1>3. TypeOK'
  BY <1>0, <1>1, <1>2 DEF IInv, TypeOK, run_vars
<1>4. NothingUnsaved'
  <2>1. CASE CommitDone
    <3>1. file = nv_caches
      BY <2>1, SameStore DEF CommitDone, Unwritten, IInv, TypeOK
    <3> QED BY <2>1, <3>1 DEF CommitDone, NothingUnsaved
  <2>2. CASE CommitFails
    BY <2>2 DEF CommitFails, NothingUnsaved
  <2>3. CASE OpenForCommit \/ WriteLine
    BY <2>3 DEF OpenForCommit, WriteLine, NothingUnsaved
  <2> QED BY <2>1, <2>2, <2>3 DEF Commit
<1>5. Kept'
  BY <1>0, <1>2 DEF IInv, Kept, Current, run_vars
<1> QED BY <1>3, <1>4, <1>5 DEF IInv

\* What a step of the start needs to keep of the settings it finds.
LEMMA StartStep ==
  ASSUME IInv, Start
  PROVE  /\ pc \notin {"load", "commit", "write"}
         /\ file' = file /\ failed' = failed
         /\ nv_caches' \in Store
         /\ \A k \in Key : nv_caches[k] # None => nv_caches'[k] = nv_caches[k]
         /\ nv_caches' # nv_caches => pc' = "commit"
<1> USE DEF IInv, TypeOK, GetString
<1>1. CASE Board
  <2> DEFINE f == [k \in {"uuid"} |-> uuid']
  <2>1. CASE nv_caches["uuid"] # None
    BY <1>1, <2>1 DEF Board, Destroy, history
  <2>2. CASE nv_caches["uuid"] = None
    <3>1. {"uuid"} \in SUBSET Key /\ f \in [{"uuid"} -> Nat]
      BY <1>1, <2>2 DEF Board, Key
    <3>2. /\ SetStr(f) \in Store
          /\ \A k \in Key : nv_caches[k] # None => SetStr(f)[k] = nv_caches[k]
      BY <3>1, SetStrKeeps
    <3> QED BY <1>1, <2>2, <3>2 DEF Board, Destroy, history
  <2> QED BY <2>1, <2>2
<1>2. CASE CheckVersion
  BY <1>2 DEF CheckVersion
<1>3. CASE StoreMqtt
  <2> DEFINE f == [k \in MqttKey |-> answer[k]]
  <2>1. MqttKey \in SUBSET Key /\ f \in [MqttKey -> Nat]
    BY DEF Key, ServerKey
  <2>2. /\ SetStr(f) \in Store
        /\ \A k \in Key : nv_caches[k] # None => SetStr(f)[k] = nv_caches[k]
        /\ (\A k \in MqttKey : f[k] \in {None, nv_caches[k]})
             => SetStr(f) = nv_caches
    BY <2>1, SetStrKeeps
  <2> QED BY <1>3, <2>2 DEF StoreMqtt, Destroy, history
<1>4. CASE StoreWebsocket
  <2> DEFINE f == [k \in {"url"} |-> answer[k]]
  <2>1. {"url"} \in SUBSET Key /\ f \in [{"url"} -> Nat]
    BY DEF Key, ServerKey
  <2>2. /\ SetStr(f) \in Store
        /\ \A k \in Key : nv_caches[k] # None => SetStr(f)[k] = nv_caches[k]
        /\ (\A k \in {"url"} : f[k] \in {None, nv_caches[k]})
             => SetStr(f) = nv_caches
    BY <2>1, SetStrKeeps
  <2> QED BY <1>4, <2>2 DEF StoreWebsocket, Destroy, history
<1>5. CASE StartMqttClient
  BY <1>5 DEF StartMqttClient, history
<1> QED BY <1>1, <1>2, <1>3, <1>4, <1>5 DEF Start

LEMMA StartIInv == IInv /\ Start => IInv'
<1> SUFFICES ASSUME IInv, Start PROVE IInv'
  OBVIOUS
<1> USE DEF GetString
<1>0. /\ pc \notin {"load", "commit", "write"}
      /\ file' = file /\ failed' = failed
      /\ nv_caches' \in Store
      /\ \A k \in Key : nv_caches[k] # None => nv_caches'[k] = nv_caches[k]
      /\ nv_caches' # nv_caches => pc' = "commit"
  BY StartStep
<1>1. NothingUnsaved'
  BY <1>0 DEF IInv, NothingUnsaved
<1>2. "uuid" \in Key /\ "endpoint" \in Key /\ "url" \in ServerKey
  BY DEF Key, ServerKey, MqttKey
<1>3. CASE Board
  <2>1. /\ uuid' \in Nat /\ generated' \in Nat /\ uuid' = nv_caches'["uuid"]
        /\ next' = "check" /\ pc' \in {"commit", "check"}
    BY <1>2, <1>3 DEF Board, Destroy, SetStr, IInv, TypeOK, Store
  <2>2. TypeOK'
    BY <1>0, <1>3, <2>1 DEF Board, history, IInv, TypeOK, PC
  <2>3. Kept'
    BY <1>0, <1>2, <1>3, <2>1 DEF Board, history, IInv, TypeOK, Kept, Current, None
  <2> QED BY <1>1, <2>2, <2>3 DEF IInv
<1>4. CASE CheckVersion
  <2>1. TypeOK'
    BY <1>0, <1>4 DEF CheckVersion, IInv, TypeOK, PC
  <2>2. Kept'
    BY <1>4 DEF CheckVersion, IInv, Kept, Current
  <2> QED BY <1>1, <2>1, <2>2 DEF IInv
<1>5. CASE StoreMqtt \/ StoreWebsocket
  <2>1. /\ pc' \in PC \ {"load", "board"} /\ next' \in {"websocket", "start"}
        /\ answer' \in [ServerKey -> 0..MaxValue]
        /\ pc \notin {"load", "board"}
        /\ UNCHANGED <<uuid, broker, generated, exits, history>>
    BY <1>5, BoundsAssumption DEF StoreMqtt, StoreWebsocket, Destroy, IInv,
       TypeOK, PC, NoAnswer, None, run_vars
  <2>2. TypeOK'
    BY <1>0, <2>1 DEF IInv, TypeOK, history
  <2>3. nv_caches'["uuid"] = nv_caches["uuid"]
    BY <1>2, <1>5 DEF StoreMqtt, StoreWebsocket, SetStr, MqttKey
  <2>4. Kept'
    BY <1>0, <1>2, <2>1, <2>3 DEF IInv, TypeOK, Kept, Current, None, history
  <2> QED BY <1>1, <2>2, <2>4 DEF IInv
<1>6. CASE StartMqttClient
  <2>1. TypeOK'
    BY <1>0, <1>2, <1>6 DEF StartMqttClient, IInv, TypeOK, PC, Store, history
  <2>2. Kept'
    BY <1>6 DEF StartMqttClient, IInv, Kept, Current, history
  <2> QED BY <1>1, <2>1, <2>2 DEF IInv
<1> QED BY <1>3, <1>4, <1>5, <1>6 DEF Start

LEMMA ExitIInv == IInv /\ Exit => IInv'
<1> SUFFICES ASSUME IInv, Exit PROVE IInv'
  OBVIOUS
<1>1. Empty \in Store /\ NoAnswer \in [ServerKey -> 0..MaxValue]
  BY BoundsAssumption DEF Empty, Store, NoAnswer, None
<1>2. exits' \in 0..MaxExits /\ lost' \in BOOLEAN
  BY BoundsAssumption DEF Exit, IInv, TypeOK
<1>3. TypeOK'
  BY <1>1, <1>2 DEF Exit, IInv, TypeOK, PC, None
<1>4. NothingUnsaved'
  BY DEF Exit, NothingUnsaved
<1>5. Kept'
  <2>1. "uuid" \in Key
    BY DEF Key
  <2>2. ~lost' => ~lost /\ nv_caches["uuid"] = file["uuid"]
    BY <2>1 DEF Exit, Unwritten, Differ
  <2> QED BY <2>1, <2>2 DEF IInv, Exit, Kept, Current
<1> QED BY <1>3, <1>4, <1>5 DEF IInv

LEMMA NextIInv == IInv /\ [Next]_vars => IInv'
<1>1. IInv /\ UNCHANGED vars => IInv'
  BY DEF vars, run_vars, history, IInv, TypeOK, NothingUnsaved, Kept, Current
<1> QED BY <1>1, LoadIInv, CommitIInv, StartIInv, ExitIInv DEF Next

\* IInv is invariant: what is on disk, and what is remembered of the past.
THEOREM Invariance == Spec => []IInv
BY InitIInv, NextIInv, PTL DEF Spec

\* Every variable keeps its type.
THEOREM TypeCorrect == Spec => []TypeOK
<1>1. IInv => TypeOK
  BY DEF IInv
<1> QED BY <1>1, Invariance, PTL

\* Between commits the file holds what is in memory.
THEOREM FileIsCurrent == Spec => []NothingUnsaved
<1>1. IInv => NothingUnsaved
  BY DEF IInv
<1> QED BY <1>1, Invariance, PTL

\* The identity the server sees changes only after its line was lost.
THEOREM IdentityStays == Spec => IdentityKept
<1>1. IInv /\ [Next]_vars =>
        [identity' # identity => identity = None \/ lost]_vars
  <2> SUFFICES ASSUME IInv, Next, identity' # identity
               PROVE  identity = None \/ lost
    OBVIOUS
  <2>1. CheckVersion
    BY DEF Next, InitNvRam, Commit, OpenForCommit, CommitFails, WriteLine,
       CommitDone, Start, Board, StoreMqtt, StoreWebsocket, StartMqttClient,
       Exit, history
  <2> QED BY <2>1 DEF CheckVersion, IInv, Kept, Current
<1> QED BY <1>1, Invariance, PTL DEF Spec, IdentityKept
=============================================================================

-------------------------- MODULE ServiceHostProofs --------------------------
(*****************************************************************************)
(* Proofs about ServiceHost for any number of processes, starts and objects: *)
(* one service, one PeerId, one signing key, endpoints that reach the node   *)
(* and a complete store.                                                     *)
(* And about StagedUpload, which adds the uploads of desktops to it, for any *)
(* number of uploads of any size: what is sent of an upload is a whole file  *)
(* of its own, and its steps are steps of ServiceHost or leave the processes *)
(* alone, so the theorems about these hold with uploads too.                 *)
(*****************************************************************************)
EXTENDS StagedUpload, TLAPS

(* The steps of a process.                                                   *)
AnyStep == {"off", "config", "lock", "key", "truncate", "write", "open", "identity", "create",
            "fill", "genesis", "run", "report", "closing"}

(* The steps a process of each kind can be at.                               *)
OfKind(s, k) ==
  /\ s \in AnyStep /\ k \in {"none", "daemon", "foreground", "status"}
  /\ k = "none" <=> s = "off"
  /\ s = "report" => k = "status"
  /\ k = "status" => s \in {"config", "genesis", "key", "truncate", "write", "open", "report"}

(* The steps between which nothing but this process works on the identity.   *)
IdentitySteps == {"identity", "create", "fill", "run"}

(* p has taken the lock.                                                     *)
Locked(p) ==
  \/ pc[p] \in IdentitySteps
  \/ kind[p] = "daemon" /\ pc[p] \in {"key", "truncate", "write", "open", "genesis"}

(* p has a transport key.                                                    *)
HasKey(p) == pc[p] = "run" \/ (kind[p] = "daemon" /\ pc[p] = "genesis")

(* The type of the state.                                                    *)
HostTypeOK ==
  /\ pc \in [Proc -> AnyStep]
  /\ kind \in [Proc -> {"daemon", "foreground", "status", "none"}]
  /\ \A p \in Proc : OfKind(pc[p], kind[p])
  /\ idfile \in Nat \cup {Torn} /\ keys \in Nat
  /\ ident \in [Proc -> Int]
  /\ loaded \in [Proc -> SUBSET Obj]
  /\ disk \subseteq Obj
  /\ endpoint \in [Channel -> Proc \cup {"absent", "stale"}]
  /\ ipc \in [Proc -> [Channel -> {"off", "remove", "bind", "accept", "failed"}]]

(* The lock is held by the process that took it.                             *)
LockExact == \A p \in Proc : Locked(p) => lock = p

(* The IPC servers are tasks of a process that runs or shuts down.           *)
IpcRuns == \A p \in Proc : ipc[p] # NoIpc => pc[p] \in {"run", "closing"}

(* A process past the lock is alone unless an overlap was recorded.          *)
ClosedBefore ==
  ~overlap => \A p, q \in Proc : Locked(p) => pc[q] # "closing"

(* What the identity file holds while a process is between the steps of      *)
(* load_or_create_identity, and once a service has been announced.           *)
IdentityExact ==
  /\ \A p \in Proc :
       /\ pc[p] = "create" => idfile = Absent /\ ident[p] > 0
       /\ pc[p] = "fill" => idfile = Torn /\ ident[p] > 0
       /\ HasKey(p) => ident[p] = idfile /\ idfile > 0
  /\ \A k \in announced : k = idfile /\ idfile > 0

(* A daemon that has opened the store is the only one to append.             *)
StoreExact ==
  ~overlap => \A p \in Proc :
    kind[p] = "daemon" /\ pc[p] \in IdentitySteps \cup {"genesis"} => disk \subseteq loaded[p]

(* The inductive invariant.                                                  *)
HostInv ==
  /\ HostTypeOK /\ LockExact /\ IpcRuns /\ ClosedBefore
  /\ IdentityExact /\ StoreExact /\ EndpointReaches

-------------------------------------------------------------------------------
(* Before the first start there is no process, no file and no endpoint.      *)
LEMMA HostInitInv == HostInit => HostInv
<1> SUFFICES ASSUME HostInit PROVE HostInv
  OBVIOUS
<1>1. HostTypeOK
  <2>1. \A p \in Proc : OfKind(pc[p], kind[p])
    BY DEF HostInit, OfKind, AnyStep
  <2>2. NoIpc \in [Channel -> {"off", "remove", "bind", "accept", "failed"}]
    BY DEF NoIpc
  <2>3. idfile \in Nat \cup {Torn} /\ keys \in Nat /\ ident \in [Proc -> Int]
    BY DEF HostInit, Absent
  <2> QED BY <2>1, <2>2, <2>3 DEF HostInit, HostTypeOK, AnyStep
<1>2. LockExact /\ IpcRuns /\ ClosedBefore
  BY DEF HostInit, LockExact, Locked, IdentitySteps, IpcRuns, ClosedBefore
<1>3. IdentityExact
  BY DEF HostInit, IdentityExact, HasKey
<1>4. StoreExact
  BY DEF HostInit, StoreExact
<1>5. EndpointReaches
  BY DEF HostInit, EndpointReaches, NoIpc, Channel
<1> QED BY <1>1, <1>2, <1>3, <1>4, <1>5 DEF HostInv

(* Two processes past the lock are one.                                      *)
LEMMA OneLocked ==
  ASSUME LockExact, NEW p \in Proc, NEW q \in Proc, Locked(p), Locked(q)
  PROVE  p = q
BY DEF LockExact

(* No process but p moves, and p neither starts to shut down nor takes the   *)
(* lock.                                                                     *)
LEMMA ClosedKept ==
  ASSUME HostInv, NEW p \in Proc, pc'[p] # "closing", Locked(p)' => Locked(p),
         \A q \in Proc : q # p => pc'[q] = pc[q] /\ kind'[q] = kind[q],
         UNCHANGED overlap
  PROVE  ClosedBefore'
BY DEF HostInv, ClosedBefore, Locked

(* p has no IPC server before it runs.                                       *)
LEMMA EndpointsKept ==
  ASSUME HostInv, NEW p \in Proc, pc[p] \notin {"run", "closing"},
         \A q \in Proc : q # p => pc'[q] = pc[q],
         UNCHANGED <<endpoint, ipc>>, overlap => overlap'
  PROVE  EndpointReaches'
<1>1. \A c \in Channel : ipc[p][c] # "accept"
  BY DEF HostInv, IpcRuns, NoIpc
<1> QED BY <1>1 DEF HostInv, EndpointReaches, Running

(* A step of p that only moves its program counter, takes no lock it did not *)
(* have and changes nothing else.                                            *)
LEMMA GotoInv ==
  ASSUME HostInv, NEW p \in Proc, NEW s \in AnyStep, OfKind(s, kind[p]), Goto(p, s),
         pc[p] \notin {"run", "closing"}, s \notin {"create", "fill", "closing"},
         Locked(p)' => Locked(p),
         HasKey(p)' => HasKey(p),
         ~overlap /\ kind[p] = "daemon" /\ s \in IdentitySteps \cup {"genesis"}
           => disk \subseteq loaded[p],
         keys' \in Nat,
         UNCHANGED <<kind, lock, idfile, ident, loaded, disk, endpoint, ipc, announced, overlap>>
  PROVE  HostInv'
<1>1. pc' = [pc EXCEPT ![p] = s] /\ pc \in [Proc -> AnyStep]
  BY DEF Goto, HostInv, HostTypeOK
<1>2. HostTypeOK'
  BY <1>1 DEF HostInv, HostTypeOK, OfKind, AnyStep
<1>3. LockExact'
  BY <1>1 DEF HostInv, LockExact, Locked
<1>4. IpcRuns'
  BY <1>1 DEF HostInv, IpcRuns, NoIpc
<1>5. IdentityExact'
  BY <1>1 DEF HostInv, IdentityExact, HasKey
<1>6. StoreExact'
  BY <1>1 DEF HostInv, StoreExact, IdentitySteps
<1>7. pc'[p] = s /\ \A q \in Proc : q # p => pc'[q] = pc[q] /\ kind'[q] = kind[q]
  BY <1>1
<1>8. ClosedBefore'
  BY <1>7, ClosedKept
<1>9. EndpointReaches'
  BY <1>7, EndpointsKept
<1> QED BY <1>2, <1>3, <1>4, <1>5, <1>6, <1>8, <1>9 DEF HostInv

-------------------------------------------------------------------------------
(* A process starts: it has no lock and no key.                              *)
LEMMA StartInv ==
  ASSUME HostInv, NEW p \in Proc, NEW k \in Kinds, Start(p, k)
  PROVE  HostInv'
<1>1. /\ pc' = [pc EXCEPT ![p] = "config"] /\ kind' = [kind EXCEPT ![p] = k]
      /\ pc[p] = "off"
      /\ UNCHANGED <<lock, idfile, keys, ident, loaded, disk, endpoint, ipc, announced, overlap>>
  BY DEF Start, Goto, files, memory
<1>2. k \in {"daemon", "foreground", "status"}
  BY HostBounds
<1>3. HostTypeOK'
  BY <1>1, <1>2 DEF HostInv, HostTypeOK, OfKind, AnyStep
<1>4. \A q \in Proc : q # p => pc'[q] = pc[q] /\ kind'[q] = kind[q]
  BY <1>1 DEF HostInv, HostTypeOK
<1>5. pc'[p] = "config"
  BY <1>1 DEF HostInv, HostTypeOK
<1>6. LockExact'
  BY <1>1, <1>4, <1>5 DEF HostInv, LockExact, Locked, IdentitySteps
<1>7. IpcRuns'
  BY <1>1, <1>4, <1>5 DEF HostInv, IpcRuns, NoIpc
<1>8. IdentityExact'
  BY <1>1, <1>4, <1>5 DEF HostInv, IdentityExact, HasKey
<1>9. StoreExact'
  BY <1>1, <1>4, <1>5 DEF HostInv, StoreExact, IdentitySteps
<1>10. ClosedBefore'
  <2>1. ~Locked(p)'
    BY <1>5 DEF Locked, IdentitySteps
  <2> QED BY <1>1, <1>4, <1>5, <2>1, ClosedKept
<1>11. EndpointReaches'
  BY <1>1, <1>4, EndpointsKept
<1> QED BY <1>3, <1>6, <1>7, <1>8, <1>9, <1>10, <1>11 DEF HostInv

(* What follows the configuration and the Genesis.                           *)
LEMMA ReadConfigNext ==
  ASSUME HostInv, NEW p \in Proc, ReadConfig(p)
  PROVE  LET s == Order[kind[p]][pc[p]] IN
           \/ kind[p] = "daemon" /\ pc[p] = "config" /\ s = "lock"
           \/ kind[p] = "daemon" /\ pc[p] = "genesis" /\ s = "run"
           \/ kind[p] \in {"foreground", "status"} /\ pc[p] = "config" /\ s = "genesis"
           \/ kind[p] \in {"foreground", "status"} /\ pc[p] = "genesis" /\ s = "key"
<1>1. pc[p] \in {"config", "genesis"}
  BY DEF ReadConfig
<1>2. kind[p] \in {"daemon", "foreground", "status"}
  BY <1>1 DEF HostInv, HostTypeOK, OfKind
<1>3. /\ Order["daemon"]["config"] = "lock" /\ Order["daemon"]["genesis"] = "run"
      /\ Order["foreground"]["config"] = "genesis" /\ Order["foreground"]["genesis"] = "key"
      /\ Order["status"]["config"] = "genesis" /\ Order["status"]["genesis"] = "key"
  BY DEF Order
<1> QED BY <1>1, <1>2, <1>3

(* Configuration and Genesis are read.                                       *)
LEMMA ReadConfigInv == ASSUME HostInv, NEW p \in Proc, ReadConfig(p) PROVE HostInv'
<1> DEFINE s == Order[kind[p]][pc[p]]
<1>1. Goto(p, s) /\ pc[p] \in {"config", "genesis"}
  BY DEF ReadConfig, Advance
<1>2. UNCHANGED <<kind, lock, idfile, keys, ident, loaded, disk, endpoint, ipc, announced, overlap>>
  BY DEF ReadConfig, files, memory
<1>3. /\ OfKind(pc[p], kind[p]) /\ kind[p] \in {"daemon", "foreground", "status", "none"}
      /\ keys' \in Nat
  BY <1>2 DEF HostInv, HostTypeOK
<1>4. pc'[p] = s
  BY <1>1 DEF Goto, HostInv, HostTypeOK
<1>5. \/ kind[p] = "daemon" /\ pc[p] = "config" /\ s = "lock"
      \/ kind[p] = "daemon" /\ pc[p] = "genesis" /\ s = "run"
      \/ kind[p] \in {"foreground", "status"} /\ pc[p] = "config" /\ s = "genesis"
      \/ kind[p] \in {"foreground", "status"} /\ pc[p] = "genesis" /\ s = "key"
  BY ReadConfigNext
<1> HIDE DEF s
<1>6. s \in AnyStep /\ OfKind(s, kind[p]) /\ s \notin {"create", "fill", "closing"}
  BY <1>5 DEF OfKind, AnyStep
<1>7. (Locked(p)' => Locked(p)) /\ (HasKey(p)' => HasKey(p))
  BY <1>2, <1>4, <1>5 DEF Locked, HasKey, IdentitySteps
<1>8. ~overlap /\ kind[p] = "daemon" /\ s \in IdentitySteps \cup {"genesis"}
        => disk \subseteq loaded[p]
  BY <1>5 DEF IdentitySteps, HostInv, StoreExact
<1> QED BY <1>1, <1>2, <1>3, <1>6, <1>7, <1>8, GotoInv

(* What follows the lock and the identity.                                   *)
LEMMA OrderTable ==
  /\ Order["daemon"]["lock"] = "key" /\ Order["foreground"]["lock"] = "identity"
  /\ Order["daemon"]["identity"] = "genesis" /\ Order["foreground"]["identity"] = "run"
  /\ Order["daemon"]["open"] = "identity" /\ Order["foreground"]["open"] = "lock"
  /\ Order["status"]["open"] = "report"
BY DEF Order

(* The lock is taken when nobody holds it.                                   *)
LEMMA LockInv == ASSUME HostInv, NEW p \in Proc, acquire_instance_lock(p) PROVE HostInv'
<1> DEFINE s == Order[kind[p]]["lock"]
<1>1. pc' = [pc EXCEPT ![p] = s] /\ pc[p] = "lock" /\ lock = "none" /\ lock' = p
  BY DEF acquire_instance_lock, Advance, Goto
<1>2. UNCHANGED <<kind, idfile, keys, ident, loaded, disk, endpoint, ipc, announced>>
  BY DEF acquire_instance_lock, memory
<1>3. (kind[p] = "daemon" /\ s = "key") \/ (kind[p] = "foreground" /\ s = "identity")
  <2>1. kind[p] = "daemon" \/ kind[p] = "foreground"
    BY <1>1 DEF HostInv, HostTypeOK, OfKind
  <2> QED BY <2>1, OrderTable
<1> HIDE DEF s
<1>4. \A q \in Proc : ~Locked(q)
  BY <1>1, HostBounds DEF HostInv, LockExact
<1>5. pc'[p] = s /\ \A q \in Proc : q # p => pc'[q] = pc[q]
  BY <1>1 DEF HostInv, HostTypeOK
<1>6. HostTypeOK'
  BY <1>1, <1>2, <1>3 DEF HostInv, HostTypeOK, OfKind, AnyStep
<1>7. LockExact'
  BY <1>1, <1>2, <1>4, <1>5 DEF LockExact, Locked
<1>8. IpcRuns'
  BY <1>1, <1>2, <1>5 DEF HostInv, IpcRuns, NoIpc
<1>9. IdentityExact'
  BY <1>2, <1>3, <1>5 DEF HostInv, IdentityExact, HasKey
<1>10. overlap' = (overlap \/ \E q \in Proc : Closing(q))
  BY DEF acquire_instance_lock
<1>11. (overlap => overlap') /\ (~overlap' => \A q \in Proc : pc[q] # "closing")
  BY <1>10, Zenon DEF Closing
<1>12. StoreExact'
  <2>1. s = "identity" => kind[p] # "daemon"
    BY <1>3
  <2> QED BY <1>2, <1>3, <1>5, <1>11, <2>1 DEF HostInv, StoreExact, IdentitySteps
<1>13. ClosedBefore'
  BY <1>3, <1>5, <1>11 DEF ClosedBefore
<1>14. EndpointReaches'
  BY <1>1, <1>2, <1>5, <1>11, EndpointsKept
<1> QED BY <1>6, <1>7, <1>8, <1>9, <1>12, <1>13, <1>14 DEF HostInv

(* node.key is read or made; the lock is not needed for it.                  *)
LEMMA NodeKeyInv ==
  ASSUME HostInv, NEW p \in Proc, ReadNodeKey(p) \/ WriteNodeKey(p) PROVE HostInv'
<1>1. PICK s \in {"truncate", "write", "open"} : Goto(p, s)
  BY DEF ReadNodeKey, WriteNodeKey
<1>2. /\ pc[p] \in {"key", "truncate", "write"}
      /\ UNCHANGED <<kind, lock, idfile, ident, loaded, disk, endpoint, ipc, announced, overlap>>
  BY DEF ReadNodeKey, WriteNodeKey, files, memory
<1>3. keys' \in Nat
  BY DEF ReadNodeKey, WriteNodeKey, HostInv, HostTypeOK
<1>4. pc'[p] = s
  BY <1>1 DEF Goto, HostInv, HostTypeOK
<1>5. s \in AnyStep /\ OfKind(s, kind[p])
  BY <1>2 DEF HostInv, HostTypeOK, OfKind, AnyStep
<1>6. (Locked(p)' => Locked(p)) /\ (HasKey(p)' => HasKey(p))
  BY <1>2, <1>4 DEF Locked, HasKey, IdentitySteps
<1> QED BY <1>1, <1>2, <1>3, <1>5, <1>6, GotoInv DEF IdentitySteps

(* The store is opened: a daemon sees all of it.                             *)
LEMMA OpenInv == ASSUME HostInv, NEW p \in Proc, OpenStore(p) PROVE HostInv'
<1> DEFINE s == Order[kind[p]]["open"]
<1>1. /\ pc' = [pc EXCEPT ![p] = s] /\ pc[p] = "open"
      /\ loaded' = [loaded EXCEPT ![p] = disk]
      /\ UNCHANGED <<kind, lock, idfile, keys, ident, disk, endpoint, ipc, announced, overlap>>
  BY DEF OpenStore, Advance, Goto, files
<1>2. \/ kind[p] = "daemon" /\ s = "identity"
      \/ kind[p] = "foreground" /\ s = "lock"
      \/ kind[p] = "status" /\ s = "report"
  <2>1. kind[p] \in {"daemon", "foreground", "status"}
    BY <1>1 DEF HostInv, HostTypeOK, OfKind
  <2>2. /\ Order["daemon"]["open"] = "identity" /\ Order["foreground"]["open"] = "lock"
        /\ Order["status"]["open"] = "report"
    BY DEF Order
  <2> QED BY <2>1, <2>2
<1> HIDE DEF s
<1>3. /\ pc'[p] = s /\ loaded'[p] = disk
      /\ \A q \in Proc : q # p => pc'[q] = pc[q] /\ loaded'[q] = loaded[q]
  BY <1>1 DEF HostInv, HostTypeOK
<1>4. HostTypeOK'
  BY <1>1, <1>2 DEF HostInv, HostTypeOK, OfKind, AnyStep
<1>5. LockExact'
  BY <1>1, <1>2, <1>3 DEF HostInv, LockExact, Locked, IdentitySteps
<1>6. IpcRuns'
  BY <1>1, <1>3 DEF HostInv, IpcRuns, NoIpc
<1>7. IdentityExact'
  BY <1>1, <1>2, <1>3 DEF HostInv, IdentityExact, HasKey
<1>8. StoreExact'
  BY <1>1, <1>3 DEF HostInv, StoreExact
<1>9. ClosedBefore'
  <2>1. pc'[p] # "closing" /\ (Locked(p)' => Locked(p))
    BY <1>1, <1>2, <1>3 DEF Locked, IdentitySteps
  <2> QED BY <1>1, <1>3, <2>1, ClosedKept
<1>10. EndpointReaches'
  BY <1>1, <1>3, EndpointsKept
<1> QED BY <1>4, <1>5, <1>6, <1>7, <1>8, <1>9, <1>10 DEF HostInv

-------------------------------------------------------------------------------
(* What a step of load_or_create_identity has to establish: only the holder  *)
(* of the lock takes one, so no other process is between two of them, and no *)
(* other has a key.                                                          *)
LEMMA IdentityStepInv ==
  ASSUME HostInv, NEW p \in Proc, pc[p] \in {"identity", "create", "fill"},
         NEW s \in AnyStep, OfKind(s, kind[p]), s \in IdentitySteps \cup {"genesis"},
         s = "genesis" => kind[p] = "daemon",
         pc' = [pc EXCEPT ![p] = s], NEW i \in Int, ident' = [ident EXCEPT ![p] = i],
         keys' \in Nat, idfile' \in Nat \cup {Torn},
         s = "create" => idfile' = Absent /\ i > 0,
         s = "fill" => idfile' = Torn /\ i > 0,
         s \in {"genesis", "run"} => i = idfile' /\ i > 0,
         idfile' = idfile \/ announced = {},
         UNCHANGED <<kind, lock, loaded, disk, endpoint, ipc, announced, overlap>>
  PROVE  HostInv'
<1>1. Locked(p) /\ \A q \in Proc : q # p => ~Locked(q)
  BY DEF HostInv, LockExact, Locked, IdentitySteps
<1>2. /\ pc'[p] = s /\ ident'[p] = i
      /\ \A q \in Proc : q # p => pc'[q] = pc[q] /\ ident'[q] = ident[q]
  BY DEF HostInv, HostTypeOK
<1>3. HostTypeOK'
  BY <1>2 DEF HostInv, HostTypeOK
<1>4. LockExact'
  BY <1>1, <1>2 DEF HostInv, LockExact, Locked, IdentitySteps
<1>5. IpcRuns'
  BY <1>2 DEF HostInv, IpcRuns, NoIpc
<1>6. IdentityExact'
  <2>1. \A q \in Proc : q # p => ~HasKey(q)' /\ pc'[q] \notin {"create", "fill"}
    BY <1>1, <1>2 DEF Locked, HasKey, IdentitySteps
  <2>2. HasKey(p)' => s \in {"genesis", "run"}
    BY <1>2 DEF HasKey
  <2>3. \A k \in announced' : k = idfile' /\ idfile' > 0
    BY DEF HostInv, IdentityExact
  <2> QED BY <1>2, <2>1, <2>2, <2>3 DEF IdentityExact
<1>7. StoreExact'
  BY <1>2 DEF HostInv, StoreExact, IdentitySteps
<1>8. ClosedBefore'
  <2>1. pc'[p] # "closing"
    BY <1>2 DEF IdentitySteps
  <2> QED BY <1>1, <1>2, <2>1, ClosedKept
<1>9. EndpointReaches'
  BY <1>2, EndpointsKept
<1> QED BY <1>3, <1>4, <1>5, <1>6, <1>7, <1>8, <1>9 DEF HostInv

(* The identity is loaded, or made, created and filled.                      *)
LEMMA IdentityInv ==
  ASSUME HostInv, NEW p \in Proc, ReadIdentity(p) \/ CreateIdentity(p) \/ FillIdentity(p)
  PROVE  HostInv'
<1> DEFINE s == Order[kind[p]]["identity"]
<1>1. pc[p] \in {"identity", "create", "fill"}
  BY DEF ReadIdentity, CreateIdentity, FillIdentity
<1>2. (kind[p] = "daemon" /\ s = "genesis") \/ (kind[p] = "foreground" /\ s = "run")
  <2>1. kind[p] = "daemon" \/ kind[p] = "foreground"
    BY <1>1 DEF HostInv, HostTypeOK, OfKind
  <2> QED BY <2>1, OrderTable
<1>3. \A x \in IdentitySteps \cup {"genesis"} : x \in AnyStep /\ OfKind(x, kind[p])
  BY <1>2 DEF IdentitySteps, AnyStep, OfKind
<1>4. UNCHANGED <<kind, lock, loaded, disk, endpoint, ipc, announced, overlap>>
  BY DEF ReadIdentity, CreateIdentity, FillIdentity, files, memory
<1>5. /\ idfile \in Nat \cup {Torn} /\ keys \in Nat /\ ident \in [Proc -> Int]
      /\ idfile \in {Absent, Torn} => announced = {}
  BY DEF HostInv, HostTypeOK, IdentityExact, Absent, Torn
<1> HIDE DEF s
<1>6. CASE ReadIdentity(p) /\ idfile = Absent
  <2>1. /\ pc' = [pc EXCEPT ![p] = "create"] /\ ident' = [ident EXCEPT ![p] = keys + 1]
        /\ keys' = keys + 1 /\ idfile' = idfile
    BY <1>6 DEF ReadIdentity, Goto, files
  <2>2. "create" \in AnyStep /\ OfKind("create", kind[p]) /\ "create" \in IdentitySteps
    BY <1>3 DEF IdentitySteps
  <2>3. keys + 1 \in Int /\ keys + 1 > 0 /\ keys' \in Nat
    BY <1>5, <2>1
  <2> QED BY <1>1, <1>4, <1>5, <1>6, <2>1, <2>2, <2>3, IdentityStepInv
<1>7. CASE ReadIdentity(p) /\ idfile # Absent
  <2>1. /\ pc' = [pc EXCEPT ![p] = s] /\ ident' = [ident EXCEPT ![p] = idfile]
        /\ keys' = keys /\ idfile' = idfile /\ idfile # Torn
    BY <1>7 DEF ReadIdentity, GotIdentity, Advance, Goto, files, s
  <2>2. idfile \in Int /\ idfile > 0
    BY <1>5, <1>7, <2>1 DEF Absent, Torn
  <2>3. s \in AnyStep /\ OfKind(s, kind[p]) /\ s \in IdentitySteps \cup {"genesis"}
    BY <1>2, <1>3 DEF IdentitySteps
  <2> QED BY <1>1, <1>2, <1>4, <1>5, <2>1, <2>2, <2>3, IdentityStepInv
<1>8. CASE CreateIdentity(p)
  <2>1. /\ pc' = [pc EXCEPT ![p] = "fill"] /\ ident' = [ident EXCEPT ![p] = ident[p]]
        /\ keys' = keys /\ idfile' = Torn /\ pc[p] = "create"
    BY <1>5, <1>8 DEF CreateIdentity, Goto, memory
  <2>2. idfile = Absent /\ ident[p] > 0 /\ ident[p] \in Int
    BY <1>5, <2>1 DEF HostInv, IdentityExact
  <2>3. "fill" \in AnyStep /\ OfKind("fill", kind[p]) /\ "fill" \in IdentitySteps
    BY <1>3 DEF IdentitySteps
  <2> QED BY <1>1, <1>4, <1>5, <2>1, <2>2, <2>3, IdentityStepInv
<1>9. CASE FillIdentity(p)
  <2>1. /\ pc' = [pc EXCEPT ![p] = s] /\ ident' = [ident EXCEPT ![p] = ident[p]]
        /\ keys' = keys /\ idfile' = ident[p] /\ pc[p] = "fill"
    BY <1>5, <1>9 DEF FillIdentity, Advance, Goto, memory, s
  <2>2. idfile = Torn /\ ident[p] > 0 /\ ident[p] \in Int
    BY <1>5, <2>1 DEF HostInv, IdentityExact
  <2>3. s \in AnyStep /\ OfKind(s, kind[p]) /\ s \in IdentitySteps \cup {"genesis"}
    BY <1>2, <1>3 DEF IdentitySteps
  <2>4. idfile' \in Nat /\ keys' \in Nat /\ announced = {}
    BY <1>5, <2>1, <2>2
  <2> QED BY <1>1, <1>2, <1>4, <2>1, <2>2, <2>3, <2>4, IdentityStepInv
<1> QED BY <1>6, <1>7, <1>8, <1>9

-------------------------------------------------------------------------------
(* A step of the IPC servers of p.  If p runs, no other process does; if it  *)
(* shuts down, one that runs took the lock meanwhile.                        *)
LEMMA IpcStepInv ==
  ASSUME HostInv, NEW p \in Proc, pc[p] \in {"run", "closing"},
         NEW f \in [Channel -> {"off", "remove", "bind", "accept", "failed"}],
         ipc' = [ipc EXCEPT ![p] = f],
         endpoint' \in [Channel -> Proc \cup {"absent", "stale"}],
         pc[p] = "run" => \A c \in Channel : f[c] = "accept" => endpoint'[c] = p \/ overlap,
         \A k \in announced' : k = idfile /\ idfile > 0,
         UNCHANGED <<pc, kind, lock, idfile, keys, ident, loaded, disk, overlap>>
  PROVE  HostInv'
<1>1. ipc'[p] = f /\ \A q \in Proc : q # p => ipc'[q] = ipc[q]
  BY DEF HostInv, HostTypeOK
<1>2. HostTypeOK'
  BY DEF HostInv, HostTypeOK
<1>3. LockExact' /\ ClosedBefore'
  BY DEF HostInv, LockExact, Locked, ClosedBefore
<1>4. IpcRuns'
  BY <1>1 DEF HostInv, IpcRuns, NoIpc
<1>5. IdentityExact'
  BY DEF HostInv, IdentityExact, HasKey
<1>6. StoreExact'
  BY DEF HostInv, StoreExact
<1>7. EndpointReaches'
  <2> SUFFICES ASSUME NEW q \in Proc, NEW c \in Channel, pc[q] = "run", ipc'[q][c] = "accept",
                      ~overlap
               PROVE  endpoint'[c] = q
    BY DEF EndpointReaches, Running
  <2>1. Locked(q)
    BY DEF Locked, IdentitySteps
  <2>2. pc[p] = "run"
    BY <2>1 DEF HostInv, ClosedBefore
  <2>3. Locked(p)
    BY <2>2 DEF Locked, IdentitySteps
  <2>4. q = p
    BY <2>1, <2>3, OneLocked DEF HostInv
  <2> QED BY <1>1, <2>2, <2>4
<1> QED BY <1>2, <1>3, <1>4, <1>5, <1>6, <1>7 DEF HostInv

(* The endpoints of p are gone and nobody else's.                            *)
LEMMA ClosedShape ==
  ASSUME HostInv, NEW p \in Proc
  PROVE  /\ Closed(p) \in [Channel -> Proc \cup {"absent", "stale"}]
         /\ \A c \in Channel : endpoint[c] # p => Closed(p)[c] = endpoint[c]
BY DEF Closed, HostInv, HostTypeOK

(* The transport key is announced and the IPC servers start.                 *)
LEMMA SpawnInv == ASSUME HostInv, NEW p \in Proc, Spawn(p) PROVE HostInv'
<1> DEFINE f == [c \in Channel |-> IF unix THEN "remove" ELSE "bind"]
<1>1. /\ pc[p] = "run" /\ ipc' = [ipc EXCEPT ![p] = f]
      /\ announced' = announced \cup {ident[p]}
      /\ UNCHANGED <<pc, kind, lock, idfile, keys, ident, loaded, disk, endpoint, overlap>>
  BY DEF Spawn, Running, files
<1>2. /\ f \in [Channel -> {"off", "remove", "bind", "accept", "failed"}]
      /\ \A c \in Channel : f[c] # "accept"
  OBVIOUS
<1> HIDE DEF f
<1>3. \A k \in announced' : k = idfile /\ idfile > 0
  BY <1>1 DEF HostInv, IdentityExact, HasKey
<1>4. endpoint' \in [Channel -> Proc \cup {"absent", "stale"}]
  BY <1>1 DEF HostInv, HostTypeOK
<1> QED BY <1>1, <1>2, <1>3, <1>4, IpcStepInv

(* A socket is removed, an endpoint bound, or both are given up.             *)
LEMMA EndpointInv ==
  ASSUME HostInv, NEW p \in Proc, NEW c \in Channel,
         RemoveSocket(p, c) \/ Bind(p, c) \/ IpcFails(p, c)
  PROVE  HostInv'
<1>1. UNCHANGED <<pc, kind, lock, idfile, keys, ident, loaded, disk, announced, overlap>>
  BY DEF RemoveSocket, Bind, IpcFails
<1>2. ipc[p][c] # "off"
  BY DEF RemoveSocket, Bind, IpcFails
<1>3. pc[p] \in {"run", "closing"}
  BY <1>2 DEF HostInv, IpcRuns, NoIpc
<1>4. \A k \in announced' : k = idfile /\ idfile > 0
  BY <1>1 DEF HostInv, IdentityExact
<1>5. /\ ipc[p] \in [Channel -> {"off", "remove", "bind", "accept", "failed"}]
      /\ endpoint \in [Channel -> Proc \cup {"absent", "stale"}]
      /\ pc[p] = "run" => \A d \in Channel : ipc[p][d] = "accept" => endpoint[d] = p \/ overlap
  BY DEF HostInv, HostTypeOK, EndpointReaches, Running
<1>6. CASE RemoveSocket(p, c)
  <2> DEFINE f == [ipc[p] EXCEPT ![c] = "bind"]
  <2>1. /\ ipc' = [ipc EXCEPT ![p] = f] /\ ipc[p][c] = "remove"
        /\ endpoint' = endpoint \/ endpoint' = [endpoint EXCEPT ![c] = "absent"]
    BY <1>6 DEF RemoveSocket
  <2>2. /\ f \in [Channel -> {"off", "remove", "bind", "accept", "failed"}]
        /\ endpoint' \in [Channel -> Proc \cup {"absent", "stale"}]
        /\ pc[p] = "run" => \A d \in Channel : f[d] = "accept" => endpoint'[d] = p \/ overlap
    BY <1>5, <2>1
  <2> HIDE DEF f
  <2> QED BY <1>1, <1>3, <1>4, <2>1, <2>2, IpcStepInv
<1>7. CASE Bind(p, c)
  <2> DEFINE f == [ipc[p] EXCEPT ![c] = "accept"]
  <2>1. ipc' = [ipc EXCEPT ![p] = f] /\ endpoint' = [endpoint EXCEPT ![c] = p]
    BY <1>7 DEF Bind
  <2>2. /\ f \in [Channel -> {"off", "remove", "bind", "accept", "failed"}]
        /\ endpoint' \in [Channel -> Proc \cup {"absent", "stale"}]
        /\ pc[p] = "run" => \A d \in Channel : f[d] = "accept" => endpoint'[d] = p \/ overlap
    BY <1>5, <2>1
  <2> HIDE DEF f
  <2> QED BY <1>1, <1>3, <1>4, <2>1, <2>2, IpcStepInv
<1>8. CASE IpcFails(p, c)
  <2> DEFINE f == [d \in Channel |-> "failed"]
  <2>1. ipc' = [ipc EXCEPT ![p] = f] /\ endpoint' = Closed(p)
    BY <1>8 DEF IpcFails
  <2>2. /\ f \in [Channel -> {"off", "remove", "bind", "accept", "failed"}]
        /\ \A d \in Channel : f[d] # "accept"
    OBVIOUS
  <2>3. endpoint' \in [Channel -> Proc \cup {"absent", "stale"}]
    BY <2>1, ClosedShape
  <2> HIDE DEF f
  <2> QED BY <1>1, <1>3, <1>4, <2>1, <2>2, <2>3, IpcStepInv
<1> QED BY <1>6, <1>7, <1>8

(* An object is appended: by the process that runs, which keeps it, or by    *)
(* one that shuts down, with no other past the lock or an overlap recorded.  *)
LEMMA AppendInv ==
  ASSUME HostInv, NEW p \in Proc, NEW o \in Obj, AppendEvent(p, o) PROVE HostInv'
<1>1. /\ pc[p] \in {"run", "closing"} /\ disk' = disk \cup {o}
      /\ loaded' = [loaded EXCEPT ![p] = loaded[p] \cup {o}]
      /\ UNCHANGED <<pc, kind, lock, idfile, keys, ident, endpoint, ipc, announced, overlap>>
  BY DEF AppendEvent, Running, Closing
<1>2. HostTypeOK'
  BY <1>1 DEF HostInv, HostTypeOK
<1>3. StoreExact'
  <2> SUFFICES ASSUME NEW q \in Proc, ~overlap, kind[q] = "daemon",
                      pc[q] \in IdentitySteps \cup {"genesis"}
               PROVE  disk' \subseteq loaded'[q]
    BY <1>1 DEF StoreExact
  <2>1. Locked(q)
    BY DEF Locked, IdentitySteps
  <2>2. pc[p] = "run"
    BY <1>1, <2>1 DEF HostInv, ClosedBefore
  <2>3. Locked(p)
    BY <2>2 DEF Locked, IdentitySteps
  <2>4. q = p
    BY <2>1, <2>3, OneLocked DEF HostInv
  <2>5. disk \subseteq loaded[p] /\ loaded'[p] = loaded[p] \cup {o}
    BY <1>1, <2>4 DEF HostInv, StoreExact, HostTypeOK
  <2> QED BY <1>1, <2>4, <2>5
<1> QED BY <1>1, <1>2, <1>3
        DEF HostInv, LockExact, Locked, IpcRuns, ClosedBefore, IdentityExact, HasKey,
            EndpointReaches, Running

(* The node of a process returns: its lock is free while its tasks go on, so *)
(* no process is past the lock.                                              *)
LEMMA ReturnInv == ASSUME HostInv, NEW p \in Proc, Return(p) PROVE HostInv'
<1>1. /\ pc[p] = "run" /\ pc' = [pc EXCEPT ![p] = "closing"]
      /\ UNCHANGED <<kind, idfile, keys, ident, loaded, disk, endpoint, ipc, announced, overlap>>
  BY DEF Return, Running, Goto, memory
<1>2. pc'[p] = "closing" /\ \A q \in Proc : q # p => pc'[q] = pc[q]
  BY <1>1 DEF HostInv, HostTypeOK
<1>3. Locked(p)
  BY <1>1 DEF Locked, IdentitySteps
<1>4. \A q \in Proc : ~Locked(q)'
  <2> SUFFICES ASSUME NEW q \in Proc, Locked(q)' PROVE FALSE
    OBVIOUS
  <2>1. q # p
    BY <1>2 DEF Locked, IdentitySteps
  <2>2. Locked(q)
    BY <1>1, <1>2, <2>1 DEF Locked
  <2> QED BY <1>3, <2>1, <2>2, OneLocked DEF HostInv
<1>5. HostTypeOK'
  BY <1>1 DEF HostInv, HostTypeOK, OfKind, AnyStep
<1>6. LockExact' /\ ClosedBefore'
  BY <1>4 DEF LockExact, ClosedBefore
<1>7. IpcRuns'
  BY <1>1, <1>2, SMTT(30), ZenonT(20) DEF HostInv, IpcRuns, NoIpc
<1>8. IdentityExact'
  BY <1>1, <1>2, SMTT(30), ZenonT(20) DEF HostInv, IdentityExact, HasKey
<1>9. StoreExact'
  BY <1>1, <1>2, SMTT(30), ZenonT(20) DEF HostInv, StoreExact, IdentitySteps
<1>10. EndpointReaches'
  BY <1>1, <1>2 DEF HostInv, EndpointReaches, Running
<1> QED BY <1>5, <1>6, <1>7, <1>8, <1>9, <1>10 DEF HostInv

(* A process ends: its lock is free, and what the files hold stays.          *)
LEMMA ExitInv == ASSUME HostInv, NEW p \in Proc, Exit(p) PROVE HostInv'
<1>1. /\ pc' = [pc EXCEPT ![p] = "off"] /\ kind' = [kind EXCEPT ![p] = "none"]
      /\ lock' = (IF lock = p THEN "none" ELSE lock)
      /\ ident' = [ident EXCEPT ![p] = Absent] /\ loaded' = [loaded EXCEPT ![p] = {}]
      /\ ipc' = [ipc EXCEPT ![p] = NoIpc] /\ endpoint' = Closed(p)
      /\ UNCHANGED <<idfile, keys, disk, announced, overlap>>
  BY DEF Exit, Goto
<1>2. /\ pc'[p] = "off" /\ kind'[p] = "none" /\ ipc'[p] = NoIpc
      /\ \A q \in Proc : q # p => /\ pc'[q] = pc[q] /\ kind'[q] = kind[q]
                                  /\ ident'[q] = ident[q] /\ loaded'[q] = loaded[q]
                                  /\ ipc'[q] = ipc[q]
  BY <1>1 DEF HostInv, HostTypeOK
<1>3. /\ NoIpc \in [Channel -> {"off", "remove", "bind", "accept", "failed"}]
      /\ \A c \in Channel : NoIpc[c] # "accept"
      /\ Absent \in Int
  BY DEF NoIpc, Absent
<1>4. HostTypeOK'
  <2>1. OfKind("off", "none") /\ "off" \in AnyStep
    BY DEF OfKind, AnyStep
  <2> QED BY <1>1, <1>2, <1>3, <2>1, ClosedShape DEF HostInv, HostTypeOK
<1>5. LockExact'
  <2>1. ~Locked(p)'
    BY <1>2 DEF Locked, IdentitySteps
  <2>2. ASSUME NEW q \in Proc, q # p, Locked(q)' PROVE lock' = q
    <3>1. Locked(q)
      BY <1>2, <2>2 DEF Locked
    <3>2. lock = q
      BY <3>1 DEF HostInv, LockExact
    <3> QED BY <1>1, <2>2, <3>2
  <2> QED BY <2>1, <2>2 DEF LockExact
<1>6. IpcRuns'
  BY <1>2 DEF HostInv, IpcRuns
<1>7. IdentityExact'
  <2>1. IdentityExact /\ UNCHANGED <<idfile, announced>>
    BY <1>1 DEF HostInv
  <2>2. pc'[p] # "create" /\ pc'[p] # "fill" /\ ~HasKey(p)'
    BY <1>2 DEF HasKey
  <2>3. \A q \in Proc : q # p => (HasKey(q)' => HasKey(q))
    BY <1>2 DEF HasKey
  <2> QED BY <1>2, <2>1, <2>2, <2>3 DEF IdentityExact
<1>8. StoreExact'
  BY <1>1, <1>2, SMTT(30), ZenonT(20) DEF HostInv, StoreExact, IdentitySteps
<1>9. EndpointReaches'
  <2> SUFFICES ASSUME NEW q \in Proc, NEW c \in Channel, Running(q)', ipc'[q][c] = "accept"
               PROVE  endpoint'[c] = q \/ overlap'
    BY DEF EndpointReaches
  <2>1. q # p
    BY <1>2, <1>3
  <2>2. endpoint[c] = q \/ overlap
    BY <1>2, <2>1 DEF HostInv, EndpointReaches, Running
  <2>3. endpoint[c] # p => endpoint'[c] = endpoint[c]
    BY <1>1, ClosedShape
  <2> QED BY <1>1, <2>1, <2>2, <2>3
<1>10. ClosedBefore'
  BY <1>1, <1>2, ClosedKept DEF Locked, IdentitySteps
<1> QED BY <1>4, <1>5, <1>6, <1>7, <1>8, <1>9, <1>10 DEF HostInv

-------------------------------------------------------------------------------
(* Every step of every process keeps the invariant.                          *)
LEMMA HostStepInv == HostInv /\ [HostNext]_hostVars => HostInv'
<1> SUFFICES ASSUME HostInv, [HostNext]_hostVars PROVE HostInv'
  OBVIOUS
<1>1. CASE UNCHANGED hostVars
  BY <1>1 DEF hostVars, HostInv, HostTypeOK, LockExact, Locked, IpcRuns, IdentityExact, HasKey,
              ClosedBefore, StoreExact, EndpointReaches, Running
<1>2. ASSUME NEW p \in Proc, HostStep(p) PROVE HostInv'
  <2>1. ASSUME NEW k \in Kinds, Start(p, k) PROVE HostInv'
    BY <2>1, StartInv
  <2>2. ASSUME NEW o \in Obj, AppendEvent(p, o) PROVE HostInv'
    BY <2>2, AppendInv
  <2>3. ASSUME NEW c \in Channel, RemoveSocket(p, c) \/ Bind(p, c) \/ IpcFails(p, c)
        PROVE  HostInv'
    BY <2>3, EndpointInv
  <2>4. CASE ReadConfig(p)
    BY <2>4, ReadConfigInv
  <2>5. CASE acquire_instance_lock(p)
    BY <2>5, LockInv
  <2>6. CASE ReadNodeKey(p) \/ WriteNodeKey(p)
    BY <2>6, NodeKeyInv
  <2>7. CASE OpenStore(p)
    BY <2>7, OpenInv
  <2>8. CASE ReadIdentity(p) \/ CreateIdentity(p) \/ FillIdentity(p)
    BY <2>8, IdentityInv
  <2>9. CASE Spawn(p)
    BY <2>9, SpawnInv
  <2> QED BY <1>2, <2>1, <2>2, <2>3, <2>4, <2>5, <2>6, <2>7, <2>8, <2>9 DEF HostStep, Work
<1>3. ASSUME NEW p \in Proc, Exit(p) PROVE HostInv'
  BY <1>3, ExitInv
<1>4. ASSUME NEW p \in Proc, Return(p) PROVE HostInv'
  BY <1>4, ReturnInv
<1> QED BY <1>1, <1>2, <1>3, <1>4 DEF HostNext

(* The invariant of the processes started for one configuration path.        *)
THEOREM HostInvariant == HostSpec => []HostInv
BY HostInitInv, HostStepInv, PTL DEF HostSpec

(* At most one process runs the node: only a process past the lock does, and *)
(* it keeps the lock until the node has returned.                            *)
THEOREM OneServiceRuns == HostSpec => []OneService
<1>1. HostInv => OneService
  BY OneLocked DEF HostInv, OneService, Running, Locked, IdentitySteps
<1> QED BY <1>1, HostInvariant, PTL

(* All services that ever run announce one transport key: the identity file  *)
(* is made under the lock, and a torn one stops every later start.           *)
THEOREM OnePeerIdForEver == HostSpec => []OnePeerId
<1>1. HostInv => OnePeerId
  BY DEF HostInv, IdentityExact, OnePeerId
<1> QED BY <1>1, HostInvariant, PTL

(* An accepting IPC server of a running service is reached under its name: a *)
(* socket is removed only by the one process that runs, or by one that was   *)
(* shutting down when the lock was taken.                                    *)
THEOREM EndpointsReach == HostSpec => []EndpointReaches
<1>1. HostInv => EndpointReaches
  BY DEF HostInv
<1> QED BY <1>1, HostInvariant, PTL

(* A daemon that runs has the whole store in its event graph: it opens the   *)
(* store under the lock, and only the running process appends, or one that   *)
(* was shutting down when the lock was taken.                                *)
THEOREM DaemonsSeeStore == HostSpec => []DaemonSeesStore
<1>1. HostInv => DaemonSeesStore
  BY DEF HostInv, StoreExact, DaemonSeesStore, Running, IdentitySteps
<1> QED BY <1>1, HostInvariant, PTL

-------------------------------------------------------------------------------
(* The steps at which a process has the key its engine will sign with.       *)
HasSigner(p) ==
  \/ pc[p] \in IdentitySteps \cup {"open"}
  \/ kind[p] = "daemon" /\ pc[p] = "genesis"
  \/ kind[p] = "foreground" /\ pc[p] = "lock"

(* What node.key holds while a process makes it, once one has its key and    *)
(* once a service has signed, as long as its writes succeed and are made     *)
(* under the lock.                                                           *)
SignerExact ==
  /\ \A p \in Proc :
       /\ pc[p] \in {"truncate", "write"} => lock = p /\ signer[p] > 0 /\ nodekey =< 0
       /\ HasSigner(p) => nodekey > 0 /\ signer[p] = nodekey
  /\ \A k \in signed : k = nodekey /\ nodekey > 0

(* The inductive invariant of the signing keys.                              *)
SignerType == nodekey \in Nat \cup {Torn} /\ signer \in [Proc -> Nat]
SignerInv == SignerType /\ (~unkept => SignerExact)

(* A step of p that writes neither node.key nor a key of its engine, nor     *)
(* brings p to a step at which it needs one.                                 *)
LEMMA SignerKept ==
  ASSUME SignerInv, NEW p \in Proc,
         UNCHANGED <<nodekey, signer, signed, unkept>>,
         \A q \in Proc : q # p => pc'[q] = pc[q] /\ kind'[q] = kind[q],
         pc'[p] \notin {"truncate", "write"}, HasSigner(p)' => HasSigner(p),
         \A q \in Proc : q # p /\ pc[q] \in {"truncate", "write"} /\ lock = q => lock' = q
  PROVE  SignerInv'
<1>1. SignerExact => SignerExact'
  BY DEF SignerExact, HasSigner
<1> QED BY <1>1 DEF SignerInv, SignerType

(* The key is read, or made and written.                                     *)
LEMMA SignerMade ==
  ASSUME HostInv, SignerInv, NEW p \in Proc, ReadNodeKey(p) \/ WriteNodeKey(p)
  PROVE  SignerInv'
<1>0. /\ pc \in [Proc -> AnyStep] /\ keys \in Nat
      /\ nodekey \in Nat \cup {Torn} /\ signer \in [Proc -> Nat]
  BY DEF HostInv, HostTypeOK, SignerInv, SignerType
<1>1. /\ UNCHANGED <<lock, kind, signed>>
      /\ \A q \in Proc : q # p => pc'[q] = pc[q] /\ signer'[q] = signer[q]
      /\ SignerType'
  <2>1. CASE ReadNodeKey(p)
    BY <1>0, <2>1 DEF ReadNodeKey, Goto, files, SignerType, Absent
  <2>2. CASE WriteNodeKey(p)
    BY <1>0, <2>2 DEF WriteNodeKey, Goto, memory, SignerType
  <2> QED BY <2>1, <2>2
<1>2. \A q \in Proc : q # p => (HasSigner(q)' <=> HasSigner(q))
  BY <1>1 DEF HasSigner
<1>3. ASSUME ReadNodeKey(p), nodekey \in {Absent, Torn}, ~unkept' PROVE SignerExact'
  <2>1. unkept' = (unkept \/ lock # p)
    BY <1>3 DEF ReadNodeKey
  <2>2. lock = p /\ SignerExact
    BY <1>3, <2>1, Zenon DEF SignerInv
  <2>3. nodekey' = nodekey /\ pc'[p] = "truncate" /\ signer'[p] = keys + 1
    BY <1>0, <1>3 DEF ReadNodeKey, Goto, files
  <2>4. nodekey =< 0 /\ signer'[p] > 0
    <3>1. nodekey =< 0
      BY <1>3 DEF Absent, Torn
    <3>2. signer'[p] > 0
      BY <1>0, <2>3
    <3> QED BY <3>1, <3>2
  <2>5. ~HasSigner(p)'
    BY <2>3 DEF HasSigner, IdentitySteps
  <2>6. \A k \in signed' : k = nodekey' /\ nodekey' > 0
    BY <1>1, <2>2, <2>3 DEF SignerExact
  <2>7. \A q \in Proc : q # p =>
          /\ pc'[q] \in {"truncate", "write"} => lock' = q /\ signer'[q] > 0 /\ nodekey' =< 0
          /\ HasSigner(q)' => nodekey' > 0 /\ signer'[q] = nodekey'
    BY <1>1, <1>2, <2>2, <2>3 DEF SignerExact
  <2> QED BY <1>1, <2>2, <2>3, <2>4, <2>5, <2>6, <2>7 DEF SignerExact
<1>4. ASSUME ReadNodeKey(p), nodekey \notin {Absent, Torn}, ~unkept' PROVE SignerExact'
  <2>1. unkept' = unkept
    BY <1>4 DEF ReadNodeKey
  <2>2. SignerExact
    BY <1>4, <2>1, Zenon DEF SignerInv
  <2>3. nodekey > 0
    BY <1>0, <1>4 DEF Absent
  <2>4. nodekey' = nodekey /\ pc'[p] = "open" /\ signer'[p] = nodekey
    BY <1>0, <1>4 DEF ReadNodeKey, Goto, files
  <2> QED BY <1>1, <1>2, <2>2, <2>3, <2>4 DEF SignerExact
<1>5. ASSUME WriteNodeKey(p), ~unkept' PROVE SignerExact'
  <2>1. unkept' = TRUE \/ unkept' = unkept
    BY <1>5 DEF WriteNodeKey
  <2>2. SignerExact
    BY <1>5, <2>1, Zenon DEF SignerInv
  <2>3. pc[p] \in {"truncate", "write"} /\ signer' = signer
    BY <1>5 DEF WriteNodeKey, memory
  <2>4. \/ pc'[p] = "write" /\ nodekey' = Torn
        \/ pc'[p] = "open" /\ nodekey' = signer[p]
    BY <1>0, <1>5 DEF WriteNodeKey, Goto
  <2>5. lock = p /\ signer[p] > 0 /\ nodekey =< 0
    BY <2>2, <2>3 DEF SignerExact
  <2>6. /\ \A k \in signed : FALSE
        /\ \A q \in Proc : ~HasSigner(q)
        /\ \A q \in Proc : q # p => pc[q] \notin {"truncate", "write"}
    BY <1>0, <2>2, <2>5 DEF SignerExact, Torn
  <2>7. pc'[p] = "write" => ~HasSigner(p)'
    BY DEF HasSigner, IdentitySteps
  <2>8. /\ \A k \in signed' : FALSE
        /\ \A q \in Proc : q # p => pc'[q] \notin {"truncate", "write"} /\ ~HasSigner(q)'
    BY <1>1, <1>2, <2>6
  <2>9. CASE pc'[p] = "write" /\ nodekey' = Torn
    <3>1. nodekey' =< 0
      BY <2>9 DEF Torn
    <3> QED BY <1>1, <2>3, <2>5, <2>7, <2>8, <2>9, <3>1 DEF SignerExact
  <2>10. CASE pc'[p] = "open" /\ nodekey' = signer[p]
    BY <2>3, <2>5, <2>8, <2>10 DEF SignerExact
  <2> QED BY <2>4, <2>9, <2>10
<1> QED BY <1>1, <1>3, <1>4, <1>5 DEF SignerInv

(* Every other step leaves node.key alone.                                   *)
LEMMA SignerStepInv == HostInv /\ SignerInv /\ [HostNext]_hostVars => SignerInv'
<1> SUFFICES ASSUME HostInv, SignerInv, [HostNext]_hostVars PROVE SignerInv'
  OBVIOUS
<1>1. CASE UNCHANGED hostVars
  BY <1>1 DEF hostVars, SignerInv, SignerType, SignerExact, HasSigner
<1>2. ASSUME NEW p \in Proc, NEW k \in Kinds, Start(p, k) PROVE SignerInv'
  BY <1>2, SignerKept
     DEF Start, Goto, Kept, files, memory, HostInv, HostTypeOK, HasSigner, IdentitySteps
<1>3. ASSUME NEW p \in Proc, ReadConfig(p) PROVE SignerInv'
  <2>1. /\ UNCHANGED <<nodekey, signer, signed, unkept, lock, kind>>
        /\ pc'[p] = Order[kind[p]][pc[p]] /\ \A q \in Proc : q # p => pc'[q] = pc[q]
    BY <1>3 DEF ReadConfig, Advance, Goto, Kept, files, memory, HostInv, HostTypeOK
  <2>2. pc'[p] \notin {"truncate", "write"} /\ (HasSigner(p)' => HasSigner(p))
    BY <1>3, <2>1, ReadConfigNext DEF HasSigner, IdentitySteps
  <2> QED BY <2>1, <2>2, SignerKept
<1>4. ASSUME NEW p \in Proc, acquire_instance_lock(p) PROVE SignerInv'
  <2>1. /\ UNCHANGED <<nodekey, signer, signed, unkept, kind>> /\ lock = "none" /\ pc[p] = "lock"
        /\ pc'[p] = Order[kind[p]]["lock"] /\ \A q \in Proc : q # p => pc'[q] = pc[q]
    BY <1>4 DEF acquire_instance_lock, Advance, Goto, Kept, memory, HostInv, HostTypeOK
  <2>2. kind[p] = "daemon" \/ kind[p] = "foreground"
    BY <2>1 DEF HostInv, HostTypeOK, OfKind
  <2>3. pc'[p] \notin {"truncate", "write"} /\ (HasSigner(p)' => HasSigner(p))
    BY <2>1, <2>2, OrderTable DEF HasSigner, IdentitySteps
  <2>4. \A q \in Proc : lock # q
    BY <2>1, HostBounds
  <2> QED BY <2>1, <2>3, <2>4, SignerKept
<1>5. ASSUME NEW p \in Proc, OpenStore(p) PROVE SignerInv'
  <2>1. /\ UNCHANGED <<nodekey, signer, signed, unkept, lock, kind>> /\ pc[p] = "open"
        /\ pc'[p] = Order[kind[p]]["open"] /\ \A q \in Proc : q # p => pc'[q] = pc[q]
    BY <1>5 DEF OpenStore, Advance, Goto, Kept, files, HostInv, HostTypeOK
  <2>2. kind[p] \in {"daemon", "foreground", "status"}
    BY <2>1 DEF HostInv, HostTypeOK, OfKind
  <2>3. pc'[p] \in {"identity", "lock", "report"}
    BY <2>1, <2>2, OrderTable
  <2>4. HasSigner(p)
    BY <2>1 DEF HasSigner
  <2> QED BY <2>1, <2>3, <2>4, SignerKept
<1>6. ASSUME NEW p \in Proc, ReadIdentity(p) \/ CreateIdentity(p) \/ FillIdentity(p)
      PROVE  SignerInv'
  <2>1. /\ UNCHANGED <<nodekey, signer, signed, unkept, lock, kind>>
        /\ pc[p] \in {"identity", "create", "fill"}
        /\ pc'[p] \in {"create", "fill", Order[kind[p]]["identity"]}
        /\ \A q \in Proc : q # p => pc'[q] = pc[q]
    BY <1>6 DEF ReadIdentity, CreateIdentity, FillIdentity, GotIdentity, Advance, Goto, Kept,
                files, memory, HostInv, HostTypeOK
  <2>2. kind[p] = "daemon" \/ kind[p] = "foreground"
    BY <2>1 DEF HostInv, HostTypeOK, OfKind
  <2>3. pc'[p] \notin {"truncate", "write"}
    BY <2>1, <2>2, OrderTable
  <2>4. HasSigner(p)
    BY <2>1 DEF HasSigner, IdentitySteps
  <2> QED BY <2>1, <2>3, <2>4, SignerKept
<1>7. ASSUME NEW p \in Proc, Spawn(p) PROVE SignerInv'
  <2>1. /\ UNCHANGED <<nodekey, signer, unkept, lock, kind, pc>> /\ pc[p] = "run"
        /\ signed' = signed \cup {signer[p]}
    BY <1>7 DEF Spawn, Running, files
  <2>2. HasSigner(p)
    BY <2>1 DEF HasSigner, IdentitySteps
  <2>3. SignerExact => SignerExact'
    BY <2>1, <2>2 DEF SignerExact, HasSigner
  <2> QED BY <2>1, <2>3 DEF SignerInv, SignerType
<1>8. ASSUME NEW p \in Proc, NEW c \in Channel, RemoveSocket(p, c) \/ Bind(p, c) \/ IpcFails(p, c)
      PROVE  SignerInv'
  <2>1. UNCHANGED <<nodekey, signer, signed, unkept, lock, kind, pc>>
    BY <1>8 DEF RemoveSocket, Bind, IpcFails, Kept
  <2> QED BY <2>1 DEF SignerInv, SignerType, SignerExact, HasSigner
<1>9. ASSUME NEW p \in Proc, NEW o \in Obj, AppendEvent(p, o) PROVE SignerInv'
  <2>1. UNCHANGED <<nodekey, signer, signed, unkept, lock, kind, pc>>
    BY <1>9 DEF AppendEvent, Kept
  <2> QED BY <2>1 DEF SignerInv, SignerType, SignerExact, HasSigner
<1>10. ASSUME NEW p \in Proc, Return(p) PROVE SignerInv'
  <2>1. /\ UNCHANGED <<nodekey, signer, signed, unkept, kind>> /\ pc[p] = "run"
        /\ pc'[p] = "closing" /\ \A q \in Proc : q # p => pc'[q] = pc[q]
    BY <1>10 DEF Return, Running, Goto, Kept, memory, HostInv, HostTypeOK
  <2>2. lock = p
    BY <2>1 DEF HostInv, LockExact, Locked, IdentitySteps
  <2>3. ~HasSigner(p)'
    BY <2>1 DEF HasSigner, IdentitySteps
  <2> QED BY <2>1, <2>2, <2>3, SignerKept
<1>11. ASSUME NEW p \in Proc, Exit(p) PROVE SignerInv'
  <2>1. /\ UNCHANGED <<nodekey, signed, unkept>> /\ lock' = (IF lock = p THEN "none" ELSE lock)
        /\ pc'[p] = "off" /\ signer' \in [Proc -> Nat]
        /\ \A q \in Proc : q # p => /\ pc'[q] = pc[q] /\ kind'[q] = kind[q]
                                    /\ signer'[q] = signer[q]
    BY <1>11 DEF Exit, Goto, Kept, HostInv, HostTypeOK, SignerInv, SignerType, Absent
  <2>2. /\ ~HasSigner(p)'
        /\ \A q \in Proc : q # p => (HasSigner(q)' <=> HasSigner(q))
    BY <2>1 DEF HasSigner, IdentitySteps
  <2>3. SignerExact => SignerExact'
    BY <2>1, <2>2 DEF SignerExact
  <2> QED BY <2>1, <2>3 DEF SignerInv, SignerType
<1> QED
  BY <1>1, <1>2, <1>3, <1>4, <1>5, <1>6, <1>7, <1>8, <1>9, <1>10, <1>11, SignerMade
     DEF HostNext, HostStep, Work

(* All services that ever run sign with one key: node.key is made under the  *)
(* lock, and a torn one is replaced before anyone signs.  The exceptions are *)
(* those of OneSigner.                                                       *)
THEOREM OneSignerForEver == HostSpec => []OneSigner
<1>1. HostInit => SignerInv
  BY DEF HostInit, SignerInv, SignerType, SignerExact, HasSigner, IdentitySteps, Absent
<1>2. SignerInv => OneSigner
  BY DEF SignerInv, SignerExact, OneSigner
<1> QED BY <1>1, <1>2, SignerStepInv, HostInvariant, PTL DEF HostSpec

-------------------------------------------------------------------------------
(* The steps of a desktop with an upload ...                                 *)
ClientPhase == {"new", "staged", "waiting", "sent", "error", "gone"}
(* ... and of the handler of its request.                                    *)
RequestPhase == {"none", "ticket", "check", "copy", "rename", "unlink", "command", "answer",
                 "sent", "failed"}

(* The type of the state.                                                    *)
UploadTypeOK ==
  /\ client \in [Upload -> ClientPhase]
  /\ request \in [Upload -> RequestPhase]
  /\ staged \in [Upload -> 0 .. MaxSize + 1]
  /\ part \in [Upload -> 0 .. MaxSize]
  /\ private \in [Upload -> 0 .. MaxSize]
  /\ record \in [Upload -> {"none", "queued", "kept"}]
  /\ delivered \in [Upload -> BOOLEAN]

(* Where the bytes of an upload are at each step of its handler.             *)
BytesSafe(u) ==
  /\ client[u] \in {"new", "staged"} => request[u] = "none"
  /\ client[u] = "staged" => staged[u] > 0
  /\ client[u] = "waiting" => staged[u] > 0 \/ private[u] > 0
  /\ request[u] \in {"ticket", "check", "copy", "rename", "unlink"} =>
       client[u] \in {"waiting", "gone"} /\ (request[u] = "unlink" \/ staged[u] > 0)
  /\ request[u] = "rename" => part[u] > 0
  /\ \/ request[u] \in {"unlink", "command", "answer", "sent"}
     \/ record[u] # "none"
     \/ delivered[u]
     => private[u] > 0

(* The inductive invariant.                                                  *)
UploadInv == UploadTypeOK /\ \A u \in Upload : BytesSafe(u)

(* Nothing changes for the uploads other than u.                             *)
OthersKept(u) ==
  \A v \in Upload \ {u} :
    /\ client'[v] = client[v] /\ request'[v] = request[v]
    /\ staged'[v] = staged[v] /\ part'[v] = part[v] /\ private'[v] = private[v]
    /\ record'[v] = record[v] /\ delivered'[v] = delivered[v]

(* So a step of one upload needs a look at that one only.                    *)
LEMMA OtherUploads ==
  ASSUME UploadInv, UploadTypeOK', NEW u \in Upload, BytesSafe(u)', OthersKept(u)
  PROVE  UploadInv'
<1>1. ASSUME NEW v \in Upload \ {u} PROVE BytesSafe(v)'
  <2>1. BytesSafe(v)
    BY DEF UploadInv
  <2>2. /\ client'[v] = client[v] /\ request'[v] = request[v]
        /\ staged'[v] = staged[v] /\ part'[v] = part[v] /\ private'[v] = private[v]
        /\ record'[v] = record[v] /\ delivered'[v] = delivered[v]
    BY DEF OthersKept
  <2> QED
    BY <2>1, <2>2 DEF BytesSafe
<1> QED
  BY <1>1 DEF UploadInv

(* The steps of the desktop keep it,                                         *)
LEMMA ClientStepInv ==
  ASSUME UploadInv, NEW u \in Upload, ClientStep(u)
  PROVE  UploadInv'
<1>0. UploadTypeOK /\ BytesSafe(u) /\ MaxSize \in Nat
  BY UploadBounds DEF UploadInv
<1>1. CASE Stage(u)
  <2>1. PICK n \in Size, whole \in BOOLEAN :
          /\ staged' = [staged EXCEPT ![u] = n]
          /\ client' = [client EXCEPT ![u] = IF whole THEN "staged" ELSE "error"]
    BY <1>1 DEF Stage
  <2>2. n \in 0 .. MaxSize + 1 /\ n > 0
    BY <1>0 DEF Size
  <2>3. UNCHANGED <<request, part, private, record, delivered>> /\ client[u] = "new"
    BY <1>1 DEF Stage
  <2>4. UploadTypeOK'
    BY <1>0, <2>1, <2>2, <2>3 DEF UploadTypeOK, ClientPhase
  <2>5. BytesSafe(u)'
    BY <1>0, <2>1, <2>2, <2>3 DEF UploadTypeOK, BytesSafe
  <2>6. OthersKept(u)
    BY <1>0, <2>1, <2>3 DEF UploadTypeOK, OthersKept
  <2> QED
    BY <2>4, <2>5, <2>6, OtherUploads
<1>2. CASE Grow(u)
  <2>1. UploadTypeOK'
    BY <1>0, <1>2 DEF Grow, UploadTypeOK, ClientPhase, RequestPhase
  <2>2. BytesSafe(u)'
    <3>1. /\ staged[u] \in 1 .. MaxSize /\ staged'[u] = staged[u] + 1
          /\ UNCHANGED <<client, request, part, private, record, delivered>>
      BY <1>0, <1>2 DEF Grow, UploadTypeOK
    <3>2. \A n \in 1 .. MaxSize : n + 1 > 0
      BY <1>0
    <3>3. staged'[u] > 0
      BY <3>1, <3>2
    <3> QED BY <1>0, <3>1, <3>3 DEF BytesSafe
  <2>3. OthersKept(u)
    BY <1>0, <1>2 DEF Grow, UploadTypeOK, OthersKept
  <2> QED
    BY <2>1, <2>2, <2>3, OtherUploads
<1>3. CASE Ask(u)
  <2>1. UploadTypeOK'
    BY <1>0, <1>3 DEF Ask, TellError, UploadTypeOK, ClientPhase, RequestPhase
  <2>2. BytesSafe(u)'
    BY <1>0, <1>3 DEF Ask, TellError, UploadTypeOK, BytesSafe
  <2>3. OthersKept(u)
    BY <1>0, <1>3 DEF Ask, TellError, UploadTypeOK, OthersKept
  <2> QED
    BY <2>1, <2>2, <2>3, OtherUploads
<1>4. CASE TakeAnswer(u)
  <2>1. UploadTypeOK'
    BY <1>0, <1>4 DEF TakeAnswer, TellError, UploadTypeOK, ClientPhase, RequestPhase
  <2>2. BytesSafe(u)'
    BY <1>0, <1>4 DEF TakeAnswer, TellError, UploadTypeOK, BytesSafe
  <2>3. OthersKept(u)
    BY <1>0, <1>4 DEF TakeAnswer, TellError, UploadTypeOK, OthersKept
  <2> QED
    BY <2>1, <2>2, <2>3, OtherUploads
<1>5. CASE ClientGone(u)
  <2>1. UploadTypeOK'
    BY <1>0, <1>5 DEF ClientGone, UploadTypeOK, ClientPhase, RequestPhase
  <2>2. BytesSafe(u)'
    BY <1>0, <1>5 DEF ClientGone, UploadTypeOK, BytesSafe
  <2>3. OthersKept(u)
    BY <1>0, <1>5 DEF ClientGone, UploadTypeOK, OthersKept
  <2> QED
    BY <2>1, <2>2, <2>3, OtherUploads
<1> QED
  BY <1>1, <1>2, <1>3, <1>4, <1>5 DEF ClientStep

(* the steps of the handler,                                                 *)
LEMMA HandlerStepInv ==
  ASSUME UploadInv, NEW u \in Upload, HandlerStep(u) \/ QueueSend(u) \/ Deliver(u)
  PROVE  UploadInv'
<1>0. UploadTypeOK /\ BytesSafe(u) /\ MaxSize \in Nat /\ MaxSize > 0
  BY UploadBounds DEF UploadInv
<1>1. CASE CheckTicket(u)
  <2>1. UploadTypeOK'
    BY <1>0, <1>1 DEF CheckTicket, At, Proceed, Fails, UploadTypeOK, ClientPhase, RequestPhase
  <2>2. BytesSafe(u)'
    BY <1>0, <1>1 DEF CheckTicket, At, Proceed, Fails, UploadTypeOK, BytesSafe
  <2>3. OthersKept(u)
    BY <1>0, <1>1 DEF CheckTicket, At, Proceed, Fails, UploadTypeOK, OthersKept
  <2> QED
    BY <2>1, <2>2, <2>3, OtherUploads
<1>2. CASE CheckStaged(u)
  <2>1. UploadTypeOK'
    BY <1>0, <1>2 DEF CheckStaged, At, Proceed, Fails, UploadTypeOK, ClientPhase, RequestPhase
  <2>2. BytesSafe(u)'
    BY <1>0, <1>2 DEF CheckStaged, At, Proceed, Fails, UploadTypeOK, BytesSafe
  <2>3. OthersKept(u)
    BY <1>0, <1>2 DEF CheckStaged, At, Proceed, Fails, UploadTypeOK, OthersKept
  <2> QED
    BY <2>1, <2>2, <2>3, OtherUploads
<1>3. CASE CopyStaged(u)
  <2>1. UploadTypeOK'
    BY <1>0, <1>3 DEF CopyStaged, At, Proceed, Fails, UploadTypeOK, ClientPhase, RequestPhase
  <2>2. BytesSafe(u)'
    BY <1>0, <1>3 DEF CopyStaged, At, Proceed, Fails, UploadTypeOK, BytesSafe
  <2>3. OthersKept(u)
    BY <1>0, <1>3 DEF CopyStaged, At, Proceed, Fails, UploadTypeOK, OthersKept
  <2> QED
    BY <2>1, <2>2, <2>3, OtherUploads
<1>4. CASE FinishImport(u)
  <2>1. UploadTypeOK'
    BY <1>0, <1>4 DEF FinishImport, At, Proceed, Fails, UploadTypeOK, ClientPhase, RequestPhase
  <2>2. BytesSafe(u)'
    BY <1>0, <1>4 DEF FinishImport, At, Proceed, Fails, UploadTypeOK, BytesSafe
  <2>3. OthersKept(u)
    BY <1>0, <1>4 DEF FinishImport, At, Proceed, Fails, UploadTypeOK, OthersKept
  <2> QED
    BY <2>1, <2>2, <2>3, OtherUploads
<1>5. CASE RemoveSource(u)
  <2>1. UploadTypeOK'
    BY <1>0, <1>5 DEF RemoveSource, At, Proceed, Fails, UploadTypeOK, ClientPhase, RequestPhase
  <2>2. BytesSafe(u)'
    BY <1>0, <1>5 DEF RemoveSource, At, Proceed, Fails, UploadTypeOK, BytesSafe
  <2>3. OthersKept(u)
    BY <1>0, <1>5 DEF RemoveSource, At, Proceed, Fails, UploadTypeOK, OthersKept
  <2> QED
    BY <2>1, <2>2, <2>3, OtherUploads
<1>6. CASE SendCommand(u)
  <2>1. UploadTypeOK'
    BY <1>0, <1>6 DEF SendCommand, At, Proceed, Fails, UploadTypeOK, ClientPhase, RequestPhase
  <2>2. BytesSafe(u)'
    BY <1>0, <1>6 DEF SendCommand, At, Proceed, Fails, UploadTypeOK, BytesSafe
  <2>3. OthersKept(u)
    BY <1>0, <1>6 DEF SendCommand, At, Proceed, Fails, UploadTypeOK, OthersKept
  <2> QED
    BY <2>1, <2>2, <2>3, OtherUploads
<1>7. CASE AnswerSend(u)
  <2>1. UploadTypeOK'
    BY <1>0, <1>7 DEF AnswerSend, At, Proceed, Fails, UploadTypeOK, ClientPhase, RequestPhase
  <2>2. BytesSafe(u)'
    BY <1>0, <1>7 DEF AnswerSend, At, Proceed, Fails, UploadTypeOK, BytesSafe
  <2>3. OthersKept(u)
    BY <1>0, <1>7 DEF AnswerSend, At, Proceed, Fails, UploadTypeOK, OthersKept
  <2> QED
    BY <2>1, <2>2, <2>3, OtherUploads
<1>8. CASE QueueSend(u)
  <2>1. UploadTypeOK'
    BY <1>0, <1>8 DEF QueueSend, UploadTypeOK, ClientPhase, RequestPhase
  <2>2. BytesSafe(u)'
    BY <1>0, <1>8 DEF QueueSend, UploadTypeOK, BytesSafe
  <2>3. OthersKept(u)
    BY <1>0, <1>8 DEF QueueSend, UploadTypeOK, OthersKept
  <2> QED
    BY <2>1, <2>2, <2>3, OtherUploads
<1>9. CASE Deliver(u)
  <2>1. UploadTypeOK'
    BY <1>0, <1>9 DEF Deliver, UploadTypeOK, ClientPhase, RequestPhase
  <2>2. BytesSafe(u)'
    BY <1>0, <1>9 DEF Deliver, UploadTypeOK, BytesSafe
  <2>3. OthersKept(u)
    BY <1>0, <1>9 DEF Deliver, UploadTypeOK, OthersKept
  <2> QED
    BY <2>1, <2>2, <2>3, OtherUploads
<1> QED
  BY <1>1, <1>2, <1>3, <1>4, <1>5, <1>6, <1>7, <1>8, <1>9 DEF HandlerStep

(* and the end of the process that runs the handlers.                        *)
LEMMA ServiceEndsInv ==
  ASSUME UploadInv, NEW p \in Proc, RunReturns(p) \/ ProcessEnds(p)
  PROVE  UploadInv'
<1>1. /\ UNCHANGED <<client, staged, part, private, delivered>>
      /\ record' = [u \in Upload |-> IF handler[u] = p /\ record[u] = "queued"
                                     THEN "none" ELSE record[u]]
      /\ \/ request' = request
         \/ request' = [u \in Upload |->
              IF handler[u] = p /\ request[u] \notin {"sent", "failed"} THEN "none" ELSE request[u]]
  BY DEF RunReturns, ProcessEnds, ChannelLost
<1>2. UploadTypeOK'
  BY <1>1 DEF UploadInv, UploadTypeOK, RequestPhase
<1>3. ASSUME NEW u \in Upload PROVE BytesSafe(u)'
  BY <1>1, <1>3 DEF UploadInv, UploadTypeOK, BytesSafe
<1> QED
  BY <1>2, <1>3 DEF UploadInv

(* What the event loop was asked to send, or has delivered, is a whole       *)
(* private file within the size limit, and while a client waits there is a   *)
(* copy of its file: the staged one is unlinked only after the rename,       *)
(* whichever process ends in between.                                        *)
THEOREM UploadAlwaysBacked == UploadSpec => []UploadBacked
<1>1. UploadInit => UploadInv
  BY UploadBounds DEF UploadInit, UploadInv, UploadTypeOK, BytesSafe, ClientPhase, RequestPhase
<1>2. UploadInv /\ [UploadNext]_serviceVars => UploadInv'
  <2> SUFFICES ASSUME UploadInv, [UploadNext]_serviceVars PROVE UploadInv'
    OBVIOUS
  <2>1. ASSUME UNCHANGED fileVars PROVE UploadInv'
    BY <2>1 DEF fileVars, UploadInv, UploadTypeOK, BytesSafe
  <2>2. ASSUME NEW u \in Upload, UploadStep(u) PROVE UploadInv'
    BY <2>2, ClientStepInv, HandlerStepInv DEF UploadStep
  <2> QED
    BY <2>1, <2>2, ServiceEndsInv DEF UploadNext, serviceVars, uploadVars, OtherSends, OtherTaken
<1>3. UploadInv => UploadBacked
  BY UploadBounds DEF UploadInv, UploadTypeOK, BytesSafe, UploadBacked
<1> QED
  BY <1>1, <1>2, <1>3, PTL DEF UploadSpec

(* What StagedUpload adds leaves the processes to ServiceHost: every step is *)
(* a step of theirs or none, and an end of one takes its handlers with it.   *)
(* So what is proved of the processes holds while uploads go on.             *)
THEOREM UploadImplementsHost == UploadSpec => HostInit /\ [][HostNext]_hostVars
<1>1. UploadInit => HostInit
  BY DEF UploadInit
<1>2. [UploadNext]_serviceVars => [HostNext]_hostVars
  BY DEF UploadNext, RunReturns, ProcessEnds, serviceVars, HostNext
<1> QED
  BY <1>1, <1>2, PTL DEF UploadSpec

(* While desktops upload, one process at most runs the node, under one key,  *)
(* reached by its name and with the whole store in its graph.                *)
THEOREM UploadKeepsHost ==
  UploadSpec => [](OneService /\ OnePeerId /\ EndpointReaches /\ DaemonSeesStore)
<1>1. HostInv => OneService
  BY OneLocked DEF HostInv, OneService, Running, Locked, IdentitySteps
<1>2. HostInv => OnePeerId
  BY DEF HostInv, IdentityExact, OnePeerId
<1>3. HostInv => EndpointReaches
  BY DEF HostInv
<1>4. HostInv => DaemonSeesStore
  BY DEF HostInv, StoreExact, DaemonSeesStore, Running, IdentitySteps
<1> QED
  BY <1>1, <1>2, <1>3, <1>4, UploadImplementsHost, HostInitInv, HostStepInv, PTL
===============================================================================

------------------------------ MODULE E2eeProofs ------------------------------
(* Proofs about E2ee, for any number of browsers, tabs, devices, keys and    *)
(* messages: no message key encrypts twice, whoever holds a group for the    *)
(* chat holds the one the directory records, and what others may claim of a  *)
(* device its browser can use until it has joined.                           *)
EXTENDS E2ee, FiniteSetTheorems, SequenceTheorems, TLAPS

GroupId == [by : Devices, members : SUBSET Devices]
State == [id : GroupId, me : Devices, count : Nat, read : SUBSET Nat]
Labels == {"idle", "group", "use", "welcomes", "check", "claim", "create", "won", "text", "post"}

\* Every tab runs in a browser, and no device, group or state is "none".
E2eeAssumption ==
  /\ BrowserOf \in [Tabs -> Browsers] /\ MaxDevices \in Nat
  /\ None \notin Devices /\ None \notin GroupId /\ None \notin State

StoreType == [dev : Devices \cup {None}, keys : SUBSET Nat, last : Seq(Nat),
              group : State \cup {None}, texts : SUBSET Nat]
UploadType == [dev : Devices \cup {None}, once : Nat, last : Nat]
TaskType == [at : Labels, do : Nat, keys : SUBSET (Devices \X Nat), state : State \cup {None}]

TypeOK ==
  /\ current \subseteq Devices /\ pending \subseteq Devices /\ on \subseteq Browsers
  /\ oneTime \in [Devices -> SUBSET Nat] /\ fallback \in [Devices -> Nat]
  /\ group \in GroupId \cup {None} /\ welcomes \subseteq [to : Devices, key : Nat]
  /\ sent \in Seq([by : Devices, n : Nat])
  /\ store \in [Browsers -> StoreType] /\ upload \in [Browsers -> UploadType]
  /\ born \in [Browsers -> 0..MaxDevices] /\ made \in [Browsers -> Nat]
  /\ task \in [Tabs -> TaskType]

\* A tab that holds a state of the group that encrypts or decrypts.
Using(t) == task[t].at \in {"use", "won"}

\* Devices and states stay in their browser; a browser uploads keys of no other
\* device than its own; a tab never claims keys of the device it creates with.
Own ==
  /\ \A x \in Browsers :
       /\ store[x].dev # None => store[x].dev[1] = x
       /\ upload[x].dev # None => upload[x].dev[1] = x /\ store[x].dev \in {None, upload[x].dev}
       /\ store[x].group # None => store[x].group.me[1] = x
  /\ \A t \in Tabs :
       /\ Using(t) \/ task[t].at = "post" =>
            task[t].state \in State /\ task[t].state.me[1] = BrowserOf[t]
       /\ \A p \in task[t].keys :
            /\ p[1] # store[BrowserOf[t]].dev /\ p[1] # upload[BrowserOf[t]].dev
            /\ p[1][2] <= born[p[1][1]]
  /\ \A d \in current : d[2] <= born[d[1]]

\* withLock: one tab of a browser at a time.
Turns == \A t, u \in Tabs : BrowserOf[t] = BrowserOf[u] /\ Holding(t) /\ Holding(u) => t = u

\* A state of device d after n messages is stored or held; d has encrypted
\* with its key n.
Copy(d, n) ==
  \/ \E x \in Browsers : store[x].group # None /\ store[x].group.me = d /\ store[x].group.count = n
  \/ \E t \in Tabs : Using(t) /\ task[t].state.me = d /\ task[t].state.count = n
Used(d, n) ==
  \/ \E i \in DOMAIN sent : sent[i].by = d /\ sent[i].n = n
  \/ \E t \in Tabs : task[t].at = "post" /\ task[t].state.me = d /\ task[t].state.count = n

\* Every state is past the keys its device has used.
Ahead == \A d \in Devices : \A m, n \in Nat : Used(d, m) /\ Copy(d, n) => m <= n

\* Who has a welcome has not begun.
Fresh == \A w \in welcomes : \A n \in Nat : ~Used(w.to, n) /\ ~Copy(w.to, n)

\* Before there is a group there are no states of it, no messages, no welcomes.
Begun == group = None =>
  welcomes = {} /\ \A d \in Devices : \A n \in Nat : ~Used(d, n) /\ ~Copy(d, n)

Ids ==
  /\ \A x \in Browsers : store[x].group # None => store[x].group.id = group
  /\ \A t \in Tabs : Using(t) => task[t].state.id = group

\* A key used for a message about to be posted is not one of another message.
Once ==
  /\ KeysUsedOnce
  /\ \A t \in Tabs : task[t].at = "post" =>
       /\ \A i \in DOMAIN sent : sent[i] # [by |-> task[t].state.me, n |-> task[t].state.count]
       /\ \A u \in Tabs \ {t} : task[u].at = "post" =>
            task[u].state.me # task[t].state.me \/ task[u].state.count # task[t].state.count

KInv == Turns /\ Ahead /\ Fresh /\ Begun /\ Ids /\ Once
IInv == TypeOK /\ Own /\ KInv

-----------------------------------------------------------------------------
(* Lemmas the actions share.                                                 *)

\* A step that ends no state's use of a key and begins none: all that is kept,
\* held or used was before.
LEMMA Shrinks ==
  ASSUME IInv, group' = group, welcomes' \subseteq welcomes,
         \A d \in Devices : \A n \in Nat : /\ Copy(d, n)' => Copy(d, n)
                                           /\ Used(d, n)' => Used(d, n)
  PROVE  Ahead' /\ Fresh' /\ Begun'
<1>1. Ahead'
  BY DEF IInv, KInv, Ahead
<1>2. Fresh'
  BY DEF IInv, TypeOK, KInv, Fresh
<1>3. Begun'
  BY DEF IInv, KInv, Begun
<1> QED BY <1>1, <1>2, <1>3

\* What the directory and the devices do to states: wipe them at most.
LEMMA DeviceStep ==
  ASSUME IInv, UNCHANGED <<task, sent, group>>, welcomes' \subseteq welcomes,
         \A x \in Browsers : store'[x].group = None \/ store'[x].group = store[x].group
  PROVE  KInv'
<1>1. \A d \in Devices : \A n \in Nat : Copy(d, n)' => Copy(d, n)
  BY DEF Copy, Using
<1>2. \A d \in Devices : \A n \in Nat : Used(d, n)' => Used(d, n)
  BY DEF Used
<1>3. Ahead' /\ Fresh' /\ Begun'
  BY <1>1, <1>2, Shrinks
<1>4. Turns'
  BY DEF IInv, KInv, Turns, Holding
<1>5. Ids'
  BY DEF IInv, KInv, Ids, Using
<1>6. Once'
  BY DEF IInv, KInv, Once, KeysUsedOnce
<1> QED BY <1>3, <1>4, <1>5, <1>6 DEF KInv

\* A tab of the browser takes a copy of the stored state, or stores one of its
\* own, or does nothing with them; it is alone.
LEMMA TabStep ==
  ASSUME E2eeAssumption, IInv, NEW t \in Tabs,
         UNCHANGED <<sent, group>>, welcomes' \subseteq welcomes,
         \A u \in Tabs \ {t} : task'[u] = task[u],
         task'[t].at \notin {"won", "post"},
         Holding(t)' => Holding(t) \/ ~Busy(BrowserOf[t]),
         \A x \in Browsers :
           \/ store'[x].group = store[x].group
           \/ /\ x = BrowserOf[t] /\ Using(t)
              /\ store'[x].group.me = task[t].state.me
              /\ store'[x].group.count = task[t].state.count
              /\ store'[x].group.id = task[t].state.id,
         Using(t)' =>
           \/ Using(t) /\ task'[t].state = task[t].state
           \/ store[BrowserOf[t]].group # None /\ task'[t].state = store[BrowserOf[t]].group
  PROVE  KInv'
<1>0. BrowserOf[t] \in Browsers
  BY DEF E2eeAssumption
<1>1. \A d \in Devices : \A n \in Nat : Copy(d, n)' => Copy(d, n)
  <2> SUFFICES ASSUME NEW d \in Devices, NEW n \in Nat, Copy(d, n)' PROVE Copy(d, n)
    OBVIOUS
  <2>1. CASE \E x \in Browsers : /\ store'[x].group # None /\ store'[x].group.me = d
                                 /\ store'[x].group.count = n
    BY <2>1 DEF Copy
  <2>2. CASE \E u \in Tabs : Using(u)' /\ task'[u].state.me = d /\ task'[u].state.count = n
    <3>1. PICK u \in Tabs : Using(u)' /\ task'[u].state.me = d /\ task'[u].state.count = n
      BY <2>2
    <3>2. CASE u # t
      BY <3>1, <3>2 DEF Copy, Using
    <3>3. CASE u = t
      BY <1>0, <3>1, <3>3 DEF Copy
    <3> QED BY <3>2, <3>3
  <2> QED BY <2>1, <2>2 DEF Copy
<1>2. \A d \in Devices : \A n \in Nat : Used(d, n)' => Used(d, n)
  BY DEF Used
<1>3. Ahead' /\ Fresh' /\ Begun'
  BY <1>1, <1>2, Shrinks
<1>4. Turns'
  BY DEF IInv, KInv, Turns, Holding, Busy
<1>5. Ids'
  BY <1>0 DEF IInv, KInv, Ids, Using
<1>6. Once'
  BY DEF IInv, KInv, Once, KeysUsedOnce
<1> QED BY <1>3, <1>4, <1>5, <1>6 DEF KInv

\* claimKeyPackages finds the oldest.
LEMMA OldestIs ==
  ASSUME NEW S \in SUBSET Nat, S # {}
  PROVE  Oldest(S) \in S
<1>1. \E k \in S : \A j \in S : k <= j
  <2>1. PICK k \in S : \A j \in S : ~(<<j, k>> \in OpToRel(<, Nat))
    BY NatLessThanWellFounded, WFMin
  <2>2. \A j \in S : ~(j < k)
    BY <2>1 DEF OpToRel
  <2> QED BY <2>2
<1> QED BY <1>1 DEF Oldest


LEMMA DevicesAre ==
  \A d \in Devices : d = <<d[1], d[2]>> /\ d[1] \in Browsers /\ d[2] \in 1..MaxDevices
BY DEF Devices

LEMMA IdleIs == Idle \in TaskType /\ Idle.at = "idle" /\ Idle.keys = {}
BY DEF Idle, TaskType, Labels

\* One tab's task, one browser's store.
LEMMA TaskIs ==
  ASSUME TypeOK, NEW t \in Tabs, NEW new \in TaskType, task' = [task EXCEPT ![t] = new]
  PROVE  /\ task' \in [Tabs -> TaskType] /\ task'[t] = new
         /\ \A u \in Tabs \ {t} : task'[u] = task[u]
BY DEF TypeOK

LEMMA StoreIs ==
  ASSUME TypeOK, NEW x \in Browsers, NEW new \in StoreType, store' = [store EXCEPT ![x] = new]
  PROVE  /\ store' \in [Browsers -> StoreType] /\ store'[x] = new
         /\ \A y \in Browsers \ {x} : store'[y] = store[y]
BY DEF TypeOK

LEMMA TabIs ==
  ASSUME E2eeAssumption, TypeOK, NEW t \in Tabs
  PROVE  /\ BrowserOf[t] \in Browsers /\ task[t] \in TaskType
         /\ store[BrowserOf[t]] \in StoreType
         /\ store = [store EXCEPT ![BrowserOf[t]] = store[BrowserOf[t]]]
<1>1. BrowserOf[t] \in Browsers
  BY DEF E2eeAssumption
<1> QED BY <1>1 DEF TypeOK

\* A step of a tab that is no joining, creating, encrypting or posting.
LEMMA TabKeeps ==
  ASSUME E2eeAssumption, IInv, NEW t \in Tabs, NEW new \in TaskType, NEW held \in StoreType,
         UNCHANGED <<current, oneTime, fallback, group, sent, on, born, made, upload, pending>>,
         welcomes' \subseteq welcomes,
         task' = [task EXCEPT ![t] = new], store' = [store EXCEPT ![BrowserOf[t]] = held],
         new.keys \subseteq task[t].keys, new.at \notin {"won", "post"},
         new.at # "idle" => Holding(t) \/ ~Busy(BrowserOf[t]),
         held.dev = store[BrowserOf[t]].dev,
         \/ held.group = store[BrowserOf[t]].group
         \/ Using(t) /\ held.group \in State
            /\ held.group.me = task[t].state.me /\ held.group.count = task[t].state.count
            /\ held.group.id = task[t].state.id,
         new.at = "use" =>
           \/ Using(t) /\ new.state = task[t].state
           \/ store[BrowserOf[t]].group # None /\ new.state = store[BrowserOf[t]].group
  PROVE  IInv'
<1> DEFINE x == BrowserOf[t]
<1>1. x \in Browsers /\ task[t] \in TaskType /\ store[x] \in StoreType
  BY TabIs DEF IInv
<1>2. /\ task' \in [Tabs -> TaskType] /\ task'[t] = new
      /\ \A u \in Tabs \ {t} : task'[u] = task[u]
  BY TaskIs DEF IInv
<1>3. /\ store' \in [Browsers -> StoreType] /\ store'[x] = held
      /\ \A y \in Browsers \ {x} : store'[y] = store[y]
  BY <1>1, StoreIs DEF IInv
<1> HIDE DEF x
<1>4. TypeOK'
  BY <1>2, <1>3 DEF IInv, TypeOK
<1>5. Own'
  <2>1. \A y \in Browsers : store'[y].dev = store[y].dev
    BY <1>3 DEF x
  <2>2. \A y \in Browsers : store'[y].group # None => store'[y].group.me[1] = y
    BY <1>3 DEF IInv, Own, x
  <2>3. Using(t)' \/ task'[t].at = "post" => task'[t].state \in State /\ task'[t].state.me[1] = x
    BY <1>1, <1>2 DEF IInv, Own, Using, StoreType, x
  <2>4. \A u \in Tabs : task'[u].keys \subseteq task[u].keys
    BY <1>2
  <2>5. \A u \in Tabs : Using(u)' \/ task'[u].at = "post" =>
          task'[u].state \in State /\ task'[u].state.me[1] = BrowserOf[u]
    <3> SUFFICES ASSUME NEW u \in Tabs, Using(u)' \/ task'[u].at = "post"
                 PROVE  task'[u].state \in State /\ task'[u].state.me[1] = BrowserOf[u]
      OBVIOUS
    <3>1. CASE u = t BY <2>3, <3>1 DEF x
    <3>2. CASE u # t BY <1>2, <3>2 DEF IInv, Own, Using
    <3> QED BY <3>1, <3>2
  <2>6. \A u \in Tabs : BrowserOf[u] \in Browsers
    BY DEF E2eeAssumption
  <2> QED BY <2>1, <2>2, <2>4, <2>5, <2>6 DEF IInv, Own
<1>6. KInv'
  <2>1. Holding(t)' => Holding(t) \/ ~Busy(BrowserOf[t])
    BY <1>2 DEF Holding
  <2>2. Using(t)' => \/ Using(t) /\ task'[t].state = task[t].state
                     \/ store[BrowserOf[t]].group # None /\ task'[t].state = store[BrowserOf[t]].group
    BY <1>2 DEF Using
  <2>3. \A y \in Browsers :
          \/ store'[y].group = store[y].group
          \/ /\ y = BrowserOf[t] /\ Using(t)
             /\ store'[y].group.me = task[t].state.me
             /\ store'[y].group.count = task[t].state.count
             /\ store'[y].group.id = task[t].state.id
    BY <1>3 DEF x
  <2>4. task'[t].at \notin {"won", "post"}
    BY <1>2
  <2> QED BY <1>2, <2>1, <2>2, <2>3, <2>4, TabStep
<1> QED BY <1>4, <1>5, <1>6 DEF IInv

-----------------------------------------------------------------------------
(* One lemma for each action.                                                *)

LEMMA TurnOnKeeps ==
  ASSUME E2eeAssumption, IInv, NEW x \in Browsers, TurnOn(x)
  PROVE  IInv'
<1>1. TypeOK'
  BY DEF E2eeAssumption, IInv, TypeOK, StoreType, UploadType, TaskType, Labels, TurnOn, directory
<1>2. Own'
  BY DEF E2eeAssumption, IInv, TypeOK, StoreType, UploadType, TaskType, Own, Using, TurnOn, directory
<1>3. KInv'
  BY DeviceStep DEF IInv, TypeOK, StoreType, TurnOn, directory
<1> QED BY <1>1, <1>2, <1>3 DEF IInv

LEMMA StartOverKeeps ==
  ASSUME E2eeAssumption, IInv, NEW x \in Browsers, StartOver(x)
  PROVE  IInv'
<1>1. TypeOK'
  BY SMTT(30) DEF E2eeAssumption, IInv, TypeOK, StoreType, UploadType, TaskType, Labels, StartOver, directory, Quiet, Empty
<1>2. Own'
  BY SMTT(30) DEF E2eeAssumption, IInv, TypeOK, StoreType, UploadType, TaskType, Own, Using, StartOver, directory, Quiet, Empty
<1>3. KInv'
  BY DeviceStep DEF IInv, TypeOK, StoreType, StartOver, directory, Quiet, Empty
<1> QED BY <1>1, <1>2, <1>3 DEF IInv

LEMMA RefusedKeeps ==
  ASSUME E2eeAssumption, IInv, NEW x \in Browsers, Refused(x)
  PROVE  IInv'
<1>1. TypeOK'
  BY SMTT(30) DEF E2eeAssumption, IInv, TypeOK, StoreType, UploadType, TaskType, Labels, Refused, directory, Quiet
<1>2. Own'
  BY SMTT(30) DEF E2eeAssumption, IInv, TypeOK, StoreType, UploadType, TaskType, Own, Using, Refused, directory, Quiet
<1>3. KInv'
  BY DeviceStep DEF IInv, TypeOK, StoreType, Refused, directory, Quiet
<1> QED BY <1>1, <1>2, <1>3 DEF IInv

\* What a revocation leaves of the directory.
LEMMA RevokeTyped ==
  ASSUME TypeOK, NEW ds, Revoke(ds)
  PROVE  /\ current' \subseteq current /\ group' = group /\ welcomes' \subseteq welcomes
         /\ oneTime' \in [Devices -> SUBSET Nat] /\ fallback' \in [Devices -> Nat]
BY DEF TypeOK, Revoke

LEMMA TurnOffKeeps ==
  ASSUME E2eeAssumption, IInv, NEW x \in Browsers, TurnOff(x)
  PROVE  IInv'
<1>0. TypeOK /\ Own
  BY DEF IInv
<1>1. /\ on' \subseteq on /\ UNCHANGED <<sent, born, made, upload, task>>
      /\ store' = [store EXCEPT ![x] = Empty]
      /\ \/ Revoke({store[x].dev}) /\ UNCHANGED pending
         \/ store[x].dev # None /\ pending' = pending \cup {store[x].dev} /\ UNCHANGED directory
  BY DEF TurnOff
<1>2. /\ current' \subseteq current /\ group' = group /\ welcomes' \subseteq welcomes
      /\ oneTime' \in [Devices -> SUBSET Nat] /\ fallback' \in [Devices -> Nat]
  <2>1. CASE Revoke({store[x].dev})
    BY <1>0, <2>1, RevokeTyped
  <2>2. CASE UNCHANGED directory
    BY <1>0, <2>2 DEF directory, TypeOK
  <2> QED BY <1>1, <2>1, <2>2
<1>3. Empty \in StoreType /\ Empty.dev = None /\ Empty.group = None
  BY DEF Empty, StoreType
<1>4. pending' \subseteq Devices
  <2>1. store[x] \in StoreType /\ pending \subseteq Devices
    BY <1>0 DEF TypeOK
  <2> QED BY <1>1, <2>1 DEF StoreType
<1>5. store' \in [Browsers -> StoreType]
  BY <1>0, <1>1, <1>3 DEF TypeOK
<1>6. /\ store'[x] = Empty /\ \A y \in Browsers \ {x} : store'[y] = store[y]
  BY <1>0, <1>1 DEF TypeOK
<1>7. TypeOK'
  BY <1>0, <1>1, <1>2, <1>4, <1>5 DEF TypeOK
<1>8. Own'
  <2>1. ASSUME NEW y \in Browsers
        PROVE  /\ store'[y].dev # None => store'[y].dev[1] = y
               /\ upload'[y].dev # None => upload'[y].dev[1] = y /\ store'[y].dev \in {None, upload'[y].dev}
               /\ store'[y].group # None => store'[y].group.me[1] = y
    BY <1>0, <1>1, <1>3, <1>6 DEF Own
  <2>2. ASSUME NEW t \in Tabs, NEW p \in task[t].keys
        PROVE  p[1] # store'[BrowserOf[t]].dev
    <3>1. task[t] \in TaskType /\ BrowserOf[t] \in Browsers
      BY <1>0 DEF TypeOK, E2eeAssumption
    <3>2. p[1] \in Devices /\ p[1] # store[BrowserOf[t]].dev
      BY <1>0, <3>1 DEF TaskType, Own
    <3> QED BY <1>3, <1>6, <3>1, <3>2 DEF E2eeAssumption
  <2>3. \A t \in Tabs :
          /\ Using(t)' \/ task'[t].at = "post" =>
               task'[t].state \in State /\ task'[t].state.me[1] = BrowserOf[t]
          /\ \A p \in task'[t].keys :
               /\ p[1] # store'[BrowserOf[t]].dev /\ p[1] # upload'[BrowserOf[t]].dev
               /\ p[1][2] <= born'[p[1][1]]
    BY <1>0, <1>1, <2>2 DEF Own, Using
  <2>4. \A d \in current' : d[2] <= born'[d[1]]
    BY <1>0, <1>1, <1>2 DEF Own
  <2> QED BY <2>1, <2>3, <2>4 DEF Own
<1>9. \A y \in Browsers : store'[y].group = None \/ store'[y].group = store[y].group
  BY <1>3, <1>6
<1>10. KInv'
  BY <1>1, <1>2, <1>9, DeviceStep
<1> QED BY <1>7, <1>8, <1>10 DEF IInv

LEMMA FlushPendingKeeps ==
  ASSUME E2eeAssumption, IInv, NEW d \in pending, FlushPending(d)
  PROVE  IInv'
<1>1. TypeOK'
  BY DEF E2eeAssumption, IInv, TypeOK, StoreType, UploadType, TaskType, Labels, FlushPending, Revoke
<1>2. Own'
  BY DEF E2eeAssumption, IInv, TypeOK, StoreType, UploadType, TaskType, Own, Using, FlushPending, Revoke
<1>3. KInv'
  BY DeviceStep DEF IInv, TypeOK, StoreType, FlushPending, Revoke
<1> QED BY <1>1, <1>2, <1>3 DEF IInv

LEMMA RevokeOthersKeeps ==
  ASSUME E2eeAssumption, IInv, NEW x \in Browsers, RevokeOthers(x)
  PROVE  IInv'
<1>1. TypeOK'
  BY DEF E2eeAssumption, IInv, TypeOK, StoreType, UploadType, TaskType, Labels, RevokeOthers, Revoke, browsers
<1>2. Own'
  BY DEF E2eeAssumption, IInv, TypeOK, StoreType, UploadType, TaskType, Own, Using, RevokeOthers, Revoke, browsers
<1>3. KInv'
  BY DeviceStep DEF IInv, TypeOK, StoreType, RevokeOthers, Revoke, browsers
<1> QED BY <1>1, <1>2, <1>3 DEF IInv

LEMMA RegisterKeeps ==
  ASSUME E2eeAssumption, IInv, NEW x \in Browsers, Register(x)
  PROVE  IInv'
<1> DEFINE d == <<x, born[x] + 1>>
           new == [store[x] EXCEPT !.dev = d]
<1>1. born[x] \in 0..MaxDevices /\ born[x] < MaxDevices /\ born[x] \in Nat /\ MaxDevices \in Nat
  BY DEF E2eeAssumption, IInv, TypeOK, Register
<1>2. d \in Devices /\ d[1] = x /\ d[2] = born[x] + 1
  BY <1>1 DEF Devices
<1>3. store[x] \in StoreType
  BY DEF IInv, TypeOK
<1>4. new \in StoreType /\ new.dev = d /\ new.group = store[x].group
  BY <1>2, <1>3 DEF StoreType
<1>5. /\ current' = current \cup {d} /\ store' = [store EXCEPT ![x] = new]
      /\ born' = [born EXCEPT ![x] = @ + 1]
      /\ UNCHANGED <<oneTime, fallback, group, welcomes, sent, on, made, upload, pending, task>>
  BY DEF Register
<1>6. upload[x] = Quiet
  BY DEF Register
<1> HIDE DEF d, new
<1>7. /\ store' \in [Browsers -> StoreType] /\ store'[x] = new
      /\ \A y \in Browsers \ {x} : store'[y] = store[y]
  BY <1>4, <1>5, StoreIs DEF IInv
<1>8. /\ born' \in [Browsers -> 0..MaxDevices] /\ born'[x] = born[x] + 1
      /\ \A y \in Browsers : born[y] <= born'[y] /\ born[y] \in Nat /\ born'[y] \in Nat
  BY <1>1, <1>5 DEF IInv, TypeOK
<1>9. TypeOK'
  BY <1>2, <1>5, <1>7, <1>8 DEF IInv, TypeOK
<1>10. Own'
  <2>1. \A e \in Devices : e[2] <= born[e[1]] => e # d /\ e[2] <= born'[e[1]]
    BY <1>1, <1>2, <1>8, DevicesAre
  <2>2. \A e \in current' : e[2] <= born'[e[1]]
    BY <1>2, <1>5, <1>8, <2>1 DEF IInv, TypeOK, Own
  <2>3. \A u \in Tabs : \A p \in task[u].keys : p[1] \in Devices
    BY DEF IInv, TypeOK, TaskType
  <2>4. \A u \in Tabs : \A p \in task'[u].keys :
          /\ p[1] # store'[BrowserOf[u]].dev /\ p[1] # upload'[BrowserOf[u]].dev
          /\ p[1][2] <= born'[p[1][1]]
    <3> SUFFICES ASSUME NEW u \in Tabs, NEW p \in task[u].keys
                 PROVE  /\ p[1] # store'[BrowserOf[u]].dev /\ p[1] # upload[BrowserOf[u]].dev
                        /\ p[1][2] <= born'[p[1][1]]
      BY <1>5
    <3>1. p[1] \in Devices /\ BrowserOf[u] \in Browsers
      BY <2>3 DEF E2eeAssumption
    <3>2. /\ p[1] # store[BrowserOf[u]].dev /\ p[1] # upload[BrowserOf[u]].dev
          /\ p[1][2] <= born[p[1][1]]
      BY DEF IInv, Own
    <3> QED BY <1>4, <1>7, <2>1, <3>1, <3>2
  <2>5. \A y \in Browsers : store'[y].dev # None => store'[y].dev[1] = y
    BY <1>2, <1>4, <1>7 DEF IInv, Own
  <2>6. \A y \in Browsers : upload'[y].dev # None =>
          upload'[y].dev[1] = y /\ store'[y].dev \in {None, upload'[y].dev}
    BY <1>5, <1>6, <1>7 DEF IInv, Own, Quiet
  <2>7. \A y \in Browsers : store'[y].group # None => store'[y].group.me[1] = y
    BY <1>4, <1>7 DEF IInv, Own
  <2> QED BY <1>5, <2>2, <2>4, <2>5, <2>6, <2>7 DEF IInv, Own, Using
<1>11. KInv'
  BY <1>4, <1>5, <1>7, DeviceStep
<1> QED BY <1>9, <1>10, <1>11 DEF IInv

LEMMA MakeKeysKeeps ==
  ASSUME E2eeAssumption, IInv, NEW x \in Browsers, MakeKeys(x)
  PROVE  IInv'
<1>1. PICK once, last \in Nat :
        /\ made' = [made EXCEPT ![x] = @ + Cardinality({once, last} \ {0})]
        /\ store' = [store EXCEPT ![x].keys = @ \cup ({once, last} \ {0})]
        /\ upload' = [upload EXCEPT ![x] = [dev |-> store[x].dev, once |-> once, last |-> last]]
  <2>1. PICK rotate \in {store[x].last = <<>>, RotationDue(x)} :
          LET low  == oneTime[store[x].dev] = {}
              once == IF low THEN made[x] + 1 ELSE 0
              last == IF ~rotate THEN 0 ELSE IF low THEN once + 1 ELSE made[x] + 1
              new  == {once, last} \ {0} IN
            /\ made' = [made EXCEPT ![x] = @ + Cardinality(new)]
            /\ store' = [store EXCEPT ![x].keys = @ \cup new]
            /\ upload' = [upload EXCEPT ![x] = [dev |-> store[x].dev, once |-> once, last |-> last]]
    BY DEF MakeKeys
  <2> DEFINE low == oneTime[store[x].dev] = {}
             one == IF low THEN made[x] + 1 ELSE 0
             lst == IF ~rotate THEN 0 ELSE IF low THEN one + 1 ELSE made[x] + 1
  <2>2. one \in Nat /\ lst \in Nat
    BY DEF IInv, TypeOK
  <2>3. /\ made' = [made EXCEPT ![x] = @ + Cardinality({one, lst} \ {0})]
        /\ store' = [store EXCEPT ![x].keys = @ \cup ({one, lst} \ {0})]
        /\ upload' = [upload EXCEPT ![x] = [dev |-> store[x].dev, once |-> one, last |-> lst]]
    BY <2>1
  <2> HIDE DEF one, lst
  <2> QED BY <2>2, <2>3
<1> DEFINE new == [store[x] EXCEPT !.keys = @ \cup ({once, last} \ {0})]
           sending == [dev |-> store[x].dev, once |-> once, last |-> last]
<1>2. /\ UNCHANGED <<directory, sent, on, born, pending, task>>
      /\ store[x].dev \in current
  BY DEF MakeKeys
<1>3. store[x].dev \in Devices /\ store[x].dev # None /\ store[x] \in StoreType
  BY <1>2 DEF E2eeAssumption, IInv, TypeOK
<1>4. sending \in UploadType /\ sending.dev = store[x].dev
  BY <1>3 DEF UploadType
<1>5. new \in StoreType /\ new.dev = store[x].dev /\ new.group = store[x].group
  BY <1>3 DEF StoreType
<1>6. store' = [store EXCEPT ![x] = new] /\ upload' = [upload EXCEPT ![x] = sending]
  BY <1>1
<1>7. Cardinality({once, last} \ {0}) \in Nat
  <2>1. IsFiniteSet({once, last})
    <3>1. IsFiniteSet({once}) /\ IsFiniteSet({last})
      BY FS_Singleton
    <3>2. IsFiniteSet({once} \cup {last})
      BY <3>1, FS_Union
    <3> QED BY <3>2
  <2> QED BY <2>1, FS_Subset, FS_CardinalityType
<1>8. made' \in [Browsers -> Nat]
  BY <1>1, <1>7 DEF IInv, TypeOK
<1> HIDE DEF new, sending
<1>9. /\ store' \in [Browsers -> StoreType] /\ store'[x] = new
      /\ \A y \in Browsers \ {x} : store'[y] = store[y]
  BY <1>5, <1>6, StoreIs DEF IInv
<1>10. /\ upload' \in [Browsers -> UploadType] /\ upload'[x] = sending
       /\ \A y \in Browsers \ {x} : upload'[y] = upload[y]
  BY <1>4, <1>6 DEF IInv, TypeOK
<1>11. TypeOK'
  BY <1>2, <1>8, <1>9, <1>10 DEF IInv, TypeOK, directory
<1>12. Own'
  <2>1. \A y \in Browsers : store'[y].dev = store[y].dev /\ store'[y].group = store[y].group
    BY <1>5, <1>9
  <2>2. \A y \in Browsers : upload'[y].dev # None =>
          upload'[y].dev[1] = y /\ store'[y].dev \in {None, upload'[y].dev}
    BY <1>3, <1>4, <1>10, <2>1 DEF IInv, Own
  <2>3. \A u \in Tabs : \A p \in task[u].keys : p[1] # upload'[BrowserOf[u]].dev
    BY <1>4, <1>10 DEF E2eeAssumption, IInv, Own
  <2> QED BY <1>2, <2>1, <2>2, <2>3 DEF E2eeAssumption, IInv, Own, Using, directory
<1>13. KInv'
  BY <1>2, <1>5, <1>9, DeviceStep DEF directory
<1> QED BY <1>11, <1>12, <1>13 DEF IInv

LEMMA AddKeysKeeps ==
  ASSUME E2eeAssumption, IInv, NEW x \in Browsers, AddKeys(x)
  PROVE  IInv'
<1> DEFINE u == upload[x]
           s == store[x]
           new == [s EXCEPT !.dev = u.dev,
                     !.last = <<u.last>> \o SubSeq(s.last, 1, IF s.last = <<>> THEN 0 ELSE 1),
                     !.keys = IF Len(s.last) = 2 THEN @ \ {s.last[2]} ELSE @]
<1>1. /\ u.dev \in current /\ upload' = [upload EXCEPT ![x] = Quiet]
      /\ oneTime' = [oneTime EXCEPT ![u.dev] = @ \cup ({u.once} \ {0})]
      /\ fallback' = [fallback EXCEPT ![u.dev] = IF u.last = 0 THEN @ ELSE u.last]
      /\ store' = store \/ store' = [store EXCEPT ![x] = new]
      /\ UNCHANGED <<current, group, welcomes, sent, on, born, made, pending, task>>
  BY DEF AddKeys
<1>2. u \in UploadType /\ s \in StoreType /\ u.dev \in Devices /\ u.dev # None
  BY <1>1 DEF E2eeAssumption, IInv, TypeOK
<1>3. <<u.last>> \o SubSeq(s.last, 1, IF s.last = <<>> THEN 0 ELSE 1) \in Seq(Nat)
  <2>1. u.last \in Nat /\ s.last \in Seq(Nat)
    BY <1>2 DEF UploadType, StoreType
  <2>2. SubSeq(s.last, 1, IF s.last = <<>> THEN 0 ELSE 1) \in Seq(Nat)
    BY <2>1
  <2> QED BY <2>1, <2>2
<1>4. new \in StoreType /\ new.dev = u.dev /\ new.group = s.group
  BY <1>2, <1>3 DEF StoreType
<1>5. u.dev[1] = x /\ s.dev \in {None, u.dev}
  BY <1>2 DEF IInv, Own
<1>6. u.once \in Nat /\ u.last \in Nat
  BY <1>2 DEF UploadType
<1> HIDE DEF new
<1>7. /\ store' \in [Browsers -> StoreType] /\ store'[x] \in {store[x], new}
      /\ \A y \in Browsers \ {x} : store'[y] = store[y]
  BY <1>1, <1>4, StoreIs DEF IInv, TypeOK
<1>8. /\ upload' \in [Browsers -> UploadType] /\ upload'[x].dev = None
      /\ \A y \in Browsers \ {x} : upload'[y] = upload[y]
  BY <1>1 DEF IInv, TypeOK, Quiet, UploadType
<1>9. TypeOK'
  <2>1. oneTime' \in [Devices -> SUBSET Nat] /\ fallback' \in [Devices -> Nat]
    BY <1>1, <1>2, <1>6 DEF IInv, TypeOK
  <2> QED BY <1>1, <1>7, <1>8, <2>1 DEF IInv, TypeOK
<1>10. Own'
  <2>1. \A y \in Browsers : store'[y].group = store[y].group
    BY <1>4, <1>7
  <2>2. \A y \in Browsers : store'[y].dev # None => store'[y].dev[1] = y
    BY <1>4, <1>5, <1>7 DEF IInv, Own
  <2>3. \A y \in Browsers : upload'[y].dev # None =>
          upload'[y].dev[1] = y /\ store'[y].dev \in {None, upload'[y].dev}
    BY <1>7, <1>8 DEF IInv, Own
  <2>4. \A t \in Tabs : \A p \in task[t].keys :
          p[1] # store'[BrowserOf[t]].dev /\ p[1] # upload'[BrowserOf[t]].dev
    <3> SUFFICES ASSUME NEW t \in Tabs, NEW p \in task[t].keys
                 PROVE  p[1] # store'[BrowserOf[t]].dev /\ p[1] # upload'[BrowserOf[t]].dev
      OBVIOUS
    <3>1. p[1] \in Devices /\ BrowserOf[t] \in Browsers
      BY DEF E2eeAssumption, IInv, TypeOK, TaskType
    <3>2. p[1] # None /\ p[1] # store[BrowserOf[t]].dev /\ p[1] # upload[BrowserOf[t]].dev
      BY <3>1 DEF E2eeAssumption, IInv, Own
    <3> QED BY <1>4, <1>7, <1>8, <3>1, <3>2
  <2> QED BY <1>1, <2>1, <2>2, <2>3, <2>4 DEF IInv, Own, Using
<1>11. KInv'
  BY <1>1, <1>4, <1>7, DeviceStep
<1> QED BY <1>9, <1>10, <1>11 DEF IInv

LEMMA BeginKeeps ==
  ASSUME E2eeAssumption, IInv, NEW t \in Tabs, Begin(t)
  PROVE  IInv'
<1>1. task[t] \in TaskType /\ store[BrowserOf[t]] \in StoreType
      /\ store = [store EXCEPT ![BrowserOf[t]] = store[BrowserOf[t]]]
  BY TabIs DEF IInv
<1>2. PICK m \in Nat : task' = [task EXCEPT ![t].at = "group", ![t].do = m]
  <2>1. PICK m \in {0} \cup (DOMAIN sent \ store[BrowserOf[t]].texts) :
          task' = [task EXCEPT ![t].at = "group", ![t].do = m]
    BY DEF Begin
  <2>2. DOMAIN sent = 1 .. Len(sent) /\ Len(sent) \in Nat
    BY DEF IInv, TypeOK
  <2>3. m \in Nat
    BY <2>1, <2>2
  <2> QED BY <2>1, <2>3
<1> DEFINE new == [task[t] EXCEPT !.at = "group", !.do = m]
<1>3. new \in TaskType /\ new.at = "group" /\ new.keys = task[t].keys
  BY <1>1 DEF TaskType, Labels
<1>4. task' = [task EXCEPT ![t] = new]
  BY <1>2
<1>5. ~Busy(BrowserOf[t]) /\ UNCHANGED <<directory, sent, browsers>>
  BY DEF Begin
<1> HIDE DEF new
<1> QED BY <1>1, <1>3, <1>4, <1>5, TabKeeps DEF directory, browsers

LEMMA FindGroupKeeps ==
  ASSUME E2eeAssumption, IInv, NEW t \in Tabs, FindGroup(t)
  PROVE  IInv'
<1>1. task[t] \in TaskType /\ store[BrowserOf[t]] \in StoreType
      /\ store = [store EXCEPT ![BrowserOf[t]] = store[BrowserOf[t]]]
  BY TabIs DEF IInv
<1>2. task[t].at = "group" /\ Holding(t) /\ UNCHANGED <<directory, sent, browsers>>
  BY DEF FindGroup, Holding
<1>3. CASE store[BrowserOf[t]].group # None
  <2> DEFINE new == [task[t] EXCEPT !.at = "use", !.state = store[BrowserOf[t]].group]
  <2>1. /\ new \in TaskType /\ new.at = "use" /\ new.keys = task[t].keys
        /\ new.state = store[BrowserOf[t]].group
    BY <1>1 DEF TaskType, StoreType, Labels
  <2>2. task' = [task EXCEPT ![t] = new]
    BY <1>3 DEF FindGroup
  <2> HIDE DEF new
  <2> QED BY <1>1, <1>2, <1>3, <2>1, <2>2, TabKeeps DEF directory, browsers
<1>4. CASE store[BrowserOf[t]].group = None /\ store[BrowserOf[t]].dev \in current
  <2> DEFINE new == [task[t] EXCEPT !.at = "welcomes"]
  <2>1. new \in TaskType /\ new.at = "welcomes" /\ new.keys = task[t].keys
    BY <1>1 DEF TaskType, Labels
  <2>2. task' = [task EXCEPT ![t] = new]
    BY <1>4 DEF FindGroup, Go
  <2> HIDE DEF new
  <2> QED BY <1>1, <1>2, <2>1, <2>2, TabKeeps DEF directory, browsers
<1>5. CASE store[BrowserOf[t]].group = None /\ store[BrowserOf[t]].dev \notin current
  <2>1. task' = [task EXCEPT ![t] = Idle]
    BY <1>5 DEF FindGroup, End
  <2> QED BY <1>1, <1>2, <2>1, IdleIs, TabKeeps DEF directory, browsers
<1> QED BY <1>3, <1>4, <1>5

LEMMA AcceptKeeps ==
  ASSUME E2eeAssumption, IInv, NEW t \in Tabs, Accept(t)
  PROVE  IInv'
<1> DEFINE x == BrowserOf[t]
           s == store[x]
           new == [task[t] EXCEPT !.at = "check"]
<1>1. /\ x \in Browsers /\ task[t] \in TaskType /\ s \in StoreType
      /\ store = [store EXCEPT ![x] = s]
  BY TabIs DEF IInv
<1>2. /\ task[t].at = "welcomes" /\ task' = [task EXCEPT ![t] = new]
      /\ welcomes' = welcomes \ WelcomesOf(s.dev)
      /\ UNCHANGED <<current, oneTime, fallback, group, sent, on, born, made, upload, pending>>
  BY DEF Accept, Go
<1>3. new \in TaskType /\ new.at = "check" /\ new.keys = task[t].keys
  BY <1>1 DEF TaskType, Labels
<1>4. Holding(t) /\ ~Using(t)
  BY <1>2 DEF Holding, Using
<1> HIDE DEF new
<1>5. CASE store' = store
  BY <1>1, <1>2, <1>3, <1>4, <1>5, TabKeeps
<1>6. CASE store' # store
  <2>1. PICK w \in WelcomesOf(s.dev) :
          store' = [store EXCEPT
            ![x].group = Joined(group, s.dev),
            ![x].keys = IF \E i \in DOMAIN s.last : s.last[i] = w.key THEN @ ELSE @ \ {w.key}]
    BY <1>6 DEF Accept
  <2> DEFINE d == s.dev
             left == IF \E i \in DOMAIN s.last : s.last[i] = w.key THEN s.keys ELSE s.keys \ {w.key}
             held == [s EXCEPT !.group = Joined(group, d), !.keys = left]
  <2>2. w \in welcomes /\ w.to = d /\ d \in Devices
    BY DEF WelcomesOf, IInv, TypeOK
  <2>3. group \in GroupId /\ group # None
    BY <2>2 DEF IInv, TypeOK, KInv, Begun
  <2>4. /\ Joined(group, d) \in State /\ Joined(group, d).me = d
        /\ Joined(group, d).count = 0 /\ Joined(group, d).id = group
    BY SMTT(30), <2>2, <2>3 DEF Joined, State
  <2>5. /\ held \in StoreType /\ held.dev = d /\ held.group = Joined(group, d)
    BY <1>1, <2>4 DEF StoreType
  <2>6. store' = [store EXCEPT ![x] = held]
    BY <2>1
  <2> HIDE DEF held
  <2>7. /\ store' \in [Browsers -> StoreType] /\ store'[x] = held
        /\ \A y \in Browsers \ {x} : store'[y] = store[y]
    BY <1>1, <2>5, <2>6, StoreIs DEF IInv
  <2>8. /\ task' \in [Tabs -> TaskType] /\ task'[t] = new
        /\ \A u \in Tabs \ {t} : task'[u] = task[u]
    BY <1>2, <1>3, TaskIs DEF IInv
  <2>9. d[1] = x /\ \A w2 \in welcomes' : w2 \in welcomes /\ w2.to # d
    BY <1>1, <1>2, <2>2 DEF E2eeAssumption, IInv, Own, WelcomesOf
  <2> HIDE DEF x, s, d
  <2>10. TypeOK'
    BY <1>2, <2>7, <2>8 DEF IInv, TypeOK
  <2>11. Own'
    <3>1. \A y \in Browsers : store'[y].dev = store[y].dev
      BY <2>5, <2>7 DEF s, d
    <3>2. \A y \in Browsers : store'[y].group # None => store'[y].group.me[1] = y
      BY <2>4, <2>5, <2>7, <2>9 DEF IInv, Own
    <3>3. \A u \in Tabs : Using(u)' \/ task'[u].at = "post" =>
            /\ Using(u) \/ task[u].at = "post"
            /\ task'[u].state = task[u].state
      BY <1>3, <2>8 DEF Using
    <3>4. \A u \in Tabs : task'[u].keys = task[u].keys /\ BrowserOf[u] \in Browsers
      BY <1>3, <2>8 DEF E2eeAssumption
    <3> QED BY <1>2, <3>1, <3>2, <3>3, <3>4 DEF IInv, Own
  <2>12. \A e \in Devices : \A n \in Nat :
           /\ Copy(e, n)' => Copy(e, n) \/ e = d
           /\ Used(e, n)' => Used(e, n)
    <3>1. \A e \in Devices : \A n \in Nat : Copy(e, n)' => Copy(e, n) \/ e = d
      BY <1>3, <2>4, <2>5, <2>7, <2>8 DEF Copy, Using
    <3>2. \A e \in Devices : \A n \in Nat : Used(e, n)' => Used(e, n)
      BY <1>2, <1>3, <2>8 DEF Used
    <3> QED BY <3>1, <3>2
  <2>13. \A n \in Nat : ~Used(d, n)
    BY <2>2 DEF IInv, KInv, Fresh
  <2>14. Ahead'
    BY <2>12, <2>13 DEF IInv, KInv, Ahead
  <2>15. Fresh'
    BY <2>9, <2>12 DEF IInv, TypeOK, KInv, Fresh
  <2>16. Begun'
    BY <1>2, <2>3 DEF Begun
  <2>17. Turns'
    BY <1>3, <1>4, <2>8 DEF IInv, KInv, Turns, Holding
  <2>18. Ids'
    BY <1>2, <1>3, <2>4, <2>5, <2>7, <2>8 DEF IInv, KInv, Ids, Using
  <2>19. Once'
    BY <1>2, <1>3, <2>8 DEF IInv, KInv, Once, KeysUsedOnce
  <2> QED BY <2>10, <2>11, <2>14, <2>15, <2>16, <2>17, <2>18, <2>19 DEF IInv, KInv
<1> QED BY <1>5, <1>6

LEMMA CheckKeeps ==
  ASSUME E2eeAssumption, IInv, NEW t \in Tabs, Check(t)
  PROVE  IInv'
<1>1. task[t] \in TaskType /\ store[BrowserOf[t]] \in StoreType
      /\ store = [store EXCEPT ![BrowserOf[t]] = store[BrowserOf[t]]]
  BY TabIs DEF IInv
<1>2. task[t].at = "check" /\ Holding(t) /\ UNCHANGED <<directory, sent, browsers>>
  BY DEF Check, Holding
<1>3. PICK label \in {"group", "claim", "idle"} :
        task' = IF label = "idle" THEN [task EXCEPT ![t] = Idle] ELSE [task EXCEPT ![t].at = label]
  BY DEF Check, Go, End
<1> DEFINE new == IF label = "idle" THEN Idle ELSE [task[t] EXCEPT !.at = label]
<1>4. new \in TaskType /\ new.at = label /\ new.keys \subseteq task[t].keys
  BY <1>1, IdleIs DEF TaskType, Labels
<1>5. task' = [task EXCEPT ![t] = new]
  BY <1>3
<1> HIDE DEF new
<1> QED BY <1>1, <1>2, <1>4, <1>5, TabKeeps DEF directory, browsers

LEMMA KeepKeeps ==
  ASSUME E2eeAssumption, IInv, NEW t \in Tabs, Keep(t)
  PROVE  IInv'
<1> DEFINE new == [task[t] EXCEPT !.at = "use"]
           held == [store[BrowserOf[t]] EXCEPT !.group = task[t].state]
<1>1. task[t] \in TaskType /\ store[BrowserOf[t]] \in StoreType
  BY TabIs DEF IInv
<1>2. /\ task[t].at = "won" /\ task' = [task EXCEPT ![t] = new]
      /\ store' = [store EXCEPT ![BrowserOf[t]] = held]
      /\ UNCHANGED <<directory, sent, on, born, made, upload, pending>>
  BY DEF Keep, Go
<1>3. Holding(t) /\ Using(t) /\ task[t].state \in State
  BY <1>2 DEF IInv, Own, Holding, Using
<1>4. /\ new \in TaskType /\ new.at = "use" /\ new.keys = task[t].keys
      /\ new.state = task[t].state
  BY <1>1 DEF TaskType, Labels
<1>5. /\ held \in StoreType /\ held.dev = store[BrowserOf[t]].dev
      /\ held.group = task[t].state
  BY <1>1, <1>3 DEF StoreType
<1> HIDE DEF new, held
<1> QED BY <1>2, <1>3, <1>4, <1>5, TabKeeps DEF directory

LEMMA DecryptKeeps ==
  ASSUME E2eeAssumption, IInv, NEW t \in Tabs, Decrypt(t)
  PROVE  IInv'
<1> DEFINE st == task[t].state
           m == task[t].do
<1>1. task[t] \in TaskType /\ store[BrowserOf[t]] \in StoreType
      /\ store = [store EXCEPT ![BrowserOf[t]] = store[BrowserOf[t]]]
  BY TabIs DEF IInv
<1>2. /\ task[t].at = "use"
      /\ UNCHANGED <<directory, sent, on, born, made, upload, pending>>
  BY DEF Decrypt
<1>3. Holding(t) /\ Using(t) /\ st \in State /\ m \in Nat
  BY <1>1, <1>2 DEF IInv, Own, Holding, Using, TaskType
<1>4. CASE sent[m].by # st.me /\ m \notin st.read
  <2> DEFINE new == [task[t] EXCEPT !.at = "text"]
             past == [st EXCEPT !.read = @ \cup {m}]
             held == [store[BrowserOf[t]] EXCEPT !.group = past]
  <2>1. new \in TaskType /\ new.at = "text" /\ new.keys = task[t].keys
    BY <1>1 DEF TaskType, Labels
  <2>2. past \in State /\ past.me = st.me /\ past.count = st.count /\ past.id = st.id
    BY <1>3 DEF State
  <2>3. task' = [task EXCEPT ![t] = new] /\ store' = [store EXCEPT ![BrowserOf[t]] = held]
    BY <1>4 DEF Decrypt, Go
  <2> HIDE DEF past
  <2>4. /\ held \in StoreType /\ held.dev = store[BrowserOf[t]].dev /\ held.group = past
    BY <1>1, <2>2 DEF StoreType
  <2> HIDE DEF new, held
  <2> QED BY <1>2, <1>3, <2>1, <2>2, <2>3, <2>4, TabKeeps DEF directory
<1>5. CASE ~(sent[m].by # st.me /\ m \notin st.read)
  <2>1. task' = [task EXCEPT ![t] = Idle] /\ store' = store
    BY <1>5 DEF Decrypt, End
  <2> QED BY <1>1, <1>2, <2>1, IdleIs, TabKeeps DEF directory
<1> QED BY <1>4, <1>5

LEMMA RememberKeeps ==
  ASSUME E2eeAssumption, IInv, NEW t \in Tabs, Remember(t)
  PROVE  IInv'
<1> DEFINE held == [store[BrowserOf[t]] EXCEPT !.texts = @ \cup {task[t].do}]
<1>1. task[t] \in TaskType /\ store[BrowserOf[t]] \in StoreType
  BY TabIs DEF IInv
<1>2. /\ task' = [task EXCEPT ![t] = Idle] /\ store' = [store EXCEPT ![BrowserOf[t]] = held]
      /\ UNCHANGED <<directory, sent, on, born, made, upload, pending>>
  BY DEF Remember, End
<1>3. /\ held \in StoreType /\ held.dev = store[BrowserOf[t]].dev
      /\ held.group = store[BrowserOf[t]].group
  BY <1>1 DEF StoreType, TaskType
<1> HIDE DEF held
<1> QED BY <1>2, <1>3, IdleIs, TabKeeps DEF directory

LEMMA GiveUpKeeps ==
  ASSUME E2eeAssumption, IInv, NEW t \in Tabs, GiveUp(t)
  PROVE  IInv'
<1>1. task[t] \in TaskType /\ store[BrowserOf[t]] \in StoreType
      /\ store = [store EXCEPT ![BrowserOf[t]] = store[BrowserOf[t]]]
  BY TabIs DEF IInv
<1>2. task' = [task EXCEPT ![t] = Idle] /\ UNCHANGED <<directory, sent, browsers>>
  BY DEF GiveUp, End
<1> QED BY <1>1, <1>2, IdleIs, TabKeeps DEF directory, browsers

LEMMA ClaimKeeps ==
  ASSUME E2eeAssumption, IInv, NEW t \in Tabs, Claim(t)
  PROVE  IInv'
<1> DEFINE x == BrowserOf[t]
           d == store[x].dev
<1>1. /\ x \in Browsers /\ task[t] \in TaskType /\ store[x] \in StoreType
      /\ store = [store EXCEPT ![x] = store[x]]
  BY TabIs DEF IInv
<1>2. /\ task[t].at = "claim" /\ Holding(t) /\ ~Using(t)
      /\ UNCHANGED <<current, fallback, group, welcomes, sent, browsers>>
  BY DEF Claim, Holding, Using
<1>3. CASE oneTime' = oneTime /\ task' = [task EXCEPT ![t] = Idle]
  BY <1>1, <1>2, <1>3, IdleIs, TabKeeps DEF browsers
<1>4. CASE d \in current /\ group = None
  <2> DEFINE taken == {<<e, IF oneTime[e] # {} THEN Oldest(oneTime[e]) ELSE fallback[e]>> :
                         e \in Others(d)}
  <2>1. /\ oneTime' = [e \in Devices |-> IF e \in Others(d) /\ oneTime[e] # {}
                                         THEN oneTime[e] \ {Oldest(oneTime[e])} ELSE oneTime[e]]
        /\ \/ task' = [task EXCEPT ![t].at = "create", ![t].keys = taken]
           \/ task' = [task EXCEPT ![t] = Idle]
    BY <1>4 DEF Claim, End
  <2>2. PICK new \in TaskType : /\ task' = [task EXCEPT ![t] = new] /\ new.at \in {"create", "idle"}
                                /\ new.keys \subseteq taken
    <3>1. Others(d) \subseteq Devices
      BY DEF IInv, TypeOK, Others
    <3>2. \A e \in Others(d) :
            (IF oneTime[e] # {} THEN Oldest(oneTime[e]) ELSE fallback[e]) \in Nat
      <4> TAKE e \in Others(d)
      <4>1. oneTime[e] \in SUBSET Nat /\ fallback[e] \in Nat
        BY <3>1 DEF IInv, TypeOK
      <4>2. oneTime[e] # {} => Oldest(oneTime[e]) \in oneTime[e]
        BY <4>1, OldestIs
      <4> QED BY <4>1, <4>2
    <3>3. taken \in SUBSET (Devices \X Nat)
      BY <3>1, <3>2
    <3> HIDE DEF taken
    <3>4. CASE task' = [task EXCEPT ![t].at = "create", ![t].keys = taken]
      <4> DEFINE new == [task[t] EXCEPT !.at = "create", !.keys = taken]
      <4>1. new \in TaskType /\ new.at = "create" /\ new.keys = taken
        BY <1>1, <3>3 DEF TaskType, Labels
      <4>2. task' = [task EXCEPT ![t] = new]
        BY <3>4
      <4> HIDE DEF new
      <4> QED BY <4>1, <4>2
    <3> QED BY <2>1, <3>4, IdleIs
  <2>3. \A p \in taken : p[1] \in current /\ p[1] # d
    BY DEF Others
  <2> HIDE DEF taken, x, d
  <2>4. /\ task' \in [Tabs -> TaskType] /\ task'[t] = new
        /\ \A u \in Tabs \ {t} : task'[u] = task[u]
    BY <2>2, TaskIs DEF IInv
  <2>5. TypeOK'
    <3>1. oneTime' \in [Devices -> SUBSET Nat]
      BY <2>1 DEF IInv, TypeOK
    <3> QED BY <1>2, <2>4, <3>1 DEF IInv, TypeOK, browsers
  <2>6. Own'
    <3>1. \A p \in new.keys : /\ p[1] # store[x].dev /\ p[1] # upload[x].dev
                              /\ p[1][2] <= born[p[1][1]]
      <4> TAKE p \in new.keys
      <4>1. p[1] \in current /\ p[1] # d /\ p[1] \in Devices
        BY <2>2, <2>3 DEF IInv, TypeOK
      <4>2. d # None
        BY <1>4 DEF E2eeAssumption, IInv, TypeOK
      <4>3. upload[x].dev # None => d = upload[x].dev
        BY <1>1, <4>2 DEF IInv, Own, d
      <4> QED BY <4>1, <4>3 DEF E2eeAssumption, IInv, Own, d
    <3>2. \A u \in Tabs : Using(u)' \/ task'[u].at = "post" =>
            (Using(u) \/ task[u].at = "post") /\ task'[u] = task[u]
      BY <2>2, <2>4 DEF Using
    <3>3. \A u \in Tabs : \A p \in task'[u].keys :
            /\ p[1] # store[BrowserOf[u]].dev /\ p[1] # upload[BrowserOf[u]].dev
            /\ p[1][2] <= born[p[1][1]]
      BY <2>4, <3>1 DEF IInv, Own, x
    <3> QED BY <1>2, <3>2, <3>3 DEF IInv, Own, browsers
  <2>7. KInv'
    BY <1>2, <2>2, <2>4, TabStep DEF Using, browsers
  <2> QED BY <2>5, <2>6, <2>7 DEF IInv
<1> QED BY <1>3, <1>4 DEF Claim, End

LEMMA CreateKeeps ==
  ASSUME E2eeAssumption, IInv, NEW t \in Tabs, Create(t)
  PROVE  IInv'
<1> DEFINE x == BrowserOf[t]
           d == store[x].dev
           members == {p[1] : p \in task[t].keys}
<1>1. /\ x \in Browsers /\ task[t] \in TaskType /\ store[x] \in StoreType
      /\ store = [store EXCEPT ![x] = store[x]]
  BY TabIs DEF IInv
<1>2. /\ task[t].at = "create" /\ Holding(t) /\ ~Using(t)
      /\ UNCHANGED <<current, oneTime, fallback, sent, browsers>>
  BY DEF Create, Holding, Using
<1>3. CASE ~(d \in current /\ group = None /\ members \subseteq current)
  <2>1. CASE d \in current /\ group # None
    <3> DEFINE new == [task[t] EXCEPT !.at = "welcomes", !.keys = {}]
    <3>1. new \in TaskType /\ new.at = "welcomes" /\ new.keys = {}
      BY <1>1 DEF TaskType, Labels
    <3>2. task' = [task EXCEPT ![t] = new] /\ UNCHANGED <<group, welcomes>>
      BY <1>3, <2>1 DEF Create
    <3> HIDE DEF new
    <3> QED BY <1>1, <1>2, <3>1, <3>2, TabKeeps DEF browsers
  <2>2. CASE ~(d \in current /\ group # None)
    <3>1. task' = [task EXCEPT ![t] = Idle] /\ UNCHANGED <<group, welcomes>>
      BY <1>3, <2>2 DEF Create, End
    <3> QED BY <1>1, <1>2, <3>1, IdleIs, TabKeeps DEF browsers
  <2> QED BY <2>1, <2>2
<1>4. CASE d \in current /\ group = None /\ members \subseteq current
  <2> DEFINE joined == Joined(Founded(d, members), d)
             new == [task[t] EXCEPT !.at = "won", !.keys = {}, !.state = joined]
  <2>1. /\ group' = Founded(d, members)
        /\ welcomes' = {[to |-> p[1], key |-> p[2]] : p \in task[t].keys}
        /\ task' = [task EXCEPT ![t] = new]
    BY <1>4 DEF Create
  <2>2. d \in Devices /\ members \subseteq Devices
    BY <1>4 DEF IInv, TypeOK
  <2>3. Founded(d, members) \in GroupId
    BY <2>2 DEF Founded, GroupId
  <2>4. joined \in State /\ joined.me = d /\ joined.count = 0 /\ joined.id = Founded(d, members)
    BY <2>2, <2>3 DEF Joined, State
  <2>5. group' \in GroupId /\ group' # None
    BY <2>1, <2>3 DEF E2eeAssumption
  <2>6. welcomes' \subseteq [to : Devices, key : Nat]
    <3>1. \A p \in task[t].keys : p[1] \in Devices /\ p[2] \in Nat
      BY <1>1 DEF TaskType
    <3> QED BY <2>1, <3>1
  <2>7. \A w \in welcomes' : w.to # d
    <3>1. \A p \in task[t].keys : p[1] # d
      BY DEF IInv, Own
    <3> QED BY <2>1, <3>1
  <2> HIDE DEF joined, members
  <2>8. new \in TaskType /\ new.at = "won" /\ new.keys = {} /\ new.state = joined
    BY <1>1, <2>4 DEF TaskType, Labels
  <2> HIDE DEF new
  <2>9. /\ task' \in [Tabs -> TaskType] /\ task'[t] = new
        /\ \A u \in Tabs \ {t} : task'[u] = task[u]
    BY <2>1, <2>8, TaskIs DEF IInv
  <2>10. d[1] = x
    BY <1>1, <2>2 DEF E2eeAssumption, IInv, Own
  <2> HIDE DEF x, d
  <2>11. \A e \in Devices : \A n \in Nat : ~Copy(e, n) /\ ~Used(e, n)
    BY <1>4 DEF IInv, KInv, Begun
  <2>12. \A y \in Browsers : store[y].group = None
    BY <2>11 DEF IInv, TypeOK, StoreType, State, Copy
  <2>13. \A u \in Tabs : ~Using(u)
    BY <2>11 DEF IInv, Own, State, Copy
  <2>14. TypeOK'
    BY <1>2, <2>5, <2>6, <2>9 DEF IInv, TypeOK, browsers
  <2>15. Own'
    <3>1. \A u \in Tabs : Using(u)' \/ task'[u].at = "post" =>
            task'[u].state \in State /\ task'[u].state.me[1] = BrowserOf[u]
      BY <2>4, <2>8, <2>9, <2>10 DEF IInv, Own, Using, x
    <3>2. \A u \in Tabs : task'[u].keys \subseteq task[u].keys
      BY <2>8, <2>9
    <3> QED BY <1>2, <3>1, <3>2 DEF IInv, Own, browsers
  <2>16. \A e \in Devices : \A n \in Nat : Copy(e, n)' => e = d
    BY <1>2, <2>4, <2>8, <2>9, <2>12, <2>13 DEF Copy, Using, browsers
  <2>17. \A e \in Devices : \A n \in Nat : ~Used(e, n)'
    BY <1>2, <2>8, <2>9, <2>11 DEF Used
  <2>18. Ahead' /\ Begun'
    BY <2>5, <2>17 DEF Ahead, Begun
  <2>19. Fresh'
    BY <2>6, <2>7, <2>16, <2>17 DEF Fresh
  <2>20. Turns'
    BY <1>2, <2>9 DEF IInv, KInv, Turns, Holding
  <2>21. Ids'
    BY <1>2, <2>1, <2>4, <2>8, <2>9, <2>12, <2>13 DEF Ids, Using, browsers
  <2>22. Once'
    BY <1>2, <2>8, <2>9 DEF IInv, KInv, Once, KeysUsedOnce
  <2> QED BY <2>14, <2>15, <2>18, <2>19, <2>20, <2>21, <2>22 DEF IInv, KInv
<1> QED BY <1>3, <1>4

LEMMA EncryptKeeps ==
  ASSUME E2eeAssumption, IInv, NEW t \in Tabs, Encrypt(t)
  PROVE  IInv'
<1> DEFINE x == BrowserOf[t]
           st == task[t].state
           next == [st EXCEPT !.count = @ + 1]
           new == [task[t] EXCEPT !.at = "post", !.state = next]
           held == [store[x] EXCEPT !.group = next]
<1>1. x \in Browsers /\ task[t] \in TaskType /\ store[x] \in StoreType
  BY TabIs DEF IInv
<1>2. /\ task[t].at = "use" /\ store' = [store EXCEPT ![x] = held]
      /\ task' = [task EXCEPT ![t] = new]
      /\ UNCHANGED <<directory, sent, on, born, made, upload, pending>>
  BY DEF Encrypt
<1>3. Using(t) /\ Holding(t) /\ st \in State /\ st.me[1] = x
  BY <1>2 DEF IInv, Own, Using, Holding
<1>4. /\ st.me \in Devices /\ st.count \in Nat /\ st.count + 1 \in Nat /\ Copy(st.me, st.count)
      /\ st.id = group
  BY <1>3 DEF IInv, KInv, Ids, State, Copy
<1>5. next \in State /\ next.me = st.me /\ next.count = st.count + 1 /\ next.id = st.id
  BY <1>3, <1>4 DEF State
<1> HIDE DEF next
<1>6. new \in TaskType /\ new.at = "post" /\ new.state = next /\ new.keys = task[t].keys
  BY <1>1, <1>5 DEF TaskType, Labels
<1>7. held \in StoreType /\ held.dev = store[x].dev /\ held.group = next
  BY <1>1, <1>5 DEF StoreType
<1> HIDE DEF new, held
<1>8. /\ task' \in [Tabs -> TaskType] /\ task'[t] = new
      /\ \A u \in Tabs \ {t} : task'[u] = task[u]
  BY <1>2, <1>6, TaskIs DEF IInv
<1>9. /\ store' \in [Browsers -> StoreType] /\ store'[x] = held
      /\ \A y \in Browsers \ {x} : store'[y] = store[y]
  BY <1>1, <1>2, <1>7, StoreIs DEF IInv
<1> DEFINE d == st.me
           c == st.count
<1>10. /\ d \in Devices /\ c \in Nat /\ c + 1 \in Nat /\ d[1] = x
       /\ next.me = d /\ next.count = c + 1
  BY <1>3, <1>4, <1>5
<1>11. \A u \in Tabs \ {t} : Using(u) => task[u].state.me # d
  <2> SUFFICES ASSUME NEW u \in Tabs \ {t}, Using(u), task[u].state.me = d PROVE FALSE
    OBVIOUS
  <2>1. BrowserOf[u] = x
    BY <1>10 DEF IInv, Own
  <2> QED BY <1>3, <2>1 DEF IInv, KInv, Turns, Using, Holding
<1> HIDE DEF x, d, c, st
<1>12. TypeOK'
  BY <1>2, <1>8, <1>9 DEF IInv, TypeOK, directory
<1>13. Own'
  <2>1. \A y \in Browsers : store'[y].dev = store[y].dev
    BY <1>7, <1>9
  <2>2. \A y \in Browsers : store'[y].group # None => store'[y].group.me[1] = y
    BY <1>7, <1>9, <1>10 DEF IInv, Own
  <2>3. \A u \in Tabs : Using(u)' \/ task'[u].at = "post" =>
          task'[u].state \in State /\ task'[u].state.me[1] = BrowserOf[u]
    BY <1>5, <1>6, <1>8, <1>10 DEF IInv, Own, Using, x
  <2>4. \A u \in Tabs : task'[u].keys = task[u].keys /\ BrowserOf[u] \in Browsers
    BY <1>6, <1>8 DEF E2eeAssumption
  <2> QED BY <1>2, <2>1, <2>2, <2>3, <2>4 DEF IInv, Own, directory
<1>14. \A e \in Devices : \A n \in Nat :
         Copy(e, n)' => (e # d /\ Copy(e, n)) \/ (e = d /\ n = c + 1)
  <2> SUFFICES ASSUME NEW e \in Devices, NEW n \in Nat, Copy(e, n)'
               PROVE  (e # d /\ Copy(e, n)) \/ (e = d /\ n = c + 1)
    OBVIOUS
  <2>1. CASE \E y \in Browsers : /\ store'[y].group # None /\ store'[y].group.me = e
                                 /\ store'[y].group.count = n
    <3>1. PICK y \in Browsers : /\ store'[y].group # None /\ store'[y].group.me = e
                                /\ store'[y].group.count = n
      BY <2>1
    <3>2. CASE y = x
      BY <1>7, <1>9, <1>10, <3>1, <3>2
    <3>3. CASE y # x
      BY <1>9, <1>10, <3>1, <3>3 DEF IInv, Own, Copy
    <3> QED BY <3>2, <3>3
  <2>2. CASE \E u \in Tabs : Using(u)' /\ task'[u].state.me = e /\ task'[u].state.count = n
    <3>1. PICK u \in Tabs : Using(u)' /\ task'[u].state.me = e /\ task'[u].state.count = n
      BY <2>2
    <3>2. u # t
      BY <1>6, <1>8, <3>1 DEF Using
    <3>3. Using(u) /\ task'[u] = task[u]
      BY <1>8, <3>1, <3>2 DEF Using
    <3> QED BY <1>11, <3>1, <3>2, <3>3 DEF Copy
  <2> QED BY <2>1, <2>2 DEF Copy
<1>15. \A e \in Devices : \A n \in Nat : Used(e, n)' => Used(e, n) \/ (e = d /\ n = c + 1)
  BY <1>2, <1>6, <1>8, <1>10 DEF Used
<1>16. \A n \in Nat : Used(d, n) => n <= c
  BY <1>4, <1>10 DEF IInv, KInv, Ahead, d, c
<1>17. group # None
  BY <1>4 DEF IInv, KInv, Begun
<1>18. Ahead'
  BY <1>10, <1>14, <1>15, <1>16 DEF IInv, KInv, Ahead
<1>19. Fresh'
  <2>1. \A w \in welcomes : w.to # d /\ w.to \in Devices
    BY <1>4 DEF IInv, TypeOK, KInv, Fresh, d, c
  <2> QED BY <1>2, <1>14, <1>15, <2>1 DEF IInv, KInv, Fresh, directory
<1>20. Begun'
  BY <1>2, <1>17 DEF Begun, directory
<1>21. Turns'
  BY <1>3, <1>6, <1>8 DEF IInv, KInv, Turns, Holding
<1>22. Ids'
  BY <1>2, <1>4, <1>5, <1>6, <1>7, <1>8, <1>9 DEF IInv, KInv, Ids, Using, directory
<1>23. Once'
  <2>1. KeysUsedOnce'
    BY <1>2 DEF IInv, KInv, Once, KeysUsedOnce
  <2>2. \A i \in DOMAIN sent : sent[i] # [by |-> d, n |-> c + 1]
    <3> SUFFICES ASSUME NEW i \in DOMAIN sent, sent[i] = [by |-> d, n |-> c + 1] PROVE FALSE
      OBVIOUS
    <3>1. Used(d, c + 1)
      BY DEF Used
    <3> QED BY <1>10, <1>16, <3>1
  <2>3. \A u \in Tabs : task[u].at = "post" => task[u].state.me # d \/ task[u].state.count # c + 1
    <3> SUFFICES ASSUME NEW u \in Tabs, task[u].at = "post", task[u].state.me = d,
                        task[u].state.count = c + 1
                 PROVE  FALSE
      OBVIOUS
    <3>1. Used(d, c + 1)
      BY DEF Used
    <3> QED BY <1>10, <1>16, <3>1
  <2> QED BY <1>2, <1>6, <1>8, <1>10, <2>1, <2>2, <2>3 DEF IInv, KInv, Once
<1> QED BY <1>12, <1>13, <1>18, <1>19, <1>20, <1>21, <1>22, <1>23 DEF IInv, KInv

LEMMA PostKeeps ==
  ASSUME E2eeAssumption, IInv, NEW t \in Tabs, Post(t)
  PROVE  IInv'
<1> DEFINE x == BrowserOf[t]
           st == task[t].state
           e == [by |-> st.me, n |-> st.count]
           held == [store[x] EXCEPT !.texts = @ \cup {Len(sent')}]
<1>1. x \in Browsers /\ task[t] \in TaskType /\ store[x] \in StoreType
  BY TabIs DEF IInv
<1>2. /\ task[t].at = "post" /\ task' = [task EXCEPT ![t] = Idle]
      /\ sent' = Append(sent, e) /\ store' = [store EXCEPT ![x] = held]
      /\ UNCHANGED <<directory, on, born, made, upload, pending>>
  BY DEF Post, End
<1>3. st \in State /\ e \in [by : Devices, n : Nat]
  BY <1>2 DEF IInv, Own, State
<1>4. /\ sent' \in Seq([by : Devices, n : Nat]) /\ Len(sent') \in Nat
      /\ DOMAIN sent' = DOMAIN sent \cup {Len(sent) + 1} /\ Len(sent) + 1 \notin DOMAIN sent
      /\ \A i \in DOMAIN sent : sent'[i] = sent[i]
      /\ sent'[Len(sent) + 1] = e
  BY <1>2, <1>3 DEF IInv, TypeOK
<1>5. held \in StoreType /\ held.dev = store[x].dev /\ held.group = store[x].group
  BY <1>1, <1>4 DEF StoreType
<1> HIDE DEF held
<1>6. /\ task' \in [Tabs -> TaskType] /\ task'[t] = Idle
      /\ \A u \in Tabs \ {t} : task'[u] = task[u]
  BY <1>2, IdleIs, TaskIs DEF IInv
<1>7. /\ store' \in [Browsers -> StoreType]
      /\ \A y \in Browsers : store'[y].dev = store[y].dev /\ store'[y].group = store[y].group
  BY <1>1, <1>2, <1>5, StoreIs DEF IInv
<1> HIDE DEF x
<1>8. TypeOK'
  BY <1>2, <1>4, <1>6, <1>7 DEF IInv, TypeOK, directory
<1>9. Own'
  <2>1. \A u \in Tabs : task'[u] = task[u] \/ task'[u] = Idle
    BY <1>6
  <2>2. \A u \in Tabs : BrowserOf[u] \in Browsers
    BY DEF E2eeAssumption
  <2> QED BY <1>2, <1>7, <2>1, <2>2, IdleIs DEF IInv, Own, Using, directory
<1>10. \A d \in Devices : \A n \in Nat : Copy(d, n)' => Copy(d, n)
  BY <1>6, <1>7, IdleIs DEF Copy, Using
<1>11. \A d \in Devices : \A n \in Nat : Used(d, n)' => Used(d, n)
  <2> SUFFICES ASSUME NEW d \in Devices, NEW n \in Nat, Used(d, n)' PROVE Used(d, n)
    OBVIOUS
  <2>1. CASE \E i \in DOMAIN sent' : sent'[i].by = d /\ sent'[i].n = n
    <3>1. PICK i \in DOMAIN sent' : sent'[i].by = d /\ sent'[i].n = n
      BY <2>1
    <3>2. CASE i \in DOMAIN sent
      BY <1>4, <3>1, <3>2 DEF Used
    <3>3. CASE i = Len(sent) + 1
      BY <1>2, <1>4, <3>1, <3>3 DEF Used
    <3> QED BY <1>4, <3>2, <3>3
  <2>2. CASE \E u \in Tabs : /\ task'[u].at = "post" /\ task'[u].state.me = d
                             /\ task'[u].state.count = n
    BY <1>6, <2>2, IdleIs DEF Used
  <2> QED BY <2>1, <2>2 DEF Used
<1>12. Ahead' /\ Fresh' /\ Begun'
  BY <1>2, <1>10, <1>11, Shrinks DEF directory
<1>13. Turns' /\ Ids'
  <2>1. Turns'
    BY <1>6, IdleIs DEF IInv, KInv, Turns, Holding
  <2>2. Ids'
    BY <1>2, <1>6, <1>7, IdleIs DEF IInv, KInv, Ids, Using, directory
  <2> QED BY <2>1, <2>2
<1>14. Once'
  <2>1. \A i \in DOMAIN sent : sent[i] # e
    BY <1>2 DEF IInv, KInv, Once
  <2>2. KeysUsedOnce'
    BY <1>4, <2>1 DEF IInv, KInv, Once, KeysUsedOnce
  <2>3. \A u \in Tabs : task'[u].at = "post" => u # t /\ task'[u] = task[u]
    BY <1>6, IdleIs
  <2>4. \A u \in Tabs : task'[u].at = "post" =>
          \A i \in DOMAIN sent' : sent'[i] # [by |-> task'[u].state.me, n |-> task'[u].state.count]
    <3> SUFFICES ASSUME NEW u \in Tabs, task'[u].at = "post", NEW i \in DOMAIN sent'
                 PROVE  sent'[i] # [by |-> task[u].state.me, n |-> task[u].state.count]
      BY <2>3
    <3>1. CASE i \in DOMAIN sent
      BY <1>4, <2>3, <3>1 DEF IInv, KInv, Once
    <3>2. CASE i = Len(sent) + 1
      <4>1. task[u].state.me # st.me \/ task[u].state.count # st.count
        BY <1>2, <2>3 DEF IInv, KInv, Once
      <4> QED BY <1>4, <3>2, <4>1
    <3> QED BY <1>4, <3>1, <3>2
  <2>5. \A u, v \in Tabs : u # v /\ task'[u].at = "post" /\ task'[v].at = "post" =>
          task'[v].state.me # task'[u].state.me \/ task'[v].state.count # task'[u].state.count
    BY <2>3 DEF IInv, KInv, Once
  <2> QED BY <2>2, <2>4, <2>5 DEF Once
<1> QED BY <1>8, <1>9, <1>12, <1>13, <1>14 DEF IInv, KInv

LEMMA InitHolds ==
  ASSUME E2eeAssumption, Init
  PROVE  IInv
<1>1. TypeOK
  <2>1. store \in [Browsers -> StoreType]
    BY DEF Init, Empty, StoreType
  <2>2. upload \in [Browsers -> UploadType]
    BY DEF Init, Quiet, UploadType
  <2>3. task \in [Tabs -> TaskType]
    BY IdleIs DEF Init
  <2>4. born \in [Browsers -> 0..MaxDevices]
    BY DEF E2eeAssumption, Init
  <2>5. sent \in Seq([by : Devices, n : Nat])
    BY DEF Init
  <2> QED BY <2>1, <2>2, <2>3, <2>4, <2>5 DEF Init, TypeOK
<1>2. /\ \A x \in Browsers : store[x].dev = None /\ store[x].group = None /\ upload[x].dev = None
      /\ \A t \in Tabs : task[t].at = "idle" /\ task[t].keys = {}
      /\ DOMAIN sent = {} /\ welcomes = {} /\ current = {}
  BY IdleIs DEF Init, Empty, Quiet
<1>3. Own
  BY <1>2 DEF Own, Using
<1>4. \A d \in Devices : \A n \in Nat : ~Copy(d, n) /\ ~Used(d, n)
  BY <1>2 DEF Copy, Used, Using
<1>5. Ahead /\ Fresh /\ Begun
  BY <1>2, <1>4 DEF Ahead, Fresh, Begun
<1>6. Turns /\ Ids /\ Once
  BY <1>2 DEF Turns, Holding, Ids, Using, Once, KeysUsedOnce
<1> QED BY <1>1, <1>3, <1>5, <1>6 DEF IInv, KInv

LEMMA StutterKeeps ==
  ASSUME IInv, UNCHANGED vars
  PROVE  IInv'
<1>1. UNCHANGED <<directory, sent, browsers, task>>
  BY DEF vars
<1>2. TypeOK'
  BY <1>1 DEF IInv, TypeOK, directory, browsers
<1>3. Own'
  BY <1>1 DEF IInv, Own, Using, directory, browsers
<1>4. KInv'
  BY <1>1, DeviceStep DEF directory, browsers
<1> QED BY <1>2, <1>3, <1>4 DEF IInv

LEMMA NextKeeps ==
  ASSUME E2eeAssumption, IInv, [Next]_vars
  PROVE  IInv'
<1>1. CASE \E x \in Browsers : \/ TurnOn(x) \/ Register(x) \/ StartOver(x) \/ MakeKeys(x)
                               \/ Refused(x) \/ AddKeys(x) \/ TurnOff(x) \/ RevokeOthers(x)
  BY <1>1, TurnOnKeeps, RegisterKeeps, StartOverKeeps, MakeKeysKeeps, RefusedKeeps,
     AddKeysKeeps, TurnOffKeeps, RevokeOthersKeeps
<1>2. CASE \E d \in pending : FlushPending(d)
  BY <1>2, FlushPendingKeeps
<1>3. CASE \E t \in Tabs : \/ Begin(t) \/ FindGroup(t) \/ Accept(t) \/ Check(t) \/ Claim(t)
                           \/ Create(t) \/ Keep(t) \/ Encrypt(t) \/ Decrypt(t) \/ Remember(t)
                           \/ Post(t) \/ GiveUp(t)
  BY <1>3, BeginKeeps, FindGroupKeeps, AcceptKeeps, CheckKeeps, ClaimKeeps, CreateKeeps,
     KeepKeeps, EncryptKeeps, DecryptKeeps, RememberKeeps, PostKeeps, GiveUpKeeps
<1>4. CASE UNCHANGED vars
  BY <1>4, StutterKeeps
<1> QED BY <1>1, <1>2, <1>3, <1>4 DEF Next

-----------------------------------------------------------------------------
\* The inductive invariant: every state of the group, stored or held by a tab,
\* is past the keys its device has used, and one tab of a browser holds it.
THEOREM Invariant ==
  ASSUME E2eeAssumption
  PROVE  Spec => []IInv
<1>1. Init => IInv
  BY InitHolds
<1>2. IInv /\ [Next]_vars => IInv'
  BY NextKeeps
<1> QED BY <1>1, <1>2, PTL DEF Spec

\* No message key encrypts twice, whatever the tabs of a browser do at once.
THEOREM NoKeyTwice ==
  ASSUME E2eeAssumption
  PROVE  Spec => []KeysUsedOnce
<1>1. IInv => KeysUsedOnce
  BY DEF IInv, KInv, Once
<1> QED BY <1>1, Invariant, PTL

\* Whoever holds a group for the chat holds the one the directory records.
THEOREM TheRecordedGroup ==
  ASSUME E2eeAssumption
  PROVE  Spec => []OneGroup
<1>1. IInv => OneGroup
  BY DEF IInv, KInv, Ids, OneGroup
<1> QED BY <1>1, Invariant, PTL

-----------------------------------------------------------------------------
(* What others may claim of a device, its browser can use.                   *)

\* A welcome or a claim holds key k of device d.
Lent(d, k) ==
  \/ \E w \in welcomes : w.to = d /\ w.key = k
  \/ \E t \in Tabs : \E p \in task[t].keys : p[1] = d /\ p[2] = k

\* A browser that has not joined, with a device that is nowhere given up.
Waiting(x) == store[x].dev \in current \ pending /\ store[x].group = None

\* The directory knows keys of current devices only.
Listed == \A d \in Devices \ current :
  oneTime[d] = {} /\ fallback[d] = 0 /\ \A w \in welcomes : w.to # d

\* Keys are numbered as they are made; without a device there are none.
Numbered == \A x \in Browsers :
  /\ store[x].keys \subseteq 1..made[x] /\ Len(store[x].last) <= 2
  /\ upload[x].once \in 0..made[x] /\ upload[x].last \in 0..made[x]
  /\ \A i \in DOMAIN store[x].last : store[x].last[i] \in 1..made[x]
  /\ store[x].dev = None => store[x].keys = {} /\ store[x].last = <<>>
  /\ upload[x].dev \in current \ pending => store[x].dev = upload[x].dev

\* The last resort before the last is neither one-time nor the directory's.
KeptBy(x) == LET s == store[x] d == store[x].dev IN
  /\ oneTime[d] \subseteq s.keys
  /\ fallback[d] # 0 => fallback[d] \in s.keys
  /\ \A k \in Nat : Lent(d, k) => k \in s.keys
  /\ \A i \in DOMAIN s.last : s.last[i] \notin oneTime[d]
  /\ Len(s.last) = 2 => s.last[2] # fallback[d]

\* What is being uploaded is stored and new; the key it replaces is not in use.
UploadedBy(x) == LET s == store[x] u == upload[x] IN
  /\ {u.once, u.last} \ {0} \subseteq s.keys /\ u.last \notin oneTime[s.dev]
  /\ u.last # 0 => u.last # u.once
  /\ \A i \in DOMAIN s.last : s.last[i] # u.once /\ s.last[i] # u.last
  /\ u.last # 0 /\ Len(s.last) = 2 => ~Lent(s.dev, s.last[2])

Kept == \A x \in Browsers : Waiting(x) => KeptBy(x)
Uploading == \A x \in Browsers : Waiting(x) /\ upload[x].dev = store[x].dev => UploadedBy(x)

KeptInv == Listed /\ Numbered /\ Kept /\ Uploading

\* A step that gives nothing to a device but what was lent of its own keys.
LEMMA KeysFrame ==
  ASSUME E2eeAssumption, TypeOK, KeptInv, UNCHANGED <<made, upload>>,
         current' \subseteq current, current' \ pending' \subseteq current \ pending,
         \A d \in Devices :
           /\ oneTime'[d] \subseteq oneTime[d] /\ fallback'[d] \in {0, fallback[d]}
           /\ d \in current \ current' => oneTime'[d] = {} /\ fallback'[d] = 0
           /\ \A k \in Nat : Lent(d, k)' =>
                Lent(d, k) \/ k \in oneTime[d] \/ (k = fallback[d] /\ k # 0),
         \A w \in welcomes' : w.to \in current',
         \A x \in Browsers :
           \/ /\ store'[x].dev = None /\ store'[x].keys = {} /\ store'[x].last = <<>>
              /\ store[x].dev \notin current' \ pending'
           \/ /\ store'[x].dev = store[x].dev /\ store'[x].last = store[x].last
              /\ store'[x].keys \subseteq store[x].keys
              /\ \/ store'[x].group = store[x].group /\ store'[x].keys = store[x].keys
                 \/ store'[x].group # None
  PROVE  KeptInv'
<1>1. Listed'
  BY DEF KeptInv, Listed, TypeOK
<1>2. Numbered'
  <2> SUFFICES ASSUME NEW x \in Browsers
               PROVE  /\ store'[x].keys \subseteq 1..made'[x] /\ Len(store'[x].last) <= 2
                      /\ upload'[x].once \in 0..made'[x] /\ upload'[x].last \in 0..made'[x]
                      /\ \A i \in DOMAIN store'[x].last : store'[x].last[i] \in 1..made'[x]
                      /\ store'[x].dev = None => store'[x].keys = {} /\ store'[x].last = <<>>
                      /\ upload'[x].dev \in current' \ pending' => store'[x].dev = upload'[x].dev
    BY DEF Numbered
  <2>1. CASE store'[x].dev = None /\ store'[x].keys = {} /\ store'[x].last = <<>>
             /\ store[x].dev \notin current' \ pending'
    BY <2>1 DEF KeptInv, Numbered
  <2>2. CASE /\ store'[x].dev = store[x].dev /\ store'[x].last = store[x].last
             /\ store'[x].keys \subseteq store[x].keys
    BY <2>2 DEF KeptInv, Numbered
  <2> QED BY <2>1, <2>2
<1>3. ASSUME NEW x \in Browsers, Waiting(x)'
      PROVE  /\ Waiting(x) /\ store[x].dev \in Devices
             /\ store'[x].dev = store[x].dev /\ store'[x].last = store[x].last
             /\ store'[x].keys = store[x].keys
  BY <1>3 DEF Waiting, TypeOK, E2eeAssumption
<1>4. ASSUME NEW x \in Browsers
      PROVE  /\ DOMAIN store[x].last = 1..Len(store[x].last) /\ Len(store[x].last) \in Nat
             /\ \A i \in DOMAIN store[x].last : store[x].last[i] \in Nat /\ store[x].last[i] # 0
  <2>1. store[x].last \in Seq(Nat) /\ made[x] \in Nat
    BY DEF TypeOK, StoreType
  <2>2. \A i \in DOMAIN store[x].last : store[x].last[i] \in 1..made[x]
    BY DEF KeptInv, Numbered
  <2> QED BY <2>1, <2>2
<1>5. Kept'
  <2> SUFFICES ASSUME NEW x \in Browsers, Waiting(x)' PROVE KeptBy(x)'
    BY DEF Kept
  <2>1. PICK d \in Devices : d = store[x].dev
    BY <1>3
  <2>2. KeptBy(x) /\ store'[x].dev = d /\ store'[x].last = store[x].last
        /\ store'[x].keys = store[x].keys
    BY <1>3, <2>1 DEF KeptInv, Kept
  <2>3. /\ oneTime[d] \subseteq store[x].keys
        /\ fallback[d] # 0 => fallback[d] \in store[x].keys
        /\ \A k \in Nat : Lent(d, k) => k \in store[x].keys
        /\ \A i \in DOMAIN store[x].last : store[x].last[i] \notin oneTime[d]
        /\ Len(store[x].last) = 2 => store[x].last[2] # fallback[d]
    BY <2>1, <2>2 DEF KeptBy
  <2>4. Len(store[x].last) = 2 => store[x].last[2] # 0
    BY <1>4
  <2>5. oneTime'[d] \subseteq oneTime[d] /\ fallback'[d] \in {0, fallback[d]}
    BY <2>1
  <2>6. \A k \in Nat : Lent(d, k)' => k \in store[x].keys
    BY <2>1, <2>3
  <2>7. \A k \in Nat : Lent(store[x].dev, k)' => k \in store'[x].keys
    BY <2>2, <2>6 DEF Lent
  <2> QED BY <2>2, <2>3, <2>4, <2>5, <2>7 DEF KeptBy
<1>6. Uploading'
  <2> SUFFICES ASSUME NEW x \in Browsers, Waiting(x)', upload'[x].dev = store'[x].dev
               PROVE  UploadedBy(x)'
    BY DEF Uploading
  <2>1. PICK d \in Devices : d = store[x].dev
    BY <1>3
  <2>2. KeptBy(x) /\ UploadedBy(x)
    BY <1>3, <2>1 DEF KeptInv, Kept, Uploading
  <2>3. store'[x].dev = d /\ store'[x].last = store[x].last /\ store'[x].keys = store[x].keys
        /\ upload'[x] = upload[x]
    BY <1>3, <2>1
  <2>4. Len(store[x].last) = 2 =>
          /\ store[x].last[2] \in Nat /\ store[x].last[2] \notin oneTime[d]
          /\ store[x].last[2] # fallback[d]
    BY <1>4, <2>1, <2>2 DEF KeptBy
  <2>5. oneTime'[d] \subseteq oneTime[d]
    BY <2>1
  <2>6. Len(store[x].last) = 2 /\ ~Lent(d, store[x].last[2]) =>
          \A k \in Nat : k = store[x].last[2] => ~Lent(d, k)'
    BY <2>1, <2>4
  <2>7. upload'[x].last # 0 /\ Len(store'[x].last) = 2 => ~Lent(store[x].dev, store[x].last[2])'
    BY <2>1, <2>2, <2>3, <2>4, <2>6 DEF Lent, UploadedBy
  <2>8. /\ {upload[x].once, upload[x].last} \ {0} \subseteq store[x].keys
        /\ upload[x].last \notin oneTime[d]
        /\ upload[x].last # 0 => upload[x].last # upload[x].once
        /\ \A i \in DOMAIN store[x].last : store[x].last[i] # upload[x].once /\ store[x].last[i] # upload[x].last
    BY <2>1, <2>2 DEF UploadedBy
  <2> QED BY <2>3, <2>5, <2>7, <2>8 DEF UploadedBy
<1> QED BY <1>1, <1>2, <1>5, <1>6 DEF KeptInv

\* A step of a tab that lends nothing.
LEMMA TabFrame ==
  ASSUME E2eeAssumption, TypeOK, KeptInv, NEW t \in Tabs, NEW new, NEW held,
         UNCHANGED <<current, oneTime, fallback, made, upload, pending>>,
         welcomes' \subseteq welcomes, task' = [task EXCEPT ![t] = new],
         new.keys \subseteq task[t].keys, store' = [store EXCEPT ![BrowserOf[t]] = held],
         held.dev = store[BrowserOf[t]].dev, held.last = store[BrowserOf[t]].last,
         held.keys \subseteq store[BrowserOf[t]].keys,
         \/ held.group = store[BrowserOf[t]].group /\ held.keys = store[BrowserOf[t]].keys
         \/ held.group # None
  PROVE  KeptInv'
<1>0. /\ task'[t] = new /\ \A u \in Tabs \ {t} : task'[u] = task[u]
      /\ BrowserOf[t] \in Browsers /\ store'[BrowserOf[t]] = held
      /\ \A y \in Browsers \ {BrowserOf[t]} : store'[y] = store[y]
  BY DEF TypeOK, E2eeAssumption
<1>1. \A d \in Devices : \A k \in Nat : Lent(d, k)' => Lent(d, k)
  BY <1>0 DEF Lent
<1>2. \A w \in welcomes' : w.to \in current'
  BY DEF KeptInv, Listed, TypeOK
<1>3. \A d \in Devices :
        /\ oneTime'[d] \subseteq oneTime[d] /\ fallback'[d] \in {0, fallback[d]}
        /\ d \in current \ current' => oneTime'[d] = {} /\ fallback'[d] = 0
        /\ \A k \in Nat : Lent(d, k)' => Lent(d, k) \/ k \in oneTime[d] \/ (k = fallback[d] /\ k # 0)
  <2>1. oneTime' = oneTime /\ fallback' = fallback /\ current' = current
    OBVIOUS
  <2>2. ASSUME NEW d \in Devices, NEW k \in Nat, Lent(d, k)' PROVE Lent(d, k)
    BY <1>1, <2>2
  <2> QED BY <2>1, <2>2
<1>4. /\ UNCHANGED <<made, upload>> /\ current' \subseteq current
      /\ current' \ pending' \subseteq current \ pending
  OBVIOUS
<1>5. \A x \in Browsers :
        \/ /\ store'[x].dev = None /\ store'[x].keys = {} /\ store'[x].last = <<>>
           /\ store[x].dev \notin current' \ pending'
        \/ /\ store'[x].dev = store[x].dev /\ store'[x].last = store[x].last
           /\ store'[x].keys \subseteq store[x].keys
           /\ \/ store'[x].group = store[x].group /\ store'[x].keys = store[x].keys
              \/ store'[x].group # None
  BY <1>0
<1> QED BY <1>2, <1>3, <1>4, <1>5, KeysFrame, Zenon

-----------------------------------------------------------------------------
(* The tabs.                                                                 *)

\* Looking, and giving up, touches no key.
LEMMA LookKeysKept ==
  ASSUME E2eeAssumption, TypeOK, KeptInv, NEW t \in Tabs,
         Begin(t) \/ FindGroup(t) \/ Check(t) \/ GiveUp(t)
  PROVE  KeptInv'
<1>1. task[t] \in TaskType /\ store = [store EXCEPT ![BrowserOf[t]] = store[BrowserOf[t]]]
  BY TabIs
<1>2. UNCHANGED <<directory, browsers>>
  BY DEF Begin, FindGroup, Check, GiveUp
<1>3. PICK label, m, state :
        \/ task' = [task EXCEPT ![t] = Idle]
        \/ task' = [task EXCEPT ![t].at = label]
        \/ task' = [task EXCEPT ![t].at = label, ![t].do = m]
        \/ task' = [task EXCEPT ![t].at = label, ![t].state = state]
  BY DEF Begin, FindGroup, Check, GiveUp, Go, End
<1>4. CASE task' = [task EXCEPT ![t] = Idle]
  BY <1>1, <1>2, <1>4, IdleIs, TabFrame DEF directory, browsers
<1>5. CASE task' = [task EXCEPT ![t].at = label]
  <2> DEFINE new == [task[t] EXCEPT !.at = label]
  <2>1. task' = [task EXCEPT ![t] = new] /\ new.keys = task[t].keys
    BY <1>1, <1>5 DEF TaskType
  <2> HIDE DEF new
  <2> QED BY <1>1, <1>2, <2>1, TabFrame DEF directory, browsers
<1>6. CASE task' = [task EXCEPT ![t].at = label, ![t].do = m]
  <2> DEFINE new == [task[t] EXCEPT !.at = label, !.do = m]
  <2>1. task' = [task EXCEPT ![t] = new] /\ new.keys = task[t].keys
    BY <1>1, <1>6 DEF TaskType
  <2> HIDE DEF new
  <2> QED BY <1>1, <1>2, <2>1, TabFrame DEF directory, browsers
<1>7. CASE task' = [task EXCEPT ![t].at = label, ![t].state = state]
  <2> DEFINE new == [task[t] EXCEPT !.at = label, !.state = state]
  <2>1. task' = [task EXCEPT ![t] = new] /\ new.keys = task[t].keys
    BY <1>1, <1>7 DEF TaskType
  <2> HIDE DEF new
  <2> QED BY <1>1, <1>2, <2>1, TabFrame DEF directory, browsers
<1> QED BY <1>3, <1>4, <1>5, <1>6, <1>7

\* Who holds a state has joined.
LEMMA StateKeysKept ==
  ASSUME E2eeAssumption, TypeOK, Own, KeptInv, NEW t \in Tabs,
         Keep(t) \/ Encrypt(t) \/ Decrypt(t)
  PROVE  KeptInv'
<1> DEFINE s == store[BrowserOf[t]]
<1>1. task[t] \in TaskType /\ s \in StoreType /\ store = [store EXCEPT ![BrowserOf[t]] = s]
  BY TabIs
<1>2. /\ UNCHANGED <<directory, made, upload, pending>>
      /\ task[t].state \in State
  BY DEF Own, Using, Keep, Encrypt, Decrypt
<1>3. \E new : task' = [task EXCEPT ![t] = new] /\ new.keys \subseteq task[t].keys
  <2>1. \A label, state :
          /\ [task[t] EXCEPT !.at = label].keys = task[t].keys
          /\ [task[t] EXCEPT !.at = label, !.state = state].keys = task[t].keys
    BY <1>1 DEF TaskType
  <2>2. CASE Keep(t)
    BY <2>1, <2>2 DEF Keep, Go
  <2>3. CASE Encrypt(t)
    <3> DEFINE new == [task[t] EXCEPT !.at = "post", !.state = [task[t].state EXCEPT !.count = @ + 1]]
    <3>1. task' = [task EXCEPT ![t] = new]
      BY <2>3 DEF Encrypt
    <3>2. new.keys = task[t].keys
      BY <1>1 DEF TaskType
    <3> HIDE DEF new
    <3> QED BY <3>1, <3>2
  <2>4. CASE Decrypt(t)
    BY <2>1, <2>4, IdleIs DEF Decrypt, Go, End
  <2> QED BY <2>2, <2>3, <2>4
<1>4. \E state \in State : \/ store' = store
                           \/ store' = [store EXCEPT ![BrowserOf[t]] = [s EXCEPT !.group = state]]
  <2>1. /\ [task[t].state EXCEPT !.count = @ + 1] \in State
        /\ \A m \in Nat : [task[t].state EXCEPT !.read = @ \cup {m}] \in State
        /\ task[t].do \in Nat
    BY <1>1, <1>2 DEF State, TaskType
  <2>2. CASE Keep(t)
    BY <1>2, <2>2 DEF Keep
  <2>3. CASE Encrypt(t)
    BY <2>1, <2>3 DEF Encrypt
  <2>4. CASE Decrypt(t)
    BY <1>2, <2>1, <2>4 DEF Decrypt
  <2> QED BY <2>2, <2>3, <2>4
<1>5. \E held : /\ store' = [store EXCEPT ![BrowserOf[t]] = held]
                /\ held.dev = s.dev /\ held.last = s.last /\ held.keys = s.keys
                /\ held.group = s.group \/ held.group # None
  <2>1. \A state \in State : LET held == [s EXCEPT !.group = state] IN
          /\ held.dev = s.dev /\ held.last = s.last /\ held.keys = s.keys
          /\ held.group # None
    BY <1>1 DEF StoreType, E2eeAssumption
  <2> HIDE DEF s
  <2> QED BY <1>1, <1>4, <2>1
<1> QED BY <1>2, <1>3, <1>5, TabFrame DEF directory

LEMMA TextKeysKept ==
  ASSUME E2eeAssumption, TypeOK, KeptInv, NEW t \in Tabs, Remember(t) \/ Post(t)
  PROVE  KeptInv'
<1> DEFINE s == store[BrowserOf[t]]
<1>1. task[t] \in TaskType /\ s \in StoreType
  BY TabIs
<1>2. UNCHANGED <<directory, made, upload, pending>> /\ task' = [task EXCEPT ![t] = Idle]
  BY DEF Remember, Post, End
<1>3. \E texts : store' = [store EXCEPT ![BrowserOf[t]] = [s EXCEPT !.texts = texts]]
  BY DEF Remember, Post
<1>4. \A texts : LET held == [s EXCEPT !.texts = texts] IN
        held.dev = s.dev /\ held.last = s.last /\ held.keys = s.keys /\ held.group = s.group
  BY <1>1 DEF StoreType
<1> QED BY <1>2, <1>3, <1>4, IdleIs, TabFrame DEF directory

\* Who joins with a key needs no other any more.
LEMMA AcceptKeysKept ==
  ASSUME E2eeAssumption, TypeOK, KeptInv, Begun, NEW t \in Tabs, Accept(t)
  PROVE  KeptInv'
<1> DEFINE s == store[BrowserOf[t]]
           new == [task[t] EXCEPT !.at = "check"]
<1>1. task[t] \in TaskType /\ s \in StoreType /\ store = [store EXCEPT ![BrowserOf[t]] = s]
  BY TabIs
<1>2. /\ UNCHANGED <<current, oneTime, fallback, made, upload, pending>>
      /\ welcomes' \subseteq welcomes /\ task' = [task EXCEPT ![t] = new]
  BY DEF Accept, Go
<1>3. new.keys = task[t].keys
  BY <1>1 DEF TaskType
<1> HIDE DEF new
<1>4. CASE store' = store
  BY <1>1, <1>2, <1>3, <1>4, TabFrame
<1>5. CASE store' # store
  <2>1. PICK w \in WelcomesOf(s.dev) :
          store' = [store EXCEPT
            ![BrowserOf[t]].group = Joined(group, s.dev),
            ![BrowserOf[t]].keys = IF \E i \in DOMAIN s.last : s.last[i] = w.key THEN @ ELSE @ \ {w.key}]
    BY <1>5 DEF Accept
  <2> DEFINE left == IF \E i \in DOMAIN s.last : s.last[i] = w.key THEN s.keys ELSE s.keys \ {w.key}
             held == [s EXCEPT !.group = Joined(group, s.dev), !.keys = left]
  <2>2. group \in GroupId /\ s.dev \in Devices
    BY DEF WelcomesOf, TypeOK, Begun
  <2>3. Joined(group, s.dev) \in State
    BY <2>2 DEF Joined, State
  <2>4. /\ held.dev = s.dev /\ held.last = s.last /\ held.keys \subseteq s.keys
        /\ held.group # None
    BY <1>1, <2>3 DEF StoreType, E2eeAssumption
  <2>5. store' = [store EXCEPT ![BrowserOf[t]] = held]
    BY <2>1
  <2> HIDE DEF held
  <2> QED BY <1>2, <1>3, <2>4, <2>5, TabFrame
<1> QED BY <1>4, <1>5

\* What is claimed was the directory's, so it is stored.
LEMMA ClaimKeysKept ==
  ASSUME E2eeAssumption, TypeOK, KeptInv, NEW t \in Tabs, Claim(t)
  PROVE  KeptInv'
<1> DEFINE d == store[BrowserOf[t]].dev
           key(e) == IF oneTime[e] # {} THEN Oldest(oneTime[e]) ELSE fallback[e]
           got == {<<e, key(e)>> : e \in Others(d)}
<1>1. UNCHANGED <<current, fallback, group, welcomes, browsers>> /\ task[t] \in TaskType
  BY TabIs DEF Claim
<1>2. \A e \in Devices : oneTime'[e] \subseteq oneTime[e]
  <2>1. \/ oneTime' = oneTime
        \/ oneTime' = [e \in Devices |-> IF e \in Others(d) /\ oneTime[e] # {}
                                         THEN oneTime[e] \ {Oldest(oneTime[e])} ELSE oneTime[e]]
    BY DEF Claim
  <2> HIDE DEF d
  <2> QED BY <2>1
<1>3. \E new : task' = [task EXCEPT ![t] = new] /\ new.keys \subseteq got
  <2>1. [task[t] EXCEPT !.at = "create", !.keys = got].keys = got
    BY <1>1 DEF TaskType
  <2>2. \/ task' = [task EXCEPT ![t] = Idle]
        \/ task' = [task EXCEPT ![t] = [task[t] EXCEPT !.at = "create", !.keys = got]]
    BY DEF Claim, End
  <2>3. \E new : task' = [task EXCEPT ![t] = new] /\ (new = Idle \/ new.keys = got)
    <3> DEFINE claiming == [task[t] EXCEPT !.at = "create", !.keys = got]
    <3> HIDE DEF got, claiming
    <3>1. claiming.keys = got
      BY <2>1 DEF claiming
    <3>2. task' = [task EXCEPT ![t] = Idle] \/ task' = [task EXCEPT ![t] = claiming]
      BY <2>2 DEF claiming
    <3> QED BY <3>1, <3>2
  <2> HIDE DEF got
  <2> QED BY <2>3, IdleIs
<1>4. \A p \in got : p[1] \in Devices /\ (p[2] \in oneTime[p[1]] \/ (p[2] = fallback[p[1]] /\ p[2] # 0))
  <2> SUFFICES ASSUME NEW e \in Others(d)
               PROVE  e \in Devices /\ (key(e) \in oneTime[e] \/ (key(e) = fallback[e] /\ key(e) # 0))
    OBVIOUS
  <2>1. e \in Devices /\ oneTime[e] \in SUBSET Nat /\ (oneTime[e] # {} \/ fallback[e] # 0)
    BY DEF Others, TypeOK
  <2>2. oneTime[e] # {} => Oldest(oneTime[e]) \in oneTime[e]
    BY <2>1, OldestIs
  <2> QED BY <2>1, <2>2
<1> HIDE DEF got
<1>5. \A u \in Tabs : task'[u].keys \subseteq task[u].keys \cup got
  BY <1>3 DEF TypeOK
<1>6. \A e \in Devices : \A k \in Nat :
        Lent(e, k)' => Lent(e, k) \/ k \in oneTime[e] \/ (k = fallback[e] /\ k # 0)
  <2> TAKE e \in Devices
  <2> TAKE k \in Nat
  <2> HAVE Lent(e, k)'
  <2>0. welcomes' = welcomes
    BY <1>1
  <2>1. CASE \E w \in welcomes' : w.to = e /\ w.key = k
    <3>1. Lent(e, k)
      BY <2>0, <2>1 DEF Lent
    <3> QED BY <3>1
  <2>2. CASE \E u \in Tabs : \E p \in task'[u].keys : p[1] = e /\ p[2] = k
    <3>0. PICK u \in Tabs : \E p \in task'[u].keys : p[1] = e /\ p[2] = k
      BY <2>2
    <3>1. PICK p \in task'[u].keys : p[1] = e /\ p[2] = k
      BY <3>0
    <3>2. p \in task[u].keys \/ p \in got
      BY <1>5
    <3>3. CASE p \in task[u].keys
      <4>1. Lent(e, k)
        BY <3>1, <3>3 DEF Lent
      <4> QED BY <4>1
    <3>4. CASE p \in got
      BY <1>4, <3>1, <3>4
    <3> QED BY <3>2, <3>3, <3>4
  <2> QED BY <2>1, <2>2 DEF Lent
<1>7. \A w \in welcomes' : w.to \in current'
  BY <1>1 DEF KeptInv, Listed, TypeOK
<1>8. \A e \in Devices :
        /\ oneTime'[e] \subseteq oneTime[e] /\ fallback'[e] \in {0, fallback[e]}
        /\ e \in current \ current' => oneTime'[e] = {} /\ fallback'[e] = 0
        /\ \A k \in Nat : Lent(e, k)' => Lent(e, k) \/ k \in oneTime[e] \/ (k = fallback[e] /\ k # 0)
  BY <1>1, <1>2, <1>6
<1>9. /\ UNCHANGED <<made, upload, store>> /\ current' \subseteq current
      /\ current' \ pending' \subseteq current \ pending
  BY <1>1 DEF browsers
<1>10. \A x \in Browsers :
         /\ store'[x].dev = store[x].dev /\ store'[x].last = store[x].last
         /\ store'[x].keys \subseteq store[x].keys
         /\ store'[x].group = store[x].group /\ store'[x].keys = store[x].keys
  BY <1>9
<1> QED BY <1>7, <1>8, <1>9, <1>10, KeysFrame, Zenon

\* Welcomes are made of what was claimed.
LEMMA CreateKeysKept ==
  ASSUME E2eeAssumption, TypeOK, KeptInv, NEW t \in Tabs, Create(t)
  PROVE  KeptInv'
<1>1. UNCHANGED <<current, oneTime, fallback, browsers>> /\ task[t] \in TaskType
  BY TabIs DEF Create
<1>2. \E new : task' = [task EXCEPT ![t] = new] /\ new.keys = {}
  <2>1. \/ task' = [task EXCEPT ![t] = Idle]
        \/ task' = [task EXCEPT ![t].at = "welcomes", ![t].keys = {}]
        \/ \E state : task' = [task EXCEPT ![t].at = "won", ![t].keys = {}, ![t].state = state]
    BY DEF Create, End
  <2>2. CASE task' = [task EXCEPT ![t] = Idle]
    BY <2>2, IdleIs
  <2>3. CASE task' = [task EXCEPT ![t].at = "welcomes", ![t].keys = {}]
    <3> DEFINE new == [task[t] EXCEPT !.at = "welcomes", !.keys = {}]
    <3>1. task' = [task EXCEPT ![t] = new] /\ new.keys = {}
      BY <1>1, <2>3 DEF TaskType
    <3> HIDE DEF new
    <3> QED BY <3>1
  <2>4. ASSUME NEW state,
               task' = [task EXCEPT ![t].at = "won", ![t].keys = {}, ![t].state = state]
        PROVE  \E new : task' = [task EXCEPT ![t] = new] /\ new.keys = {}
    <3> DEFINE new == [task[t] EXCEPT !.at = "won", !.keys = {}, !.state = state]
    <3>1. task' = [task EXCEPT ![t] = new] /\ new.keys = {}
      BY <1>1, <2>4 DEF TaskType
    <3> HIDE DEF new
    <3> QED BY <3>1
  <2> QED BY <2>1, <2>2, <2>3, <2>4
<1>3. \A u \in Tabs : task'[u].keys \subseteq task[u].keys
  BY <1>2 DEF TypeOK
<1>4. \A w \in welcomes' :
        \/ w \in welcomes
        \/ \E p \in task[t].keys : w.to = p[1] /\ w.key = p[2] /\ p[1] \in current
  BY DEF Create
<1>5. \A e \in Devices : \A k \in Nat : Lent(e, k)' => Lent(e, k)
  <2> TAKE e \in Devices
  <2> TAKE k \in Nat
  <2> HAVE Lent(e, k)'
  <2>1. CASE \E w \in welcomes' : w.to = e /\ w.key = k
    BY <1>4, <2>1 DEF Lent
  <2>2. CASE \E u \in Tabs : \E p \in task'[u].keys : p[1] = e /\ p[2] = k
    BY <1>3, <2>2 DEF Lent
  <2> QED BY <2>1, <2>2 DEF Lent
<1>6. \A w \in welcomes' : w.to \in current'
  <2>1. \A w \in welcomes : w.to \in current
    BY DEF KeptInv, Listed, TypeOK
  <2> QED BY <1>1, <1>4, <2>1
<1>7. \A e \in Devices :
        /\ oneTime'[e] \subseteq oneTime[e] /\ fallback'[e] \in {0, fallback[e]}
        /\ e \in current \ current' => oneTime'[e] = {} /\ fallback'[e] = 0
        /\ \A k \in Nat : Lent(e, k)' => Lent(e, k) \/ k \in oneTime[e] \/ (k = fallback[e] /\ k # 0)
  <2>1. ASSUME NEW e \in Devices, NEW k \in Nat, Lent(e, k)' PROVE Lent(e, k)
    BY <1>5, <2>1
  <2>2. oneTime' = oneTime /\ fallback' = fallback /\ current' = current
    BY <1>1
  <2> QED BY <2>1, <2>2
<1>8. /\ UNCHANGED <<made, upload, store>> /\ current' \subseteq current
      /\ current' \ pending' \subseteq current \ pending
  BY <1>1 DEF browsers
<1>9. \A x \in Browsers :
        /\ store'[x].dev = store[x].dev /\ store'[x].last = store[x].last
        /\ store'[x].keys \subseteq store[x].keys
        /\ store'[x].group = store[x].group /\ store'[x].keys = store[x].keys
  BY <1>8
<1> QED BY <1>6, <1>7, <1>8, <1>9, KeysFrame, Zenon

-----------------------------------------------------------------------------
(* The devices.                                                              *)

\* What revoking leaves of other devices.
LEMMA RevokeFrame ==
  ASSUME TypeOK, KeptInv, NEW ds, Revoke(ds), UNCHANGED task
  PROVE  /\ current' = current \ ds
         /\ \A d \in Devices :
              /\ oneTime'[d] \subseteq oneTime[d] /\ fallback'[d] \in {0, fallback[d]}
              /\ d \in current \ current' => oneTime'[d] = {} /\ fallback'[d] = 0
              /\ \A k \in Nat : Lent(d, k)' =>
                   Lent(d, k) \/ k \in oneTime[d] \/ (k = fallback[d] /\ k # 0)
         /\ \A w \in welcomes' : w.to \in current'
<1>1. /\ current' = current \ ds /\ welcomes' = {w \in welcomes : w.to \notin ds}
      /\ oneTime' = [d \in Devices |-> IF d \in ds \cap current THEN {} ELSE oneTime[d]]
      /\ fallback' = [d \in Devices |-> IF d \in ds \cap current THEN 0 ELSE fallback[d]]
  BY DEF Revoke
<1>2. ASSUME NEW d \in Devices, NEW k \in Nat, Lent(d, k)' PROVE Lent(d, k)
  BY <1>1, <1>2 DEF Lent
<1>3. \A w \in welcomes : w.to \in current
  BY DEF KeptInv, Listed, TypeOK
<1> QED BY <1>1, <1>2, <1>3

LEMMA TurnOnKeysKept ==
  ASSUME TypeOK, KeptInv, NEW x \in Browsers, TurnOn(x)
  PROVE  KeptInv'
<1>1. UNCHANGED <<current, oneTime, fallback, welcomes, store, made, upload, pending, task>>
  BY DEF TurnOn, directory
<1>2. \A d, k : Lent(d, k)' <=> Lent(d, k)
  BY <1>1 DEF Lent
<1> QED BY <1>1, <1>2 DEF KeptInv, Listed, Numbered, Kept, KeptBy, Uploading, UploadedBy, Waiting, Lent

LEMMA StartOverKeysKept ==
  ASSUME E2eeAssumption, TypeOK, KeptInv, NEW x \in Browsers, StartOver(x)
  PROVE  KeptInv'
<1>1. /\ UNCHANGED <<current, oneTime, fallback, welcomes, made, upload, pending, task>>
      /\ store[x].dev \notin current /\ store' = [store EXCEPT ![x] = Empty]
  BY DEF StartOver, directory
<1>2. ASSUME NEW d \in Devices, NEW k \in Nat, Lent(d, k)' PROVE Lent(d, k)
  BY <1>1, <1>2 DEF Lent
<1>3. \A d \in Devices :
        /\ oneTime'[d] \subseteq oneTime[d] /\ fallback'[d] \in {0, fallback[d]}
        /\ d \in current \ current' => oneTime'[d] = {} /\ fallback'[d] = 0
        /\ \A k \in Nat : Lent(d, k)' =>
             Lent(d, k) \/ k \in oneTime[d] \/ (k = fallback[d] /\ k # 0)
  BY <1>1, <1>2
<1>4. \A w \in welcomes' : w.to \in current'
  BY <1>1 DEF KeptInv, Listed, TypeOK
<1>5. \A y \in Browsers :
        \/ /\ store'[y].dev = None /\ store'[y].keys = {} /\ store'[y].last = <<>>
           /\ store[y].dev \notin current' \ pending'
        \/ store'[y] = store[y]
  BY <1>1 DEF TypeOK, Empty
<1>6. UNCHANGED <<made, upload>> /\ current' \subseteq current /\ current' \ pending' \subseteq current \ pending
  BY <1>1
<1> QED BY <1>3, <1>4, <1>5, <1>6, KeysFrame

LEMMA TurnOffKeysKept ==
  ASSUME E2eeAssumption, TypeOK, KeptInv, NEW x \in Browsers, TurnOff(x)
  PROVE  KeptInv'
<1>1. /\ UNCHANGED <<made, upload, task>> /\ store' = [store EXCEPT ![x] = Empty]
      /\ \/ Revoke({store[x].dev}) /\ UNCHANGED pending
         \/ pending' = pending \cup {store[x].dev} /\ UNCHANGED directory
  BY DEF TurnOff
<1>2. /\ current' \subseteq current /\ current' \ pending' \subseteq current \ pending
      /\ store[x].dev \notin current' \ pending'
  BY <1>1 DEF Revoke, directory
<1>3. \A y \in Browsers :
        \/ /\ store'[y].dev = None /\ store'[y].keys = {} /\ store'[y].last = <<>>
           /\ store[y].dev \notin current' \ pending'
        \/ store'[y] = store[y]
  BY <1>1, <1>2 DEF TypeOK, Empty
<1>4. /\ \A d \in Devices :
           /\ oneTime'[d] \subseteq oneTime[d] /\ fallback'[d] \in {0, fallback[d]}
           /\ d \in current \ current' => oneTime'[d] = {} /\ fallback'[d] = 0
           /\ \A k \in Nat : Lent(d, k)' =>
                Lent(d, k) \/ k \in oneTime[d] \/ (k = fallback[d] /\ k # 0)
      /\ \A w \in welcomes' : w.to \in current'
  <2>1. CASE Revoke({store[x].dev})
    BY <1>1, <2>1, RevokeFrame
  <2>2. CASE UNCHANGED directory
    <3>1. UNCHANGED <<current, oneTime, fallback, welcomes, task>>
      BY <1>1, <2>2 DEF directory
    <3>2. ASSUME NEW d \in Devices, NEW k \in Nat, Lent(d, k)' PROVE Lent(d, k)
      BY <3>1, <3>2 DEF Lent
    <3>3. \A w \in welcomes' : w.to \in current'
      BY <3>1 DEF KeptInv, Listed, TypeOK
    <3> QED BY <3>1, <3>2, <3>3
  <2> QED BY <1>1, <2>1, <2>2
<1> QED BY <1>1, <1>2, <1>3, <1>4, KeysFrame

LEMMA RevokeKeysKept ==
  ASSUME E2eeAssumption, TypeOK, KeptInv,
         (\E d \in pending : FlushPending(d)) \/ (\E x \in Browsers : RevokeOthers(x))
  PROVE  KeptInv'
<1>1. PICK ds : Revoke(ds) /\ UNCHANGED <<store, made, upload, task>>
                /\ (pending' = pending \/ \E d \in ds : pending' = pending \ {d} /\ ds = {d})
  BY DEF FlushPending, RevokeOthers, browsers
<1>2. current' \subseteq current /\ current' \ pending' \subseteq current \ pending
  BY <1>1 DEF Revoke
<1>3. \A y \in Browsers : store'[y] = store[y]
  BY <1>1
<1> QED BY <1>1, <1>2, <1>3, RevokeFrame, KeysFrame

\* What a browser has that no step of another touches.
LEMMA Untouched ==
  ASSUME NEW y \in Browsers, UNCHANGED <<welcomes, task>>,
         store'[y] = store[y], upload'[y] = upload[y],
         oneTime'[store[y].dev] = oneTime[store[y].dev],
         fallback'[store[y].dev] = fallback[store[y].dev]
  PROVE  (KeptBy(y) => KeptBy(y)') /\ (UploadedBy(y) => UploadedBy(y)')
<1>1. \A d, k : Lent(d, k) <=>
        \/ \E w \in welcomes' : w.to = d /\ w.key = k
        \/ \E t \in Tabs : \E p \in task'[t].keys : p[1] = d /\ p[2] = k
  BY DEF Lent
<1>2. KeptBy(y) => KeptBy(y)'
  BY <1>1 DEF KeptBy, Lent
<1>3. UploadedBy(y) => UploadedBy(y)'
  BY <1>1 DEF UploadedBy, Lent
<1> QED BY <1>2, <1>3

LEMMA RefusedKeysKept ==
  ASSUME E2eeAssumption, TypeOK, KeptInv, NEW x \in Browsers, Refused(x)
  PROVE  KeptInv'
<1>1. /\ UNCHANGED <<current, oneTime, fallback, welcomes, store, made, pending, task>>
      /\ upload' = [upload EXCEPT ![x] = Quiet]
  BY DEF Refused, directory
<1>2. /\ upload'[x].dev = None /\ upload'[x].once = 0 /\ upload'[x].last = 0
      /\ \A y \in Browsers \ {x} : upload'[y] = upload[y]
      /\ \A y \in Browsers : made[y] \in Nat
  BY <1>1 DEF TypeOK, Quiet
<1>3. Listed'
  BY <1>1 DEF KeptInv, Listed
<1>4. Numbered'
  BY <1>1, <1>2 DEF KeptInv, Numbered, TypeOK, E2eeAssumption
<1>5. \A d, k : Lent(d, k) <=>
        \/ \E w \in welcomes' : w.to = d /\ w.key = k
        \/ \E t \in Tabs : \E p \in task'[t].keys : p[1] = d /\ p[2] = k
  BY <1>1 DEF Lent
<1>6. Kept'
  BY <1>1, <1>5 DEF KeptInv, Kept, KeptBy, Waiting, Lent
<1>7. Uploading'
  <2> SUFFICES ASSUME NEW y \in Browsers, Waiting(y)', upload'[y].dev = store'[y].dev
               PROVE  UploadedBy(y)'
    BY DEF Uploading
  <2>1. y # x /\ Waiting(y)
    BY <1>1, <1>2 DEF Waiting, TypeOK, E2eeAssumption
  <2> QED BY <1>1, <1>2, <2>1, Untouched DEF KeptInv, Uploading
<1> QED BY <1>3, <1>4, <1>6, <1>7 DEF KeptInv

\* A new device has nothing yet.
LEMMA RegisterKeysKept ==
  ASSUME E2eeAssumption, TypeOK, Own, KeptInv, NEW x \in Browsers, Register(x)
  PROVE  KeptInv'
<1> DEFINE d == <<x, born[x] + 1>>
<1>1. /\ current' = current \cup {d} /\ store' = [store EXCEPT ![x] = [store[x] EXCEPT !.dev = d]]
      /\ UNCHANGED <<oneTime, fallback, welcomes, made, upload, pending, task>>
      /\ upload[x] = Quiet /\ store[x].dev = None /\ born[x] < MaxDevices
  BY DEF Register
<1>2. store[x] \in StoreType /\ born[x] \in Nat /\ MaxDevices \in Nat
  BY DEF TypeOK, E2eeAssumption
<1>3. d \in Devices /\ d[1] = x /\ d[2] = born[x] + 1 /\ d # None
  BY <1>1, <1>2 DEF Devices, E2eeAssumption
<1>4. d \notin current
  BY <1>2, <1>3 DEF Own
<1>5. \A k \in Nat : ~Lent(d, k)
  <2>1. \A w \in welcomes : w.to # d
    BY <1>3, <1>4 DEF KeptInv, Listed
  <2>2. \A t \in Tabs : \A p \in task[t].keys : p[1] # d
    BY <1>2, <1>3 DEF Own
  <2> QED BY <2>1, <2>2 DEF Lent
<1>6. oneTime[d] = {} /\ fallback[d] = 0
  BY <1>3, <1>4 DEF KeptInv, Listed
<1> HIDE DEF d
<1>7. /\ store'[x].dev = d /\ store'[x].keys = store[x].keys /\ store'[x].last = store[x].last
      /\ store[x].last = <<>> /\ \A y \in Browsers \ {x} : store'[y] = store[y]
  BY <1>1, <1>2 DEF StoreType, TypeOK, KeptInv, Numbered
<1>8. Listed'
  BY <1>1 DEF KeptInv, Listed
<1>9. \A y \in Browsers \ {x} : store[y].dev # d /\ upload[y].dev # d
  BY <1>3 DEF Own
<1>10. upload[x].dev = None /\ None \notin current'
  BY <1>1, <1>3 DEF Quiet, TypeOK, E2eeAssumption
<1>11. Numbered'
  <2> SUFFICES ASSUME NEW y \in Browsers
               PROVE  /\ store'[y].keys \subseteq 1..made'[y] /\ Len(store'[y].last) <= 2
                      /\ upload'[y].once \in 0..made'[y] /\ upload'[y].last \in 0..made'[y]
                      /\ \A i \in DOMAIN store'[y].last : store'[y].last[i] \in 1..made'[y]
                      /\ store'[y].dev = None => store'[y].keys = {} /\ store'[y].last = <<>>
                      /\ upload'[y].dev \in current' \ pending' => store'[y].dev = upload'[y].dev
    BY DEF Numbered
  <2>1. CASE y = x
    BY <1>1, <1>3, <1>7, <1>10, <2>1 DEF KeptInv, Numbered
  <2>2. CASE y # x
    BY <1>1, <1>7, <1>9, <2>2 DEF KeptInv, Numbered
  <2> QED BY <2>1, <2>2
<1>12. ASSUME NEW y \in Browsers \ {x}, Waiting(y)' PROVE Waiting(y)
  BY <1>1, <1>7, <1>9, <1>12 DEF Waiting
<1>13. KeptBy(x)'
  <2>1. \A k \in Nat : ~Lent(store[x].dev, k)'
    BY <1>1, <1>5, <1>7 DEF Lent
  <2> QED BY <1>1, <1>6, <1>7, <2>1 DEF KeptBy
<1>14. Kept'
  BY <1>1, <1>7, <1>12, <1>13, Untouched DEF KeptInv, Kept
<1>15. Uploading'
  <2> SUFFICES ASSUME NEW y \in Browsers, Waiting(y)', upload'[y].dev = store'[y].dev
               PROVE  UploadedBy(y)'
    BY DEF Uploading
  <2>1. y # x
    BY <1>1, <1>3, <1>7, <1>10
  <2> QED BY <1>1, <1>7, <1>12, <2>1, Untouched DEF KeptInv, Uploading
<1> QED BY <1>8, <1>11, <1>14, <1>15 DEF KeptInv

LEMMA LentIsInUse ==
  ASSUME NEW d, NEW k
  PROVE  Lent(d, k) <=> k \in InUse(d)
BY DEF Lent, InUse, WelcomesOf

\* One new key, or two.
LEMMA NewKeys ==
  ASSUME NEW m \in Nat
  PROVE  Cardinality({m + 1}) = 1 /\ Cardinality({m + 1, m + 2}) = 2
<1>1. Cardinality({m + 1}) = 1 /\ IsFiniteSet({m + 1})
  BY FS_Singleton
<1>2. m + 2 \notin {m + 1}
  OBVIOUS
<1>3. Cardinality({m + 1} \cup {m + 2}) = 2
  BY <1>1, <1>2, FS_AddElement
<1>4. {m + 1} \cup {m + 2} = {m + 1, m + 2}
  OBVIOUS
<1> QED BY <1>1, <1>3, <1>4

\* Keys that are made are new, and stored before anybody else has them.
LEMMA MakeKeysKept ==
  ASSUME E2eeAssumption, TypeOK, Own, KeptInv, NEW x \in Browsers, MakeKeys(x)
  PROVE  KeptInv'
<1> DEFINE m == made[x]
           s == store[x]
           Made(once, last, n) ==
        /\ made' = [made EXCEPT ![x] = n] /\ m <= n /\ once <= n /\ last <= n
        /\ store' = [store EXCEPT ![x] = [s EXCEPT !.keys = @ \cup ({once, last} \ {0})]]
        /\ upload' = [upload EXCEPT ![x] = [dev |-> s.dev, once |-> once, last |-> last]]
        /\ last # 0 => last # once /\ (Len(s.last) = 2 => s.last[2] \notin InUse(s.dev))
<1>1. m \in Nat /\ s \in StoreType
  BY DEF TypeOK
<1>2. PICK once \in {0, m + 1}, last \in {0, m + 1, m + 2}, n \in Nat : Made(once, last, n)
  <2> DEFINE low == oneTime[s.dev] = {}
             one == IF low THEN m + 1 ELSE 0
  <2>1. PICK rotate \in {s.last = <<>>, RotationDue(x)} :
          LET lst == IF ~rotate THEN 0 ELSE IF low THEN one + 1 ELSE m + 1
              new == {one, lst} \ {0} IN
            /\ new # {}
            /\ made' = [made EXCEPT ![x] = @ + Cardinality(new)]
            /\ store' = [store EXCEPT ![x].keys = @ \cup new]
            /\ upload' = [upload EXCEPT ![x] = [dev |-> s.dev, once |-> one, last |-> lst]]
    BY DEF MakeKeys
  <2>2. rotate => (Len(s.last) = 2 => s.last[2] \notin InUse(s.dev))
    <3>1. Len(<<>>) = 0
      OBVIOUS
    <3>2. Len(s.last) = 2 => s.last # <<>>
      BY <3>1
    <3>3. RotationDue(x) => s.last = <<>> \/ Len(s.last) = 1 \/ s.last[2] \notin InUse(s.dev)
      BY DEF RotationDue
    <3>4. rotate => s.last = <<>> \/ RotationDue(x)
      BY Zenon
    <3> QED BY <3>2, <3>3, <3>4
  <2>3. CASE low /\ rotate
    <3>1. {m + 1, m + 1 + 1} \ {0} = {m + 1, m + 2} /\ m + 1 + 1 = m + 2
      BY <1>1
    <3>2. /\ made' = [made EXCEPT ![x] = @ + 2]
          /\ store' = [store EXCEPT ![x] = [s EXCEPT !.keys = @ \cup ({m + 1, m + 2} \ {0})]]
          /\ upload' = [upload EXCEPT ![x] = [dev |-> s.dev, once |-> m + 1, last |-> m + 2]]
      BY <1>1, <2>1, <2>3, <3>1, NewKeys
    <3>3. Made(m + 1, m + 2, m + 2)
      BY <1>1, <2>2, <2>3, <3>2
    <3> HIDE DEF Made
    <3> QED BY <1>1, <3>3
  <2>4. CASE low /\ ~rotate
    <3>1. {m + 1, 0} \ {0} = {m + 1}
      BY <1>1
    <3>2. /\ made' = [made EXCEPT ![x] = @ + 1]
          /\ store' = [store EXCEPT ![x] = [s EXCEPT !.keys = @ \cup ({m + 1, 0} \ {0})]]
          /\ upload' = [upload EXCEPT ![x] = [dev |-> s.dev, once |-> m + 1, last |-> 0]]
      BY <1>1, <2>1, <2>4, <3>1, NewKeys
    <3>3. Made(m + 1, 0, m + 1)
      BY <1>1, <2>4, <3>2
    <3> HIDE DEF Made
    <3> QED BY <1>1, <3>3
  <2>5. CASE ~low /\ rotate
    <3>1. {0, m + 1} \ {0} = {m + 1}
      BY <1>1
    <3>2. /\ made' = [made EXCEPT ![x] = @ + 1]
          /\ store' = [store EXCEPT ![x] = [s EXCEPT !.keys = @ \cup ({0, m + 1} \ {0})]]
          /\ upload' = [upload EXCEPT ![x] = [dev |-> s.dev, once |-> 0, last |-> m + 1]]
      BY <1>1, <2>1, <2>5, <3>1, NewKeys
    <3>3. Made(0, m + 1, m + 1)
      BY <1>1, <2>2, <2>5, <3>2
    <3> HIDE DEF Made
    <3> QED BY <1>1, <3>3
  <2>6. CASE ~low /\ ~rotate
    <3>1. {0} \ {0} = {}
      OBVIOUS
    <3> QED BY SMTT(30), <2>1, <2>6, <3>1
  <2> QED BY SMTT(30), <2>3, <2>4, <2>5, <2>6
<1>3. /\ UNCHANGED <<current, oneTime, fallback, welcomes, pending, task>>
      /\ s.dev \in current /\ s.dev \in Devices
  BY DEF MakeKeys, directory, TypeOK
<1>4. /\ made'[x] = n /\ store'[x].keys = s.keys \cup ({once, last} \ {0})
      /\ store'[x].dev = s.dev /\ store'[x].last = s.last /\ store'[x].group = s.group
      /\ upload'[x].dev = s.dev /\ upload'[x].once = once /\ upload'[x].last = last
      /\ \A y \in Browsers \ {x} :
           made'[y] = made[y] /\ store'[y] = store[y] /\ upload'[y] = upload[y]
  BY <1>1, <1>2 DEF TypeOK, StoreType
<1>5. /\ s.keys \subseteq 1..m /\ Len(s.last) <= 2
      /\ \A i \in DOMAIN s.last : s.last[i] \in 1..m
  BY DEF KeptInv, Numbered
<1>6. Listed'
  BY <1>3 DEF KeptInv, Listed
<1>7. Numbered'
  <2> SUFFICES ASSUME NEW y \in Browsers
               PROVE  /\ store'[y].keys \subseteq 1..made'[y] /\ Len(store'[y].last) <= 2
                      /\ upload'[y].once \in 0..made'[y] /\ upload'[y].last \in 0..made'[y]
                      /\ \A i \in DOMAIN store'[y].last : store'[y].last[i] \in 1..made'[y]
                      /\ store'[y].dev = None => store'[y].keys = {} /\ store'[y].last = <<>>
                      /\ upload'[y].dev \in current' \ pending' => store'[y].dev = upload'[y].dev
    BY DEF Numbered
  <2>1. CASE y = x
    <3>1. s.dev # None
      BY <1>3 DEF E2eeAssumption
    <3> HIDE DEF m, s
    <3> QED BY SMTT(30), <1>1, <1>2, <1>4, <1>5, <2>1, <3>1
  <2>2. CASE y # x
    BY <1>3, <1>4, <2>2 DEF KeptInv, Numbered
  <2> QED BY <2>1, <2>2
<1>8. \A y \in Browsers : Waiting(y)' => Waiting(y)
  BY <1>3, <1>4 DEF Waiting
<1>9. \A k : Lent(store[x].dev, k)' <=> Lent(s.dev, k)
  BY <1>3, <1>4 DEF Lent
<1>10. ASSUME Waiting(x) PROVE KeptBy(x)' /\ UploadedBy(x)'
  <2>1. KeptBy(x)
    BY <1>10 DEF KeptInv, Kept
  <2>2. KeptBy(x)'
    BY <1>3, <1>4, <1>9, <2>1 DEF KeptBy
  <2>3. oneTime[s.dev] \subseteq 1..m
    BY <1>5, <2>1 DEF KeptBy
  <2>4. last # 0 /\ Len(s.last) = 2 => ~Lent(s.dev, s.last[2])
    BY <1>2, LentIsInUse
  <2>5. \A i \in DOMAIN s.last : s.last[i] # once /\ s.last[i] # last
    BY SMTT(30), <1>1, <1>2, <1>5
  <2>6. last \notin oneTime[s.dev]
    BY <1>1, <1>2, <2>3
  <2>7. last # 0 /\ Len(store'[x].last) = 2 => ~Lent(store[x].dev, store[x].last[2])'
    BY <1>4, <1>9, <2>4 DEF Lent
  <2>8. {once, last} \ {0} \subseteq store'[x].keys /\ (last # 0 => last # once)
    BY <1>2, <1>4
  <2> HIDE DEF m, s
  <2>9. UploadedBy(x)'
    BY <1>3, <1>4, <2>5, <2>6, <2>7, <2>8 DEF UploadedBy
  <2> QED BY <2>2, <2>9
<1>11. Kept'
  BY <1>3, <1>4, <1>8, <1>10, Untouched DEF KeptInv, Kept
<1>12. Uploading'
  BY <1>3, <1>4, <1>8, <1>10, Untouched DEF KeptInv, Uploading
<1> QED BY <1>6, <1>7, <1>11, <1>12 DEF KeptInv

\* The list of last resorts as an answer leaves it: the new key, and the last.
LEMMA FirstOfNone ==
  ASSUME NEW u \in Nat, NEW l \in Seq(Nat), l = <<>>
  PROVE  <<u>> \o SubSeq(l, 1, IF l = <<>> THEN 0 ELSE 1) = <<u>>
<1>1. SubSeq(l, 1, 0) = <<>>
  BY SubSeqEmpty
<1>2. <<u>> \in Seq(Nat)
  OBVIOUS
<1>3. <<u>> \o <<>> = <<u>>
  BY <1>2, ConcatEmptySeq
<1> QED BY <1>1, <1>3

LEMMA FirstOfSome ==
  ASSUME NEW u \in Nat, NEW l \in Seq(Nat), l # <<>>, NEW r,
         r = <<u>> \o SubSeq(l, 1, IF l = <<>> THEN 0 ELSE 1)
  PROVE  r \in Seq(Nat) /\ Len(r) = 2 /\ r[1] = u /\ r[2] = l[1] /\ Len(l) >= 1
<1>1. Len(l) \in Nat /\ Len(l) >= 1
  BY EmptySeq
<1> DEFINE first == SubSeq(l, 1, 1)
<1>2. first \in Seq(Nat) /\ Len(first) = 1 /\ first[1] = l[1]
  BY <1>1, SubSeqProperties
<1>3. <<u>> \in Seq(Nat) /\ Len(<<u>>) = 1 /\ <<u>>[1] = u
  OBVIOUS
<1>4. r = <<u>> \o first
  OBVIOUS
<1> HIDE DEF first
<1> QED BY <1>1, <1>2, <1>3, <1>4, ConcatProperties

\* The directory takes what is stored; what its answer makes the browser drop
\* is neither its own, nor lent, nor in the list any more.
LEMMA AddKeysKept ==
  ASSUME E2eeAssumption, TypeOK, Own, KeptInv, NEW x \in Browsers, AddKeys(x)
  PROVE  KeptInv'
<1>0. PICK u, s, d, kept :
        u = upload[x] /\ s = store[x] /\ d = upload[x].dev /\ kept = store'[x]
  OBVIOUS
<1>1. /\ UNCHANGED <<current, welcomes, made, pending, task>> /\ d \in current
      /\ upload' = [upload EXCEPT ![x] = Quiet]
      /\ oneTime' = [oneTime EXCEPT ![d] = @ \cup ({u.once} \ {0})]
      /\ fallback' = [fallback EXCEPT ![d] = IF u.last = 0 THEN @ ELSE u.last]
  BY <1>0 DEF AddKeys
<1>2. /\ u \in UploadType /\ s \in StoreType /\ d \in Devices /\ d # None /\ made[x] \in Nat
      /\ s.last \in Seq(Nat) /\ u.last \in Nat /\ u.once \in Nat
  BY <1>0, <1>1 DEF TypeOK, StoreType, UploadType, E2eeAssumption
<1>3. /\ upload'[x] = Quiet /\ \A y \in Browsers \ {x} : upload'[y] = upload[y]
      /\ oneTime'[d] = oneTime[d] \cup ({u.once} \ {0})
      /\ fallback'[d] = IF u.last = 0 THEN fallback[d] ELSE u.last
      /\ \A e \in Devices \ {d} : oneTime'[e] = oneTime[e] /\ fallback'[e] = fallback[e]
  BY <1>0, <1>1, <1>2 DEF TypeOK
<1>4. d[1] = x /\ s.dev \in {None, d} /\ (d \notin pending => s.dev = d)
  BY <1>0, <1>1, <1>2 DEF Own, KeptInv, Numbered
<1>5. /\ s.keys \subseteq 1..made[x] /\ Len(s.last) \in 0..2
      /\ DOMAIN s.last = 1..Len(s.last) /\ \A i \in 1..Len(s.last) : s.last[i] \in 1..made[x]
      /\ u.once \in 0..made[x] /\ u.last \in 0..made[x]
  <2>1. /\ s.keys \subseteq 1..made[x] /\ Len(s.last) <= 2
        /\ \A i \in DOMAIN s.last : s.last[i] \in 1..made[x]
        /\ u.once \in 0..made[x] /\ u.last \in 0..made[x]
    BY <1>0 DEF KeptInv, Numbered
  <2>2. Len(s.last) \in Nat /\ DOMAIN s.last = 1..Len(s.last)
    BY <1>2
  <2>3. Len(s.last) \in 0..2
    <3>1. Len(s.last) <= 2
      BY <2>1
    <3>2. Len(s.last) \in Nat
      BY <1>2
    <3>3. \A n \in Nat : n <= 2 => n \in 0..2
      OBVIOUS
    <3> QED BY <3>1, <3>2, <3>3, Zenon
  <2>4. ASSUME NEW i \in 1..Len(s.last) PROVE s.last[i] \in 1..made[x]
    <3>1. i \in DOMAIN s.last
      BY <2>2
    <3> QED BY <2>1, <3>1
  <2> QED BY <2>1, <2>2, <2>3, <2>4
<1>6. \/ store' = store
      \/ /\ u.last # 0
         /\ store' = [store EXCEPT ![x] = [s EXCEPT
              !.dev = d,
              !.last = <<u.last>> \o SubSeq(s.last, 1, IF s.last = <<>> THEN 0 ELSE 1),
              !.keys = IF Len(s.last) = 2 THEN @ \ {s.last[2]} ELSE @]]
  BY <1>0 DEF AddKeys
<1>7. \A y \in Browsers \ {x} : store'[y] = store[y]
  BY <1>6 DEF TypeOK
<1>8. \/ kept = s
      \/ /\ u.last # 0 /\ kept.dev = d /\ kept.group = s.group
         /\ kept.keys = IF Len(s.last) = 2 THEN s.keys \ {s.last[2]} ELSE s.keys
         /\ \/ s.last = <<>> /\ kept.last = <<u.last>>
            \/ /\ s.last # <<>> /\ Len(s.last) >= 1
               /\ kept.last \in Seq(Nat) /\ Len(kept.last) = 2
               /\ kept.last[1] = u.last /\ kept.last[2] = s.last[1]
  <2>1. SUFFICES ASSUME kept # s
                 PROVE  /\ u.last # 0 /\ kept.dev = d /\ kept.group = s.group
                        /\ kept.keys = IF Len(s.last) = 2 THEN s.keys \ {s.last[2]} ELSE s.keys
                        /\ \/ s.last = <<>> /\ kept.last = <<u.last>>
                           \/ /\ s.last # <<>> /\ Len(s.last) >= 1
                              /\ kept.last \in Seq(Nat) /\ Len(kept.last) = 2
                              /\ kept.last[1] = u.last /\ kept.last[2] = s.last[1]
    OBVIOUS
  <2>2. /\ u.last # 0 /\ kept.dev = d /\ kept.group = s.group
        /\ kept.keys = IF Len(s.last) = 2 THEN s.keys \ {s.last[2]} ELSE s.keys
        /\ kept.last = <<u.last>> \o SubSeq(s.last, 1, IF s.last = <<>> THEN 0 ELSE 1)
    <3>1. /\ u.last # 0
          /\ kept = [s EXCEPT !.dev = d,
               !.last = <<u.last>> \o SubSeq(s.last, 1, IF s.last = <<>> THEN 0 ELSE 1),
               !.keys = IF Len(s.last) = 2 THEN @ \ {s.last[2]} ELSE @]
      BY <1>0, <1>6, <2>1 DEF TypeOK
    <3> QED BY <1>2, <3>1 DEF StoreType
  <2>3. ASSUME s.last = <<>> PROVE kept.last = <<u.last>>
    BY <1>2, <2>2, <2>3, FirstOfNone
  <2>4. ASSUME s.last # <<>>
        PROVE  /\ Len(s.last) >= 1 /\ kept.last \in Seq(Nat) /\ Len(kept.last) = 2
               /\ kept.last[1] = u.last /\ kept.last[2] = s.last[1]
    BY <1>2, <2>2, <2>4, FirstOfSome
  <2> QED BY <2>2, <2>3, <2>4
<1>9. /\ kept.keys \subseteq s.keys /\ kept.group = s.group /\ kept.dev \in {s.dev, d}
      /\ kept.dev # None \/ kept = s
      /\ Len(kept.last) \in 0..2 /\ DOMAIN kept.last = 1..Len(kept.last)
      /\ \A i \in 1..Len(kept.last) : kept.last[i] \in 1..made[x]
  <2>1. CASE kept = s
    BY <1>2, <1>5, <2>1
  <2>2. CASE kept # s
    <3>1. CASE kept.last = <<u.last>>
      BY <1>2, <1>5, <1>8, <2>2, <3>1
    <3>2. CASE /\ s.last # <<>> /\ Len(s.last) >= 1
               /\ kept.last \in Seq(Nat) /\ Len(kept.last) = 2
               /\ kept.last[1] = u.last /\ kept.last[2] = s.last[1]
      <4>1. 1 \in 1..Len(s.last)
        BY <1>5, <3>2
      <4>2. /\ kept.keys \subseteq s.keys /\ kept.group = s.group /\ kept.dev = d /\ u.last # 0
        BY <1>8, <2>2, <3>2
      <4>3. u.last \in 1..made[x] /\ s.last[1] \in 1..made[x]
        BY <1>2, <1>5, <4>1, <4>2
      <4>4. DOMAIN kept.last = 1..Len(kept.last)
        BY <3>2
      <4>5. ASSUME NEW i \in 1..Len(kept.last) PROVE kept.last[i] \in 1..made[x]
        <5>1. i = 1 \/ i = 2
          BY <3>2
        <5> QED BY <3>2, <4>3, <5>1
      <4>6. Len(kept.last) \in 0..2
        BY <3>2
      <4>7. kept.dev # None
        BY <1>2, <4>2
      <4> QED BY <4>2, <4>4, <4>5, <4>6, <4>7
    <3> QED BY <1>8, <2>2, <3>1, <3>2
  <2> QED BY <2>1, <2>2
<1>10. Listed'
  BY <1>1, <1>3 DEF KeptInv, Listed
<1>11. Numbered'
  <2> SUFFICES ASSUME NEW y \in Browsers
               PROVE  /\ store'[y].keys \subseteq 1..made'[y] /\ Len(store'[y].last) <= 2
                      /\ upload'[y].once \in 0..made'[y] /\ upload'[y].last \in 0..made'[y]
                      /\ \A i \in DOMAIN store'[y].last : store'[y].last[i] \in 1..made'[y]
                      /\ store'[y].dev = None => store'[y].keys = {} /\ store'[y].last = <<>>
                      /\ upload'[y].dev \in current' \ pending' => store'[y].dev = upload'[y].dev
    BY DEF Numbered
  <2>1. CASE y = x
    <3>1. s.dev = None => s.keys = {} /\ s.last = <<>>
      BY <1>0 DEF KeptInv, Numbered
    <3>2. upload'[x].once = 0 /\ upload'[x].last = 0 /\ upload'[x].dev \notin current
      BY <1>3 DEF Quiet, TypeOK, E2eeAssumption
    <3>3. /\ kept.keys \subseteq 1..made[x] /\ Len(kept.last) <= 2
          /\ kept.dev = None => kept.keys = {} /\ kept.last = <<>>
      <4>1. Len(kept.last) <= 2
        BY <1>9
      <4>2. kept.keys \subseteq 1..made[x]
        BY <1>5, <1>9
      <4>3. kept.dev = None => kept = s
        BY <1>9
      <4> QED BY <3>1, <4>1, <4>2, <4>3
    <3>4. made'[x] = made[x] /\ 0 \in 0..made[x]
      BY <1>1, <1>2
    <3> QED BY <1>0, <1>1, <1>9, <2>1, <3>2, <3>3, <3>4
  <2>2. CASE y # x
    BY <1>1, <1>3, <1>7, <2>2 DEF KeptInv, Numbered
  <2> QED BY <2>1, <2>2
<1>12. ASSUME NEW y \in Browsers \ {x}, Waiting(y)' PROVE Waiting(y) /\ store[y].dev \in Devices \ {d}
  BY <1>0, <1>1, <1>4, <1>7, <1>12 DEF Waiting, Own, TypeOK, E2eeAssumption
<1>13. ASSUME NEW y \in Browsers \ {x}, Waiting(y)' PROVE KeptBy(y)' /\ (UploadedBy(y) => UploadedBy(y)')
  BY <1>0, <1>1, <1>3, <1>7, <1>12, <1>13, Untouched DEF KeptInv, Kept
<1>14. ASSUME Waiting(x)' PROVE KeptBy(x)'
  <2>1. /\ Waiting(x) /\ s.dev = d /\ kept.dev = d
    BY <1>0, <1>1, <1>2, <1>4, <1>8, <1>9, <1>14 DEF Waiting, E2eeAssumption, TypeOK
  <2>2. KeptBy(x) /\ UploadedBy(x)
    BY <1>0, <2>1 DEF KeptInv, Kept, Uploading
  <2>3. /\ oneTime[d] \subseteq s.keys
        /\ fallback[d] # 0 => fallback[d] \in s.keys
        /\ \A k \in Nat : Lent(d, k) => k \in s.keys
        /\ \A i \in DOMAIN s.last : s.last[i] \notin oneTime[d]
        /\ Len(s.last) = 2 => s.last[2] # fallback[d]
    BY <1>0, <2>1, <2>2 DEF KeptBy
  <2>4. /\ {u.once, u.last} \ {0} \subseteq s.keys /\ u.last \notin oneTime[d]
        /\ u.last # 0 => u.last # u.once
        /\ \A i \in DOMAIN s.last : s.last[i] # u.once /\ s.last[i] # u.last
        /\ u.last # 0 /\ Len(s.last) = 2 => ~Lent(d, s.last[2])
    BY <1>0, <2>1, <2>2 DEF UploadedBy
  <2>5. \A k : Lent(d, k)' <=> Lent(d, k)
    BY <1>1 DEF Lent
  <2>6. \A k : Lent(store[x].dev, k)' => Lent(d, k)
    BY <1>0, <1>1, <2>1 DEF Lent
  <2>0. PICK free, spare : free = oneTime'[d] /\ spare = fallback'[d]
    OBVIOUS
  <2>7. /\ free \subseteq kept.keys
        /\ spare # 0 => spare \in kept.keys
        /\ \A k \in Nat : Lent(d, k) => k \in kept.keys
        /\ \A i \in DOMAIN kept.last : kept.last[i] \notin free
        /\ Len(kept.last) = 2 => kept.last[2] # spare
    <3>1. free = oneTime[d] \cup ({u.once} \ {0}) /\ spare = IF u.last = 0 THEN fallback[d] ELSE u.last
      BY <1>3, <2>0
    <3>2. CASE kept = s
      <4>1. /\ \A i \in DOMAIN s.last : s.last[i] # 0 /\ s.last[i] # u.once /\ s.last[i] # u.last
            /\ Len(s.last) = 2 => 2 \in DOMAIN s.last
        BY <1>2, <1>5, <2>4
      <4> QED BY <2>3, <2>4, <3>1, <3>2, <4>1
    <3>3. CASE kept # s /\ s.last = <<>> /\ kept.last = <<u.last>>
      <4>1. Len(s.last) = 0 /\ Len(kept.last) = 1 /\ DOMAIN kept.last = {1} /\ kept.last[1] = u.last
        BY <1>2, <3>3
      <4>2. kept.keys = s.keys /\ u.last # 0
        BY <1>8, <3>3, <4>1
      <4> QED BY <2>3, <2>4, <3>1, <4>1, <4>2
    <3>4. CASE /\ kept # s /\ s.last # <<>> /\ Len(s.last) >= 1
               /\ kept.last \in Seq(Nat) /\ Len(kept.last) = 2
               /\ kept.last[1] = u.last /\ kept.last[2] = s.last[1]
      <4>1. DOMAIN kept.last = {1, 2}
        BY <3>4
      <4>2. 1 \in 1..Len(s.last) /\ (Len(s.last) = 2 => 2 \in 1..Len(s.last))
        BY <1>5, <3>4
      <4>3. /\ 1 \in DOMAIN s.last /\ (Len(s.last) = 2 => 2 \in DOMAIN s.last)
            /\ s.last[1] \in 1..made[x]
        BY <1>5, <4>2
      <4>4. kept.keys = (IF Len(s.last) = 2 THEN s.keys \ {s.last[2]} ELSE s.keys) /\ u.last # 0
        BY <1>8, <3>4
      <4>5. s.last[1] # 0
        BY <1>2, <4>3
      <4> QED BY <2>3, <2>4, <3>1, <3>4, <4>1, <4>3, <4>4, <4>5
    <3> QED BY <1>8, <3>2, <3>3, <3>4
  <2> QED BY <1>0, <2>0, <2>1, <2>6, <2>7 DEF KeptBy
<1>15. Kept'
  BY <1>13, <1>14 DEF Kept
<1>16. Uploading'
  <2> SUFFICES ASSUME NEW y \in Browsers, Waiting(y)', upload'[y].dev = store'[y].dev
               PROVE  UploadedBy(y)'
    BY DEF Uploading
  <2>1. y # x
    BY <1>1, <1>3 DEF Waiting, Quiet, TypeOK, E2eeAssumption
  <2> QED BY <1>3, <1>7, <1>12, <1>13, <2>1 DEF KeptInv, Uploading
<1> QED BY <1>10, <1>11, <1>15, <1>16 DEF KeptInv

-----------------------------------------------------------------------------
LEMMA InitKeysKept ==
  ASSUME E2eeAssumption, Init
  PROVE  KeptInv
<1>1. /\ current = {} /\ welcomes = {} /\ \A d \in Devices : oneTime[d] = {} /\ fallback[d] = 0
      /\ \A x \in Browsers : /\ store[x].keys = {} /\ store[x].last = <<>>
                             /\ upload[x].once = 0 /\ upload[x].last = 0 /\ made[x] = 0
  BY DEF Init, Empty, Quiet
<1>2. Listed
  BY <1>1 DEF Listed
<1>3. Len(<<>>) = 0 /\ DOMAIN <<>> = {} /\ 0 \in 0..0
  OBVIOUS
<1>4. Numbered
  BY <1>1, <1>3 DEF Numbered
<1>5. Kept /\ Uploading
  BY <1>1 DEF Kept, Uploading, Waiting
<1> QED BY <1>2, <1>4, <1>5 DEF KeptInv

LEMMA StutterKeysKept ==
  ASSUME TypeOK, KeptInv, UNCHANGED vars
  PROVE  KeptInv'
<1>1. UNCHANGED <<current, oneTime, fallback, welcomes, store, made, upload, pending, task>>
  BY DEF vars, directory, browsers
<1>2. Listed' /\ Numbered'
  BY <1>1 DEF KeptInv, Listed, Numbered
<1>3. \A x \in Browsers : Waiting(x)' => Waiting(x)
  BY <1>1 DEF Waiting
<1>4. \A x \in Browsers : (KeptBy(x) => KeptBy(x)') /\ (UploadedBy(x) => UploadedBy(x)')
  BY <1>1, Untouched
<1>5. Kept' /\ Uploading'
  BY <1>1, <1>3, <1>4 DEF KeptInv, Kept, Uploading
<1> QED BY <1>2, <1>5 DEF KeptInv

LEMMA NextKeysKept ==
  ASSUME E2eeAssumption, IInv, KeptInv, [Next]_vars
  PROVE  KeptInv'
<1>0. TypeOK /\ Own /\ Begun
  BY DEF IInv, KInv
<1>1. CASE \E x \in Browsers : \/ TurnOn(x) \/ Register(x) \/ StartOver(x) \/ MakeKeys(x)
                               \/ Refused(x) \/ AddKeys(x) \/ TurnOff(x) \/ RevokeOthers(x)
  BY <1>0, <1>1, TurnOnKeysKept, RegisterKeysKept, StartOverKeysKept, MakeKeysKept,
     RefusedKeysKept, AddKeysKept, TurnOffKeysKept, RevokeKeysKept
<1>2. CASE \E d \in pending : FlushPending(d)
  BY <1>0, <1>2, RevokeKeysKept
<1>3. CASE \E t \in Tabs : \/ Begin(t) \/ FindGroup(t) \/ Accept(t) \/ Check(t) \/ Claim(t)
                           \/ Create(t) \/ Keep(t) \/ Encrypt(t) \/ Decrypt(t) \/ Remember(t)
                           \/ Post(t) \/ GiveUp(t)
  BY <1>0, <1>3, LookKeysKept, AcceptKeysKept, ClaimKeysKept, CreateKeysKept, StateKeysKept,
     TextKeysKept
<1>4. CASE UNCHANGED vars
  BY <1>0, <1>4, StutterKeysKept
<1> QED BY <1>1, <1>2, <1>3, <1>4 DEF Next

\* What the directory, a claim or a welcome holds of a device, its browser can
\* use until it has joined: uploads after storing, and dropping only a last
\* resort two rotations old, lose no key that may still be asked for.
THEOREM KeysStayUsable ==
  ASSUME E2eeAssumption
  PROVE  Spec => []Usable
<1>1. Init => IInv /\ KeptInv
  BY InitHolds, InitKeysKept
<1>2. (IInv /\ KeptInv) /\ [Next]_vars => (IInv /\ KeptInv)'
  BY NextKeeps, NextKeysKept
<1>3. IInv /\ KeptInv => Usable
  <2> SUFFICES ASSUME IInv, KeptInv, NEW x \in Browsers, store[x].dev \in current \ pending,
                      store[x].group = None
               PROVE  LET d == store[x].dev IN
                        (oneTime[d] \cup ({fallback[d]} \ {0}) \cup InUse(d)) \subseteq store[x].keys
    BY DEF Usable
  <2> DEFINE d == store[x].dev
  <2>1. KeptBy(x)
    BY DEF KeptInv, Kept, Waiting
  <2>2. InUse(d) \subseteq Nat
    BY DEF IInv, TypeOK, TaskType, InUse, WelcomesOf
  <2>3. InUse(d) \subseteq store[x].keys
    BY <2>1, <2>2, LentIsInUse DEF KeptBy
  <2> QED BY <2>1, <2>3 DEF KeptBy
<1> QED BY <1>1, <1>2, <1>3, PTL DEF Spec

=============================================================================

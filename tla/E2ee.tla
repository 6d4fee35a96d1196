-------------------------------- MODULE E2ee --------------------------------
(* End-to-end encryption of one direct chat (behind a flag): the key directory *)
(* of the API, and browsers that keep keys, the MLS group and decrypted text   *)
(* in IndexedDB, shared by their tabs.                                         *)
(* apps/api/src/e2ee, db/e2ee.ts; apps/web/src/features/e2ee.                  *)
(*                                                                             *)
(* MLS itself is a library: a group is who created it with whom, a member's    *)
(* state is how many messages it encrypted and which it read.  A tab may close *)
(* wherever it waits.  No block, no leaving of the chat, no revival of a       *)
(* device that was quiet for a month; a tab asks the store for its device.     *)
EXTENDS Integers, Sequences, FiniteSets

CONSTANTS
  Browsers, Tabs,
  BrowserOf,   \* BrowserOf[t]: the browser of tab t
  UserOf,      \* UserOf[x]: the person signed in to browser x
  MaxPerUser,  \* maxDevicesPerUser
  MaxDevices,  \* bound on the devices a browser registers
  MaxKeys,     \* bound on the key packages a browser makes
  MaxSends,    \* bound on encrypted messages
  Leaving,     \* browsers in which encryption is turned off again
  None

VARIABLES
  \* the directory
  current,    \* devices that are not revoked
  oneTime,    \* oneTime[d]: one-time key packages of d
  fallback,   \* fallback[d]: its last-resort key package, or 0
  group,      \* the chat's group: its creator and its members
  welcomes,   \* welcomes not picked up: the device and the key package used
  sent,       \* the encrypted messages of the chat
  \* the browsers
  on,         \* browsers in which encryption is turned on
  store,      \* store[x]: IndexedDB
  born, made, \* devices registered, key packages made
  upload,     \* upload[x]: the key packages x is uploading
  pending,    \* devices wiped here and not yet revoked there
  task        \* task[t]: what tab t does for the chat

directory == <<current, oneTime, fallback, group, welcomes>>
browsers  == <<on, store, born, made, upload, pending>>
vars == <<directory, sent, browsers, task>>

Devices == Browsers \X (1..MaxDevices)
Keys    == 0..MaxKeys
OwnerOf(d) == UserOf[d[1]]

Empty  == [dev |-> None, keys |-> {}, last |-> <<>>, group |-> None, texts |-> {}]
Quiet  == [dev |-> None, once |-> 0, last |-> 0]
Idle   == [at |-> "idle", do |-> 0, keys |-> {}, state |-> None]

Init ==
  /\ current = {} /\ group = None /\ welcomes = {} /\ sent = <<>>
  /\ oneTime = [d \in Devices |-> {}] /\ fallback = [d \in Devices |-> 0]
  /\ on = {} /\ store = [x \in Browsers |-> Empty]
  /\ born = [x \in Browsers |-> 0] /\ made = [x \in Browsers |-> 0]
  /\ upload = [x \in Browsers |-> Quiet] /\ pending = {}
  /\ task = [t \in Tabs |-> Idle]

(**************************** The device **********************************)

\* (As often as the bound on devices allows.)
TurnOn(x) ==
  /\ x \notin on /\ born[x] < MaxDevices /\ on' = on \cup {x}
  /\ UNCHANGED <<directory, sent, store, born, made, upload, pending, task>>

\* registerDevice, and the answer is stored (a device whose tab closed before
\* that uploads nothing and is never claimed).
Register(x) ==
  /\ x \in on /\ upload[x] = Quiet /\ store[x].dev = None /\ born[x] < MaxDevices
  /\ Cardinality({d \in current : OwnerOf(d) = UserOf[x]}) < MaxPerUser
  /\ LET d == <<x, born[x] + 1>> IN
       /\ current' = current \cup {d} /\ born' = [born EXCEPT ![x] = @ + 1]
       /\ store' = [store EXCEPT ![x].dev = d]
  /\ UNCHANGED <<oneTime, fallback, group, welcomes, sent, on, made, upload, pending, task>>

\* A device revoked elsewhere finds out when it looks at its key packages.
StartOver(x) ==
  /\ x \in on /\ upload[x] = Quiet /\ store[x].dev # None /\ store[x].dev \notin current
  /\ store' = [store EXCEPT ![x] = Empty]
  /\ UNCHANGED <<directory, sent, on, born, made, upload, pending, task>>

\* Keys of d that a person, or a welcome, is about to use.
WelcomesOf(d) == {w \in welcomes : w.to = d}
InUse(d) == {w.key : w \in WelcomesOf(d)}
            \cup {p[2] : p \in {p \in UNION {task[t].keys : t \in Tabs} : p[1] = d}}

\* Rotation is monthly: a claim or a welcome is used before the second one.
RotationDue(x) == LET s == store[x] IN
  s.last = <<>> \/ Len(s.last) = 1 \/ s.last[2] \notin InUse(s.dev)

\* topUp and uploadKeyPackages: the private halves are stored first.
MakeKeysLate(x) == LET s == store[x] d == s.dev IN
  /\ upload[x] = Quiet /\ d \in current /\ made[x] + 2 <= MaxKeys
  /\ made' = [made EXCEPT ![x] = @ + 2]
  /\ upload' = [upload EXCEPT ![x] = [dev |-> d, once |-> made[x] + 1, last |-> made[x] + 2]]
  /\ UNCHANGED <<directory, sent, on, store, born, pending, task>>

MakeKeys(x) == LET s == store[x] d == s.dev IN
  /\ upload[x] = Quiet /\ d \in current /\ made[x] < MaxKeys
  /\ \E rotate \in {s.last = <<>>, RotationDue(x)} :
       LET low  == oneTime[d] = {}
           once == IF low THEN made[x] + 1 ELSE 0
           last == IF ~rotate THEN 0 ELSE IF low THEN once + 1 ELSE made[x] + 1
           new  == {once, last} \ {0} IN
         /\ new # {} /\ \A k \in new : k <= MaxKeys
         /\ made' = [made EXCEPT ![x] = @ + Cardinality(new)]
         /\ store' = [store EXCEPT ![x].keys = @ \cup new]
         /\ upload' = [upload EXCEPT ![x] = [dev |-> d, once |-> once, last |-> last]]
  /\ UNCHANGED <<directory, sent, on, born, pending, task>>

\* The directory takes them from a current device (requireDevice).  Its answer
\* records the new last-resort key and drops the one before the last; it may
\* be lost.
Refused(x) ==
  /\ upload[x] # Quiet /\ upload[x].dev \notin current
  /\ upload' = [upload EXCEPT ![x] = Quiet]
  /\ UNCHANGED <<directory, sent, on, store, born, made, pending, task>>

AddKeys(x) == LET u == upload[x] s == store[x] IN
  /\ u.dev \in current /\ upload' = [upload EXCEPT ![x] = Quiet]
  /\ oneTime' = [oneTime EXCEPT ![u.dev] = @ \cup ({u.once} \ {0})]
  /\ fallback' = [fallback EXCEPT ![u.dev] = IF u.last = 0 THEN @ ELSE u.last]
  /\ \/ UNCHANGED store
     \/ /\ u.last # 0
        /\ store' = [store EXCEPT ![x] = [s EXCEPT
             !.dev = u.dev,
             !.last = <<u.last>> \o SubSeq(s.last, 1, IF s.last = <<>> THEN 0 ELSE 1),
             !.keys = IF Len(s.last) = 2 THEN @ \ {s.last[2]} ELSE @]]
  /\ UNCHANGED <<current, group, welcomes, sent, on, born, made, pending, task>>

Revoke(ds) ==
  /\ current' = current \ ds
  /\ oneTime' = [d \in Devices |-> IF d \in ds \cap current THEN {} ELSE oneTime[d]]
  /\ fallback' = [d \in Devices |-> IF d \in ds \cap current THEN 0 ELSE fallback[d]]
  /\ welcomes' = {w \in welcomes : w.to \notin ds}
  /\ UNCHANGED group

\* turnOffE2ee and signing out; the revocation may have to wait.
TurnOff(x) ==
  /\ x \in on \cap Leaving /\ on' = on \ {x} /\ store' = [store EXCEPT ![x] = Empty]
  /\ \/ Revoke({store[x].dev}) /\ UNCHANGED pending
     \/ /\ store[x].dev # None /\ pending' = pending \cup {store[x].dev}
        /\ UNCHANGED directory
  /\ UNCHANGED <<sent, born, made, upload, task>>

FlushPending(d) ==
  /\ d \in pending /\ pending' = pending \ {d} /\ Revoke({d})
  /\ UNCHANGED <<sent, on, store, born, made, upload, task>>

RevokeOthers(x) == LET d == store[x].dev IN
  /\ x \in on /\ d \in current
  /\ LET others == {e \in current : OwnerOf(e) = OwnerOf(d)} \ {d} IN
       others # {} /\ Revoke(others)
  /\ UNCHANGED <<sent, browsers, task>>

(***************************** The chat ***********************************)

Go(t, label) == task' = [task EXCEPT ![t].at = label]
End(t)       == task' = [task EXCEPT ![t] = Idle]

\* withLock: the tabs of a browser take turns with the chat's group.
Holding(t) == task[t].at \notin {"idle", "post"}
Unlocked(x) == FALSE

Busy(x) == \E t \in Tabs : BrowserOf[t] = x /\ Holding(t)

\* encrypt (0), or decryptOnce of a message whose text is not stored.
Begin(t) == LET x == BrowserOf[t] IN
  /\ x \in on /\ task[t] = Idle /\ ~Busy(x)
  /\ \E m \in {0} \cup (DOMAIN sent \ store[x].texts) :
       task' = [task EXCEPT ![t].at = "group", ![t].do = m]
  /\ UNCHANGED <<directory, sent, browsers>>

\* groupFor: the stored state, or else the welcomes; a device unknown to the
\* directory is refused.
FindGroup(t) == LET s == store[BrowserOf[t]] IN
  /\ task[t].at = "group"
  /\ IF s.group # None THEN task' = [task EXCEPT ![t].at = "use", ![t].state = s.group]
     ELSE IF s.dev \in current THEN Go(t, "welcomes") ELSE End(t)
  /\ UNCHANGED <<directory, sent, browsers>>

\* A group's state at its start, for its creator and for who joins.
Joined(g, me) == [id |-> g, me |-> me, count |-> 0, read |-> {}]

\* acceptWelcomes: join with the key package it was made for, if the store
\* holds that and no group; the welcome is deleted in any case.
Accept(t) == LET x == BrowserOf[t] s == store[x] mine == WelcomesOf(s.dev) IN
  /\ task[t].at = "welcomes" /\ Go(t, "check")
  /\ welcomes' = welcomes \ mine
  /\ \/ /\ s.group = None
        /\ \E w \in mine : /\ w.key \in s.keys
             /\ store' = [store EXCEPT
                  ![x].group = Joined(group, s.dev),
                  ![x].keys = IF \E i \in DOMAIN s.last : s.last[i] = w.key THEN @ ELSE @ \ {w.key}]
     \/ /\ s.group # None \/ \A w \in mine : w.key \notin s.keys
        /\ UNCHANGED store
  /\ UNCHANGED <<current, oneTime, fallback, group, sent, on, born, made, upload, pending>>

\* Only who encrypts creates a group, and only while the chat has none.
Check(t) == LET s == store[BrowserOf[t]] IN
  /\ task[t].at = "check"
  /\ IF s.group # None THEN Go(t, "group")
     ELSE IF task[t].do = 0 /\ group = None THEN Go(t, "claim") ELSE End(t)
  /\ UNCHANGED <<directory, sent, browsers>>

Others(d) == {e \in current : e # d /\ (oneTime[e] # {} \/ fallback[e] # 0)}
Oldest(S) == CHOOSE k \in S : \A j \in S : k <= j

\* claimKeyPackages takes the oldest one-time package of every device, or
\* lends its last resort.
Claim(t) == LET d == store[BrowserOf[t]].dev IN
  /\ task[t].at = "claim"
  /\ IF d \in current /\ group = None THEN
       /\ oneTime' = [e \in Devices |-> IF e \in Others(d) /\ oneTime[e] # {}
                                        THEN oneTime[e] \ {Oldest(oneTime[e])} ELSE oneTime[e]]
       /\ IF \E e \in Others(d) : OwnerOf(e) # OwnerOf(d) THEN
            task' = [task EXCEPT ![t].at = "create",
                       ![t].keys = {<<e, IF oneTime[e] # {} THEN Oldest(oneTime[e]) ELSE fallback[e]>> :
                                      e \in Others(d)}]
          ELSE End(t)
     ELSE End(t) /\ UNCHANGED oneTime
  /\ UNCHANGED <<current, fallback, group, welcomes, sent, browsers>>

\* createGroupWith: the creator adds every device it has a key package of.
Founded(d, others) == [by |-> d, members |-> others \cup {d}]

\* createGroup: the first creator wins, with welcomes for current devices only;
\* who lost waits for its welcome.
Create(t) == LET d == store[BrowserOf[t]].dev members == {p[1] : p \in task[t].keys} IN
  /\ task[t].at = "create"
  /\ IF d \in current /\ group = None /\ members \subseteq current THEN
       /\ group' = Founded(d, members)
       /\ welcomes' = {[to |-> p[1], key |-> p[2]] : p \in task[t].keys}
       /\ task' = [task EXCEPT ![t].at = "won", ![t].keys = {},
                     ![t].state = Joined(group', d)]
     ELSE /\ IF d \in current /\ group # None
             THEN task' = [task EXCEPT ![t].at = "welcomes", ![t].keys = {}] ELSE End(t)
          /\ UNCHANGED <<group, welcomes>>
  /\ UNCHANGED <<current, oneTime, fallback, sent, browsers>>

Keep(t) ==
  /\ task[t].at = "won" /\ Go(t, "use")
  /\ store' = [store EXCEPT ![BrowserOf[t]].group = task[t].state]
  /\ UNCHANGED <<directory, sent, on, born, made, upload, pending>>

\* The state moves on: to the next message key, or past the key that decrypts.
Encrypt(t) == LET next == [task[t].state EXCEPT !.count = @ + 1] IN
  /\ task[t].at = "use" /\ task[t].do = 0 /\ next.count <= MaxSends
  /\ store' = [store EXCEPT ![BrowserOf[t]].group = next]
  /\ task' = [task EXCEPT ![t].at = "post", ![t].state = next]
  /\ UNCHANGED <<directory, sent, on, born, made, upload, pending>>

Decrypt(t) == LET x == BrowserOf[t] m == task[t].do st == task[t].state IN
  /\ task[t].at = "use" /\ m # 0
  /\ IF sent[m].by # st.me /\ m \notin st.read THEN
       /\ store' = [store EXCEPT ![x].group = [st EXCEPT !.read = @ \cup {m}]]
       /\ Go(t, "text")
     ELSE End(t) /\ UNCHANGED store
  /\ UNCHANGED <<directory, sent, on, born, made, upload, pending>>

Remember(t) ==
  /\ task[t].at = "text" /\ End(t)
  /\ store' = [store EXCEPT ![BrowserOf[t]].texts = @ \cup {task[t].do}]
  /\ UNCHANGED <<directory, sent, on, born, made, upload, pending>>

\* sendTextMessage posts what was encrypted and remembers its text.
Post(t) == LET st == task[t].state IN
  /\ task[t].at = "post" /\ Len(sent) < MaxSends /\ End(t)
  /\ sent' = Append(sent, [by |-> st.me, n |-> st.count])
  /\ store' = [store EXCEPT ![BrowserOf[t]].texts = @ \cup {Len(sent')}]
  /\ UNCHANGED <<directory, on, born, made, upload, pending>>

\* The tab closes, or a request fails or loses its answer; earlier it leaves
\* no trace.
GiveUp(t) ==
  /\ task[t].at \in {"create", "won", "text", "post"} /\ End(t)
  /\ UNCHANGED <<directory, sent, browsers>>

Next ==
  \/ \E x \in Browsers : \/ TurnOn(x) \/ Register(x) \/ StartOver(x) \/ MakeKeys(x)
                         \/ Refused(x) \/ AddKeys(x) \/ TurnOff(x) \/ RevokeOthers(x)
  \/ \E d \in pending : FlushPending(d)
  \/ \E t \in Tabs : \/ Begin(t) \/ FindGroup(t) \/ Accept(t) \/ Check(t) \/ Claim(t)
                     \/ Create(t) \/ Keep(t) \/ Encrypt(t) \/ Decrypt(t) \/ Remember(t)
                     \/ Post(t) \/ GiveUp(t)

Spec == Init /\ [][Next]_vars

(****************************** Properties ********************************)

\* No message key encrypts twice, whatever the tabs of a browser do at once
\* (client.ts:293: they "would reuse a ratchet generation").
KeysUsedOnce == \A i, j \in DOMAIN sent : i # j => sent[i] # sent[j]

\* Whoever holds a group for the chat holds the one the directory records:
\* the group of a creator that lost is thrown away (client.ts:182).
OneGroup == \A x \in Browsers : store[x].group # None => store[x].group.id = group

\* "A key package must never be claimable before we can use it" (client.ts:261),
\* nor after: what the directory, a claim or a welcome holds of a device, its
\* browser can use until it has joined.
Usable == \A x \in Browsers : LET d == store[x].dev IN
  d \in current \ pending /\ store[x].group = None =>
    (oneTime[d] \cup ({fallback[d]} \ {0}) \cup InUse(d)) \subseteq store[x].keys
=============================================================================

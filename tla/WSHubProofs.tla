----------------------------- MODULE WSHubProofs -----------------------------
(***************************************************************************)
(* WSHub for any number of viewers and any capacities: no panic, and no    *)
(* viewer that stays after it missed a message.                            *)
(*                                                                         *)
(* NoPanic is not inductive by itself.  It needs that a viewer's channel   *)
(* is closed only when the viewer leaves the map for good, so that a       *)
(* registration that is still in the channel is that of a viewer never     *)
(* seen before (Lifecycle): a viewer is put into the register channel      *)
(* once, before its pumps run.                                             *)
(***************************************************************************)
EXTENDS WSHub, TLAPS

Distinct(q) == \A i, j \in DOMAIN q : q[i] = q[j] => i = j

LEMMA AppendMembers ==
    ASSUME NEW S, NEW q \in Seq(S), NEW c \in S
    PROVE  /\ Append(q, c) \in Seq(S) /\ Len(Append(q, c)) = Len(q) + 1
           /\ Members(Append(q, c)) = Members(q) \cup {c}
           /\ Distinct(q) /\ c \notin Members(q) => Distinct(Append(q, c))
  <1> DEFINE a == Append(q, c)
  <1>1. /\ a \in Seq(S) /\ Len(a) = Len(q) + 1 /\ Len(q) \in Nat
        /\ DOMAIN q = 1 .. Len(q) /\ DOMAIN a = 1 .. Len(q) + 1
        /\ \A i \in 1 .. Len(q) : a[i] = q[i]
        /\ a[Len(q) + 1] = c
    OBVIOUS
  <1> HIDE DEF a
  <1>2. Members(a) = Members(q) \cup {c}
    BY <1>1 DEF Members
  <1>3. Distinct(q) /\ c \notin Members(q) => Distinct(a)
    BY <1>1 DEF Members, Distinct
  <1> QED
    BY <1>1, <1>2, <1>3 DEF a

LEMMA TailMembers ==
    ASSUME NEW S, NEW q \in Seq(S), q # <<>>
    PROVE  /\ Tail(q) \in Seq(S) /\ Len(Tail(q)) = Len(q) - 1 /\ Len(q) \in Nat
           /\ Head(q) \in S
           /\ Members(q) = Members(Tail(q)) \cup {Head(q)}
           /\ Distinct(q) => Distinct(Tail(q)) /\ Head(q) \notin Members(Tail(q))
  <1> DEFINE a == Tail(q)
  <1>1. /\ a \in Seq(S) /\ Len(a) = Len(q) - 1 /\ Len(q) \in Nat /\ Len(q) > 0
        /\ DOMAIN q = 1 .. Len(q) /\ DOMAIN a = 1 .. Len(q) - 1
        /\ \A i \in 1 .. Len(q) - 1 : a[i] = q[i + 1]
        /\ Head(q) = q[1] /\ q[1] \in S
    OBVIOUS
  <1> HIDE DEF a
  <1>2. Members(q) = Members(a) \cup {Head(q)}
    <2>1. \A x \in Members(a) : x \in Members(q)
      BY <1>1 DEF Members
    <2>2. ASSUME NEW i \in 1 .. Len(q), i # 1 PROVE q[i] \in Members(a)
      <3>1. i - 1 \in 1 .. Len(q) - 1 /\ a[i - 1] = q[i]
        BY <1>1, <2>2
      <3> QED
        BY <1>1, <3>1 DEF Members
    <2>3. \A x \in Members(q) : x \in Members(a) \cup {Head(q)}
      BY <1>1, <2>2 DEF Members
    <2>4. Head(q) \in Members(q)
      BY <1>1 DEF Members
    <2> QED
      BY <2>1, <2>3, <2>4
  <1>3. ASSUME Distinct(q) PROVE Distinct(a) /\ Head(q) \notin Members(a)
    <2>1. ASSUME NEW i \in DOMAIN a, NEW j \in DOMAIN a, a[i] = a[j] PROVE i = j
      <3>1. i + 1 \in DOMAIN q /\ j + 1 \in DOMAIN q /\ q[i + 1] = q[j + 1]
        BY <1>1, <2>1
      <3>2. i + 1 = j + 1
        BY <1>3, <3>1 DEF Distinct
      <3> QED
        BY <1>1, <3>2
    <2>2. ASSUME NEW i \in DOMAIN a, a[i] = Head(q) PROVE FALSE
      <3>1. i + 1 \in DOMAIN q /\ 1 \in DOMAIN q /\ q[i + 1] = q[1] /\ i \in Nat /\ i >= 1
        BY <1>1, <2>2
      <3>2. i + 1 = 1
        BY <1>3, <3>1 DEF Distinct
      <3> QED
        BY <3>1, <3>2
    <2> QED
      BY <2>1, <2>2 DEF Members, Distinct
  <1> QED
    BY <1>1, <1>2, <1>3 DEF a

------------------------------------------------------------------------------
(* The inductive invariant.                                                *)

(* A viewer that has not connected is nowhere; one that waits to be        *)
(* registered has not been in the map yet, so it has missed nothing; one   *)
(* in the map is open.                                                     *)
Lifecycle ==
    /\ Distinct(register)
    /\ \A c \in Client :
          /\ reader[c] = "none" => c \notin Members(register) /\ c \notin clients
                                   /\ c \notin missed /\ sendClosed[c] = FALSE
          /\ c \in Members(register) => c \notin clients /\ c \notin missed
                                        /\ sendClosed[c] = FALSE
          /\ c \in clients => sendClosed[c] = FALSE

IInv == TypeOK /\ Lifecycle /\ NoPanic /\ MissedOnlyIfLeaving

LEMMA SendingToOK ==
    ASSUME NEW to \in SUBSET Client
    PROVE  /\ SendingTo(to) \in RunState /\ SendingTo(to).to \subseteq to
           /\ SendingTo(to).pc # "evict"
           /\ SendingTo(to).pc = "select" => SendingTo(to).to = {}
  BY DEF SendingTo, Selecting, RunState

LEMMA InitIInv == Init => IInv
  <1> SUFFICES ASSUME Init PROVE IInv
    OBVIOUS
  <1>1. Selecting \in RunState /\ Selecting.to = {} /\ Selecting.pc = "select"
    BY DEF Selecting, RunState
  <1>2. Members(register) = {} /\ Distinct(register)
    BY DEF Init, Members, Distinct
  <1>3. TypeOK
    <2>1. <<>> \in Seq(Client) /\ Len(<<>>) = 0
      OBVIOUS
    <2>2. 0 \in 0 .. SendCap /\ 0 \in 0 .. BroadcastCap /\ 0 \in 0 .. MaxMessages
          /\ 0 <= RegisterCap /\ 0 <= UnregisterCap
      BY ConfigAssumption
    <2>3. /\ register \in Seq(Client) /\ Len(register) <= RegisterCap
          /\ unregister \in Seq(Client) /\ Len(unregister) <= UnregisterCap
      BY <2>1, <2>2 DEF Init
    <2>4. /\ buffer \in [Client -> 0 .. SendCap] /\ sendClosed \in [Client -> BOOLEAN]
          /\ broadcast \in 0 .. BroadcastCap /\ sent \in 0 .. MaxMessages
      BY <2>2 DEF Init
    <2>5. /\ run \in RunState /\ run.to = {} /\ run.pc = "select"
      BY <1>1 DEF Init
    <2> QED
      BY <2>3, <2>4, <2>5 DEF Init, TypeOK
  <1> QED
    BY <1>2, <1>3 DEF Init, IInv, Lifecycle, NoPanic, MissedOnlyIfLeaving

(* A step of a viewer.                                                     *)
LEMMA ViewerKeeps ==
    ASSUME IInv, NEW c \in Client, Viewer(c)
    PROVE  IInv'
  <1>1. CASE Connect(c)
    <2>1. /\ register \in Seq(Client) /\ register' = Append(register, c)
          /\ reader[c] = "none" /\ c \notin Members(register)
      BY <1>1 DEF Connect, IInv, TypeOK, Lifecycle
    <2>2. /\ register' \in Seq(Client) /\ Len(register') = Len(register) + 1
          /\ Members(register') = Members(register) \cup {c} /\ Distinct(register')
      BY <2>1, AppendMembers DEF IInv, Lifecycle
    <2>3. Len(register') <= RegisterCap
      BY <1>1, <2>1, <2>2, ConfigAssumption DEF Connect
    <2>4. TypeOK'
      BY <1>1, <2>2, <2>3 DEF Connect, IInv, TypeOK
    <2>5. Lifecycle'
      BY <1>1, <2>1, <2>2 DEF Connect, IInv, Lifecycle, TypeOK
    <2> QED
      BY <1>1, <2>4, <2>5 DEF Connect, IInv, NoPanic, MissedOnlyIfLeaving
  <1>2. CASE Unregister(c)
    <2>1. unregister \in Seq(Client) /\ unregister' = Append(unregister, c)
      BY <1>2 DEF Unregister, IInv, TypeOK
    <2>2. /\ unregister' \in Seq(Client) /\ Len(unregister') = Len(unregister) + 1
          /\ Members(unregister') = Members(unregister) \cup {c}
      BY <2>1, AppendMembers
    <2>3. Len(unregister') <= UnregisterCap
      BY <1>2, <2>1, <2>2, ConfigAssumption DEF Unregister
    <2>4. TypeOK'
      BY <1>2, <2>2, <2>3 DEF Unregister, IInv, TypeOK
    <2>5. Lifecycle'
      BY <1>2 DEF Unregister, IInv, Lifecycle, TypeOK
    <2> QED
      BY <1>2, <2>2, <2>4, <2>5 DEF Unregister, IInv, NoPanic, MissedOnlyIfLeaving
  <1>3. CASE ReadFails(c)
    <2>1. TypeOK'
      BY <1>3 DEF ReadFails, IInv, TypeOK, channels
    <2>2. Lifecycle'
      BY <1>3 DEF ReadFails, IInv, Lifecycle, TypeOK, channels
    <2> QED
      BY <1>3, <2>1, <2>2 DEF ReadFails, IInv, NoPanic, MissedOnlyIfLeaving, channels
  <1>4. CASE WritePump(c) \/ PingFails(c)
    <2>1. /\ UNCHANGED <<clients, channels, run, sendClosed, reader, missed, panicked,
                         mu, sent>>
          /\ writer' \in [Client -> {"none", "writing", "done"}]
      BY <1>4 DEF WritePump, Write, WriteFails, WriterSeesClose, PingFails, WriterGone,
           pumps, IInv, TypeOK
    <2>2. buffer' \in [Client -> 0 .. SendCap]
      <3>1. buffer' = buffer \/ (buffer[c] > 0 /\ buffer' = [buffer EXCEPT ![c] = @ - 1])
        BY <1>4 DEF WritePump, Write, WriteFails, WriterSeesClose, PingFails
      <3> QED
        <4>1. buffer[c] \in Nat /\ buffer[c] <= SendCap /\ SendCap \in Nat
          BY ConfigAssumption DEF IInv, TypeOK
        <4>2. buffer[c] > 0 => buffer[c] - 1 \in 0 .. SendCap
          BY <4>1
        <4> QED
          BY <3>1, <4>2 DEF IInv, TypeOK
    <2> QED
      BY <2>1, <2>2 DEF IInv, TypeOK, Lifecycle, NoPanic, MissedOnlyIfLeaving, channels
  <1> QED
    BY <1>1, <1>2, <1>3, <1>4 DEF Viewer

(* A step of Run.                                                          *)
LEMMA RunKeeps ==
    ASSUME IInv, Run
    PROVE  IInv'
  <1>1. CASE AddClient
    <2> DEFINE c == Head(register)
    <2>1. /\ register' = Tail(register) /\ register' \in Seq(Client)
          /\ Len(register') <= RegisterCap /\ c \in Client
          /\ Members(register) = Members(register') \cup {c}
          /\ Distinct(register') /\ c \notin Members(register')
      BY <1>1, TailMembers, ConfigAssumption DEF AddClient, IInv, TypeOK, Lifecycle
    <2>2. clients' = clients \cup {c} /\ run.pc = "select" /\ c \notin clients
          /\ c \notin missed /\ sendClosed[c] = FALSE
      BY <1>1, <2>1 DEF AddClient, IInv, Lifecycle
    <2>3. TypeOK'
      BY <1>1, <2>1, <2>2 DEF AddClient, IInv, TypeOK, pumps
    <2>4. Lifecycle'
      BY <1>1, <2>1, <2>2 DEF AddClient, IInv, Lifecycle, pumps
    <2> QED
      BY <1>1, <2>2, <2>3, <2>4 DEF AddClient, IInv, NoPanic, MissedOnlyIfLeaving
  <1>2. CASE RemoveClient
    <2> DEFINE c == Head(unregister)
    <2>1. /\ unregister' = Tail(unregister) /\ unregister' \in Seq(Client)
          /\ Len(unregister') <= UnregisterCap /\ c \in Client
          /\ Members(unregister) = Members(unregister') \cup {c}
      BY <1>2, TailMembers, ConfigAssumption DEF RemoveClient, IInv, TypeOK
    <2>2. /\ clients' = clients \ {c}
          /\ sendClosed' \in [Client -> BOOLEAN]
          /\ \A d \in Client : d \in clients' \/ d \notin clients => sendClosed'[d] = sendClosed[d]
          /\ panicked' = panicked
      BY <1>2, <2>1 DEF RemoveClient, CloseRegistered, IInv, TypeOK, Lifecycle
    <2>3. run.pc = "select" /\ run.to = {}
      BY <1>2 DEF RemoveClient, IInv, TypeOK
    <2>4. TypeOK'
      BY <1>2, <2>1, <2>2, <2>3 DEF RemoveClient, IInv, TypeOK, pumps
    <2>5. Lifecycle'
      BY <1>2, <2>2 DEF RemoveClient, IInv, Lifecycle, pumps
    <2>6. MissedOnlyIfLeaving'
      BY <1>2, <2>1, <2>2 DEF RemoveClient, IInv, MissedOnlyIfLeaving
    <2> QED
      BY <2>2, <2>4, <2>5, <2>6 DEF IInv, NoPanic
  <1>3. CASE TakeMessage
    <2>1. run' = SendingTo(clients) /\ clients \in SUBSET Client /\ run.pc = "select"
      BY <1>3 DEF TakeMessage, IInv, TypeOK
    <2>2. run' \in RunState /\ run'.to \subseteq clients /\ run'.pc # "evict"
          /\ (run'.pc = "select" => run'.to = {})
      BY <2>1, SendingToOK
    <2>3. broadcast' \in 0 .. BroadcastCap
      BY <1>3, ConfigAssumption DEF TakeMessage, IInv, TypeOK
    <2>4. TypeOK'
      BY <1>3, <2>2, <2>3 DEF TakeMessage, IInv, TypeOK, pumps
    <2> QED
      BY <1>3, <2>1, <2>4
      DEF TakeMessage, IInv, Lifecycle, NoPanic, MissedOnlyIfLeaving, pumps
  <1>4. ASSUME NEW c \in Client, SendMessage(c) PROVE IInv'
    <2>1. run.pc = "send" /\ c \in run.to /\ c \in clients /\ run \in RunState
          /\ run.to \subseteq clients /\ run.to \subseteq Client
          /\ UNCHANGED <<clients, channels, sendClosed, pumps, mu, sent>>
      BY <1>4 DEF SendMessage, IInv, TypeOK, RunState
    <2>2. panicked' = panicked
      BY <1>4, <2>1 DEF SendMessage, IInv, Lifecycle, TypeOK
    <2>3. CASE buffer[c] < SendCap
      <3>1. run' = SendingTo(run.to \ {c}) /\ missed' = missed
            /\ buffer' = [buffer EXCEPT ![c] = @ + 1]
        BY <1>4, <2>3 DEF SendMessage, SendOrEvict
      <3>2. run' \in RunState /\ run'.to \subseteq clients /\ run'.pc # "evict"
          /\ (run'.pc = "select" => run'.to = {})
        BY <2>1, <3>1, SendingToOK
      <3>3. buffer' \in [Client -> 0 .. SendCap]
        BY <2>3, <3>1, ConfigAssumption DEF IInv, TypeOK
      <3>4. TypeOK'
        BY <2>1, <2>2, <3>1, <3>2, <3>3 DEF IInv, TypeOK, channels, pumps
      <3> QED
        BY <2>1, <2>2, <3>1, <3>4
        DEF IInv, Lifecycle, NoPanic, MissedOnlyIfLeaving, channels, pumps
    <2>4. CASE ~(buffer[c] < SendCap)
      <3>1. run' = [run EXCEPT !.pc = "evict", !.slow = c] /\ missed' = missed \cup {c}
            /\ buffer' = buffer
        BY <1>4, <2>4 DEF SendMessage, SendOrEvict, Evicting
      <3>2. run' \in RunState /\ run'.to = run.to /\ run'.pc = "evict" /\ run'.slow = c
        BY <2>1, <3>1 DEF RunState
      <3>3. TypeOK'
        BY <2>1, <2>2, <3>1, <3>2 DEF IInv, TypeOK, channels, pumps
      <3>4. MissedOnlyIfLeaving'
        BY <2>1, <3>1, <3>2 DEF IInv, MissedOnlyIfLeaving, channels
      <3> QED
        BY <2>1, <2>2, <3>1, <3>3, <3>4 DEF IInv, Lifecycle, NoPanic, channels, pumps
    <2> QED
      BY <2>3, <2>4
  <1>5. CASE EvictSlow
    <2> DEFINE c == run.slow
    <2>1. run.pc = "evict" /\ c \in clients /\ c \in Client /\ run.to \subseteq clients
          /\ run.to \subseteq Client /\ unregister \in Seq(Client)
          /\ unregister' = Append(unregister, c) /\ run' = SendingTo(run.to \ {c})
      BY <1>5 DEF EvictSlow, IInv, TypeOK
    <2>2. /\ unregister' \in Seq(Client) /\ Len(unregister') = Len(unregister) + 1
          /\ Members(unregister') = Members(unregister) \cup {c}
      BY <2>1, AppendMembers
    <2>3. Len(unregister') <= UnregisterCap
      BY <1>5, <2>1, <2>2, ConfigAssumption DEF EvictSlow
    <2>4. run' \in RunState /\ run'.to \subseteq clients /\ run'.pc # "evict"
          /\ (run'.pc = "select" => run'.to = {})
      BY <2>1, SendingToOK
    <2>5. TypeOK'
      BY <1>5, <2>2, <2>3, <2>4 DEF EvictSlow, IInv, TypeOK, pumps
    <2>6. MissedOnlyIfLeaving'
      BY <1>5, <2>1, <2>2 DEF EvictSlow, IInv, MissedOnlyIfLeaving
    <2> QED
      BY <1>5, <2>5, <2>6 DEF EvictSlow, IInv, Lifecycle, NoPanic, pumps
  <1> QED
    BY <1>1, <1>2, <1>3, <1>4, <1>5 DEF Run, Loop

(* A call of Broadcast.                                                    *)
LEMMA BroadcastKeeps ==
    ASSUME IInv, Broadcast \/ LockForCheck \/ BroadcastUnderLock
    PROVE  IInv'
  <1>1. UNCHANGED <<clients, register, unregister, run, buffer, sendClosed, pumps, missed,
                    panicked>>
    BY DEF Broadcast, LockForCheck, BroadcastUnderLock, Enqueue, channels
  <1>2. broadcast' \in 0 .. BroadcastCap
    BY ConfigAssumption
    DEF Broadcast, LockForCheck, BroadcastUnderLock, Enqueue, channels, IInv, TypeOK
  <1>3. mu' \in {"free", "held"} /\ sent' \in 0 .. MaxMessages
    BY ConfigAssumption
    DEF Broadcast, LockForCheck, BroadcastUnderLock, Enqueue, IInv, TypeOK
  <1> QED
    BY <1>1, <1>2, <1>3 DEF IInv, TypeOK, Lifecycle, NoPanic, MissedOnlyIfLeaving, pumps

LEMMA Invariance == Spec => []IInv
  <1>1. IInv /\ [Next]_vars => IInv'
    <2> SUFFICES ASSUME IInv, [Next]_vars PROVE IInv'
      OBVIOUS
    <2>1. ASSUME UNCHANGED vars PROVE IInv'
      BY <2>1 DEF vars, channels, pumps, IInv, TypeOK, Lifecycle, NoPanic, MissedOnlyIfLeaving
    <2> QED
      BY <2>1, ViewerKeeps, RunKeeps, BroadcastKeeps DEF Next
  <1> QED
    BY <1>1, InitIInv, PTL DEF Spec

(* Channels stay within their capacities, and the hub sends only to        *)
(* viewers in its map.                                                     *)
THEOREM TypeCorrect == Spec => []TypeOK
  BY Invariance, PTL DEF IInv

(* However often and in whatever order a viewer is unregistered, its       *)
(* channel is closed once and nothing is sent on it after that.            *)
THEOREM NoPanicHolds == Spec => []NoPanic
  BY Invariance, PTL DEF IInv

(* A viewer that missed a message is in the hub's unregister channel, or   *)
(* the hub is about to put it there, until it is out of the map.           *)
THEOREM MissedOnlyIfLeavingHolds == Spec => []MissedOnlyIfLeaving
  BY Invariance, PTL DEF IInv

(* Once the hub waits for room in its own unregister channel, and that is  *)
(* full, it does so for ever: every way on is closed, whatever the viewers *)
(* and the callers of Broadcast do (broadcastToAccount, ws_hub.go).        *)
THEOREM HubStaysStuck == Spec => [][HubStuck => HubStuck']_vars
  <1>1. ASSUME TypeOK, HubStuck, Next PROVE HubStuck'
    <2>1. run.pc = "evict" /\ ~(Len(unregister) < UnregisterCap)
      BY <1>1, ConfigAssumption DEF HubStuck
    <2>2. CASE \E c \in Client : Viewer(c)
      <3>1. UNCHANGED <<run, unregister>>
        BY <2>1, <2>2 DEF Viewer, Connect, ReadFails, Unregister, WritePump, Write, WriteFails,
             WriterSeesClose, PingFails, channels
      <3> QED
        BY <1>1, <3>1 DEF HubStuck
    <2>3. ~Run
      BY <2>1 DEF Run, AddClient, RemoveClient, TakeMessage, Loop, SendMessage, EvictSlow
    <2>4. CASE Broadcast \/ LockForCheck \/ BroadcastUnderLock
      <3>1. UNCHANGED <<run, unregister>>
        BY <2>4 DEF Broadcast, LockForCheck, BroadcastUnderLock, Enqueue, channels
      <3> QED
        BY <1>1, <3>1 DEF HubStuck
    <2> QED
      BY <1>1, <2>2, <2>3, <2>4 DEF Next
  <1>2. TypeOK /\ [Next]_vars => [HubStuck => HubStuck']_vars
    BY <1>1
  <1> QED
    BY <1>2, TypeCorrect, PTL DEF Spec

=============================================================================

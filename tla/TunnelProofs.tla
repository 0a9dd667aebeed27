------------------------------ MODULE TunnelProofs ------------------------------
(***************************************************************************)
(* Theorems about Tunnel: type correctness, one owner of every tunnel, a   *)
(* published tunnel that is reachable, and nothing left behind by a stop,  *)
(* for any number of administrators, hosts, starts and failures.           *)
(*                                                                         *)
(* The invariant says where a manager may be: no two operations have the   *)
(* same one, none has the published one, and how far an operation has come *)
(* tells whether its tunnel exists and its process runs.  An action moves  *)
(* one operation and touches what belongs to its manager; the lemmas Moved *)
(* and OwnMoves say so once for all of them.  What a stop leaves behind    *)
(* depends on what its manager knows of its record, from the start on:     *)
(* Trail.                                                                  *)
(***************************************************************************)
EXTENDS Tunnel, FiniteSetTheorems, TLAPS

PC == {"idle", "boot", "env", "check", "config", "create", "route", "find", "replace",
       "point", "refind", "launch", "undo", "failed", "save", "publish", "kill",
       "unlink", "delete", "abort", "unlinkNew", "deleteNew", "load", "stopped",
       "asked", "edit"}
Record == Mgr \cup {NoRecord, Foreign}
OpRec == [pc : PC, mgr : Mgr \cup {NoMgr}, cfg : Config, found : Record, err : BOOLEAN]
MgrRec == [host : Host \cup {NoHost}, tunnel : BOOLEAN, record : Record \cup {Unnamed}]

(* Operations without a manager, those that work on one, those of them     *)
(* whose cloudflared may run, and those that have let go of their tunnel.  *)
Free == {"idle", "boot", "env", "check", "asked", "edit"}
Working == PC \ (Free \cup {"load", "stopped"})
MayRun == {"save", "publish", "kill", "abort"}
Released == {"failed", "load", "stopped"}

Distinct ==
    \A a, b \in Actor : a # b /\ op[a].mgr # NoMgr => op[a].mgr # op[b].mgr
Unpublished ==
    \A a \in Actor : tunnelMgr # NoMgr => op[a].mgr # tunnelMgr
Known ==
    /\ tunnelMgr <= started
    /\ \A a \in Actor : op[a].mgr <= started
    /\ tunnels \cup proc \subseteq 1 .. started

(* What the position of a says of its manager.                             *)
PositionOK(a) ==
    LET pc == op[a].pc
        m == op[a].mgr
    IN  /\ pc \in Working => m # NoMgr
        /\ pc \in Free => m = NoMgr
        /\ pc \in {"config", "create"} => m \notin tunnels
        /\ pc = "route" => m \in tunnels
        /\ pc \notin MayRun => m \notin proc
        /\ pc \in Released => m \notin tunnels \ lost
        /\ pc \in Working \ {"config"} => mgr[m].host \in Host

Owned(m) ==
    \/ tunnelMgr = m
    \/ \E a \in Actor : op[a].mgr = m /\ op[a].pc \notin Released

Inv ==
    /\ Distinct
    /\ Unpublished
    /\ Known
    /\ tunnelMgr # NoMgr => mgr[tunnelMgr].host \in Host
    /\ \A a \in Actor : PositionOK(a)
    /\ \A m \in (tunnels \cup proc) \ lost : Owned(m)

HostsKept == \A n \in Mgr : mgr'[n].host = mgr[n].host

(* a is at pc with manager m now, and no other operation has moved.        *)
Moved(a, pc, m) ==
    /\ op' \in [Actor -> OpRec]
    /\ op'[a].pc = pc
    /\ op'[a].mgr = m
    /\ \A b \in Actor : b # a => op'[b] = op[b]

------------------------------------------------------------------------------
(* Facts about the operators.                                              *)

LEMMA Constants ==
    /\ MaxStarts \in Nat /\ Mgr = 1 .. MaxStarts
    /\ NoMgr = 0 /\ NoRecord = 0
    /\ NoMgr \notin Mgr
  <1> QED
    BY ConfigAssumption DEF Mgr, NoMgr, NoRecord

LEMMA TypeOfOp ==
    TypeOK => op \in [Actor -> OpRec] /\ mgr \in [Mgr -> MgrRec]
  <1> QED
    BY DEF TypeOK, OpRec, PC, Record, MgrRec

LEMMA IdleType == Idle \in OpRec
  <1>1. NoRow \in Config
    BY DEF NoRow, Config
  <1> QED
    BY <1>1 DEF Idle, OpRec, PC, Record, NoRecord

LEMMA AtType ==
    ASSUME NEW pc \in PC
    PROVE  At(pc) \in OpRec /\ At(pc).pc = pc /\ At(pc).mgr = NoMgr
  <1> QED
    BY IdleType DEF At, Idle, OpRec

LEMMA GoOnMoves ==
    ASSUME TypeOK, NEW a \in Actor, NEW pc \in PC, GoOn(a, pc)
    PROVE  Moved(a, pc, op[a].mgr)
  <1> QED
    BY TypeOfOp DEF GoOn, Moved, OpRec

LEMMA FinishMoves ==
    ASSUME TypeOK, NEW a \in Actor, Finish(a)
    PROVE  Moved(a, "idle", NoMgr)
  <1> QED
    BY TypeOfOp, IdleType DEF Finish, Moved, Idle

(* Setting an operation to a record.                                       *)
LEMMA SetMoves ==
    ASSUME TypeOK, NEW a \in Actor, NEW r \in OpRec, op' = [op EXCEPT ![a] = r]
    PROVE  Moved(a, r.pc, r.mgr)
  <1> QED
    BY TypeOfOp DEF Moved

(* An operation that touches only what belongs to its own manager, and     *)
(* keeps it or has nothing left to keep, preserves the invariant.          *)
LEMMA OwnMoves ==
    ASSUME TypeOK, Inv, NEW a \in Actor, NEW pc, NEW m \in {op[a].mgr, NoMgr},
           Moved(a, pc, m),
           tunnelMgr' = tunnelMgr, started' = started, lost \subseteq lost',
           tunnels' \cup proc' \subseteq Mgr,
           \A n \in Mgr : n # op[a].mgr => /\ n \in tunnels' <=> n \in tunnels
                                           /\ n \in proc' <=> n \in proc
                                           /\ mgr'[n].host = mgr[n].host,
           PositionOK(a)',
           op[a].mgr \in (tunnels' \cup proc') \ lost' => m = op[a].mgr /\ pc \notin Released
    PROVE  Inv'
  <1>1. op'[a].pc = pc /\ op'[a].mgr = m /\ \A b \in Actor : b # a => op'[b] = op[b]
    BY DEF Moved
  <1>2. \A b \in Actor : op[b].mgr \in Mgr \cup {NoMgr}
    BY TypeOfOp DEF OpRec
  <1>3. Distinct'
    BY <1>1 DEF Inv, Distinct
  <1>4. Unpublished'
    BY <1>1, Constants DEF Inv, Unpublished
  <1>5. Known'
    <2>1. started \in Nat /\ tunnels \cup proc \subseteq Mgr
      BY Constants DEF TypeOK
    <2>2. \A b \in Actor : op'[b].mgr <= started
      BY <1>1, <2>1, Constants DEF Inv, Known
    <2>3. \A n \in tunnels' \cup proc' : n \in 1 .. started
      BY <1>2, <2>1, Constants DEF Inv, Known
    <2> QED
      BY <2>2, <2>3 DEF Inv, Known
  <1>6. ASSUME NEW b \in Actor, b # a PROVE PositionOK(b)'
    <2>1. op'[b] = op[b]
      BY <1>1, <1>6
    <2>2. CASE op[b].mgr = NoMgr
      <3>1. op[b].pc \notin Working /\ PositionOK(b)
        BY <2>2 DEF Inv, PositionOK
      <3>2. NoMgr \notin tunnels' \cup proc' /\ NoMgr \notin tunnels \cup proc
        BY Constants DEF TypeOK
      <3> QED
        BY <2>1, <2>2, <3>1, <3>2 DEF PositionOK
    <2>3. CASE op[b].mgr # NoMgr
      <3>1. op[b].mgr # op[a].mgr /\ op[b].mgr \in Mgr
        BY <1>6, <1>2, <2>3 DEF Inv, Distinct
      <3>2. /\ op[b].mgr \in tunnels' <=> op[b].mgr \in tunnels
            /\ op[b].mgr \in proc' <=> op[b].mgr \in proc
            /\ mgr'[op[b].mgr].host = mgr[op[b].mgr].host
        BY <3>1
      <3>3. PositionOK(b)
        BY DEF Inv
      <3> QED
        BY <2>1, <3>2, <3>3 DEF PositionOK
    <2> QED
      BY <2>2, <2>3
  <1>7. ASSUME NEW n \in (tunnels' \cup proc') \ lost' PROVE Owned(n)'
    <2>1. CASE n = op[a].mgr
      BY <2>1, <1>1, <1>7 DEF Owned
    <2>2. CASE n # op[a].mgr
      <3>1. n \in (tunnels \cup proc) \ lost
        BY <2>2, <1>7
      <3>2. Owned(n)
        BY <3>1 DEF Inv
      <3> QED
        BY <3>2, <2>2, <1>1 DEF Owned
    <2> QED
      BY <2>1, <2>2
  <1>8. tunnelMgr' # NoMgr => mgr'[tunnelMgr'].host \in Host
    <2>1. tunnelMgr # NoMgr => tunnelMgr \in Mgr /\ tunnelMgr # op[a].mgr
      BY DEF Inv, Unpublished, TypeOK
    <2> QED
      BY <2>1 DEF Inv
  <1>9. PositionOK(a)'
    OBVIOUS
  <1> QED
    BY <1>3, <1>4, <1>5, <1>6, <1>7, <1>8, <1>9 DEF Inv

(* A manager remembers one thing more.                                     *)
LEMMA MgrType ==
    ASSUME TypeOK, NEW m \in Mgr
    PROVE  /\ \A h \in Host \cup {NoHost} : [mgr EXCEPT ![m].host = h] \in [Mgr -> MgrRec]
           /\ \A b \in BOOLEAN :
                 mgr' = [mgr EXCEPT ![m].tunnel = b] => mgr' \in [Mgr -> MgrRec] /\ HostsKept
           /\ \A r \in Record \cup {Unnamed} :
                 mgr' = [mgr EXCEPT ![m].record = r] => mgr' \in [Mgr -> MgrRec] /\ HostsKept
           /\ mgr' = mgr => HostsKept
  <1>1. mgr \in [Mgr -> MgrRec] /\ mgr[m] \in MgrRec
    BY TypeOfOp
  <1>2. /\ \A h \in Host \cup {NoHost} : [mgr[m] EXCEPT !.host = h] \in MgrRec
        /\ \A b \in BOOLEAN : /\ [mgr[m] EXCEPT !.tunnel = b] \in MgrRec
                              /\ [mgr[m] EXCEPT !.tunnel = b].host = mgr[m].host
        /\ \A r \in Record \cup {Unnamed} :
              /\ [mgr[m] EXCEPT !.record = r] \in MgrRec
              /\ [mgr[m] EXCEPT !.record = r].host = mgr[m].host
    BY <1>1 DEF MgrRec
  <1> QED
    BY <1>1, <1>2 DEF HostsKept

(* The types without what fails by itself and the budget of failures,      *)
(* which the actions leave out.                                            *)
StateOK ==
    /\ row \in Config
    /\ tunnelMgr \in Mgr \cup {NoMgr}
    /\ mgr \in [Mgr -> MgrRec]
    /\ tunnels \subseteq Mgr /\ routed \subseteq tunnels /\ proc \subseteq Mgr
    /\ dns \in [Host -> Record]
    /\ op \in [Actor -> OpRec]
    /\ started \in 0 .. MaxStarts
    /\ lost \subseteq Mgr /\ disturbed \subseteq Mgr \cup {NoMgr} /\ stopped \subseteq Mgr
    /\ ops \in 0 .. MaxOps /\ restarts \in 0 .. MaxRestarts

LEMMA TypeParts == TypeOK <=> StateOK /\ died \subseteq Mgr /\ faults \in 0 .. MaxFaults
  <1> QED
    BY DEF TypeOK, StateOK, OpRec, PC, Record, MgrRec

LEMMA TypePartsPrime ==
    TypeOK' <=> StateOK' /\ died' \subseteq Mgr /\ faults' \in 0 .. MaxFaults
  <1> QED
    BY DEF TypeOK, StateOK, OpRec, PC, Record, MgrRec

(* What every action of one operation starts from.                         *)
LEMMA OperationFacts ==
    ASSUME TypeOK, Inv, NEW a \in Actor
    PROVE  /\ op[a] \in OpRec
           /\ op[a].pc \in PC /\ op[a].mgr \in Mgr \cup {NoMgr}
           /\ op[a].cfg \in Config /\ op[a].found \in Record
           /\ op[a].pc \in Working => op[a].mgr \in Mgr
           /\ PositionOK(a)
  <1> QED
    BY TypeOfOp DEF OpRec, Inv, PositionOK

(* The position of an operation that has let go of everything.             *)
LEMMA FreePosition ==
    ASSUME tunnels' \cup proc' \subseteq Mgr, NEW a \in Actor,
           op'[a].mgr = NoMgr, op'[a].pc \notin Working
    PROVE  PositionOK(a)'
  <1>1. NoMgr \notin tunnels' \cup proc'
    BY Constants
  <1> QED
    BY <1>1 DEF PositionOK, Working, PC, Released, Free

(* Nothing outside the operation changes.                                  *)
LEMMA QuietMoves ==
    ASSUME TypeOK, Inv, NEW a \in Actor, NEW pc, NEW m \in {op[a].mgr, NoMgr},
           Moved(a, pc, m), UNCHANGED <<tunnelMgr, tunnels, proc, lost, started>>,
           PositionOK(a)', \A n \in Mgr : n # op[a].mgr => mgr'[n].host = mgr[n].host,
           op[a].mgr \in (tunnels \cup proc) \ lost => m = op[a].mgr /\ pc \notin Released
    PROVE  Inv'
  <1>1. tunnels' \cup proc' \subseteq Mgr
    BY DEF TypeOK
  <1> QED
    BY <1>1, OwnMoves

(* The operation ends, and its manager has nothing or is lost.             *)
LEMMA FinishKeepsInv ==
    ASSUME TypeOK, Inv, NEW a \in Actor, Finish(a),
           UNCHANGED <<tunnelMgr, tunnels, proc, lost, started>>,
           op[a].mgr \notin (tunnels \cup proc) \ lost, HostsKept
    PROVE  Inv'
  <1>1. Moved(a, "idle", NoMgr)
    BY FinishMoves
  <1>2. tunnels' \cup proc' \subseteq Mgr
    BY DEF TypeOK
  <1>3. PositionOK(a)'
    BY <1>1, <1>2, FreePosition DEF Moved, Working, Free
  <1> QED
    BY <1>1, <1>3, QuietMoves DEF HostsKept

(* The operation goes on to another position with the same manager.        *)
LEMMA GoOnKeepsInv ==
    ASSUME TypeOK, Inv, NEW a \in Actor, NEW pc \in PC \ Released, GoOn(a, pc),
           UNCHANGED <<tunnelMgr, tunnels, proc, lost, started>>,
           pc \notin {"config", "create", "route"},
           HostsKept, op[a].pc # "config",
           pc \in Working => op[a].pc \in Working, pc \in Free => op[a].pc \in Free,
           op[a].pc \in MayRun => pc \in MayRun
    PROVE  Inv'
  <1>1. Moved(a, pc, op[a].mgr)
    BY GoOnMoves
  <1>2. PositionOK(a)'
    <2>1. op'[a].pc = pc /\ op'[a].mgr = op[a].mgr /\ pc \notin Released
      BY <1>1 DEF Moved
    <2>2. pc \in Working => mgr'[op[a].mgr].host \in Host
      BY OperationFacts DEF PositionOK, HostsKept
    <2> QED
      BY <2>1, <2>2, OperationFacts DEF PositionOK
  <1> QED
    BY <1>1, <1>2, QuietMoves DEF HostsKept

(* Once a start has read its configuration it works on a host.             *)
LEMMA RecordOfHost ==
    ASSUME TypeOK, Inv, NEW a \in Actor, op[a].pc \in Working \ {"config"}
    PROVE  HostOf(a) \in Host /\ dns[HostOf(a)] \in Record
  <1> QED
    BY OperationFacts DEF HostOf, PositionOK, TypeOK, Record

LEMMA OverlapType ==
    ASSUME TypeOK, NEW a \in Actor, NEW m \in Mgr \cup {NoMgr}, Overlap(a, m)
    PROVE  disturbed' \subseteq Mgr \cup {NoMgr}
  <1>1. Busy \subseteq Actor
    BY DEF Busy
  <1>2. \A b \in Busy : op[b].mgr \in Mgr \cup {NoMgr}
    BY <1>1, TypeOfOp DEF OpRec
  <1> QED
    BY <1>2 DEF Overlap, TypeOK

------------------------------------------------------------------------------
(* One lemma for each action.                                              *)

LEMMA AutoStartKeeps ==
    ASSUME TypeOK, Inv, AutoStart
    PROVE  StateOK' /\ Inv'
  <1> USE DEF memory, cloud, history, budget
  <1>1. Starter \in Actor
    BY DEF Actor
  <1>2. op[Starter].pc = "boot" /\ op[Starter].mgr = NoMgr
    BY <1>1, OperationFacts DEF AutoStart, PositionOK, Free
  <1>3. op' \in [Actor -> OpRec]
    BY <1>1, FinishMoves, GoOnMoves DEF AutoStart, Moved, PC
  <1>4. StateOK'
    BY <1>3, TypeParts DEF StateOK, AutoStart
  <1>5. NoMgr \notin tunnels \cup proc
    BY Constants DEF TypeOK
  <1>6. CASE Finish(Starter)
    BY <1>1, <1>2, <1>4, <1>5, <1>6, FinishKeepsInv DEF AutoStart, HostsKept
  <1>7. CASE GoOn(Starter, "check")
    <2>1. "check" \in PC \ Released /\ "check" \in Free /\ "boot" \in Free
      BY DEF PC, Released, Free
    <2> QED
      BY <1>1, <1>2, <1>4, <1>7, <2>1, GoOnKeepsInv DEF AutoStart, Working, MayRun, HostsKept
  <1> QED
    BY <1>6, <1>7 DEF AutoStart

LEMMA SaveFromEnvKeeps ==
    ASSUME TypeOK, Inv, NEW saved \in BOOLEAN, SaveFromEnv(saved)
    PROVE  StateOK' /\ Inv'
  <1> USE DEF memory, cloud, history, budget
  <1>1. Main \in Actor
    BY DEF Actor
  <1>2. /\ "check" \in PC \ Released
        /\ "check" \in Free /\ "env" \in Free
        /\ "check" \notin Working \cup MayRun /\ "env" \notin MayRun
    BY DEF PC, Released, Free, Working, MayRun
  <1>3. op' \in [Actor -> OpRec]
    BY <1>1, <1>2, GoOnMoves DEF SaveFromEnv, Moved
  <1>4. [host |-> EnvHost, enabled |-> TRUE, status |-> ""] \in Config
    BY ConfigAssumption DEF Config
  <1>5. StateOK'
    BY <1>3, <1>4, TypeParts DEF StateOK, SaveFromEnv
  <1> QED
    BY <1>1, <1>2, <1>5, GoOnKeepsInv DEF SaveFromEnv, HostsKept

(* A start begins with a manager that nothing knows yet.                   *)
LEMMA NewStart ==
    ASSUME TypeOK, Inv, NEW a \in Actor, op[a].pc \in {"check", "idle"},
           tunnelMgr = NoMgr, started # MaxStarts, started' = started + 1,
           op' = [op EXCEPT ![a] = [At("config") EXCEPT !.mgr = started + 1]],
           UNCHANGED <<tunnelMgr, tunnels, proc, lost>>,
           \A n \in Mgr : n # started' => mgr'[n] = mgr[n]
    PROVE  op' \in [Actor -> OpRec] /\ started' \in Mgr /\ Inv'
  <1> DEFINE k == started + 1
             r == [At("config") EXCEPT !.mgr = k]
  <1>1. started \in Nat /\ k \in Mgr
    BY Constants DEF TypeOK
  <1>2. "config" \in PC /\ "config" \in Working
    BY DEF PC, Working, Free
  <1>3. r \in OpRec /\ r.pc = "config" /\ r.mgr = k
    BY <1>1, <1>2, AtType DEF OpRec
  <1>4. Moved(a, "config", k)
    BY <1>3, SetMoves
  <1>5. op[a].mgr = NoMgr
    BY OperationFacts DEF PositionOK, Free
  <1>6. /\ \A b \in Actor : op[b].mgr <= started /\ op[b].mgr \in Mgr \cup {NoMgr}
        /\ tunnels \cup proc \subseteq 1 .. started
    BY TypeOfOp DEF Inv, Known, OpRec
  <1>7. Distinct'
    BY <1>1, <1>4, <1>5, <1>6, Constants DEF Distinct, Inv, Moved
  <1>8. Unpublished' /\ Known'
    <2>1. Unpublished'
      BY DEF Unpublished
    <2>2. \A b \in Actor : op'[b].mgr <= started'
      BY <1>1, <1>4, <1>6, Constants DEF Moved
    <2>3. tunnels' \cup proc' \subseteq 1 .. started'
      BY <1>1, <1>6
    <2> QED
      BY <1>1, <2>1, <2>2, <2>3, Constants DEF Known
  <1>9. ASSUME NEW b \in Actor PROVE PositionOK(b)'
    <2>1. CASE b = a
      <3>1. k \notin tunnels \cup proc
        BY <1>1, <1>6
      <3>2. op'[a].pc = "config" /\ op'[a].mgr = k /\ k # NoMgr
        BY <1>1, <1>4, Constants DEF Moved
      <3> QED
        BY <2>1, <3>1, <3>2 DEF PositionOK, Free, Released
    <2>2. CASE b # a
      <3>1. op'[b] = op[b] /\ PositionOK(b)
        BY <2>2, <1>4 DEF Moved, Inv
      <3>2. op[b].pc \in Working => op[b].mgr \in Mgr /\ op[b].mgr # started'
        <4>1. op[b].mgr \in Nat /\ op[b].mgr <= started
          BY <1>1, <1>6, Constants
        <4> QED
          BY <1>1, <1>6, <3>1, <4>1 DEF PositionOK
      <3>3. op[b].pc \in Working => mgr'[op[b].mgr] = mgr[op[b].mgr]
        BY <3>2
      <3>4. tunnels' = tunnels /\ proc' = proc /\ lost' = lost
        OBVIOUS
      <3> QED
        BY ONLY <3>1, <3>3, <3>4 DEF PositionOK
    <2> QED
      BY <2>1, <2>2
  <1>10. ASSUME NEW n \in (tunnels \cup proc) \ lost PROVE Owned(n)'
    <2>0. n \in Mgr /\ n # NoMgr
      BY Constants DEF TypeOK
    <2>1. PICK b \in Actor : op[b].mgr = n /\ op[b].pc \notin Released
      BY <2>0 DEF Inv, Owned
    <2>2. b # a
      BY <2>0, <2>1, <1>5
    <2> QED
      BY <2>1, <2>2, <1>4 DEF Owned, Moved
  <1> QED
    BY <1>1, <1>4, <1>7, <1>8, <1>9, <1>10 DEF Inv, Moved, Unpublished

LEMMA CheckNotRunningKeeps ==
    ASSUME TypeOK, Inv, NEW a \in Actor, CheckNotRunning(a)
    PROVE  StateOK' /\ Inv'
  <1> USE DEF memory, cloud
  <1>1. op[a].mgr = NoMgr /\ op[a].pc \in {"check", "idle"}
    BY OperationFacts DEF CheckNotRunning, PositionOK, Free
  <1>2. ops' \in 0 .. MaxOps
    <2>1. ops \in Nat /\ ops <= MaxOps
      BY ConfigAssumption DEF TypeOK
    <2>2. op[a].pc = "idle" => ops < MaxOps
      BY <1>1 DEF CheckNotRunning
    <2> QED
      BY <2>1, <2>2, ConfigAssumption DEF CheckNotRunning
  <1>3. CASE tunnelMgr # NoMgr \/ started = MaxStarts
    <2>1. Finish(a) /\ UNCHANGED <<row, tunnelMgr, mgr, tunnels, routed, dns, proc,
                                   started, lost, disturbed, stopped, restarts>>
      BY <1>3 DEF CheckNotRunning
    <2>2. op' \in [Actor -> OpRec]
      BY <2>1, FinishMoves DEF Moved
    <2>3. op[a].mgr \notin tunnels \cup proc
      BY <1>1, Constants DEF TypeOK
    <2> QED
      BY <1>2, <2>1, <2>2, <2>3, FinishKeepsInv, TypeParts DEF StateOK, HostsKept
  <1>4. CASE tunnelMgr = NoMgr /\ started # MaxStarts
    <2>0. \A n \in Mgr : n # started' => mgr'[n] = mgr[n]
      BY <1>4, TypeOfOp DEF CheckNotRunning
    <2>1. /\ op' \in [Actor -> OpRec] /\ started' \in Mgr /\ Inv'
          /\ started' = started + 1
      BY <1>1, <1>4, <2>0, NewStart DEF CheckNotRunning
    <2>2. disturbed' \subseteq Mgr \cup {NoMgr}
      BY <1>4, <2>1, OverlapType DEF CheckNotRunning
    <2>3. Blank \in MgrRec
      BY DEF Blank, MgrRec, Record
    <2>4. mgr' \in [Mgr -> MgrRec]
      BY <1>4, <2>3, TypeOfOp DEF CheckNotRunning
    <2> QED
      BY <1>2, <1>4, <2>1, <2>2, <2>4, TypeParts, Constants DEF StateOK, CheckNotRunning
  <1> QED
    BY <1>3, <1>4

LEMMA ReadConfigKeeps ==
    ASSUME TypeOK, Inv, NEW a \in Actor, ReadConfig(a)
    PROVE  StateOK' /\ Inv'
  <1> USE DEF memory, cloud, history, budget
  <1>1. /\ op[a].pc = "config" /\ op[a].mgr \in Mgr
        /\ op[a].mgr \notin tunnels \cup proc
    BY OperationFacts DEF ReadConfig, PositionOK, Working, Free, PC, MayRun
  <1>2. CASE row.host = NoHost
    <2>1. Finish(a) /\ UNCHANGED <<row, memory, cloud, started, history, budget>>
      BY <1>2 DEF ReadConfig
    <2>2. op' \in [Actor -> OpRec]
      BY <2>1, FinishMoves DEF Moved
    <2> QED
      BY <1>1, <2>1, <2>2, FinishKeepsInv, TypeParts DEF StateOK, HostsKept
  <1>3. CASE row.host # NoHost
    <2> DEFINE r == [op[a] EXCEPT !.pc = "create", !.cfg = row]
    <2>0. row.host \in Host \cup {NoHost}
      BY DEF TypeOK, Config
    <2>1. r \in OpRec /\ r.pc = "create" /\ r.mgr = op[a].mgr
      BY ZenonT(60), OperationFacts DEF OpRec, PC, TypeOK
    <2>2. op' = [op EXCEPT ![a] = r]
      BY <1>3, TypeOfOp DEF ReadConfig
    <2>3. Moved(a, "create", op[a].mgr)
      BY <2>1, <2>2, SetMoves
    <2>4. mgr' \in [Mgr -> MgrRec]
      BY <1>1, <1>3, <2>0, MgrType DEF ReadConfig
    <2>5. StateOK'
      BY <1>3, <2>3, <2>4, TypeParts DEF StateOK, ReadConfig, Moved
    <2>6. UNCHANGED <<tunnelMgr, tunnels, proc, lost, started>>
      BY DEF ReadConfig
    <2>7. /\ mgr'[op[a].mgr].host = row.host
          /\ \A n \in Mgr : n # op[a].mgr => mgr'[n].host = mgr[n].host
      BY <1>1, <1>3, TypeOfOp DEF ReadConfig, MgrRec
    <2>8. "create" \notin Released \cup Free
      BY DEF Released, Free
    <2>9. PositionOK(a)'
      BY <1>1, <1>3, <2>0, <2>3, <2>6, <2>7, <2>8, Constants DEF PositionOK, Moved
    <2> QED
      BY <2>3, <2>5, <2>6, <2>7, <2>8, <2>9, QuietMoves
  <1> QED
    BY <1>2, <1>3

LEMMA CreateTunnelKeeps ==
    ASSUME TypeOK, Inv, NEW a \in Actor, NEW o \in Outcome, CreateTunnel(a, o)
    PROVE  StateOK' /\ Inv'
  <1> USE DEF memory, cloud, history, budget
  <1> DEFINE m == op[a].mgr
  <1>1. /\ op[a].pc = "create" /\ m \in Mgr /\ m # NoMgr
        /\ m \notin tunnels \cup proc
    BY OperationFacts, Constants
    DEF CreateTunnel, PositionOK, Working, Free, PC, MayRun
  <1>2. PICK pc \in {"route", "failed"} :
            GoOn(a, pc) /\ pc = IF o = "ok" THEN "route" ELSE "failed"
    BY DEF CreateTunnel, AfterCreate
  <1>3. Moved(a, pc, m)
    BY <1>2, GoOnMoves DEF PC
  <1>4. mgr' \in [Mgr -> MgrRec] /\ HostsKept
    <2>1. (o = "ok") \in BOOLEAN
      OBVIOUS
    <2> QED
      BY <1>1, <2>1, MgrType DEF CreateTunnel
  <1>5. tunnels' \subseteq Mgr /\ lost' \subseteq Mgr /\ routed' \subseteq tunnels'
    BY <1>1 DEF CreateTunnel, TypeOK
  <1>6. StateOK'
    BY <1>3, <1>4, <1>5, TypeParts DEF StateOK, CreateTunnel, Moved
  <1>7. /\ tunnels' = IF Done(o) THEN tunnels \cup {m} ELSE tunnels
        /\ lost' = IF o = "unanswered" THEN lost \cup {m} ELSE lost
        /\ UNCHANGED <<tunnelMgr, proc, started>>
    BY DEF CreateTunnel
  <1>8. PositionOK(a)'
    <2>1. mgr'[m].host \in Host
      BY <1>1, <1>4, OperationFacts DEF PositionOK, Working, Free, PC, HostsKept
    <2>2. op'[a].pc = pc /\ op'[a].mgr = m
      BY <1>3 DEF Moved
    <2> QED
      BY <1>1, <1>2, <1>7, <2>1, <2>2 DEF PositionOK, Free, Released, Done, Outcome
  <1>9. m \in (tunnels' \cup proc') \ lost' => pc \notin Released
    BY <1>1, <1>2, <1>7 DEF Released, Done, Outcome
  <1>10. tunnels' \cup proc' \subseteq Mgr
    BY <1>5, <1>7 DEF TypeOK
  <1> QED
    BY <1>3, <1>4, <1>6, <1>7, <1>8, <1>9, <1>10, OwnMoves DEF HostsKept

LEMMA UpdateTunnelConfigKeeps ==
    ASSUME TypeOK, Inv, NEW a \in Actor, NEW o \in Outcome, UpdateTunnelConfig(a, o)
    PROVE  StateOK' /\ Inv'
  <1> USE DEF memory, cloud, history, budget
  <1>1. PICK pc \in {"find", "undo"} : GoOn(a, pc)
    BY DEF UpdateTunnelConfig, AfterRoute
  <1>2. /\ op[a].pc \in {"route"}
        /\ op[a].mgr \in Mgr
    BY OperationFacts DEF UpdateTunnelConfig, Working, Free, PC
  <1>3. op' \in [Actor -> OpRec]
    BY <1>1, GoOnMoves DEF Moved, PC
  <1>5. op[a].mgr \in tunnels
    BY OperationFacts DEF UpdateTunnelConfig, PositionOK
  <1>4. StateOK'
    BY <1>2, <1>3, <1>5, TypeParts DEF StateOK, UpdateTunnelConfig
  <1>6. /\ pc \in PC \ Released /\ pc \in Working
        /\ op[a].pc \in Working \ {"config"}
        /\ pc \notin Free \cup {"config", "create", "route"}
        /\ op[a].pc \in MayRun => pc \in MayRun
    BY <1>1, <1>2 DEF Working, Free, PC, MayRun, Released
  <1> QED
    BY <1>1, <1>4, <1>6, GoOnKeepsInv DEF UpdateTunnelConfig, HostsKept

LEMMA CreateDNSRecordKeeps ==
    ASSUME TypeOK, Inv, NEW a \in Actor, NEW o \in Outcome, CreateDNSRecord(a, o)
    PROVE  StateOK' /\ Inv'
  <1> USE DEF memory, cloud, history, budget
  <1>1. PICK pc \in {"refind", "undo"} : GoOn(a, pc)
    BY DEF CreateDNSRecord
  <1>2. /\ op[a].pc \in {"point"}
        /\ op[a].mgr \in Mgr
    BY OperationFacts DEF CreateDNSRecord, Working, Free, PC
  <1>3. op' \in [Actor -> OpRec]
    BY <1>1, GoOnMoves DEF Moved, PC
  <1>5. dns' \in [Host -> Record]
    BY <1>2 DEF CreateDNSRecord, TypeOK, Record
  <1>4. StateOK'
    BY <1>2, <1>3, <1>5, TypeParts DEF StateOK, CreateDNSRecord
  <1>6. /\ pc \in PC \ Released /\ pc \in Working
        /\ op[a].pc \in Working \ {"config"}
        /\ pc \notin Free \cup {"config", "create", "route"}
        /\ op[a].pc \in MayRun => pc \in MayRun
    BY <1>1, <1>2 DEF Working, Free, PC, MayRun, Released
  <1> QED
    BY <1>1, <1>4, <1>6, GoOnKeepsInv DEF CreateDNSRecord, HostsKept

LEMMA FindCreatedKeeps ==
    ASSUME TypeOK, Inv, NEW a \in Actor, NEW answered \in BOOLEAN, FindCreated(a, answered)
    PROVE  StateOK' /\ Inv'
  <1> USE DEF memory, cloud, history, budget
  <1>1. PICK pc \in {"launch"} : GoOn(a, pc)
    BY DEF FindCreated
  <1>2. /\ op[a].pc \in {"refind"}
        /\ op[a].mgr \in Mgr
    BY OperationFacts DEF FindCreated, Working, Free, PC
  <1>3. op' \in [Actor -> OpRec]
    BY <1>1, GoOnMoves DEF Moved, PC
  <1>5. mgr' \in [Mgr -> MgrRec] /\ HostsKept
    <2>1. dns[HostOf(a)] \in Record
      BY RecordOfHost DEF FindCreated, Working, Free, PC
    <2> QED
      BY <1>2, <2>1, MgrType DEF FindCreated
  <1>4. StateOK'
    BY <1>2, <1>3, <1>5, TypeParts DEF StateOK, FindCreated
  <1>6. /\ pc \in PC \ Released /\ pc \in Working
        /\ op[a].pc \in Working \ {"config"}
        /\ pc \notin Free \cup {"config", "create", "route"}
        /\ op[a].pc \in MayRun => pc \in MayRun
    BY <1>1, <1>2 DEF Working, Free, PC, MayRun, Released
  <1> QED
    BY <1>1, <1>4, <1>5, <1>6, GoOnKeepsInv DEF FindCreated

LEMMA FindRecordKeeps ==
    ASSUME TypeOK, Inv, NEW a \in Actor, NEW answered \in BOOLEAN, FindRecord(a, answered)
    PROVE  StateOK' /\ Inv'
  <1> USE DEF memory, cloud, history, budget
  <1> DEFINE m == op[a].mgr
             r == dns[HostOf(a)]
             pc == IF ~answered THEN "undo"
                   ELSE IF RecordToReplace(a, r) THEN "replace"
                   ELSE IF r = NoRecord THEN "point" ELSE "launch"
             e == [op[a] EXCEPT !.pc = pc, !.found = IF answered THEN r ELSE NoRecord]
  <1>1. op[a].pc = "find" /\ m \in Mgr /\ r \in Record
    BY OperationFacts, RecordOfHost DEF FindRecord, Working, Free, PC
  <1>2. pc \in {"undo", "replace", "point", "launch"}
    OBVIOUS
  <1>3. e \in OpRec /\ e.pc = pc /\ e.mgr = m
    BY ZenonT(60), <1>1, <1>2, OperationFacts DEF OpRec, PC, Record
  <1>4. op' = [op EXCEPT ![a] = e]
    BY TypeOfOp DEF FindRecord
  <1>5. Moved(a, pc, m)
    BY <1>3, <1>4, SetMoves
  <1>6. mgr' \in [Mgr -> MgrRec] /\ HostsKept
    BY <1>1, MgrType, TypeOfOp DEF FindRecord
  <1>7. StateOK'
    BY <1>5, <1>6, TypeParts DEF StateOK, FindRecord, Moved
  <1>8. PositionOK(a)' /\ pc \notin Released
    <2>1. op'[a].pc = pc /\ op'[a].mgr = m /\ UNCHANGED <<tunnels, proc, lost>>
      BY <1>5 DEF Moved, FindRecord
    <2>2. mgr'[m].host \in Host /\ m \notin proc /\ m # NoMgr
      BY <1>1, <1>6, OperationFacts DEF PositionOK, Working, Free, PC, HostsKept, MayRun
    <2>3. pc \notin Free \cup Released \cup {"config", "create", "route"}
      BY <1>2 DEF Free, Released
    <2> HIDE DEF pc, m
    <2> QED
      BY <2>1, <2>2, <2>3 DEF PositionOK
  <1> HIDE DEF pc, m
  <1> QED
    BY <1>5, <1>6, <1>7, <1>8, QuietMoves DEF FindRecord, HostsKept, m

LEMMA DeleteOtherKeeps ==
    ASSUME TypeOK, Inv, NEW a \in Actor, NEW o \in Outcome, DeleteOther(a, o)
    PROVE  StateOK' /\ Inv'
  <1> USE DEF memory, cloud, history, budget
  <1> DEFINE m == op[a].mgr
             e == [op[a] EXCEPT !.pc = "point", !.found = NoRecord]
  <1>1. op[a].pc = "replace" /\ m \in Mgr
    BY OperationFacts DEF DeleteOther, Working, Free, PC
  <1>2. e \in OpRec /\ e.pc = "point" /\ e.mgr = m
    BY <1>1, OperationFacts DEF OpRec, PC, Record
  <1>3. op' = [op EXCEPT ![a] = e]
    BY TypeOfOp DEF DeleteOther
  <1>4. Moved(a, "point", m)
    BY <1>2, <1>3, SetMoves
  <1>5. dns' \in [Host -> Record]
    BY DEF DeleteOther, Deleted, TypeOK, Record
  <1>6. StateOK'
    BY <1>4, <1>5, TypeParts DEF StateOK, DeleteOther, Moved
  <1>7. PositionOK(a)'
    <2>1. /\ op'[a].pc = "point" /\ op'[a].mgr = m
          /\ UNCHANGED <<tunnels, proc, lost, mgr>>
      BY <1>4 DEF Moved, DeleteOther
    <2>2. mgr[m].host \in Host /\ m \notin proc /\ m # NoMgr
      BY <1>1, OperationFacts DEF PositionOK, Working, Free, PC, MayRun
    <2> QED
      BY <2>1, <2>2 DEF PositionOK, Free, Released
  <1>8. "point" \notin Released
    BY DEF Released
  <1> QED
    BY <1>4, <1>6, <1>7, <1>8, QuietMoves DEF DeleteOther

LEMMA LaunchKeeps ==
    ASSUME TypeOK, Inv, NEW a \in Actor, NEW ok \in BOOLEAN, Launch(a, ok)
    PROVE  StateOK' /\ Inv'
  <1> USE DEF memory, cloud, history, budget
  <1> DEFINE m == op[a].mgr
  <1>1. op[a].pc = "launch" /\ m \in Mgr /\ m # NoMgr
        /\ m \notin proc /\ mgr[m].host \in Host
    BY OperationFacts, Constants DEF Launch, PositionOK, Working, Free, PC, MayRun
  <1>2. PICK pc \in {"save", "undo"} : GoOn(a, pc) /\ pc = IF ok THEN "save" ELSE "undo"
    BY DEF Launch
  <1>3. Moved(a, pc, m)
    BY <1>2, GoOnMoves DEF PC
  <1>4. proc' = IF ok THEN proc \cup {m} ELSE proc
    BY DEF Launch
  <1>5. StateOK'
    BY <1>1, <1>3, <1>4, TypeParts DEF StateOK, Launch, Moved
  <1>6. PositionOK(a)' /\ pc \notin Released
    <2>1. op'[a].pc = pc /\ op'[a].mgr = m /\ UNCHANGED <<tunnels, lost, mgr>>
      BY <1>3 DEF Moved, Launch
    <2> QED
      BY <1>1, <1>2, <1>4, <2>1 DEF PositionOK, Free, Released, MayRun
  <1>7. tunnels' \cup proc' \subseteq Mgr
    BY <1>1, <1>4 DEF Launch, TypeOK
  <1> QED
    BY <1>3, <1>4, <1>5, <1>6, <1>7, OwnMoves DEF Launch

(* After a deletion the tunnel is gone, or lost for a reason.              *)
LEMMA TunnelDropped ==
    ASSUME TypeOK, NEW m \in Mgr, NEW o \in Outcome, DropTunnel(m, o)
    PROVE  /\ tunnels' \subseteq Mgr /\ routed' \subseteq tunnels'
           /\ lost \subseteq lost' /\ lost' \subseteq Mgr
           /\ m \notin tunnels' \ lost'
           /\ \A n \in Mgr : n # m => (n \in tunnels' <=> n \in tunnels)
  <1> QED
    BY DEF DropTunnel, TypeOK, Done, Outcome

LEMMA CleanupTunnelKeeps ==
    ASSUME TypeOK, Inv, NEW a \in Actor, NEW o \in Outcome, CleanupTunnel(a, o)
    PROVE  StateOK' /\ Inv'
  <1> USE DEF memory, cloud, history, budget
  <1> DEFINE m == op[a].mgr
  <1>1. /\ op[a].pc = "undo" /\ m \in Mgr /\ m # NoMgr
        /\ m \notin proc /\ mgr[m].host \in Host
    BY OperationFacts, Constants
    DEF CleanupTunnel, PositionOK, Working, Free, PC, MayRun
  <1>2. GoOn(a, "failed") /\ DropTunnel(m, o)
    BY DEF CleanupTunnel
  <1>3. Moved(a, "failed", m)
    BY <1>2, GoOnMoves DEF PC
  <1>4. mgr' \in [Mgr -> MgrRec] /\ HostsKept
    <2>1. (o # "ok") \in BOOLEAN
      OBVIOUS
    <2> QED
      BY <1>1, <2>1, MgrType DEF CleanupTunnel
  <1>5. StateOK'
    BY <1>1, <1>2, <1>3, <1>4, TunnelDropped, TypeParts DEF StateOK, CleanupTunnel, Moved
  <1>6. PositionOK(a)'
    <2>1. op'[a].pc = "failed" /\ op'[a].mgr = m /\ proc' = proc
      BY <1>3 DEF Moved, CleanupTunnel
    <2>2. mgr'[m].host \in Host /\ m \notin tunnels' \ lost'
      BY <1>1, <1>2, <1>4, TunnelDropped DEF HostsKept
    <2> QED
      BY <1>1, <2>1, <2>2 DEF PositionOK, Free
  <1>7. tunnels' \cup proc' \subseteq Mgr /\ m \notin (tunnels' \cup proc') \ lost'
    BY <1>1, <1>2, TunnelDropped DEF CleanupTunnel, TypeOK
  <1> QED
    BY <1>1, <1>2, <1>3, <1>4, <1>5, <1>6, <1>7, TunnelDropped, OwnMoves
    DEF CleanupTunnel, HostsKept


LEMMA SaveErrorKeeps ==
    ASSUME TypeOK, Inv, NEW a \in Actor, NEW saved \in BOOLEAN, SaveError(a, saved)
    PROVE  StateOK' /\ Inv'
  <1> USE DEF memory, cloud, history, budget
  <1>1. Finish(a) /\ op[a].pc = "failed"
    BY DEF SaveError
  <1>2. op[a].mgr \notin (tunnels \cup proc) \ lost
    BY <1>1, OperationFacts, Constants DEF PositionOK, MayRun, Released, Free, TypeOK
  <1>3. op' \in [Actor -> OpRec]
    BY <1>1, FinishMoves DEF Moved
  <1>4. row' \in Config
    BY OperationFacts DEF SaveError, Config, TypeOK
  <1>5. StateOK'
    BY <1>3, <1>4, TypeParts DEF StateOK, SaveError
  <1> QED
    BY <1>1, <1>2, <1>5, FinishKeepsInv DEF SaveError, HostsKept


LEMMA SaveStoppedKeeps ==
    ASSUME TypeOK, Inv, NEW a \in Actor, NEW saved \in BOOLEAN, SaveStopped(a, saved)
    PROVE  StateOK' /\ Inv'
  <1> USE DEF memory, cloud, history, budget
  <1>1. Finish(a) /\ op[a].pc = "stopped"
    BY DEF SaveStopped
  <1>2. op[a].mgr \notin (tunnels \cup proc) \ lost
    BY <1>1, OperationFacts, Constants DEF PositionOK, MayRun, Released, Free, TypeOK
  <1>3. op' \in [Actor -> OpRec]
    BY <1>1, FinishMoves DEF Moved
  <1>4. row' \in Config
    BY OperationFacts DEF SaveStopped, Config, TypeOK
  <1>5. StateOK'
    BY <1>3, <1>4, TypeParts DEF StateOK, SaveStopped
  <1> QED
    BY <1>1, <1>2, <1>5, FinishKeepsInv DEF SaveStopped, HostsKept


LEMMA SaveEditKeeps ==
    ASSUME TypeOK, Inv, NEW a \in Actor, NEW saved \in BOOLEAN, SaveEdit(a, saved)
    PROVE  StateOK' /\ Inv'
  <1> USE DEF memory, cloud, history, budget
  <1>1. Finish(a) /\ op[a].pc = "edit"
    BY DEF SaveEdit
  <1>2. op[a].mgr \notin (tunnels \cup proc) \ lost
    BY <1>1, OperationFacts, Constants DEF PositionOK, MayRun, Released, Free, TypeOK
  <1>3. op' \in [Actor -> OpRec]
    BY <1>1, FinishMoves DEF Moved
  <1>4. row' \in Config
    BY OperationFacts DEF SaveEdit, Config, TypeOK
  <1>5. StateOK'
    BY <1>3, <1>4, TypeParts DEF StateOK, SaveEdit
  <1> QED
    BY <1>1, <1>2, <1>5, FinishKeepsInv DEF SaveEdit, HostsKept


LEMMA SaveRunningKeeps ==
    ASSUME TypeOK, Inv, NEW a \in Actor, NEW saved \in BOOLEAN, SaveRunning(a, saved)
    PROVE  StateOK' /\ Inv'
  <1> USE DEF memory, cloud, history, budget
  <1>1. PICK pc \in {"publish", "abort"} : GoOn(a, pc)
    BY DEF SaveRunning, AfterSave
  <1>2. op[a].pc = "save"
    BY DEF SaveRunning
  <1>3. op' \in [Actor -> OpRec]
    BY <1>1, GoOnMoves DEF Moved, PC
  <1>4. row' \in Config
    BY OperationFacts DEF SaveRunning, Config, TypeOK
  <1>5. StateOK'
    BY <1>3, <1>4, TypeParts DEF StateOK, SaveRunning
  <1>6. /\ pc \in PC \ Released /\ pc \in Working
        /\ op[a].pc \in Working \ {"config"}
        /\ pc \notin Free \cup {"config", "create", "route"}
        /\ op[a].pc \in MayRun => pc \in MayRun
    BY <1>1, <1>2 DEF Working, Free, PC, MayRun, Released
  <1> QED
    BY <1>1, <1>5, <1>6, GoOnKeepsInv DEF SaveRunning, HostsKept


LEMMA KillProcessKeeps ==
    ASSUME TypeOK, Inv, NEW a \in Actor, KillProcess(a)
    PROVE  StateOK' /\ Inv'
  <1> USE DEF memory, cloud, history, budget
  <1> DEFINE m == op[a].mgr
  <1>1. /\ op[a].pc \in {"kill", "abort"} /\ m \in Mgr /\ m # NoMgr
        /\ mgr[m].host \in Host
    BY OperationFacts, Constants DEF KillProcess, PositionOK, Working, Free, PC
  <1>2. PICK pc \in {"unlink", "unlinkNew"} : GoOn(a, pc)
    BY DEF KillProcess
  <1>3. Moved(a, pc, m)
    BY <1>2, GoOnMoves DEF PC
  <1>4. StateOK'
    BY <1>3, TypeParts DEF StateOK, KillProcess, Moved
  <1>5. PositionOK(a)' /\ pc \notin Released
    <2>1. /\ op'[a].pc = pc /\ op'[a].mgr = m /\ UNCHANGED <<tunnels, lost, mgr>>
          /\ proc' = proc \ {m}
      BY <1>3 DEF Moved, KillProcess
    <2> QED
      BY <1>1, <1>2, <2>1 DEF PositionOK, Free, Released
  <1> QED
    BY <1>3, <1>4, <1>5, OwnMoves DEF KillProcess, TypeOK


LEMMA LoadConfigKeeps ==
    ASSUME TypeOK, Inv, NEW a \in Actor, NEW ok \in BOOLEAN, LoadConfig(a, ok)
    PROVE  StateOK' /\ Inv'
  <1> USE DEF memory, cloud, history, budget
  <1>1. /\ op[a].pc = "load"
        /\ op[a].mgr \notin (tunnels \cup proc) \ lost
        /\ PositionOK(a)
    BY OperationFacts DEF LoadConfig, PositionOK, MayRun, Released
  <1>2. CASE ok
    <2> DEFINE e == [op[a] EXCEPT !.pc = "stopped", !.cfg = row]
    <2>1. e \in OpRec /\ e.pc = "stopped" /\ e.mgr = op[a].mgr
      BY OperationFacts DEF OpRec, PC, TypeOK
    <2>2. op' = [op EXCEPT ![a] = e]
      BY <1>2, TypeOfOp DEF LoadConfig
    <2>3. Moved(a, "stopped", op[a].mgr)
      BY <2>1, <2>2, SetMoves
    <2>4. StateOK'
      BY <2>3, TypeParts DEF StateOK, LoadConfig, Moved
    <2>5. PositionOK(a)'
      BY <1>1, <2>3 DEF PositionOK, Moved, LoadConfig, Free, Released, Working, MayRun
    <2> QED
      BY <1>1, <2>3, <2>4, <2>5, QuietMoves DEF LoadConfig
  <1>3. CASE ~ok
    <2>1. Finish(a)
      BY <1>3 DEF LoadConfig
    <2>2. op' \in [Actor -> OpRec]
      BY <2>1, FinishMoves DEF Moved
    <2>3. StateOK'
      BY <2>2, TypeParts DEF StateOK, LoadConfig
    <2> QED
      BY <1>1, <2>1, <2>3, FinishKeepsInv DEF LoadConfig, HostsKept
  <1> QED
    BY <1>2, <1>3

LEMMA CleanupDNSKeeps ==
    ASSUME TypeOK, Inv, NEW a \in Actor, NEW found \in BOOLEAN, NEW o \in Outcome,
           CleanupDNS(a, found, o)
    PROVE  StateOK' /\ Inv'
  <1> USE DEF memory, cloud, history, budget
  <1> DEFINE m == op[a].mgr
             r == KnownRecord(a, found)
             pc == IF op[a].pc = "unlink" THEN "delete" ELSE "deleteNew"
             e == [op[a] EXCEPT !.pc = pc, !.err = (r # NoRecord /\ ~Forgotten(o))]
  <1>1. /\ op[a].pc \in {"unlink", "unlinkNew"} /\ m \in Mgr /\ m # NoMgr
        /\ m \notin proc /\ mgr[m].host \in Host
    BY OperationFacts, Constants
    DEF CleanupDNS, PositionOK, Working, Free, PC, MayRun
  <1>2. r \in Record
    BY <1>1, TypeOfOp DEF KnownRecord, MgrRec, Record, TypeOK
  <1>3. pc \in PC /\ pc \notin Free \cup Released \cup MayRun \cup {"config", "create", "route"}
    BY DEF PC, Free, Released, MayRun
  <1>4. e \in OpRec /\ e.pc = pc /\ e.mgr = m
    BY <1>3, OperationFacts DEF OpRec
  <1>5. op' = [op EXCEPT ![a] = e]
    BY TypeOfOp DEF CleanupDNS
  <1>6. Moved(a, pc, m)
    BY <1>4, <1>5, SetMoves
  <1>7. mgr' \in [Mgr -> MgrRec] /\ HostsKept
    <2>1. PICK q \in Record \cup {Unnamed} : mgr' = [mgr EXCEPT ![m].record = q]
      BY <1>1, <1>2, TypeOfOp DEF CleanupDNS, MgrRec, Record
    <2> QED
      BY <1>1, <2>1, MgrType
  <1>8. dns' \in [Host -> Record]
    BY DEF CleanupDNS, Deleted, TypeOK, Record
  <1>9. StateOK'
    BY <1>6, <1>7, <1>8, TypeParts DEF StateOK, CleanupDNS, Moved
  <1>10. PositionOK(a)'
    <2>1. op'[a].pc = pc /\ op'[a].mgr = m /\ UNCHANGED <<tunnels, proc, lost>>
      BY <1>6 DEF Moved, CleanupDNS
    <2>2. mgr'[m].host \in Host
      BY <1>1, <1>7 DEF HostsKept
    <2> HIDE DEF pc, m
    <2> QED
      BY <1>1, <1>3, <2>1, <2>2 DEF PositionOK
  <1> HIDE DEF pc, m
  <1> QED
    BY <1>3, <1>6, <1>7, <1>9, <1>10, QuietMoves DEF CleanupDNS, HostsKept, m


LEMMA StopTunnelKeeps ==
    ASSUME TypeOK, Inv, NEW a \in Actor, NEW o \in Outcome, StopTunnel(a, o)
    PROVE  StateOK' /\ Inv'
  <1> USE DEF memory, cloud, history, budget
  <1> DEFINE m == op[a].mgr
  <1>1. /\ op[a].pc \in {"delete", "deleteNew"} /\ m \in Mgr /\ m # NoMgr
        /\ m \notin proc
    BY OperationFacts, Constants DEF StopTunnel, PositionOK, Working, Free, PC, MayRun
  <1>2. /\ DropTunnel(m, o) /\ (GoOn(a, "load") \/ Finish(a))
        /\ UNCHANGED <<row, tunnelMgr, dns, proc, started, disturbed, ops, restarts>>
    BY DEF StopTunnel
  <1>3. PICK pc \in {"load", "idle"}, k \in {m, NoMgr} :
            Moved(a, pc, k) /\ (pc = "idle" => k = NoMgr)
    BY <1>2, GoOnMoves, FinishMoves DEF PC
  <1>4. mgr' \in [Mgr -> MgrRec] /\ HostsKept
    <2>1. (o # "ok") \in BOOLEAN
      OBVIOUS
    <2> QED
      BY <1>1, <2>1, MgrType DEF StopTunnel
  <1>5. StateOK'
    <2>1. stopped' \subseteq Mgr
      BY <1>1 DEF StopTunnel, TypeOK
    <2> QED
      BY <1>1, <1>2, <1>3, <1>4, <2>1, TunnelDropped, TypeParts DEF StateOK, Moved
  <1>6. tunnels' \cup proc' \subseteq Mgr /\ m \notin (tunnels' \cup proc') \ lost'
    BY <1>1, <1>2, TunnelDropped DEF TypeOK
  <1>7. PositionOK(a)'
    <2>1. op'[a].pc = pc /\ op'[a].mgr = k
      BY <1>3 DEF Moved
    <2>2. NoMgr \notin tunnels' \cup proc'
      BY <1>6, Constants
    <2>3. k \notin proc' /\ k \notin tunnels' \ lost'
      BY <1>1, <1>2, <1>3, <1>6, <2>2
    <2> QED
      BY <1>3, <2>1, <2>3 DEF PositionOK, Free, Working
  <1> QED
    BY <1>1, <1>2, <1>3, <1>4, <1>5, <1>6, <1>7, TunnelDropped, OwnMoves DEF HostsKept


LEMMA CheckEditKeeps ==
    ASSUME TypeOK, Inv, NEW a \in Actor, NEW host \in Host \cup {NoHost},
           NEW enabled \in BOOLEAN, CheckEdit(a, host, enabled)
    PROVE  StateOK' /\ Inv'
  <1> USE DEF memory, cloud, history, budget
  <1> DEFINE e == [At("asked") EXCEPT !.cfg.host = host, !.cfg.enabled = enabled]
  <1>1. op[a].mgr = NoMgr
    BY DEF CheckEdit, Idle
  <1>2. e \in OpRec /\ e.pc = "asked" /\ e.mgr = NoMgr
    <2>1. At("asked") \in OpRec /\ At("asked").pc = "asked" /\ At("asked").mgr = NoMgr
      BY AtType DEF PC
    <2> QED
      BY <2>1 DEF OpRec, Config
  <1>3. op' = [op EXCEPT ![a] = e]
    BY DEF CheckEdit
  <1>4. Moved(a, "asked", NoMgr)
    BY <1>2, <1>3, SetMoves
  <1>5. disturbed' \subseteq Mgr \cup {NoMgr}
    BY OverlapType DEF CheckEdit
  <1>6. ops' \in 0 .. MaxOps
    BY ConfigAssumption DEF CheckEdit, TypeOK
  <1>7. StateOK'
    BY <1>4, <1>5, <1>6, TypeParts DEF StateOK, CheckEdit, Moved
  <1>8. PositionOK(a)'
    <2>1. tunnels' \cup proc' \subseteq Mgr
      BY DEF CheckEdit, TypeOK
    <2> QED
      BY <1>4, <2>1, FreePosition DEF Moved, Working, Free
  <1>9. op[a].mgr \notin tunnels \cup proc
    BY <1>1, Constants DEF TypeOK
  <1> QED
    BY <1>1, <1>4, <1>7, <1>8, <1>9, QuietMoves DEF CheckEdit

LEMMA ReadForEditKeeps ==
    ASSUME TypeOK, Inv, NEW a \in Actor, NEW ok \in BOOLEAN, ReadForEdit(a, ok)
    PROVE  StateOK' /\ Inv'
  <1> USE DEF memory, cloud, history, budget
  <1> DEFINE cfg == Edited(row, op[a].cfg.host, op[a].cfg.enabled)
             e == [op[a] EXCEPT !.pc = "edit", !.cfg = cfg]
  <1>1. op[a].pc = "asked" /\ op[a].mgr = NoMgr
    BY OperationFacts DEF ReadForEdit, PositionOK, Free
  <1>2. op[a].mgr \notin tunnels \cup proc
    BY <1>1, Constants DEF TypeOK
  <1>3. CASE Finish(a)
    <2>1. op' \in [Actor -> OpRec]
      BY <1>3, FinishMoves DEF Moved
    <2> QED
      BY <1>2, <1>3, <2>1, FinishKeepsInv, TypeParts DEF StateOK, ReadForEdit, HostsKept
  <1>4. CASE ~Finish(a)
    <2>1. cfg \in Config
      <3>1. op[a].cfg.host \in Host \cup {NoHost} /\ op[a].cfg.enabled \in BOOLEAN
        BY OperationFacts DEF Config
      <3> QED
        BY <3>1, ConfigAssumption DEF Edited, Config, TypeOK
    <2>2. e \in OpRec /\ e.pc = "edit" /\ e.mgr = NoMgr
      BY <1>1, <2>1, OperationFacts DEF OpRec, PC
    <2>3. op' = [op EXCEPT ![a] = e]
      BY <1>4, TypeOfOp DEF ReadForEdit
    <2>4. Moved(a, "edit", NoMgr)
      BY <2>2, <2>3, SetMoves
    <2>5. StateOK'
      BY <2>4, TypeParts DEF StateOK, ReadForEdit, Moved
    <2>6. PositionOK(a)'
      <3>1. tunnels' \cup proc' \subseteq Mgr
        BY DEF ReadForEdit, TypeOK
      <3> QED
        BY <2>4, <3>1, FreePosition DEF Moved, Working, Free
    <2> QED
      BY <1>1, <1>2, <2>4, <2>5, <2>6, QuietMoves DEF ReadForEdit
  <1> QED
    BY <1>3, <1>4

(* The actors that have not moved are where the invariant has them.        *)
LEMMA OthersStay ==
    ASSUME TypeOK, Inv, NEW a \in Actor, NEW b \in Actor, b # a, op'[b] = op[b],
           UNCHANGED <<tunnels, proc, mgr>>, lost \subseteq lost'
    PROVE  PositionOK(b)'
  <1>1. PositionOK(b)
    BY DEF Inv
  <1> QED
    BY <1>1 DEF PositionOK

LEMMA PublishKeeps ==
    ASSUME TypeOK, Inv, NEW a \in Actor, Publish(a)
    PROVE  StateOK' /\ Inv'
  <1> USE DEF memory, cloud, history, budget
  <1> DEFINE m == op[a].mgr
  <1>1. /\ op[a].pc = "publish" /\ m \in Mgr /\ m # NoMgr
        /\ mgr[m].host \in Host
    BY OperationFacts, Constants DEF Publish, PositionOK, Working, Free, PC
  <1>2. /\ tunnelMgr' = m /\ Finish(a)
        /\ lost' = IF tunnelMgr = NoMgr THEN lost ELSE lost \cup {tunnelMgr}
        /\ UNCHANGED <<row, mgr, cloud, started, disturbed, stopped, budget>>
    BY DEF Publish
  <1>3. Moved(a, "idle", NoMgr)
    BY <1>2, FinishMoves
  <1>4. StateOK'
    BY <1>1, <1>2, <1>3, TypeParts DEF StateOK, Moved
  <1>5. Distinct'
    BY <1>3 DEF Moved, Inv, Distinct
  <1>6. Unpublished'
    BY <1>1, <1>2, <1>3 DEF Moved, Inv, Distinct, Unpublished
  <1>7. Known'
    <2>1. started \in Nat /\ NoMgr <= started
      BY Constants DEF TypeOK
    <2>2. \A b \in Actor : op'[b].mgr <= started
      BY <1>3, <2>1 DEF Moved, Inv, Known
    <2> QED
      BY <1>2, <2>2 DEF Inv, Known
  <1>8. ASSUME NEW b \in Actor PROVE PositionOK(b)'
    <2>1. CASE b = a
      BY <1>2, <1>3, <2>1, FreePosition DEF Moved, Working, Free, TypeOK
    <2>2. CASE b # a
      BY <1>2, <1>3, <2>2, OthersStay DEF Moved
    <2> QED
      BY <2>1, <2>2
  <1>9. ASSUME NEW n \in (tunnels' \cup proc') \ lost' PROVE Owned(n)'
    <2>1. n \in (tunnels \cup proc) \ lost /\ n # tunnelMgr
      BY <1>2, <1>9, Constants DEF TypeOK
    <2>2. PICK b \in Actor : op[b].mgr = n /\ op[b].pc \notin Released
      BY <2>1 DEF Inv, Owned
    <2>3. CASE b = a
      BY <1>2, <2>2, <2>3 DEF Owned
    <2>4. CASE b # a
      BY <1>3, <2>2, <2>4 DEF Owned, Moved
    <2> QED
      BY <2>3, <2>4
  <1> QED
    BY <1>1, <1>2, <1>4, <1>5, <1>6, <1>7, <1>8, <1>9 DEF Inv


LEMMA TakeManagerKeeps ==
    ASSUME TypeOK, Inv, NEW a \in Actor, TakeManager(a)
    PROVE  StateOK' /\ Inv'
  <1> USE DEF memory, cloud, history, budget
  <1> DEFINE k == tunnelMgr
             pc == IF k = NoMgr THEN "load" ELSE "kill"
             e == [At(pc) EXCEPT !.mgr = k]
  <1>1. op[a].mgr = NoMgr /\ k \in Mgr \cup {NoMgr}
    BY DEF TakeManager, Idle, TypeOK
  <1>2. /\ tunnelMgr' = NoMgr /\ op' = [op EXCEPT ![a] = e]
        /\ UNCHANGED <<row, mgr, cloud, started, lost, stopped, restarts>>
    BY DEF TakeManager, Left
  <1>3. pc \in PC
    BY DEF PC
  <1>4. e \in OpRec /\ e.pc = pc /\ e.mgr = k
    BY <1>1, <1>3, AtType DEF OpRec
  <1>5. Moved(a, pc, k)
    BY <1>2, <1>4, SetMoves
  <1>6. disturbed' \subseteq Mgr \cup {NoMgr} /\ ops' \in 0 .. MaxOps
    BY <1>1, ConfigAssumption, OverlapType DEF TakeManager, TypeOK
  <1>7. StateOK'
    BY <1>2, <1>5, <1>6, TypeParts DEF StateOK, Moved
  <1>8. Distinct'
    BY <1>5 DEF Moved, Inv, Distinct, Unpublished
  <1>9. Unpublished'
    BY <1>2 DEF Unpublished
  <1>10. Known'
    <2>1. started \in Nat /\ NoMgr <= started
      BY Constants DEF TypeOK
    <2>2. \A b \in Actor : op'[b].mgr <= started
      BY <1>5 DEF Moved, Inv, Known
    <2> QED
      BY <1>2, <2>1, <2>2 DEF Inv, Known
  <1>11. ASSUME NEW b \in Actor PROVE PositionOK(b)'
    <2>1. CASE b # a
      BY <1>2, <1>5, <2>1, OthersStay DEF Moved
    <2>2. CASE b = a /\ k = NoMgr
      <3>1. op'[a].pc = "load" /\ op'[a].mgr = NoMgr
        BY <1>5, <2>2 DEF Moved
      <3> QED
        BY <1>2, <2>2, <3>1, FreePosition DEF Working, Free, TypeOK
    <2>3. CASE b = a /\ k # NoMgr
      <3>1. op'[a].pc = "kill" /\ op'[a].mgr = k
        BY <1>5, <2>3 DEF Moved
      <3>2. mgr'[k].host \in Host
        BY <1>2, <2>3 DEF Inv
      <3> QED
        BY <2>3, <3>1, <3>2 DEF PositionOK, Free, Released, MayRun
    <2> QED
      BY <2>1, <2>2, <2>3
  <1>12. ASSUME NEW n \in (tunnels' \cup proc') \ lost' PROVE Owned(n)'
    <2>1. n \in (tunnels \cup proc) \ lost /\ n # NoMgr
      BY <1>2, <1>12, Constants DEF TypeOK
    <2>2. CASE n = k
      BY <1>5, <2>1, <2>2 DEF Owned, Moved, Released
    <2>3. CASE n # k
      <3>1. PICK b \in Actor : op[b].mgr = n /\ op[b].pc \notin Released
        BY <2>1, <2>3 DEF Inv, Owned
      <3> QED
        BY <1>1, <1>5, <2>1, <3>1 DEF Owned, Moved
    <2> QED
      BY <2>2, <2>3
  <1> QED
    BY <1>2, <1>7, <1>8, <1>9, <1>10, <1>11, <1>12 DEF Inv


(* The start of the process: no operation has a manager.                   *)
LEMMA BootingFacts ==
    /\ Booting \in [Actor -> OpRec]
    /\ \A a \in Actor : Booting[a].mgr = NoMgr /\ Booting[a].pc \in Free
  <1>1. /\ At("boot") \in OpRec /\ At("boot").mgr = NoMgr /\ At("boot").pc = "boot"
        /\ At("env") \in OpRec /\ At("env").mgr = NoMgr /\ At("env").pc = "env"
    BY AtType DEF PC
  <1>2. Idle.mgr = NoMgr /\ Idle.pc = "idle"
    BY DEF Idle
  <1>3. Idle \in OpRec
    BY IdleType
  <1> QED
    BY <1>1, <1>2, <1>3 DEF Booting, Free

LEMMA BlankType == Blank \in MgrRec
  <1> QED
    BY DEF Blank, MgrRec, Record, NoRecord

(* Nobody works and nothing is published: everything has to be lost.       *)
LEMMA NobodyWorks ==
    ASSUME TypeOK', op' = Booting, tunnelMgr' = NoMgr, started' \in Nat,
           tunnels' \cup proc' \subseteq 1 .. started', tunnels' \cup proc' \subseteq lost'
    PROVE  Inv'
  <1>1. \A a \in Actor : op'[a].mgr = NoMgr /\ op'[a].pc \in Free
    BY BootingFacts
  <1>2. tunnels' \cup proc' \subseteq Mgr
    BY DEF TypeOK
  <1>3. \A a \in Actor : PositionOK(a)'
    BY <1>1, <1>2, FreePosition DEF Working
  <1> QED
    BY <1>1, <1>3, Constants DEF Inv, Distinct, Unpublished, Known

LEMMA RestartKeeps ==
    ASSUME TypeOK, Inv, NEW alive \in SUBSET proc, Restart(alive),
           UNCHANGED <<faults, died>>
    PROVE  TypeOK' /\ Inv'
  <1>1. StateOK'
    <2>1. restarts' \in 0 .. MaxRestarts
      BY ConfigAssumption DEF Restart, TypeOK
    <2>2. lost' \subseteq Mgr
      BY DEF Restart, TypeOK
    <2>3. mgr' \in [Mgr -> MgrRec]
      BY BlankType DEF Restart
    <2> QED
      BY <2>1, <2>2, <2>3, BootingFacts, TypeParts DEF StateOK, Restart
  <1>2. TypeOK'
    BY <1>1, TypeParts, TypePartsPrime
  <1>3. started' \in Nat /\ tunnels' \cup proc' \subseteq 1 .. started'
    BY DEF Restart, Inv, Known, TypeOK
  <1> QED
    BY <1>2, <1>3, NobodyWorks DEF Restart

(* A process less: nothing that the invariant asks for is missing.         *)
LEMMA ExitKeeps ==
    ASSUME TypeOK, Inv, NEW m \in proc, Exit(m), Fails
    PROVE  TypeOK' /\ Inv'
  <1> USE DEF memory, history, budget
  <1>1. TypeOK'
    BY ConfigAssumption DEF Exit, Fails, TypeOK
  <1>2. UNCHANGED <<tunnelMgr, mgr, tunnels, op, started, lost>> /\ proc' \subseteq proc
    BY DEF Exit
  <1>3. Distinct' /\ Unpublished' /\ Known'
    BY <1>2 DEF Inv, Distinct, Unpublished, Known
  <1>4. ASSUME NEW a \in Actor PROVE PositionOK(a)'
    BY <1>2 DEF Inv, PositionOK
  <1>5. ASSUME NEW n \in (tunnels' \cup proc') \ lost' PROVE Owned(n)'
    BY <1>2, <1>5 DEF Inv, Owned
  <1> QED
    BY <1>1, <1>2, <1>3, <1>4, <1>5 DEF Inv

LEMMA InitKeeps == Init => TypeOK /\ Inv
  <1> SUFFICES ASSUME Init PROVE TypeOK /\ Inv
    OBVIOUS
  <1>1. NoRow \in Config /\ [host |-> DefaultHost, enabled |-> TRUE, status |-> ""] \in Config
    BY ConfigAssumption DEF NoRow, Config
  <1>2. mgr \in [Mgr -> MgrRec]
    BY BlankType DEF Init
  <1>3. dns \in [Host -> Record]
    BY DEF Init, Record
  <1>4. 0 \in 0 .. MaxStarts /\ 0 \in 0 .. MaxOps /\ 0 \in 0 .. MaxRestarts
        /\ 0 \in 0 .. MaxFaults
    BY ConfigAssumption
  <1>5. TypeOK
    <2>1. row \in Config /\ op \in [Actor -> OpRec]
      BY <1>1, BootingFacts DEF Init
    <2>2. StateOK
      BY <1>2, <1>3, <1>4, <2>1 DEF Init, StateOK
    <2> QED
      BY <1>4, <2>2, TypeParts DEF Init
  <1>6. \A a \in Actor : op[a].mgr = NoMgr /\ op[a].pc \in Free
    BY BootingFacts DEF Init
  <1>7. \A a \in Actor : PositionOK(a)
    BY <1>6 DEF Init, PositionOK, Free, Working, Released
  <1>8. Distinct /\ Unpublished /\ Known
    <2>1. tunnelMgr = NoMgr /\ tunnels = {} /\ proc = {} /\ started = 0 /\ NoMgr = 0
      BY Constants DEF Init
    <2> QED
      BY ONLY <1>6, <2>1 DEF Distinct, Unpublished, Known
  <1> QED
    BY <1>5, <1>7, <1>8 DEF Init, Inv

------------------------------------------------------------------------------
(* The theorems.                                                           *)

LEMMA BudgetType ==
    ASSUME TypeOK
    PROVE  /\ Works => faults' \in 0 .. MaxFaults /\ died' \subseteq Mgr
           /\ \A ok \in BOOLEAN :
                 Counted(ok) => faults' \in 0 .. MaxFaults /\ died' \subseteq Mgr
  <1> QED
    BY ConfigAssumption DEF Works, Fails, Counted, TypeOK

LEMMA StartStepKeeps ==
    ASSUME TypeOK, Inv, NEW a \in Actor, StartStep(a)
    PROVE  TypeOK' /\ Inv'
  <1>1. CASE (CheckNotRunning(a) \/ ReadConfig(a) \/ Publish(a)) /\ Works
    BY <1>1, BudgetType, TypePartsPrime, CheckNotRunningKeeps, ReadConfigKeeps, PublishKeeps
  <1>2. ASSUME NEW o \in Outcome, Counted(o = "ok"),
               \/ CreateTunnel(a, o) \/ UpdateTunnelConfig(a, o) \/ DeleteOther(a, o)
               \/ CreateDNSRecord(a, o) \/ CleanupTunnel(a, o)
        PROVE  TypeOK' /\ Inv'
    <2>1. StateOK' /\ Inv'
      BY <1>2, CreateTunnelKeeps, UpdateTunnelConfigKeeps, DeleteOtherKeeps,
         CreateDNSRecordKeeps, CleanupTunnelKeeps
    <2> QED
      BY <1>2, <2>1, BudgetType, TypePartsPrime
  <1>3. ASSUME NEW ok \in BOOLEAN, Counted(ok),
               \/ FindRecord(a, ok) \/ FindCreated(a, ok) \/ Launch(a, ok)
               \/ SaveError(a, ok) \/ SaveRunning(a, ok)
        PROVE  TypeOK' /\ Inv'
    <2>1. StateOK' /\ Inv'
      BY <1>3, FindRecordKeeps, FindCreatedKeeps, LaunchKeeps, SaveErrorKeeps,
         SaveRunningKeeps
    <2> QED
      BY <1>3, <2>1, BudgetType, TypePartsPrime
  <1> QED
    BY <1>1, <1>2, <1>3 DEF StartStep

LEMMA StopStepKeeps ==
    ASSUME TypeOK, Inv, NEW a \in Actor, StopStep(a)
    PROVE  TypeOK' /\ Inv'
  <1>1. CASE (TakeManager(a) \/ KillProcess(a)) /\ Works
    BY <1>1, BudgetType, TypePartsPrime, TakeManagerKeeps, KillProcessKeeps
  <1>2. ASSUME NEW o \in Outcome, NEW found \in BOOLEAN, Counted(o = "ok" /\ found),
               CleanupDNS(a, found, o)
        PROVE  TypeOK' /\ Inv'
    BY <1>2, BudgetType, TypePartsPrime, CleanupDNSKeeps
  <1>3. ASSUME NEW o \in Outcome, Counted(o = "ok"), StopTunnel(a, o)
        PROVE  TypeOK' /\ Inv'
    BY <1>3, BudgetType, TypePartsPrime, StopTunnelKeeps
  <1>4. ASSUME NEW ok \in BOOLEAN, Counted(ok), LoadConfig(a, ok) \/ SaveStopped(a, ok)
        PROVE  TypeOK' /\ Inv'
    BY <1>4, BudgetType, TypePartsPrime, LoadConfigKeeps, SaveStoppedKeeps
  <1> QED
    BY <1>1, <1>2, <1>3, <1>4 DEF StopStep

LEMMA EditStepKeeps ==
    ASSUME TypeOK, Inv, NEW a \in Actor, EditStep(a)
    PROVE  TypeOK' /\ Inv'
  <1> QED
    BY BudgetType, TypePartsPrime, CheckEditKeeps, ReadForEditKeeps, SaveEditKeeps
    DEF EditStep

LEMMA BootStepKeeps ==
    ASSUME TypeOK, Inv, BootStep
    PROVE  TypeOK' /\ Inv'
  <1> QED
    BY BudgetType, TypePartsPrime, AutoStartKeeps, SaveFromEnvKeeps DEF BootStep

LEMMA StutterKeeps ==
    ASSUME TypeOK, Inv, UNCHANGED vars
    PROVE  TypeOK' /\ Inv'
  <1> USE DEF vars, memory, cloud, history, budget
  <1>1. TypeOK'
    BY DEF TypeOK
  <1> QED
    BY <1>1 DEF Inv, Distinct, Unpublished, Known, PositionOK, Owned

LEMMA InvHolds == Spec => [](TypeOK /\ Inv)
  <1>1. Init => TypeOK /\ Inv
    BY InitKeeps
  <1>2. TypeOK /\ Inv /\ [Next]_vars => TypeOK' /\ Inv'
    <2> SUFFICES ASSUME TypeOK, Inv, [Next]_vars PROVE TypeOK' /\ Inv'
      OBVIOUS
    <2>1. CASE \E alive \in SUBSET proc : Restart(alive) /\ Works
      BY <2>1, RestartKeeps DEF Works
    <2>2. CASE \E m \in proc : Exit(m) /\ Fails
      BY <2>2, ExitKeeps
    <2> QED
      BY <2>1, <2>2, StartStepKeeps, StopStepKeeps, EditStepKeeps, BootStepKeeps,
         StutterKeeps DEF Next
  <1> QED
    BY <1>1, <1>2, PTL DEF Spec

(* Types, and ingress rules only of tunnels that exist.                    *)
THEOREM TypeCorrect == Spec => []TypeOK
  <1> QED
    BY InvHolds, PTL

(* Every tunnel and every process belongs to the published manager or to   *)
(* one operation, unless it was lost for a reason the code cannot help;    *)
(* and no two operations ever work on the same one.                        *)
THEOREM OneOwnerHolds == Spec => []OneOwner
  <1>1. TypeOK /\ Inv => OwnedOrLost
    BY DEF Inv, Owned, OwnedOrLost, Holders, Released
  <1>2. TypeOK /\ Inv => NotShared
    <2> SUFFICES ASSUME TypeOK, Inv, NEW m \in Mgr
                 PROVE  /\ Cardinality(Holders(m)) <= 1
                        /\ tunnelMgr = m => Holders(m) = {}
      BY DEF NotShared
    <2>1. \A a, b \in Holders(m) : a = b
      BY Constants DEF Inv, Distinct, Holders
    <2>2. tunnelMgr = m => Holders(m) = {}
      BY Constants DEF Inv, Unpublished, Holders
    <2>3. CASE Holders(m) = {}
      BY <2>2, <2>3, FS_EmptySet
    <2>4. CASE Holders(m) # {}
      <3>1. PICK a : Holders(m) = {a}
        BY <2>1, <2>4
      <3>2. Cardinality({a}) = 1
        BY FS_Singleton
      <3> QED
        BY <2>2, <3>1, <3>2
    <2> QED
      BY <2>3, <2>4
  <1> QED
    BY <1>1, <1>2, InvHolds, PTL DEF OneOwner

------------------------------------------------------------------------------
(* RunningReachable.  A start nobody overlaps with works alone, so the     *)
(* record it has made still points to its tunnel when it publishes.        *)

HasTunnel == {"route", "find", "replace", "point", "refind", "launch", "save", "publish"}
HasRoute == HasTunnel \ {"route"}
HasRecord == {"refind", "launch", "save", "publish"}
Harmless == Waiting \cup {"asked", "edit"}

Alone ==
    \A a, b \in Actor :
        op[a].mgr \notin disturbed \cup {NoMgr} /\ a # b => op[b].pc \in Waiting

ProgressOK(a) ==
    LET pc == op[a].pc
        m == op[a].mgr
    IN  /\ pc \in HasTunnel => m \in tunnels
        /\ pc \in HasRoute => m \in routed
        /\ pc \in {"save", "publish"} => m \in proc \cup died
        /\ pc \in HasRecord /\ m \notin disturbed => dns[mgr[m].host] = m
        /\ pc = "publish" /\ m \notin disturbed => row.status = "running"

PublishedOK ==
    tunnelMgr \notin disturbed \cup {NoMgr} =>
        /\ tunnelMgr \in tunnels /\ tunnelMgr \in routed /\ tunnelMgr \in proc \cup died
        /\ dns[mgr[tunnelMgr].host] = tunnelMgr
        /\ row.status = "running"
        /\ \A b \in Actor : /\ op[b].pc \in Harmless
                            /\ op[b].pc = "edit" => op[b].cfg.status = "running"

Reach ==
    /\ Alone
    /\ \A a \in Actor : ProgressOK(a)
    /\ PublishedOK

(* An operation a has left everything alone but what belongs to its        *)
(* manager, before or after; if it only waited it has left all of it.      *)
Frame(a) ==
    /\ \A n \in Mgr \ {op[a].mgr, op'[a].mgr} :
          /\ n \in tunnels => n \in tunnels'
          /\ n \in routed => n \in routed'
          /\ n \in proc \cup died => n \in proc' \cup died'
          /\ mgr'[n].host = mgr[n].host
    /\ op[a].pc \in Waiting => UNCHANGED <<dns, row>>

LEMMA AloneKept ==
    ASSUME TypeOK, Inv, Alone, NEW a \in Actor, NEW pc, NEW m, Moved(a, pc, m),
           disturbed \subseteq disturbed',
           \/ op[a].pc \notin Waiting /\ m \in {op[a].mgr, NoMgr}
           \/ pc \in Waiting /\ m = NoMgr
           \/ op[a].mgr = NoMgr /\ Overlap(a, m)
    PROVE  Alone'
  <1> SUFFICES ASSUME NEW x \in Actor, NEW y \in Actor, x # y,
                      op'[x].mgr \notin disturbed' \cup {NoMgr}
               PROVE  op'[y].pc \in Waiting
    BY DEF Alone
  <1>1. /\ op'[a].pc = pc /\ op'[a].mgr = m
        /\ \A b \in Actor : b # a => op'[b] = op[b]
    BY DEF Moved
  <1>2. CASE x # a /\ y # a
    BY <1>1, <1>2 DEF Alone
  <1>3. CASE x = a
    <2>1. op'[y] = op[y]
      BY <1>1, <1>3
    <2>2. CASE m = op[a].mgr
      BY <1>1, <1>3, <2>1, <2>2 DEF Alone
    <2>3. CASE op[a].mgr = NoMgr /\ Overlap(a, m)
      BY <1>1, <1>3, <2>1, <2>3 DEF Overlap, Busy
    <2> QED
      BY <1>1, <1>3, <2>2, <2>3
  <1>4. CASE y = a
    <2>1. op'[x] = op[x] /\ op[x].mgr \notin disturbed \cup {NoMgr}
      BY <1>1, <1>4
    <2>2. op[a].pc \in Waiting
      BY <1>4, <2>1 DEF Alone
    <2>3. CASE Overlap(a, m)
      <3>1. op[x].pc \notin Waiting
        BY <2>1, OperationFacts DEF PositionOK, Waiting, Free
      <3>2. x \in Busy \ {a}
        BY <1>4, <3>1 DEF Busy
      <3> QED
        BY <2>1, <2>3, <3>2 DEF Overlap
    <2> QED
      BY <1>1, <1>4, <2>2, <2>3
  <1> QED
    BY <1>2, <1>3, <1>4

LEMMA ProgressKept ==
    ASSUME TypeOK, Inv, Inv', Reach, NEW a \in Actor, NEW pc, NEW m, Moved(a, pc, m),
           disturbed \subseteq disturbed', Frame(a),
           NEW b \in Actor, b # a
    PROVE  ProgressOK(b)'
  <1> DEFINE k == op[b].mgr
  <1>1. op'[b] = op[b]
    BY DEF Moved
  <1>2. CASE op[b].pc \notin HasTunnel
    BY <1>1, <1>2 DEF ProgressOK, HasRoute, HasRecord, HasTunnel
  <1>3. CASE op[b].pc \in HasTunnel
    <2>1. k \in Mgr /\ k # NoMgr
      BY <1>3, OperationFacts, Constants DEF HasTunnel, Working, Free, PC
    <2>2. k # op[a].mgr /\ k # op'[a].mgr
      BY <1>1, <2>1 DEF Inv, Distinct
    <2>3. ProgressOK(b)
      BY DEF Reach
    <2>4. /\ k \in tunnels => k \in tunnels'
          /\ k \in routed => k \in routed'
          /\ k \in proc \cup died => k \in proc' \cup died'
          /\ mgr'[k].host = mgr[k].host
      BY <2>1, <2>2 DEF Frame
    <2>5. k \notin disturbed' => UNCHANGED <<dns, row>>
      BY <2>1 DEF Frame, Reach, Alone
    <2> QED
      BY <1>1, <2>3, <2>4, <2>5 DEF ProgressOK
  <1> QED
    BY <1>2, <1>3

(* An operation that is more than an edit shows that nothing undisturbed   *)
(* is published, so it has only itself to answer for.                      *)
LEMMA WorkKeepsReach ==
    ASSUME TypeOK, Inv, Inv', Reach, NEW a \in Actor, NEW pc, NEW m \in {op[a].mgr, NoMgr},
           Moved(a, pc, m), op[a].pc \notin Harmless, Frame(a), ProgressOK(a)',
           UNCHANGED <<tunnelMgr, disturbed>>
    PROVE  Reach'
  <1>1. Alone'
    BY AloneKept DEF Reach, Harmless
  <1>2. \A b \in Actor : ProgressOK(b)'
    BY ProgressKept
  <1>3. PublishedOK'
    BY DEF Reach, PublishedOK
  <1> QED
    BY <1>1, <1>2, <1>3 DEF Reach

LEMMA NoProgress ==
    ASSUME NEW a \in Actor, op'[a].pc \notin HasTunnel
    PROVE  ProgressOK(a)'
  <1> QED
    BY DEF ProgressOK, HasTunnel, HasRoute, HasRecord

LEMMA DropFrame ==
    ASSUME TypeOK, NEW a \in Actor, op[a].mgr \in Mgr, op[a].pc \notin Waiting,
           NEW o \in Outcome, DropTunnel(op[a].mgr, o), UNCHANGED <<proc, died>>,
           mgr' = [mgr EXCEPT ![op[a].mgr].tunnel = (o # "ok")]
    PROVE  Frame(a)
  <1>1. (o # "ok") \in BOOLEAN
    OBVIOUS
  <1>2. HostsKept
    BY <1>1, MgrType
  <1>3. \A n \in Mgr : n # op[a].mgr => /\ n \in tunnels => n \in tunnels'
                                        /\ n \in routed => n \in routed'
    BY DEF DropTunnel
  <1> QED
    BY <1>2, <1>3 DEF Frame, HostsKept

LEMMA SaveErrorReach ==
    ASSUME TypeOK, Inv, Inv', Reach, died' = died, NEW a \in Actor,
           NEW saved \in BOOLEAN, SaveError(a, saved)
    PROVE  Reach'
  <1> USE DEF memory, cloud, history, budget
  <1>1. op[a].pc \in {"failed"} /\ op[a].pc \notin Harmless \cup Waiting
    BY DEF SaveError, Harmless, Waiting
  <1>2. PICK pc \in PC \ HasTunnel, m \in {op[a].mgr, NoMgr} : Moved(a, pc, m)
    BY FinishMoves DEF SaveError, PC, HasTunnel
  <1>3. Frame(a)
    BY <1>1, TypeOfOp DEF SaveError, Frame, Moved, MgrRec
  <1>4. ProgressOK(a)'
    BY <1>2, NoProgress DEF Moved
  <1> QED
    BY <1>1, <1>2, <1>3, <1>4, WorkKeepsReach DEF SaveError


LEMMA SaveStoppedReach ==
    ASSUME TypeOK, Inv, Inv', Reach, died' = died, NEW a \in Actor,
           NEW saved \in BOOLEAN, SaveStopped(a, saved)
    PROVE  Reach'
  <1> USE DEF memory, cloud, history, budget
  <1>1. op[a].pc \in {"stopped"} /\ op[a].pc \notin Harmless \cup Waiting
    BY DEF SaveStopped, Harmless, Waiting
  <1>2. PICK pc \in PC \ HasTunnel, m \in {op[a].mgr, NoMgr} : Moved(a, pc, m)
    BY FinishMoves DEF SaveStopped, PC, HasTunnel
  <1>3. Frame(a)
    BY <1>1, TypeOfOp DEF SaveStopped, Frame, Moved, MgrRec
  <1>4. ProgressOK(a)'
    BY <1>2, NoProgress DEF Moved
  <1> QED
    BY <1>1, <1>2, <1>3, <1>4, WorkKeepsReach DEF SaveStopped


LEMMA CleanupTunnelReach ==
    ASSUME TypeOK, Inv, Inv', Reach, died' = died, NEW a \in Actor, NEW o \in Outcome,
           CleanupTunnel(a, o)
    PROVE  Reach'
  <1> USE DEF memory, cloud, history, budget
  <1>1. op[a].pc \in {"undo"} /\ op[a].pc \notin Harmless \cup Waiting
    BY DEF CleanupTunnel, Harmless, Waiting
  <1>2. PICK pc \in PC \ HasTunnel, m \in {op[a].mgr, NoMgr} : Moved(a, pc, m)
    BY GoOnMoves DEF CleanupTunnel, PC, HasTunnel
  <1>3. Frame(a)
    BY <1>1, OperationFacts, DropFrame DEF CleanupTunnel, Working, Free, PC
  <1>4. ProgressOK(a)'
    BY <1>2, NoProgress DEF Moved
  <1> QED
    BY <1>1, <1>2, <1>3, <1>4, WorkKeepsReach DEF CleanupTunnel


LEMMA KillProcessReach ==
    ASSUME TypeOK, Inv, Inv', Reach, died' = died, NEW a \in Actor, KillProcess(a)
    PROVE  Reach'
  <1> USE DEF memory, cloud, history, budget
  <1>1. op[a].pc \in {"kill", "abort"} /\ op[a].pc \notin Harmless \cup Waiting
    BY DEF KillProcess, Harmless, Waiting
  <1>2. PICK pc \in PC \ HasTunnel, m \in {op[a].mgr, NoMgr} : Moved(a, pc, m)
    BY GoOnMoves DEF KillProcess, PC, HasTunnel
  <1>3. Frame(a)
    BY <1>1, TypeOfOp DEF KillProcess, Frame, Moved, MgrRec
  <1>4. ProgressOK(a)'
    BY <1>2, NoProgress DEF Moved
  <1> QED
    BY <1>1, <1>2, <1>3, <1>4, WorkKeepsReach DEF KillProcess


LEMMA StopTunnelReach ==
    ASSUME TypeOK, Inv, Inv', Reach, died' = died, NEW a \in Actor, NEW o \in Outcome,
           StopTunnel(a, o)
    PROVE  Reach'
  <1> USE DEF memory, cloud, history, budget
  <1>1. op[a].pc \in {"delete", "deleteNew"} /\ op[a].pc \notin Harmless \cup Waiting
    BY DEF StopTunnel, Harmless, Waiting
  <1>2. PICK pc \in PC \ HasTunnel, m \in {op[a].mgr, NoMgr} : Moved(a, pc, m)
    BY GoOnMoves, FinishMoves DEF StopTunnel, PC, HasTunnel
  <1>3. Frame(a)
    BY <1>1, OperationFacts, DropFrame DEF StopTunnel, Working, Free, PC
  <1>4. ProgressOK(a)'
    BY <1>2, NoProgress DEF Moved
  <1> QED
    BY <1>1, <1>2, <1>3, <1>4, WorkKeepsReach DEF StopTunnel

LEMMA CleanupDNSReach ==
    ASSUME TypeOK, Inv, Inv', Reach, died' = died, NEW a \in Actor, StateOK',
           NEW found \in BOOLEAN, NEW o \in Outcome, CleanupDNS(a, found, o)
    PROVE  Reach'
  <1> USE DEF memory, cloud, history, budget
  <1> DEFINE m == op[a].mgr
             pc == IF op[a].pc = "unlink" THEN "delete" ELSE "deleteNew"
  <1>1. op[a].pc \in {"unlink", "unlinkNew"} /\ m \in Mgr /\ op[a].pc \notin Harmless
    BY OperationFacts DEF CleanupDNS, Harmless, Waiting, Working, Free, PC
  <1>2. Moved(a, pc, m)
    BY TypeOfOp DEF CleanupDNS, Moved, StateOK, OpRec
  <1>3. Frame(a)
    BY <1>1, TypeOfOp DEF CleanupDNS, Frame, MgrRec, Harmless
  <1>4. ProgressOK(a)'
    BY <1>2, NoProgress DEF Moved, HasTunnel
  <1> HIDE DEF pc
  <1> QED
    BY <1>1, <1>2, <1>3, <1>4, WorkKeepsReach DEF CleanupDNS


LEMMA LoadConfigReach ==
    ASSUME TypeOK, Inv, Inv', Reach, died' = died, NEW a \in Actor, StateOK',
           NEW ok \in BOOLEAN, LoadConfig(a, ok)
    PROVE  Reach'
  <1> USE DEF memory, cloud, history, budget
  <1>1. op[a].pc = "load" /\ op[a].pc \notin Harmless
    BY DEF LoadConfig, Harmless, Waiting
  <1>2. PICK pc \in {"stopped", "idle"}, m \in {op[a].mgr, NoMgr} : Moved(a, pc, m)
    <2>1. CASE ok
      BY <2>1, TypeOfOp DEF LoadConfig, Moved, StateOK, OpRec
    <2>2. CASE ~ok
      BY <2>2, FinishMoves DEF LoadConfig
    <2> QED
      BY <2>1, <2>2
  <1>3. Frame(a)
    BY <1>1 DEF LoadConfig, Frame, Harmless
  <1>4. ProgressOK(a)'
    BY <1>2, NoProgress DEF Moved, HasTunnel
  <1> QED
    BY <1>1, <1>2, <1>3, <1>4, WorkKeepsReach DEF LoadConfig


LEMMA ReadConfigReach ==
    ASSUME TypeOK, Inv, Inv', Reach, died' = died, NEW a \in Actor, StateOK',
           ReadConfig(a)
    PROVE  Reach'
  <1> USE DEF memory, cloud, history, budget
  <1>1. op[a].pc = "config" /\ op[a].mgr \in Mgr /\ op[a].pc \notin Harmless
    BY OperationFacts DEF ReadConfig, Harmless, Waiting, Working, Free, PC
  <1>2. PICK pc \in {"create", "idle"}, m \in {op[a].mgr, NoMgr} : Moved(a, pc, m)
    <2>1. CASE row.host # NoHost
      BY <2>1, TypeOfOp DEF ReadConfig, Moved, StateOK, OpRec
    <2>2. CASE row.host = NoHost
      BY <2>2, FinishMoves DEF ReadConfig
    <2> QED
      BY <2>1, <2>2
  <1>3. Frame(a)
    BY <1>1, TypeOfOp DEF ReadConfig, Frame, MgrRec, Harmless
  <1>4. ProgressOK(a)'
    BY <1>2, NoProgress DEF Moved, HasTunnel
  <1> QED
    BY <1>1, <1>2, <1>3, <1>4, WorkKeepsReach DEF ReadConfig


LEMMA SaveFromEnvReach ==
    ASSUME TypeOK, Inv, Inv', Reach, died' = died, NEW saved \in BOOLEAN,
           SaveFromEnv(saved)
    PROVE  Reach'
  <1> USE DEF memory, cloud, history, budget
  <1>1. Main \in Actor /\ op[Main].pc = "env" /\ op[Main].pc \notin Harmless
    BY DEF SaveFromEnv, Harmless, Waiting, Actor
  <1>2. Moved(Main, "check", op[Main].mgr)
    BY <1>1, GoOnMoves DEF SaveFromEnv, PC
  <1>3. Frame(Main)
    BY <1>1 DEF SaveFromEnv, Frame, Harmless
  <1>4. ProgressOK(Main)'
    BY <1>1, <1>2, NoProgress DEF Moved, HasTunnel
  <1> QED
    BY <1>1, <1>2, <1>3, <1>4, WorkKeepsReach DEF SaveFromEnv

LEMMA CreateTunnelReach ==
    ASSUME TypeOK, Inv, Inv', Reach, died' = died, NEW a \in Actor, NEW o \in Outcome,
           CreateTunnel(a, o)
    PROVE  Reach'
  <1> USE DEF memory, cloud, history, budget
  <1> DEFINE m == op[a].mgr
  <1>1. /\ op[a].pc = "create" /\ m \in Mgr /\ m # NoMgr
        /\ op[a].pc \notin Harmless \cup Waiting
    BY OperationFacts, Constants DEF CreateTunnel, Harmless, Waiting, Working, Free, PC
  <1>2. PICK pc \in {"route", "failed"} : Moved(a, pc, m) /\ (pc = "route" => o = "ok")
    BY GoOnMoves DEF CreateTunnel, AfterCreate, PC
  <1>3. Frame(a)
    <2>1. (o = "ok") \in BOOLEAN
      OBVIOUS
    <2>2. HostsKept
      BY <1>1, <2>1, MgrType DEF CreateTunnel
    <2> QED
      BY <1>1, <2>2 DEF CreateTunnel, Frame, HostsKept
  <1>4. ProgressOK(a)'
    <2>1. op'[a].pc = pc /\ op'[a].mgr = m /\ ProgressOK(a)
      BY <1>2 DEF Moved, Reach
    <2>2. pc = "route" => m \in tunnels'
      BY <1>2 DEF CreateTunnel, Done
    <2> QED
      BY <1>2, <2>1, <2>2 DEF ProgressOK, HasTunnel, HasRoute, HasRecord
  <1> QED
    BY <1>1, <1>2, <1>3, <1>4, WorkKeepsReach DEF CreateTunnel


LEMMA UpdateTunnelConfigReach ==
    ASSUME TypeOK, Inv, Inv', Reach, died' = died, NEW a \in Actor, NEW o \in Outcome,
           UpdateTunnelConfig(a, o)
    PROVE  Reach'
  <1> USE DEF memory, cloud, history, budget
  <1> DEFINE m == op[a].mgr
  <1>1. /\ op[a].pc = "route" /\ m \in Mgr /\ m # NoMgr
        /\ op[a].pc \notin Harmless \cup Waiting
    BY OperationFacts, Constants DEF UpdateTunnelConfig, Harmless, Waiting, Working, Free, PC
  <1>2. PICK pc \in {"find", "undo"} : Moved(a, pc, m) /\ (pc = "find" => o = "ok")
    BY GoOnMoves DEF UpdateTunnelConfig, AfterRoute, PC
  <1>3. Frame(a)
    BY <1>1 DEF UpdateTunnelConfig, Frame
  <1>4. ProgressOK(a)'
    <2>1. op'[a].pc = pc /\ op'[a].mgr = m /\ ProgressOK(a)
      BY <1>2 DEF Moved, Reach
    <2>2. /\ pc = "find" => m \in routed'
          /\ tunnels' = tunnels
      BY <1>2 DEF UpdateTunnelConfig, Done
    <2> QED
      BY <1>1, <1>2, <2>1, <2>2 DEF ProgressOK, HasTunnel, HasRoute, HasRecord
  <1> QED
    BY <1>1, <1>2, <1>3, <1>4, WorkKeepsReach DEF UpdateTunnelConfig


LEMMA DeleteOtherReach ==
    ASSUME TypeOK, Inv, Inv', Reach, died' = died, NEW a \in Actor, StateOK',
           NEW o \in Outcome, DeleteOther(a, o)
    PROVE  Reach'
  <1> USE DEF memory, cloud, history, budget
  <1> DEFINE m == op[a].mgr
  <1>1. /\ op[a].pc = "replace" /\ m \in Mgr /\ m # NoMgr
        /\ op[a].pc \notin Harmless \cup Waiting
    BY OperationFacts, Constants DEF DeleteOther, Harmless, Waiting, Working, Free, PC
  <1>2. PICK pc \in {"point"} : Moved(a, pc, m) /\ TRUE
    BY TypeOfOp DEF DeleteOther, Moved, StateOK, OpRec
  <1>3. Frame(a)
    BY <1>1 DEF DeleteOther, Frame
  <1>4. ProgressOK(a)'
    <2>1. op'[a].pc = pc /\ op'[a].mgr = m /\ ProgressOK(a)
      BY <1>2 DEF Moved, Reach
    <2>2. UNCHANGED <<tunnels, routed>>
      BY DEF DeleteOther
    <2> QED
      BY <1>1, <1>2, <2>1, <2>2 DEF ProgressOK, HasTunnel, HasRoute, HasRecord
  <1> QED
    BY <1>1, <1>2, <1>3, <1>4, WorkKeepsReach DEF DeleteOther


LEMMA CreateDNSRecordReach ==
    ASSUME TypeOK, Inv, Inv', Reach, died' = died, NEW a \in Actor, NEW o \in Outcome,
           CreateDNSRecord(a, o)
    PROVE  Reach'
  <1> USE DEF memory, cloud, history, budget
  <1> DEFINE m == op[a].mgr
  <1>1. /\ op[a].pc = "point" /\ m \in Mgr /\ m # NoMgr
        /\ op[a].pc \notin Harmless \cup Waiting
    BY OperationFacts, Constants DEF CreateDNSRecord, Harmless, Waiting, Working, Free, PC
  <1>2. PICK pc \in {"refind", "undo"} :
            Moved(a, pc, m) /\ (pc = "refind" => o = "ok" /\ dns[HostOf(a)] = NoRecord)
    BY GoOnMoves DEF CreateDNSRecord, PC
  <1>3. Frame(a)
    BY <1>1 DEF CreateDNSRecord, Frame
  <1>4. ProgressOK(a)'
    <2>1. op'[a].pc = pc /\ op'[a].mgr = m /\ ProgressOK(a)
      BY <1>2 DEF Moved, Reach
    <2>2. pc = "refind" => dns'[mgr'[m].host] = m
      <3>1. HostOf(a) \in Host
        BY <1>1, RecordOfHost DEF Harmless, Working, Free, PC
      <3> QED
        BY <1>2, <3>1 DEF CreateDNSRecord, HostOf, Done, TypeOK
    <2>3. UNCHANGED <<tunnels, routed>>
      BY DEF CreateDNSRecord
    <2> QED
      BY <1>1, <1>2, <2>1, <2>2, <2>3 DEF ProgressOK, HasTunnel, HasRoute, HasRecord
  <1> QED
    BY <1>1, <1>2, <1>3, <1>4, WorkKeepsReach DEF CreateDNSRecord


LEMMA FindCreatedReach ==
    ASSUME TypeOK, Inv, Inv', Reach, died' = died, NEW a \in Actor,
           NEW answered \in BOOLEAN, FindCreated(a, answered)
    PROVE  Reach'
  <1> USE DEF memory, cloud, history, budget
  <1> DEFINE m == op[a].mgr
  <1>1. /\ op[a].pc = "refind" /\ m \in Mgr /\ m # NoMgr
        /\ op[a].pc \notin Harmless \cup Waiting
    BY OperationFacts, Constants DEF FindCreated, Harmless, Waiting, Working, Free, PC
  <1>2. PICK pc \in {"launch"} : Moved(a, pc, m) /\ HostsKept
    <2>1. dns[HostOf(a)] \in Record
      BY <1>1, RecordOfHost DEF Harmless, Working, Free, PC
    <2>2. HostsKept
      BY <1>1, <2>1, MgrType DEF FindCreated
    <2> QED
      BY <2>2, GoOnMoves DEF FindCreated, PC
  <1>3. Frame(a)
    BY <1>1, <1>2 DEF FindCreated, Frame, HostsKept
  <1>4. ProgressOK(a)'
    <2>1. op'[a].pc = pc /\ op'[a].mgr = m /\ ProgressOK(a)
      BY <1>2 DEF Moved, Reach
    <2>2. UNCHANGED <<tunnels, routed, dns, disturbed>> /\ mgr'[m].host = mgr[m].host
      BY <1>1, <1>2 DEF FindCreated, HostsKept
    <2> QED
      BY <1>1, <1>2, <2>1, <2>2 DEF ProgressOK, HasTunnel, HasRoute, HasRecord
  <1> QED
    BY <1>1, <1>2, <1>3, <1>4, WorkKeepsReach DEF FindCreated


LEMMA LaunchReach ==
    ASSUME TypeOK, Inv, Inv', Reach, died' = died, NEW a \in Actor, NEW ok \in BOOLEAN,
           Launch(a, ok)
    PROVE  Reach'
  <1> USE DEF memory, cloud, history, budget
  <1> DEFINE m == op[a].mgr
  <1>1. /\ op[a].pc = "launch" /\ m \in Mgr /\ m # NoMgr
        /\ op[a].pc \notin Harmless \cup Waiting
    BY OperationFacts, Constants DEF Launch, Harmless, Waiting, Working, Free, PC
  <1>2. PICK pc \in {"save", "undo"} : Moved(a, pc, m) /\ (pc = "save" => ok)
    BY GoOnMoves DEF Launch, PC
  <1>3. Frame(a)
    BY <1>1 DEF Launch, Frame
  <1>4. ProgressOK(a)'
    <2>1. op'[a].pc = pc /\ op'[a].mgr = m /\ ProgressOK(a)
      BY <1>2 DEF Moved, Reach
    <2>2. UNCHANGED <<tunnels, routed, dns, disturbed, mgr>> /\ (pc = "save" => m \in proc')
      BY <1>1, <1>2 DEF Launch
    <2> QED
      BY <1>1, <1>2, <2>1, <2>2 DEF ProgressOK, HasTunnel, HasRoute, HasRecord
  <1> QED
    BY <1>1, <1>2, <1>3, <1>4, WorkKeepsReach DEF Launch


LEMMA SaveRunningReach ==
    ASSUME TypeOK, Inv, Inv', Reach, died' = died, NEW a \in Actor,
           NEW saved \in BOOLEAN, SaveRunning(a, saved)
    PROVE  Reach'
  <1> USE DEF memory, cloud, history, budget
  <1> DEFINE m == op[a].mgr
  <1>1. /\ op[a].pc = "save" /\ m \in Mgr /\ m # NoMgr
        /\ op[a].pc \notin Harmless \cup Waiting
    BY OperationFacts, Constants DEF SaveRunning, Harmless, Waiting, Working, Free, PC
  <1>2. PICK pc \in {"publish", "abort"} : Moved(a, pc, m) /\ (pc = "publish" => saved)
    BY GoOnMoves DEF SaveRunning, AfterSave, PC
  <1>3. Frame(a)
    BY <1>1 DEF SaveRunning, Frame
  <1>4. ProgressOK(a)'
    <2>1. op'[a].pc = pc /\ op'[a].mgr = m /\ ProgressOK(a)
      BY <1>2 DEF Moved, Reach
    <2>2. /\ UNCHANGED <<tunnels, routed, proc, dns, disturbed, mgr>>
          /\ pc = "publish" => row'.status = "running"
      BY <1>1, <1>2, OperationFacts DEF SaveRunning, Config
    <2> QED
      BY <1>1, <1>2, <2>1, <2>2 DEF ProgressOK, HasTunnel, HasRoute, HasRecord
  <1> QED
    BY <1>1, <1>2, <1>3, <1>4, WorkKeepsReach DEF SaveRunning


LEMMA FindRecordReach ==
    ASSUME TypeOK, Inv, Inv', Reach, died' = died, NEW a \in Actor, StateOK',
           NEW answered \in BOOLEAN, FindRecord(a, answered)
    PROVE  Reach'
  <1> USE DEF memory, cloud, history, budget
  <1> DEFINE m == op[a].mgr
             r == dns[HostOf(a)]
             pc == IF ~answered THEN "undo"
                   ELSE IF RecordToReplace(a, r) THEN "replace"
                   ELSE IF r = NoRecord THEN "point" ELSE "launch"
  <1>1. /\ op[a].pc = "find" /\ m \in Mgr /\ m # NoMgr
        /\ op[a].pc \notin Harmless \cup Waiting
    BY OperationFacts, Constants DEF FindRecord, Harmless, Waiting, Working, Free, PC
  <1>2. Moved(a, pc, m)
    BY TypeOfOp DEF FindRecord, Moved, StateOK, OpRec
  <1>3. HostsKept
    <2>1. r \in Record
      BY <1>1, RecordOfHost DEF Harmless, Working, Free, PC
    <2> QED
      BY <1>1, <2>1, MgrType DEF FindRecord
  <1>4. Frame(a)
    BY <1>1, <1>3 DEF FindRecord, Frame, HostsKept
  <1>5. ProgressOK(a)'
    <2>1. op'[a].pc = pc /\ op'[a].mgr = m /\ ProgressOK(a)
      BY <1>2 DEF Moved, Reach
    <2>2. UNCHANGED <<tunnels, routed, dns, disturbed>> /\ mgr'[m].host = mgr[m].host
      BY <1>1, <1>3 DEF FindRecord, HostsKept
    <2>3. pc \in {"undo", "replace", "point", "launch"}
      OBVIOUS
    <2>4. pc = "launch" => dns[mgr[m].host] = m
      BY DEF RecordToReplace, HostOf
    <2> HIDE DEF pc, m
    <2> QED
      BY <1>1, <2>1, <2>2, <2>3, <2>4 DEF ProgressOK, HasTunnel, HasRoute, HasRecord, m
  <1> HIDE DEF pc
  <1> QED
    BY <1>1, <1>2, <1>4, <1>5, WorkKeepsReach DEF FindRecord

(* An operation that only waits, or edits the row, is harmless.            *)
LEMMA HarmlessKeepsReach ==
    ASSUME TypeOK, Inv, Inv', Reach, NEW a \in Actor, NEW pc \in Harmless,
           Moved(a, pc, NoMgr), Alone', Frame(a), disturbed \subseteq disturbed',
           UNCHANGED <<tunnelMgr, mgr, tunnels, routed, proc, died, dns>>,
           tunnelMgr \notin disturbed \cup {NoMgr} =>
              /\ row'.status = "running"
              /\ pc = "edit" => op'[a].cfg.status = "running"
    PROVE  Reach'
  <1>1. \A b \in Actor : ProgressOK(b)'
    <2>1. ProgressOK(a)'
      BY NoProgress DEF Moved, Harmless, Waiting, HasTunnel
    <2> QED
      BY <2>1, ProgressKept
  <1>2. PublishedOK'
    BY DEF PublishedOK, Reach, Moved
  <1> QED
    BY <1>1, <1>2 DEF Reach

LEMMA AutoStartReach ==
    ASSUME TypeOK, Inv, Inv', Reach, died' = died, AutoStart
    PROVE  Reach'
  <1> USE DEF memory, cloud, history, budget
  <1>1. Starter \in Actor /\ op[Starter].mgr = NoMgr
    BY OperationFacts DEF AutoStart, PositionOK, Free, Actor
  <1>2. PICK pc \in {"check", "idle"} : Moved(Starter, pc, NoMgr)
    BY <1>1, GoOnMoves, FinishMoves DEF AutoStart, PC
  <1>3. Alone'
    BY <1>1, <1>2, AloneKept DEF AutoStart, Waiting, Reach
  <1>4. Frame(Starter)
    BY DEF AutoStart, Frame
  <1>5. pc \in Harmless /\ pc # "edit"
    BY <1>2 DEF Harmless, Waiting
  <1> QED
    BY <1>1, <1>2, <1>3, <1>4, <1>5, HarmlessKeepsReach DEF AutoStart, Reach, PublishedOK

LEMMA CheckNotRunningReach ==
    ASSUME TypeOK, Inv, Inv', Reach, died' = died, NEW a \in Actor, StateOK',
           CheckNotRunning(a)
    PROVE  Reach'
  <1> USE DEF memory, cloud, history, budget
  <1>1. /\ op[a].mgr = NoMgr /\ op[a].pc \in Waiting
        /\ UNCHANGED <<row, tunnelMgr, tunnels, routed, dns, proc>>
    BY OperationFacts DEF CheckNotRunning, PositionOK, Free, Waiting
  <1>2. CASE tunnelMgr # NoMgr \/ started = MaxStarts
    <2>1. Moved(a, "idle", NoMgr) /\ UNCHANGED <<mgr, disturbed>>
      BY <1>2, FinishMoves DEF CheckNotRunning
    <2>2. Alone' /\ "idle" \in Harmless
      BY <2>1, AloneKept DEF Waiting, Harmless, Reach
    <2>3. Frame(a)
      BY <1>1, <2>1 DEF Frame
    <2> QED
      BY <1>1, <2>1, <2>2, <2>3, HarmlessKeepsReach DEF Reach, PublishedOK
  <1>3. CASE tunnelMgr = NoMgr /\ started # MaxStarts
    <2> DEFINE k == started + 1
    <2>1. /\ Overlap(a, k) /\ mgr' = [mgr EXCEPT ![k] = Blank]
          /\ op' = [op EXCEPT ![a] = [At("config") EXCEPT !.mgr = k]]
      BY <1>3 DEF CheckNotRunning
    <2>2. Moved(a, "config", k)
      <3>1. [At("config") EXCEPT !.mgr = k].mgr = k
            /\ [At("config") EXCEPT !.mgr = k].pc = "config"
        BY AtType DEF OpRec, PC
      <3> QED
        BY <2>1, <3>1, TypeOfOp DEF Moved, StateOK
    <2>3. disturbed \subseteq disturbed'
      BY <2>1 DEF Overlap
    <2>4. Alone'
      BY <1>1, <2>1, <2>2, <2>3, AloneKept DEF Reach
    <2>5. Frame(a)
      BY <1>1, <2>1, <2>2, TypeOfOp DEF Frame, Moved
    <2>6. ProgressOK(a)'
      BY <2>2, NoProgress DEF Moved, HasTunnel
    <2>7. \A b \in Actor : ProgressOK(b)'
      BY <2>2, <2>3, <2>5, <2>6, ProgressKept
    <2> QED
      BY <1>1, <1>3, <2>4, <2>7 DEF Reach, PublishedOK
  <1> QED
    BY <1>2, <1>3


LEMMA TakeManagerReach ==
    ASSUME TypeOK, Inv, Inv', Reach, died' = died, NEW a \in Actor, StateOK',
           TakeManager(a)
    PROVE  Reach'
  <1> USE DEF memory, cloud, history, budget
  <1>1. /\ op[a].mgr = NoMgr /\ op[a].pc \in Waiting /\ Overlap(a, tunnelMgr)
        /\ tunnelMgr' = NoMgr /\ UNCHANGED <<row, mgr, tunnels, routed, dns, proc>>
    BY DEF TakeManager, Idle, Waiting, Left
  <1>2. PICK pc \in {"load", "kill"} : Moved(a, pc, tunnelMgr)
    <2>1. PICK pc \in {"load", "kill"} :
              op' = [op EXCEPT ![a] = [At(pc) EXCEPT !.mgr = tunnelMgr]]
      BY DEF TakeManager
    <2>2. [At(pc) EXCEPT !.mgr = tunnelMgr].mgr = tunnelMgr
          /\ [At(pc) EXCEPT !.mgr = tunnelMgr].pc = pc
      BY AtType DEF OpRec, PC
    <2> QED
      BY <2>1, <2>2, TypeOfOp DEF Moved, StateOK
  <1>3. disturbed \subseteq disturbed'
    BY <1>1 DEF Overlap
  <1>4. Alone'
    BY <1>1, <1>2, <1>3, AloneKept DEF Reach
  <1>5. Frame(a)
    BY <1>1 DEF Frame
  <1>6. ProgressOK(a)'
    BY <1>2, NoProgress DEF Moved, HasTunnel
  <1>7. \A b \in Actor : ProgressOK(b)'
    BY <1>2, <1>3, <1>5, <1>6, ProgressKept
  <1> QED
    BY <1>1, <1>4, <1>7 DEF Reach, PublishedOK


LEMMA PublishReach ==
    ASSUME TypeOK, Inv, Inv', Reach, died' = died, NEW a \in Actor, Publish(a)
    PROVE  Reach'
  <1> USE DEF memory, cloud, history, budget
  <1> DEFINE m == op[a].mgr
  <1>1. /\ op[a].pc = "publish" /\ op[a].pc \notin Waiting /\ tunnelMgr' = m
        /\ UNCHANGED <<row, mgr, tunnels, routed, dns, proc, disturbed>>
    BY DEF Publish, Waiting
  <1>2. Moved(a, "idle", NoMgr)
    BY FinishMoves DEF Publish
  <1>3. Alone'
    BY <1>1, <1>2, AloneKept DEF Reach, Waiting
  <1>4. Frame(a)
    BY <1>1 DEF Frame
  <1>5. ProgressOK(a)'
    BY <1>2, NoProgress DEF Moved, HasTunnel
  <1>6. \A b \in Actor : ProgressOK(b)'
    BY <1>1, <1>2, <1>4, <1>5, ProgressKept
  <1>7. PublishedOK'
    <2> SUFFICES ASSUME m \notin disturbed \cup {NoMgr} PROVE PublishedOK'
      BY <1>1 DEF PublishedOK
    <2>1. /\ m \in tunnels /\ m \in routed /\ m \in proc \cup died
          /\ dns[mgr[m].host] = m /\ row.status = "running"
      BY <1>1 DEF Reach, ProgressOK, HasTunnel, HasRoute, HasRecord
    <2>2. ASSUME NEW b \in Actor PROVE op'[b].pc \in Waiting
      <3>1. CASE b = a
        BY <1>2, <3>1 DEF Moved, Waiting
      <3>2. CASE b # a
        BY <1>2, <3>2 DEF Moved, Reach, Alone
      <3> QED
        BY <3>1, <3>2
    <2>3. \A b \in Actor : op'[b].pc \in Harmless /\ op'[b].pc # "edit"
      BY <2>2 DEF Harmless, Waiting
    <2> HIDE DEF m
    <2> QED
      BY <1>1, <2>1, <2>3 DEF PublishedOK
  <1> QED
    BY <1>3, <1>6, <1>7 DEF Reach


LEMMA CheckEditReach ==
    ASSUME TypeOK, Inv, Inv', Reach, died' = died, NEW a \in Actor, StateOK', NEW host,
           NEW enabled, CheckEdit(a, host, enabled)
    PROVE  Reach'
  <1> USE DEF memory, cloud, history, budget
  <1> DEFINE e == [At("asked") EXCEPT !.cfg.host = host, !.cfg.enabled = enabled]
  <1>1. /\ op[a].mgr = NoMgr /\ op[a].pc \in Waiting /\ Overlap(a, NoMgr)
        /\ UNCHANGED <<row, tunnelMgr, mgr, tunnels, routed, dns, proc>>
        /\ op' = [op EXCEPT ![a] = e]
    BY DEF CheckEdit, Idle, Waiting
  <1>2. Moved(a, "asked", NoMgr)
    <2>1. e.pc = "asked" /\ e.mgr = NoMgr
      BY AtType DEF OpRec, PC
    <2> QED
      BY <1>1, <2>1, TypeOfOp DEF Moved, StateOK
  <1>3. disturbed \subseteq disturbed'
    BY <1>1 DEF Overlap
  <1>4. Alone' /\ "asked" \in Harmless
    BY <1>1, <1>2, <1>3, AloneKept DEF Reach, Harmless
  <1>5. Frame(a)
    BY <1>1 DEF Frame
  <1> QED
    BY <1>1, <1>2, <1>3, <1>4, <1>5, HarmlessKeepsReach DEF Reach, PublishedOK


LEMMA ReadForEditReach ==
    ASSUME TypeOK, Inv, Inv', Reach, died' = died, NEW a \in Actor, StateOK',
           NEW ok \in BOOLEAN, ReadForEdit(a, ok)
    PROVE  Reach'
  <1> USE DEF memory, cloud, history, budget
  <1> DEFINE cfg == Edited(row, op[a].cfg.host, op[a].cfg.enabled)
  <1>1. /\ op[a].pc = "asked" /\ op[a].mgr = NoMgr /\ op[a].pc \notin Waiting
        /\ UNCHANGED <<row, tunnelMgr, mgr, tunnels, routed, dns, proc, disturbed>>
    BY OperationFacts DEF ReadForEdit, Waiting, PositionOK, Free
  <1>2. PICK pc \in {"edit", "idle"} :
            /\ Moved(a, pc, NoMgr)
            /\ pc = "edit" => op'[a].cfg.status = row.status
    <2>1. CASE Finish(a)
      BY <2>1, FinishMoves
    <2>2. CASE ~Finish(a)
      <3>1. op' = [op EXCEPT ![a].pc = "edit", ![a].cfg = cfg]
        BY <2>2 DEF ReadForEdit
      <3>2. cfg.status = row.status
        BY DEF Edited, TypeOK, Config
      <3>3. op'[a].pc = "edit" /\ op'[a].mgr = NoMgr /\ op'[a].cfg = cfg
        BY <1>1, <3>1, TypeOfOp DEF OpRec
      <3>4. \A b \in Actor : b # a => op'[b] = op[b]
        BY <3>1, TypeOfOp
      <3> QED
        BY <3>2, <3>3, <3>4 DEF Moved, StateOK
    <2> QED
      BY <2>1, <2>2
  <1>3. Alone' /\ pc \in Harmless
    BY <1>1, <1>2, AloneKept DEF Reach, Waiting, Harmless
  <1>4. Frame(a)
    BY <1>1 DEF Frame
  <1> QED
    BY <1>1, <1>2, <1>3, <1>4, HarmlessKeepsReach DEF Reach, PublishedOK


LEMMA SaveEditReach ==
    ASSUME TypeOK, Inv, Inv', Reach, died' = died, NEW a \in Actor,
           NEW saved \in BOOLEAN, SaveEdit(a, saved)
    PROVE  Reach'
  <1> USE DEF memory, cloud, history, budget
  <1>1. /\ op[a].pc = "edit" /\ op[a].pc \notin Waiting /\ row' \in {row, op[a].cfg}
        /\ UNCHANGED <<tunnelMgr, mgr, tunnels, routed, dns, proc, disturbed>>
    BY DEF SaveEdit, Waiting
  <1>2. Moved(a, "idle", NoMgr)
    BY FinishMoves DEF SaveEdit
  <1>3. Alone' /\ "idle" \in Harmless
    BY <1>1, <1>2, AloneKept DEF Reach, Waiting, Harmless
  <1>4. Frame(a)
    BY <1>1 DEF Frame
  <1>5. tunnelMgr \notin disturbed \cup {NoMgr} => row'.status = "running"
    BY <1>1 DEF Reach, PublishedOK
  <1> QED
    BY <1>1, <1>2, <1>3, <1>4, <1>5, HarmlessKeepsReach


LEMMA ExitReach ==
    ASSUME Reach, NEW m \in proc, Exit(m)
    PROVE  Reach'
  <1> USE DEF memory, history
  <1>1. UNCHANGED <<row, tunnelMgr, mgr, tunnels, routed, dns, op, disturbed>>
    BY DEF Exit
  <1>2. proc' \cup died' = proc \cup died
    BY DEF Exit
  <1> QED
    BY <1>1, <1>2 DEF Reach, Alone, ProgressOK, PublishedOK

LEMMA NobodyReach ==
    ASSUME op' = Booting, tunnelMgr' = NoMgr
    PROVE  Reach'
  <1>1. \A a \in Actor : op'[a].mgr = NoMgr /\ op'[a].pc \in Free
    BY BootingFacts
  <1>2. \A a \in Actor : ProgressOK(a)'
    BY <1>1, NoProgress DEF Free, HasTunnel
  <1> QED
    BY <1>1, <1>2 DEF Reach, Alone, PublishedOK

LEMMA ReachStep ==
    ASSUME TypeOK, TypeOK', Inv, Inv', Reach, [Next]_vars
    PROVE  Reach'
  <1> USE DEF memory, cloud, history, budget
  <1>0. /\ StateOK'
        /\ Works => died' = died
        /\ \A ok \in BOOLEAN : Counted(ok) => died' = died
    BY TypePartsPrime DEF Works, Counted
  <1>1. ASSUME NEW a \in Actor, StartStep(a) PROVE Reach'
    BY <1>0, <1>1, CheckNotRunningReach, ReadConfigReach, PublishReach, CreateTunnelReach,
       UpdateTunnelConfigReach, DeleteOtherReach, CreateDNSRecordReach, CleanupTunnelReach,
       FindRecordReach, FindCreatedReach, LaunchReach, SaveErrorReach, SaveRunningReach
    DEF StartStep
  <1>2. ASSUME NEW a \in Actor, StopStep(a) PROVE Reach'
    BY <1>0, <1>2, TakeManagerReach, KillProcessReach, CleanupDNSReach, StopTunnelReach,
       LoadConfigReach, SaveStoppedReach
    DEF StopStep
  <1>3. ASSUME NEW a \in Actor, EditStep(a) PROVE Reach'
    BY <1>0, <1>3, CheckEditReach, ReadForEditReach, SaveEditReach DEF EditStep
  <1>4. CASE BootStep
    BY <1>0, <1>4, AutoStartReach, SaveFromEnvReach DEF BootStep
  <1>5. ASSUME NEW alive, Restart(alive) PROVE Reach'
    BY <1>5, NobodyReach DEF Restart
  <1>6. ASSUME NEW m \in proc, Exit(m) PROVE Reach'
    BY <1>6, ExitReach
  <1>7. CASE UNCHANGED vars
    BY <1>7 DEF vars, Reach, Alone, ProgressOK, PublishedOK
  <1> QED
    BY <1>1, <1>2, <1>3, <1>4, <1>5, <1>6, <1>7 DEF Next

(* The published tunnel, unless another operation overlapped with its      *)
(* start or its life, exists, is routed and has the record of its host;    *)
(* its cloudflared was started and only its own end can have ended it; and *)
(* the row says that it runs.                                              *)
THEOREM RunningReachableHolds == Spec => []RunningReachable
  <1>1. Init => Reach
    <2> SUFFICES ASSUME Init PROVE Reach
      OBVIOUS
    <2>1. \A a \in Actor : op[a].mgr = NoMgr /\ op[a].pc \in Free
      BY BootingFacts DEF Init
    <2>2. \A a \in Actor : ProgressOK(a)
      BY <2>1 DEF ProgressOK, Free, HasTunnel, HasRoute, HasRecord
    <2> QED
      BY <2>1, <2>2 DEF Init, Reach, Alone, PublishedOK
  <1>2. (TypeOK /\ Inv) /\ (TypeOK /\ Inv)' /\ Reach /\ [Next]_vars => Reach'
    BY ReachStep
  <1>3. TypeOK /\ Reach => RunningReachable
    BY DEF Reach, PublishedOK, RunningReachable
  <1> QED
    BY <1>1, <1>2, <1>3, InvHolds, PTL DEF Spec

------------------------------------------------------------------------------
(* What a stop leaves behind.                                              *)
(*                                                                         *)
(* A record that points to a tunnel is at the host of its manager, which   *)
(* knows it by its number, or knows only that there is one (Unnamed): a    *)
(* manager that remembers another record, or none, has none left.  Before  *)
(* the second search there is only the host to know it by, and before it   *)
(* is created there is no record of a start this young.                    *)
Unlinked == {"config", "create", "route", "find", "replace", "point"}
Linking == {"launch", "save", "publish", "kill", "unlink", "delete",
            "abort", "unlinkNew", "deleteNew"}
Leaving == {"load", "stopped"}

NoRecordOf(m) == \A h \in Host : dns[h] # m
RecordAtHost(m) == \A h \in Host : dns[h] = m => h = mgr[m].host
Linked(m) ==
    /\ RecordAtHost(m)
    /\ mgr[m].record \notin {m, Unnamed} => NoRecordOf(m)

LinkOK(a) ==
    LET pc == op[a].pc
        m == op[a].mgr
    IN  /\ pc \in Unlinked => NoRecordOf(m)
        /\ pc = "refind" => RecordAtHost(m)
        /\ pc \in Linking => Linked(m)

(* Nobody works on a manager again after its stop.                         *)
Gone(m) ==
    /\ m <= started /\ m \notin tunnels \cup proc /\ tunnelMgr # m
    /\ \A a \in Actor : op[a].mgr = m => op[a].pc \in Leaving
    /\ Linked(m)

Trail ==
    /\ \A h \in Host : dns[h] \in Mgr => dns[h] <= started
    /\ tunnelMgr # NoMgr => Linked(tunnelMgr)
    /\ \A a \in Actor : LinkOK(a)
    /\ \A m \in stopped : Gone(m)

(* A manager nobody touched is linked as before: its records can only have *)
(* been taken away.                                                        *)
LEMMA LinkedKept ==
    ASSUME NEW m, mgr'[m].host = mgr[m].host, mgr'[m].record = mgr[m].record,
           \A h \in Host : dns'[h] = m => dns[h] = m
    PROVE  /\ NoRecordOf(m) => NoRecordOf(m)'
           /\ RecordAtHost(m) => RecordAtHost(m)'
           /\ Linked(m) => Linked(m)'
  <1> QED
    BY DEF Linked, RecordAtHost, NoRecordOf

LEMMA NotGone ==
    ASSUME TypeOK, Trail, NEW a \in Actor, op[a].pc \notin Leaving
    PROVE  op[a].mgr \notin stopped
  <1> QED
    BY DEF Trail, Gone

(* What an operation touches of its own manager is for the caller to show; *)
(* everybody else keeps the invariant.                                     *)
LEMMA OwnTrail ==
    ASSUME TypeOK, Inv, Trail, NEW a \in Actor, NEW m, m = op[a].mgr,
           NEW pc, NEW k \in {m, NoMgr}, Moved(a, pc, k),
           tunnelMgr' = tunnelMgr, started' = started,
           stopped' \subseteq Mgr, stopped' \subseteq stopped \cup {m},
           \A n \in Mgr : n # m =>
               /\ n \in tunnels' => n \in tunnels
               /\ n \in proc' => n \in proc
               /\ mgr'[n].host = mgr[n].host /\ mgr'[n].record = mgr[n].record
               /\ \A h \in Host : dns'[h] = n => dns[h] = n,
           LinkOK(a)',
           m \in stopped' => Gone(m)'
    PROVE  Trail'
  <1>1. op'[a].pc = pc /\ op'[a].mgr = k /\ \A b \in Actor : b # a => op'[b] = op[b]
    BY DEF Moved
  <1>2. \A b \in Actor : op[b].mgr \in Mgr \cup {NoMgr} /\ op[b].mgr <= started
    BY TypeOfOp DEF OpRec, Inv, Known
  <1>3. ASSUME NEW n \in Mgr, n # m
        PROVE  /\ NoRecordOf(n) => NoRecordOf(n)'
               /\ RecordAtHost(n) => RecordAtHost(n)'
               /\ Linked(n) => Linked(n)'
    BY <1>3, LinkedKept
  <1>4. \A h \in Host : dns'[h] \in Mgr => dns'[h] <= started'
    BY <1>2 DEF Trail
  <1>5. tunnelMgr' # NoMgr => Linked(tunnelMgr)'
    <2>1. tunnelMgr # NoMgr => tunnelMgr \in Mgr /\ tunnelMgr # m
      BY DEF Inv, Unpublished, TypeOK
    <2>2. tunnelMgr # NoMgr => Linked(tunnelMgr)
      BY DEF Trail
    <2>3. ASSUME tunnelMgr # NoMgr PROVE Linked(tunnelMgr)'
      <3>1. PICK n \in Mgr : n = tunnelMgr /\ n # m /\ Linked(n)
        BY <2>1, <2>2, <2>3
      <3>2. Linked(n)'
        BY <3>1, <1>3
      <3> QED
        BY <3>1, <3>2 DEF Linked, RecordAtHost, NoRecordOf
    <2> QED
      BY <2>3
  <1>6. ASSUME NEW b \in Actor, b # a PROVE LinkOK(b)'
    <2>1. op'[b] = op[b] /\ LinkOK(b)
      BY <1>1, <1>6 DEF Trail
    <2>2. op[b].pc \in Working => op[b].mgr \in Mgr /\ op[b].mgr # m
      BY <1>6, OperationFacts, Constants DEF Inv, Distinct
    <2>3. Unlinked \cup Linking \cup {"refind"} \subseteq Working
      BY DEF Unlinked, Linking, Working, Free, PC
    <2>4. CASE op[b].pc \in Working
      <3>1. PICK n \in Mgr : n = op[b].mgr /\ n # m
        BY <2>2, <2>4
      <3>2. /\ NoRecordOf(n) => NoRecordOf(n)'
            /\ RecordAtHost(n) => RecordAtHost(n)'
            /\ Linked(n) => Linked(n)'
        BY <3>1, <1>3
      <3> QED
        BY <2>1, <3>1, <3>2 DEF LinkOK, Linked, RecordAtHost, NoRecordOf
    <2>5. CASE op[b].pc \notin Working
      BY <2>1, <2>3, <2>5 DEF LinkOK
    <2> QED
      BY <2>4, <2>5
  <1>7. ASSUME NEW n \in stopped', n # m PROVE Gone(n)'
    <2>1. n \in stopped /\ n \in Mgr /\ n # NoMgr
      BY <1>7, Constants
    <2>2. Gone(n)
      BY <2>1 DEF Trail
    <2>3. \A b \in Actor : op'[b].mgr = n => op'[b].pc \in Leaving
      BY <1>1, <1>7, <2>1, <2>2 DEF Gone
    <2>4. Linked(n)'
      BY <1>3, <1>7, <2>1, <2>2 DEF Gone
    <2> QED
      BY <1>7, <2>1, <2>2, <2>3, <2>4 DEF Gone
  <1> QED
    BY <1>4, <1>5, <1>6, <1>7 DEF Trail

(* The operation goes on, or ends, and no record changes hands.            *)
LEMMA StayTrail ==
    ASSUME TypeOK, Inv, Trail, NEW a \in Actor, NEW m, m = op[a].mgr,
           NEW pc, NEW k \in {m, NoMgr}, Moved(a, pc, k),
           UNCHANGED <<tunnelMgr, started, stopped, dns>>,
           \A n \in Mgr :
               /\ n # m => (n \in tunnels' => n \in tunnels) /\ (n \in proc' => n \in proc)
               /\ mgr'[n].host = mgr[n].host \/ (pc \in Unlinked /\ n = m)
               /\ mgr'[n].record = mgr[n].record,
           op[a].pc \in Leaving => UNCHANGED <<tunnels, proc>>,
           pc \in Unlinked => op[a].pc \in Unlinked /\ k = m,
           pc \in Linking => op[a].pc \in Linking /\ k = m,
           pc # "refind",
           op[a].pc \in Leaving => pc \in Leaving \/ k = NoMgr
    PROVE  Trail'
  <1>1. op'[a].pc = pc /\ op'[a].mgr = k /\ \A b \in Actor : b # a => op'[b] = op[b]
    BY DEF Moved
  <1>2. stopped' \subseteq Mgr
    BY DEF TypeOK
  <1>3. LinkOK(a) /\ (op[a].pc \in Working => m \in Mgr)
    BY OperationFacts DEF Trail
  <1>4. LinkOK(a)'
    <2>1. CASE pc \in Unlinked
      <3>1. NoRecordOf(m)
        BY <1>3, <2>1 DEF LinkOK
      <3> QED
        BY <1>1, <2>1, <3>1 DEF LinkOK, Unlinked, Linking, NoRecordOf
    <2>2. CASE pc \in Linking
      <3>1. Linked(m) /\ m \in Mgr
        BY <1>3, <2>2 DEF LinkOK, Linking, Working, Free, PC
      <3>2. Linked(m)'
        BY <2>2, <3>1, LinkedKept DEF Linking, Unlinked
      <3> QED
        BY <1>1, <2>2, <3>2 DEF LinkOK, Unlinked, Linking, Linked, RecordAtHost, NoRecordOf
    <2>3. CASE pc \notin Unlinked \cup Linking
      BY <1>1, <2>3 DEF LinkOK
    <2> QED
      BY <2>1, <2>2, <2>3
  <1>5. ASSUME m \in stopped' PROVE Gone(m)'
    <2>1. m \in Mgr /\ m # NoMgr /\ Gone(m)
      BY <1>2, <1>5, Constants DEF Trail
    <2>2. op[a].pc \in Leaving
      BY <2>1 DEF Gone
    <2>3. \A b \in Actor : op'[b].mgr = m => op'[b].pc \in Leaving
      BY <1>1, <2>1, <2>2 DEF Gone
    <2>4. Linked(m)'
      <3>1. pc \notin Unlinked
        BY <2>2 DEF Unlinked, Leaving
      <3> QED
        BY <2>1, <3>1, LinkedKept DEF Gone
    <2> QED
      BY <2>1, <2>2, <2>3, <2>4 DEF Gone
  <1>6. \A n \in Mgr : n # m =>
            /\ n \in tunnels' => n \in tunnels
            /\ n \in proc' => n \in proc
            /\ mgr'[n].host = mgr[n].host /\ mgr'[n].record = mgr[n].record
            /\ \A h \in Host : dns'[h] = n => dns[h] = n
    OBVIOUS
  <1>7. stopped' \subseteq stopped \cup {m} /\ tunnelMgr' = tunnelMgr /\ started' = started
    OBVIOUS
  <1> QED
    BY ONLY TypeOK, Inv, Trail, m = op[a].mgr, k \in {m, NoMgr}, Moved(a, pc, k),
       <1>2, <1>4, <1>5, <1>6, <1>7, OwnTrail

LEMMA SameManagers ==
    ASSUME TypeOK, NEW m, NEW b,
           mgr' = mgr \/ mgr' = [mgr EXCEPT ![m].tunnel = b]
    PROVE  \A n \in Mgr : mgr'[n].host = mgr[n].host /\ mgr'[n].record = mgr[n].record
  <1>1. mgr \in [Mgr -> MgrRec]
    BY TypeOfOp
  <1>2. \A n \in Mgr : /\ [mgr[n] EXCEPT !.tunnel = b].host = mgr[n].host
                       /\ [mgr[n] EXCEPT !.tunnel = b].record = mgr[n].record
    BY <1>1 DEF MgrRec
  <1> QED
    BY <1>1, <1>2

LEMMA AutoStartTrail ==
    ASSUME TypeOK, Inv, Trail, AutoStart
    PROVE  Trail'
  <1> USE DEF memory, cloud, history, budget
  <1>1. Starter \in Actor /\ op[Starter].pc = "boot"
    BY DEF Actor, AutoStart
  <1>2. PICK pc \in {"check", "idle"}, k \in {op[Starter].mgr, NoMgr} : Moved(Starter, pc, k)
    BY <1>1, FinishMoves, GoOnMoves DEF AutoStart, PC
  <1> QED
    BY <1>1, <1>2, StayTrail DEF AutoStart, Unlinked, Linking, Leaving

LEMMA SaveFromEnvTrail ==
    ASSUME TypeOK, Inv, Trail, NEW saved \in BOOLEAN, SaveFromEnv(saved)
    PROVE  Trail'
  <1> USE DEF memory, cloud, history, budget
  <1>1. Main \in Actor /\ op[Main].pc = "env"
    BY DEF Actor, SaveFromEnv
  <1>2. Moved(Main, "check", op[Main].mgr)
    BY <1>1, GoOnMoves DEF SaveFromEnv, PC
  <1> QED
    BY <1>1, <1>2, StayTrail DEF SaveFromEnv, Unlinked, Linking, Leaving

LEMMA CreateTunnelTrail ==
    ASSUME TypeOK, Inv, Trail, NEW a \in Actor, NEW o \in Outcome, CreateTunnel(a, o)
    PROVE  Trail'
  <1> USE DEF memory, cloud, history, budget
  <1>1. PICK pc \in {"route", "failed"} : GoOn(a, pc)
    BY DEF CreateTunnel, AfterCreate
  <1>2. Moved(a, pc, op[a].mgr) /\ op[a].pc = "create"
    BY <1>1, GoOnMoves DEF PC, CreateTunnel
  <1>3. \A n \in Mgr : mgr'[n].host = mgr[n].host /\ mgr'[n].record = mgr[n].record
    BY SameManagers DEF CreateTunnel
  <1>4. /\ \A n \in Mgr : n # op[a].mgr => (n \in tunnels' => n \in tunnels)
        /\ UNCHANGED <<tunnelMgr, started, stopped, dns, proc>>
    BY DEF CreateTunnel
  <1> QED
    BY ZenonT(60), <1>2, <1>3, <1>4, StayTrail DEF Unlinked, Linking, Leaving

LEMMA UpdateTunnelConfigTrail ==
    ASSUME TypeOK, Inv, Trail, NEW a \in Actor, NEW o \in Outcome, UpdateTunnelConfig(a, o)
    PROVE  Trail'
  <1> USE DEF memory, cloud, history, budget
  <1>1. PICK pc \in {"find", "undo"} : GoOn(a, pc)
    BY DEF UpdateTunnelConfig, AfterRoute
  <1>2. Moved(a, pc, op[a].mgr) /\ op[a].pc = "route"
    BY <1>1, GoOnMoves DEF PC, UpdateTunnelConfig
  <1> QED
    BY <1>1, <1>2, StayTrail DEF UpdateTunnelConfig, Unlinked, Linking, Leaving

LEMMA LaunchTrail ==
    ASSUME TypeOK, Inv, Trail, NEW a \in Actor, NEW ok \in BOOLEAN, Launch(a, ok)
    PROVE  Trail'
  <1> USE DEF memory, cloud, history, budget
  <1>1. PICK pc \in {"save", "undo"} : GoOn(a, pc)
    BY DEF Launch
  <1>2. Moved(a, pc, op[a].mgr) /\ op[a].pc = "launch"
    BY <1>1, GoOnMoves DEF PC, Launch
  <1>3. /\ \A n \in Mgr : n # op[a].mgr => (n \in proc' => n \in proc)
        /\ UNCHANGED <<tunnelMgr, started, stopped, dns, tunnels, mgr>>
    BY DEF Launch
  <1> QED
    BY <1>1, <1>2, <1>3, StayTrail DEF Unlinked, Linking, Leaving

LEMMA CleanupTunnelTrail ==
    ASSUME TypeOK, Inv, Trail, NEW a \in Actor, NEW o \in Outcome, CleanupTunnel(a, o)
    PROVE  Trail'
  <1> USE DEF memory, cloud, history, budget
  <1>1. Moved(a, "failed", op[a].mgr) /\ op[a].pc = "undo"
    BY GoOnMoves DEF PC, CleanupTunnel
  <1>2. \A n \in Mgr : mgr'[n].host = mgr[n].host /\ mgr'[n].record = mgr[n].record
    BY SameManagers DEF CleanupTunnel
  <1>3. /\ tunnels' \subseteq tunnels
        /\ UNCHANGED <<tunnelMgr, started, stopped, dns, proc>>
    BY DEF CleanupTunnel, DropTunnel
  <1> QED
    BY <1>1, <1>2, <1>3, StayTrail DEF Unlinked, Linking, Leaving

LEMMA SaveErrorTrail ==
    ASSUME TypeOK, Inv, Trail, NEW a \in Actor, NEW saved \in BOOLEAN, SaveError(a, saved)
    PROVE  Trail'
  <1> USE DEF memory, cloud, history, budget
  <1>1. Moved(a, "idle", NoMgr) /\ op[a].pc = "failed"
    BY FinishMoves DEF SaveError
  <1> QED
    BY <1>1, StayTrail DEF SaveError, Unlinked, Linking, Leaving

LEMMA SaveRunningTrail ==
    ASSUME TypeOK, Inv, Trail, NEW a \in Actor, NEW saved \in BOOLEAN, SaveRunning(a, saved)
    PROVE  Trail'
  <1> USE DEF memory, cloud, history, budget
  <1>1. PICK pc \in {"publish", "abort"} : GoOn(a, pc)
    BY DEF SaveRunning, AfterSave
  <1>2. Moved(a, pc, op[a].mgr) /\ op[a].pc = "save"
    BY <1>1, GoOnMoves DEF PC, SaveRunning
  <1> QED
    BY <1>1, <1>2, StayTrail DEF SaveRunning, Unlinked, Linking, Leaving

LEMMA KillProcessTrail ==
    ASSUME TypeOK, Inv, Trail, NEW a \in Actor, KillProcess(a)
    PROVE  Trail'
  <1> USE DEF memory, cloud, history, budget
  <1>1. PICK pc \in {"unlink", "unlinkNew"} : GoOn(a, pc)
    BY DEF KillProcess
  <1>2. Moved(a, pc, op[a].mgr) /\ op[a].pc \in {"kill", "abort"}
    BY <1>1, GoOnMoves DEF PC, KillProcess
  <1>3. proc' \subseteq proc /\ UNCHANGED <<tunnelMgr, started, stopped, dns, tunnels, mgr>>
    BY DEF KillProcess
  <1> QED
    BY <1>1, <1>2, <1>3, StayTrail DEF Unlinked, Linking, Leaving

LEMMA LoadConfigTrail ==
    ASSUME TypeOK, Inv, Trail, NEW a \in Actor, NEW ok \in BOOLEAN, LoadConfig(a, ok)
    PROVE  Trail'
  <1> USE DEF memory, cloud, history, budget
  <1>1. op[a].pc = "load"
    BY DEF LoadConfig
  <1>2. CASE ok
    <2> DEFINE e == [op[a] EXCEPT !.pc = "stopped", !.cfg = row]
    <2>1. e \in OpRec /\ e.pc = "stopped" /\ e.mgr = op[a].mgr
      BY ZenonT(60), OperationFacts DEF OpRec, PC, TypeOK
    <2>2. op' = [op EXCEPT ![a] = e]
      BY <1>2, TypeOfOp DEF LoadConfig
    <2>3. Moved(a, "stopped", op[a].mgr)
      BY <2>1, <2>2, SetMoves
    <2> QED
      BY <1>1, <2>3, StayTrail DEF LoadConfig, Unlinked, Linking, Leaving
  <1>3. CASE ~ok
    <2>1. Moved(a, "idle", NoMgr)
      BY <1>3, FinishMoves DEF LoadConfig
    <2> QED
      BY <1>1, <2>1, StayTrail DEF LoadConfig, Unlinked, Linking, Leaving
  <1> QED
    BY <1>2, <1>3

LEMMA SaveStoppedTrail ==
    ASSUME TypeOK, Inv, Trail, NEW a \in Actor, NEW saved \in BOOLEAN, SaveStopped(a, saved)
    PROVE  Trail'
  <1> USE DEF memory, cloud, history, budget
  <1>1. Moved(a, "idle", NoMgr) /\ op[a].pc = "stopped"
    BY FinishMoves DEF SaveStopped
  <1> QED
    BY <1>1, StayTrail DEF SaveStopped, Unlinked, Linking, Leaving

LEMMA SaveEditTrail ==
    ASSUME TypeOK, Inv, Trail, NEW a \in Actor, NEW saved \in BOOLEAN, SaveEdit(a, saved)
    PROVE  Trail'
  <1> USE DEF memory, cloud, history, budget
  <1>1. Moved(a, "idle", NoMgr) /\ op[a].pc = "edit"
    BY FinishMoves DEF SaveEdit
  <1> QED
    BY <1>1, StayTrail DEF SaveEdit, Unlinked, Linking, Leaving

LEMMA CheckEditTrail ==
    ASSUME TypeOK, Inv, Trail, NEW a \in Actor, NEW host \in Host \cup {NoHost},
           NEW enabled \in BOOLEAN, CheckEdit(a, host, enabled)
    PROVE  Trail'
  <1> USE DEF memory, cloud, history, budget
  <1> DEFINE e == [At("asked") EXCEPT !.cfg.host = host, !.cfg.enabled = enabled]
  <1>1. op[a].pc = "idle"
    BY DEF CheckEdit, Idle
  <1>2. e \in OpRec /\ e.pc = "asked" /\ e.mgr = NoMgr
    <2>1. At("asked") \in OpRec /\ At("asked").pc = "asked" /\ At("asked").mgr = NoMgr
      BY AtType DEF PC
    <2> QED
      BY <2>1 DEF OpRec, Config
  <1>3. Moved(a, "asked", NoMgr)
    BY <1>2, SetMoves DEF CheckEdit
  <1> QED
    BY <1>1, <1>3, StayTrail DEF CheckEdit, Unlinked, Linking, Leaving

LEMMA ReadForEditTrail ==
    ASSUME TypeOK, Inv, Trail, NEW a \in Actor, NEW ok \in BOOLEAN, StateOK',
           ReadForEdit(a, ok)
    PROVE  Trail'
  <1> USE DEF memory, cloud, history, budget
  <1>1. op[a].pc = "asked"
    BY DEF ReadForEdit
  <1>2. PICK pc \in {"edit", "idle"}, k \in {op[a].mgr, NoMgr} : Moved(a, pc, k)
    <2>1. CASE Finish(a)
      BY <2>1, FinishMoves
    <2>2. CASE ~Finish(a)
      BY <2>2, TypeOfOp DEF ReadForEdit, Moved, StateOK, OpRec
    <2> QED
      BY <2>1, <2>2
  <1> QED
    BY <1>1, <1>2, StayTrail DEF ReadForEdit, Unlinked, Linking, Leaving

LEMMA ReadConfigTrail ==
    ASSUME TypeOK, Inv, Trail, NEW a \in Actor, ReadConfig(a)
    PROVE  Trail'
  <1> USE DEF memory, cloud, history, budget
  <1>1. op[a].pc = "config"
    BY DEF ReadConfig
  <1>2. CASE row.host = NoHost
    <2>1. Moved(a, "idle", NoMgr)
      BY <1>2, FinishMoves DEF ReadConfig
    <2> QED
      BY <1>1, <1>2, <2>1, StayTrail DEF ReadConfig, Unlinked, Linking, Leaving
  <1>3. CASE row.host # NoHost
    <2> DEFINE e == [op[a] EXCEPT !.pc = "create", !.cfg = row]
    <2>1. e \in OpRec /\ e.pc = "create" /\ e.mgr = op[a].mgr
      BY ZenonT(60), OperationFacts DEF OpRec, PC, TypeOK
    <2>2. op' = [op EXCEPT ![a] = e]
      BY <1>3, TypeOfOp DEF ReadConfig
    <2>3. Moved(a, "create", op[a].mgr)
      BY <2>1, <2>2, SetMoves
    <2>4. \A n \in Mgr : /\ mgr'[n].host = mgr[n].host \/ n = op[a].mgr
                         /\ mgr'[n].record = mgr[n].record
      BY <1>3, TypeOfOp DEF ReadConfig, MgrRec
    <2> QED
      BY <1>1, <2>3, <2>4, StayTrail DEF ReadConfig, Unlinked, Linking, Leaving
  <1> QED
    BY <1>2, <1>3

(* An operation that is not over yet and changes the records of its host   *)
(* or what its manager knows of them.                                      *)
LEMMA DNSTrail ==
    ASSUME TypeOK, Inv, Trail, NEW a \in Actor, NEW m, m = op[a].mgr,
           NEW pc, Moved(a, pc, m), op[a].pc \notin Leaving,
           UNCHANGED <<tunnelMgr, started, stopped, tunnels, proc>>,
           \A n \in Mgr : n # m => mgr'[n] = mgr[n],
           \A h \in Host : dns'[h] \in {dns[h], NoRecord, m},
           pc \in Unlinked => NoRecordOf(m)',
           pc = "refind" => RecordAtHost(m)',
           pc \in Linking => Linked(m)'
    PROVE  Trail'
  <1>1. LinkOK(a)'
    <2>1. op'[a].pc = pc /\ op'[a].mgr = m
      BY DEF Moved
    <2> QED
      BY <2>1 DEF LinkOK, Linked, RecordAtHost, NoRecordOf
  <1>2. m \notin stopped' /\ stopped' \subseteq Mgr
    BY NotGone DEF TypeOK
  <1>3. \A n \in Mgr : n # m =>
            /\ n \in tunnels' => n \in tunnels
            /\ n \in proc' => n \in proc
            /\ mgr'[n].host = mgr[n].host /\ mgr'[n].record = mgr[n].record
            /\ \A h \in Host : dns'[h] = n => dns[h] = n
    BY Constants
  <1>4. stopped' \subseteq stopped \cup {m} /\ tunnelMgr' = tunnelMgr /\ started' = started
    OBVIOUS
  <1> QED
    BY ONLY TypeOK, Inv, Trail, m = op[a].mgr, Moved(a, pc, m),
       <1>1, <1>2, <1>3, <1>4, OwnTrail

LEMMA FindRecordTrail ==
    ASSUME TypeOK, Inv, Trail, NEW a \in Actor, NEW answered \in BOOLEAN,
           FindRecord(a, answered)
    PROVE  Trail'
  <1> USE DEF memory, cloud, history, budget
  <1> DEFINE r == dns[HostOf(a)]
             to == IF ~answered THEN "undo"
                   ELSE IF RecordToReplace(a, r) THEN "replace"
                   ELSE IF r = NoRecord THEN "point" ELSE "launch"
             e == [op[a] EXCEPT !.pc = to, !.found = IF answered THEN r ELSE NoRecord]
  <1>1. PICK m \in Mgr : m = op[a].mgr
    BY OperationFacts DEF FindRecord, Working, Free, PC
  <1>2. op[a].pc = "find" /\ r \in Record
    BY RecordOfHost DEF FindRecord, Working, Free, PC
  <1>3. PICK pc \in {"undo", "replace", "point", "launch"} : pc = to
    OBVIOUS
  <1>4. e \in OpRec /\ e.pc = pc /\ e.mgr = m
    BY ZenonT(60), <1>1, <1>2, <1>3, OperationFacts DEF OpRec, PC, Record
  <1>5. op' = [op EXCEPT ![a] = e]
    BY TypeOfOp DEF FindRecord
  <1>6. Moved(a, pc, m)
    BY <1>4, <1>5, SetMoves
  <1>7. /\ \A n \in Mgr : n # m => mgr'[n] = mgr[n]
        /\ UNCHANGED <<tunnelMgr, started, stopped, tunnels, proc, dns>>
    BY <1>1, TypeOfOp DEF FindRecord
  <1>8. NoRecordOf(m)
    BY <1>1, <1>2 DEF Trail, LinkOK, Unlinked
  <1>9. NoRecordOf(m)' /\ RecordAtHost(m)' /\ Linked(m)'
    BY <1>7, <1>8 DEF NoRecordOf, RecordAtHost, Linked
  <1> QED
    BY <1>1, <1>2, <1>6, <1>7, <1>9, DNSTrail DEF Leaving

LEMMA DeleteOtherTrail ==
    ASSUME TypeOK, Inv, Trail, NEW a \in Actor, NEW o \in Outcome, DeleteOther(a, o)
    PROVE  Trail'
  <1> USE DEF memory, cloud, history, budget
  <1> DEFINE e == [op[a] EXCEPT !.pc = "point", !.found = NoRecord]
  <1>1. PICK m \in Mgr : m = op[a].mgr
    BY OperationFacts DEF DeleteOther, Working, Free, PC
  <1>2. op[a].pc = "replace"
    BY DEF DeleteOther
  <1>3. e \in OpRec /\ e.pc = "point" /\ e.mgr = m
    BY <1>1, OperationFacts DEF OpRec, PC, Record
  <1>4. op' = [op EXCEPT ![a] = e]
    BY TypeOfOp DEF DeleteOther
  <1>5. Moved(a, "point", m)
    BY <1>3, <1>4, SetMoves
  <1>6. /\ \A h \in Host : dns'[h] \in {dns[h], NoRecord}
        /\ UNCHANGED <<tunnelMgr, started, stopped, tunnels, proc, mgr>>
    BY DEF DeleteOther, Deleted, TypeOK
  <1>7. NoRecordOf(m)
    BY <1>1, <1>2 DEF Trail, LinkOK, Unlinked
  <1>8. NoRecordOf(m)'
    BY <1>6, <1>7, Constants DEF NoRecordOf
  <1> QED
    BY <1>1, <1>2, <1>5, <1>6, <1>8, DNSTrail DEF Leaving, Linking

LEMMA CreateDNSRecordTrail ==
    ASSUME TypeOK, Inv, Trail, NEW a \in Actor, NEW o \in Outcome, CreateDNSRecord(a, o)
    PROVE  Trail'
  <1> USE DEF memory, cloud, history, budget
  <1>1. PICK m \in Mgr : m = op[a].mgr
    BY OperationFacts DEF CreateDNSRecord, Working, Free, PC
  <1>2. PICK pc \in {"refind", "undo"} : GoOn(a, pc)
    BY DEF CreateDNSRecord
  <1>3. Moved(a, pc, m) /\ op[a].pc = "point"
    BY <1>1, <1>2, GoOnMoves DEF PC, CreateDNSRecord
  <1>4. /\ \A h \in Host : dns'[h] = dns[h] \/ (h = HostOf(a) /\ dns'[h] = m)
        /\ UNCHANGED <<tunnelMgr, started, stopped, tunnels, proc, mgr>>
    BY <1>1 DEF CreateDNSRecord, TypeOK
  <1>5. NoRecordOf(m)
    BY <1>1, <1>3 DEF Trail, LinkOK, Unlinked
  <1>6. RecordAtHost(m)'
    BY <1>1, <1>4, <1>5 DEF RecordAtHost, NoRecordOf, HostOf
  <1> QED
    BY <1>1, <1>3, <1>4, <1>6, DNSTrail DEF Leaving, Linking, Unlinked

LEMMA FindCreatedTrail ==
    ASSUME TypeOK, Inv, Trail, NEW a \in Actor, NEW answered \in BOOLEAN,
           FindCreated(a, answered)
    PROVE  Trail'
  <1> USE DEF memory, cloud, history, budget
  <1> DEFINE r == dns[HostOf(a)]
  <1>1. PICK m \in Mgr : m = op[a].mgr
    BY OperationFacts DEF FindCreated, Working, Free, PC
  <1>2. Moved(a, "launch", m) /\ op[a].pc = "refind"
    BY <1>1, GoOnMoves DEF PC, FindCreated
  <1>3. mgr \in [Mgr -> MgrRec] /\ mgr[m] \in MgrRec
    BY TypeOfOp
  <1>4. /\ \A n \in Mgr : n # m => mgr'[n] = mgr[n]
        /\ mgr'[m].host = mgr[m].host
        /\ mgr'[m].record = IF answered /\ r # NoRecord THEN r ELSE Unnamed
        /\ UNCHANGED <<tunnelMgr, started, stopped, tunnels, proc, dns>>
    BY <1>1, <1>3 DEF FindCreated, MgrRec
  <1>5. RecordAtHost(m)
    BY <1>1, <1>2 DEF Trail, LinkOK
  <1>6. Linked(m)'
    BY <1>1, <1>4, <1>5 DEF Linked, RecordAtHost, NoRecordOf, HostOf
  <1> QED
    BY <1>1, <1>2, <1>4, <1>6, DNSTrail DEF Leaving, Unlinked

LEMMA CleanupDNSTrail ==
    ASSUME TypeOK, Inv, Trail, NEW a \in Actor, NEW found \in BOOLEAN, NEW o \in Outcome,
           CleanupDNS(a, found, o)
    PROVE  Trail'
  <1> USE DEF memory, cloud, history, budget
  <1> DEFINE r == KnownRecord(a, found)
             to == IF op[a].pc = "unlink" THEN "delete" ELSE "deleteNew"
             e == [op[a] EXCEPT !.pc = to, !.err = (r # NoRecord /\ ~Forgotten(o))]
  <1>1. PICK m \in Mgr : m = op[a].mgr
    BY OperationFacts DEF CleanupDNS, Working, Free, PC
  <1>2. op[a].pc \in {"unlink", "unlinkNew"}
    BY DEF CleanupDNS
  <1>3. PICK pc \in {"delete", "deleteNew"} : pc = to
    OBVIOUS
  <1>4. e \in OpRec /\ e.pc = pc /\ e.mgr = m
    BY <1>1, <1>3, OperationFacts DEF OpRec, PC
  <1>5. op' = [op EXCEPT ![a] = e]
    BY TypeOfOp DEF CleanupDNS
  <1>6. Moved(a, pc, m)
    BY <1>4, <1>5, SetMoves
  <1>7. mgr \in [Mgr -> MgrRec] /\ mgr[m] \in MgrRec /\ mgr[m].host \in Host
    BY <1>1, <1>2, TypeOfOp, OperationFacts DEF PositionOK, Working, Free, PC
  <1>8. /\ \A n \in Mgr : n # m => mgr'[n] = mgr[n]
        /\ mgr'[m].host = mgr[m].host
        /\ mgr'[m].record = IF r = NoRecord THEN mgr[m].record
                            ELSE IF Forgotten(o) THEN NoRecord ELSE r
        /\ UNCHANGED <<tunnelMgr, started, stopped, tunnels, proc>>
    BY <1>1, <1>7 DEF CleanupDNS, MgrRec
  <1>9. /\ dns' = IF r # NoRecord /\ Done(o) THEN Deleted(mgr[m].host, r) ELSE dns
        /\ \A h \in Host : dns'[h] \in {dns[h], NoRecord}
        /\ r # NoRecord /\ Done(o) => dns'[mgr[m].host] # r
    BY <1>1, <1>7 DEF CleanupDNS, Deleted, TypeOK
  <1>10. Linked(m)
    BY <1>1, <1>2 DEF Trail, LinkOK, Linking
  <1>11. RecordAtHost(m)'
    BY <1>8, <1>9, <1>10, Constants DEF Linked, RecordAtHost
  <1>12. ASSUME mgr'[m].record \notin {m, Unnamed} PROVE NoRecordOf(m)'
    <2>1. CASE NoRecordOf(m)
      BY <1>9, <2>1, Constants DEF NoRecordOf
    <2>2. CASE ~NoRecordOf(m)
      <3>1. mgr[m].record \in {m, Unnamed} /\ dns[mgr[m].host] = m
        BY <1>10, <2>2 DEF Linked, RecordAtHost, NoRecordOf
      <3>2. r \in {m, NoRecord}
        BY <1>1, <3>1 DEF KnownRecord
      <3>3. r = m /\ Forgotten(o)
        BY <1>8, <1>12, <3>1, <3>2
      <3>4. dns'[mgr[m].host] # m
        BY <1>9, <3>3, Constants DEF Forgotten, Done
      <3> QED
        BY <1>8, <1>11, <3>4 DEF RecordAtHost, NoRecordOf
    <2> QED
      BY <2>1, <2>2
  <1>13. Linked(m)'
    BY <1>11, <1>12 DEF Linked
  <1> QED
    BY <1>1, <1>2, <1>6, <1>8, <1>9, <1>13, DNSTrail DEF Leaving, Unlinked

LEMMA StopTunnelTrail ==
    ASSUME TypeOK, Inv, Trail, NEW a \in Actor, NEW o \in Outcome, StopTunnel(a, o)
    PROVE  Trail'
  <1> USE DEF memory, cloud, history, budget
  <1>1. PICK m \in Mgr : m = op[a].mgr /\ m # NoMgr
    BY OperationFacts, Constants DEF StopTunnel, Working, Free, PC
  <1>2. op[a].pc \in {"delete", "deleteNew"} /\ m \notin proc
    BY <1>1, OperationFacts DEF StopTunnel, PositionOK, MayRun
  <1>3. PICK pc \in {"load", "idle"}, k \in {m, NoMgr} :
            Moved(a, pc, k) /\ (pc = "idle" => k = NoMgr)
    BY <1>1, GoOnMoves, FinishMoves DEF StopTunnel, PC
  <1>4. op'[a].pc = pc /\ op'[a].mgr = k /\ \A b \in Actor : b # a => op'[b] = op[b]
    BY <1>3 DEF Moved
  <1>5. \A n \in Mgr : mgr'[n].host = mgr[n].host /\ mgr'[n].record = mgr[n].record
    BY SameManagers DEF StopTunnel
  <1>6. /\ UNCHANGED <<tunnelMgr, dns, proc, started>>
        /\ tunnels' = IF Done(o) THEN tunnels \ {m} ELSE tunnels
        /\ stopped' = IF o = "ok" /\ ~op[a].err THEN stopped \cup {m} ELSE stopped
    BY <1>1 DEF StopTunnel, DropTunnel
  <1>7. Linked(m) /\ m \notin stopped
    BY <1>1, <1>2, NotGone DEF Trail, LinkOK, Linking, Leaving
  <1>8. LinkOK(a)'
    BY <1>4 DEF LinkOK, Unlinked, Linking
  <1>9. ASSUME m \in stopped' PROVE Gone(m)'
    <2>1. m \notin tunnels' \cup proc'
      BY <1>2, <1>6, <1>7, <1>9 DEF Done
    <2>2. m <= started' /\ tunnelMgr' # m
      BY <1>1, <1>6 DEF Inv, Known, Unpublished
    <2>3. ASSUME NEW b \in Actor, op'[b].mgr = m PROVE op'[b].pc \in Leaving
      <3>1. b = a
        BY <1>1, <1>4, <2>3 DEF Inv, Distinct
      <3>2. pc = "load"
        BY <1>1, <1>3, <1>4, <2>3, <3>1
      <3> QED
        BY <1>4, <3>1, <3>2 DEF Leaving
    <2>4. Linked(m)'
      BY <1>5, <1>6, <1>7, LinkedKept
    <2> QED
      BY <2>1, <2>2, <2>3, <2>4 DEF Gone
  <1>10. \A n \in Mgr : n # m =>
            /\ n \in tunnels' => n \in tunnels
            /\ n \in proc' => n \in proc
            /\ mgr'[n].host = mgr[n].host /\ mgr'[n].record = mgr[n].record
            /\ \A h \in Host : dns'[h] = n => dns[h] = n
    BY <1>5, <1>6
  <1>11. /\ stopped' \subseteq Mgr /\ stopped' \subseteq stopped \cup {m}
         /\ tunnelMgr' = tunnelMgr /\ started' = started
    BY <1>6 DEF TypeOK
  <1> QED
    BY ONLY TypeOK, Inv, Trail, <1>1, <1>3, <1>8, <1>9, <1>10, <1>11, OwnTrail

(* Records, and what managers know of them, are as they were.              *)
LEMMA QuietTrail ==
    ASSUME TypeOK, Trail, started' \in Nat, started <= started',
           UNCHANGED <<dns, stopped, tunnels, proc>>,
           \A n \in Mgr : n <= started => mgr'[n] = mgr[n]
    PROVE  /\ \A h \in Host : dns'[h] \in Mgr => dns'[h] <= started'
           /\ \A n \in Mgr : n <= started =>
                /\ NoRecordOf(n) => NoRecordOf(n)'
                /\ RecordAtHost(n) => RecordAtHost(n)'
                /\ Linked(n) => Linked(n)'
           /\ \A n \in stopped' :
                /\ n \in stopped /\ n \in Mgr /\ n <= started'
                /\ n \notin tunnels' \cup proc' /\ Linked(n)'
  <1>1. started \in Nat /\ stopped \subseteq Mgr
    BY DEF TypeOK
  <1>2. ASSUME NEW n \in Mgr, n <= started
        PROVE  /\ NoRecordOf(n) => NoRecordOf(n)'
               /\ RecordAtHost(n) => RecordAtHost(n)'
               /\ Linked(n) => Linked(n)'
    BY <1>2, LinkedKept
  <1>3. \A h \in Host : dns'[h] \in Mgr => dns'[h] <= started'
    BY <1>1, Constants DEF Trail
  <1>4. ASSUME NEW n \in stopped'
        PROVE  /\ n \in stopped /\ n \in Mgr /\ n <= started'
               /\ n \notin tunnels' \cup proc' /\ Linked(n)'
    <2>1. n \in stopped /\ n \in Mgr /\ Gone(n)
      BY <1>1 DEF Trail
    <2> QED
      BY <1>1, <1>2, <2>1, Constants DEF Gone
  <1> QED
    BY <1>2, <1>3, <1>4

LEMMA PublishTrail ==
    ASSUME TypeOK, Inv, Trail, NEW a \in Actor, Publish(a)
    PROVE  Trail'
  <1> USE DEF memory, cloud, history, budget
  <1>1. PICK m \in Mgr : m = op[a].mgr /\ m # NoMgr /\ m <= started
    BY OperationFacts, Constants DEF Publish, Working, Free, PC, Inv, Known
  <1>2. /\ op[a].pc = "publish" /\ tunnelMgr' = m
        /\ UNCHANGED <<mgr, tunnels, dns, proc, started, stopped>>
    BY <1>1 DEF Publish
  <1>3. op'[a].pc = "idle" /\ op'[a].mgr = NoMgr /\ \A b \in Actor : b # a => op'[b] = op[b]
    BY FinishMoves DEF Publish, Moved
  <1>4. Linked(m) /\ m \notin stopped
    BY <1>1, <1>2, NotGone DEF Trail, LinkOK, Linking, Leaving
  <1>5. started' \in Nat /\ started <= started'
    BY <1>2 DEF TypeOK
  <1>6. Linked(m)'
    BY <1>2, <1>4, LinkedKept
  <1>7. ASSUME NEW b \in Actor PROVE LinkOK(b)'
    <2>1. CASE b = a
      BY <1>3, <2>1 DEF LinkOK, Unlinked, Linking
    <2>2. CASE b # a
      <3>1. LinkOK(b) /\ op'[b] = op[b]
        BY <1>3, <2>2 DEF Trail
      <3> QED
        BY <1>2, <3>1 DEF LinkOK, Linked, RecordAtHost, NoRecordOf
    <2> QED
      BY <2>1, <2>2
  <1>8. ASSUME NEW n \in stopped' PROVE Gone(n)'
    <2>1. /\ n \in stopped /\ n \in Mgr /\ n <= started'
          /\ n \notin tunnels' \cup proc' /\ Linked(n)'
      BY <1>2, <1>5, <1>8, QuietTrail
    <2>2. \A b \in Actor : op'[b].mgr = n => op'[b].pc \in Leaving
      BY <1>3, <2>1, Constants DEF Trail, Gone
    <2> QED
      BY <1>2, <1>4, <2>1, <2>2 DEF Gone
  <1>9. tunnelMgr' # NoMgr => Linked(tunnelMgr)'
    BY <1>2, <1>6 DEF Linked, RecordAtHost, NoRecordOf
  <1> QED
    BY <1>2, <1>5, <1>7, <1>8, <1>9, QuietTrail DEF Trail

LEMMA TakeManagerTrail ==
    ASSUME TypeOK, Inv, Trail, NEW a \in Actor, TakeManager(a)
    PROVE  Trail'
  <1> USE DEF memory, cloud, history, budget
  <1> DEFINE e == [At(IF tunnelMgr = NoMgr THEN "load" ELSE "kill") EXCEPT !.mgr = tunnelMgr]
  <1>1. PICK k \in Mgr \cup {NoMgr} : k = tunnelMgr
    BY DEF TypeOK
  <1>2. PICK pc \in {"load", "kill"} : pc = IF k = NoMgr THEN "load" ELSE "kill"
    OBVIOUS
  <1>3. e \in OpRec /\ e.pc = pc /\ e.mgr = k
    BY <1>1, <1>2, AtType DEF OpRec, PC
  <1>4. /\ tunnelMgr' = NoMgr /\ op' = [op EXCEPT ![a] = e]
        /\ UNCHANGED <<mgr, tunnels, dns, proc, started, stopped>>
    BY DEF TakeManager, Left
  <1>5. Moved(a, pc, k)
    BY <1>3, <1>4, SetMoves
  <1>6. op'[a].pc = pc /\ op'[a].mgr = k /\ \A b \in Actor : b # a => op'[b] = op[b]
    BY <1>5 DEF Moved
  <1>7. started' \in Nat /\ started <= started'
    BY <1>4 DEF TypeOK
  <1>8. ASSUME NEW b \in Actor PROVE LinkOK(b)'
    <2>1. CASE b = a
      <3>1. k # NoMgr => Linked(k)
        BY <1>1 DEF Trail
      <3>2. k # NoMgr => Linked(k)'
        BY <1>4, <3>1, LinkedKept
      <3> QED
        BY <1>2, <1>6, <2>1, <3>2
        DEF LinkOK, Unlinked, Linking, Linked, RecordAtHost, NoRecordOf
    <2>2. CASE b # a
      <3>1. LinkOK(b) /\ op'[b] = op[b]
        BY <1>6, <2>2 DEF Trail
      <3> QED
        BY <1>4, <3>1 DEF LinkOK, Linked, RecordAtHost, NoRecordOf
    <2> QED
      BY <2>1, <2>2
  <1>9. ASSUME NEW n \in stopped' PROVE Gone(n)'
    <2>1. /\ n \in stopped /\ n \in Mgr /\ n <= started' /\ n # NoMgr
          /\ n \notin tunnels' \cup proc' /\ Linked(n)'
      BY <1>4, <1>7, <1>9, QuietTrail, Constants
    <2>2. Gone(n)
      BY <2>1 DEF Trail
    <2>3. \A b \in Actor : op'[b].mgr = n => op'[b].pc \in Leaving
      BY <1>1, <1>6, <2>2 DEF Gone
    <2> QED
      BY <1>4, <2>1, <2>3 DEF Gone
  <1> QED
    BY <1>4, <1>7, <1>8, <1>9, QuietTrail DEF Trail

LEMMA CheckNotRunningTrail ==
    ASSUME TypeOK, Inv, Trail, NEW a \in Actor, CheckNotRunning(a)
    PROVE  Trail'
  <1> USE DEF memory, cloud
  <1>1. op[a].mgr = NoMgr /\ op[a].pc \in {"check", "idle"}
    BY OperationFacts DEF CheckNotRunning, PositionOK, Free
  <1>2. CASE tunnelMgr # NoMgr \/ started = MaxStarts
    <2>1. Moved(a, "idle", NoMgr)
      BY <1>2, FinishMoves DEF CheckNotRunning
    <2> QED
      BY <1>1, <1>2, <2>1, StayTrail DEF CheckNotRunning, Unlinked, Linking, Leaving
  <1>3. CASE tunnelMgr = NoMgr /\ started # MaxStarts
    <2>1. PICK k \in Mgr : k = started + 1
      BY <1>3, Constants DEF TypeOK
    <2>2. [At("config") EXCEPT !.mgr = k] \in OpRec
      BY AtType DEF OpRec, PC
    <2>3. [At("config") EXCEPT !.mgr = k].pc = "config"
          /\ [At("config") EXCEPT !.mgr = k].mgr = k
      BY AtType DEF OpRec, PC
    <2>4. Moved(a, "config", k)
      BY ZenonT(60), <1>3, <2>1, <2>2, <2>3, SetMoves DEF CheckNotRunning
    <2>5. op'[a].pc = "config" /\ op'[a].mgr = k /\ \A b \in Actor : b # a => op'[b] = op[b]
      BY <2>4 DEF Moved
    <2>6. /\ \A n \in Mgr : n # k => mgr'[n] = mgr[n]
          /\ started' = k
          /\ UNCHANGED <<tunnelMgr, tunnels, dns, proc, stopped>>
      BY <1>3, <2>1, TypeOfOp DEF CheckNotRunning
    <2>7. started \in Nat /\ started' \in Nat /\ started <= started'
      BY <2>1, <2>6 DEF TypeOK
    <2>8. \A n \in Mgr : n <= started => n # k /\ mgr'[n] = mgr[n]
      BY <2>1, <2>6, <2>7, Constants
    <2>9. ASSUME NEW b \in Actor PROVE LinkOK(b)'
      <3>1. CASE b = a
        <4>1. NoRecordOf(k)
          BY <2>1, <2>7, Constants DEF Trail, NoRecordOf
        <4>2. NoRecordOf(k)'
          BY <2>6, <4>1 DEF NoRecordOf
        <4> QED
          BY <2>5, <3>1, <4>2 DEF LinkOK, Linking, Unlinked, NoRecordOf
      <3>2. CASE b # a
        <4>1. LinkOK(b) /\ op'[b] = op[b] /\ op[b].mgr <= started
          BY <2>5, <3>2 DEF Trail, Inv, Known
        <4>2. CASE op[b].pc \in Working
          <5>1. PICK n \in Mgr : n = op[b].mgr /\ n <= started
            BY <4>1, <4>2, OperationFacts
          <5>2. /\ NoRecordOf(n) => NoRecordOf(n)'
                /\ RecordAtHost(n) => RecordAtHost(n)'
                /\ Linked(n) => Linked(n)'
            BY <2>6, <2>7, <2>8, <5>1, QuietTrail
          <5> QED
            BY <4>1, <5>1, <5>2 DEF LinkOK, Linked, RecordAtHost, NoRecordOf
        <4>3. CASE op[b].pc \notin Working
          <5>1. Unlinked \cup Linking \cup {"refind"} \subseteq Working
            BY DEF Unlinked, Linking, Working, Free, PC
          <5> QED
            BY <4>1, <4>3, <5>1 DEF LinkOK
        <4> QED
          BY <4>2, <4>3
      <3> QED
        BY <3>1, <3>2
    <2>10. ASSUME NEW n \in stopped' PROVE Gone(n)'
      <3>1. /\ n \in stopped /\ n \in Mgr /\ n <= started' /\ n # NoMgr
            /\ n \notin tunnels' \cup proc' /\ Linked(n)'
        BY <2>6, <2>7, <2>8, <2>10, QuietTrail, Constants
      <3>2. Gone(n)
        BY <3>1 DEF Trail
      <3>3. n # k
        BY <2>8, <3>1, <3>2 DEF Gone
      <3>4. \A b \in Actor : op'[b].mgr = n => op'[b].pc \in Leaving
        BY <2>5, <3>2, <3>3 DEF Gone
      <3> QED
        BY <1>3, <2>6, <3>1, <3>4 DEF Gone
    <2> QED
      BY <1>3, <2>6, <2>7, <2>8, <2>9, <2>10, QuietTrail DEF Trail
  <1> QED
    BY <1>2, <1>3

LEMMA ExitTrail ==
    ASSUME Trail, NEW m \in proc, Exit(m)
    PROVE  Trail'
  <1> USE DEF memory, history
  <1>1. UNCHANGED <<tunnelMgr, mgr, tunnels, dns, op, started, stopped>> /\ proc' \subseteq proc
    BY DEF Exit
  <1> QED
    BY <1>1 DEF Trail, LinkOK, Gone, Linked, RecordAtHost, NoRecordOf

LEMMA NobodyTrail ==
    ASSUME op' = Booting, tunnelMgr' = NoMgr, stopped' = {},
           \A h \in Host : dns'[h] \in Mgr => dns'[h] <= started'
    PROVE  Trail'
  <1>1. \A a \in Actor : op'[a].pc \in Free
    BY BootingFacts
  <1> QED
    BY <1>1 DEF Trail, LinkOK, Unlinked, Linking, Free

LEMMA TrailStep ==
    ASSUME TypeOK, TypeOK', Inv, Trail, [Next]_vars
    PROVE  Trail'
  <1> USE DEF memory, cloud, history, budget
  <1>1. ASSUME NEW a \in Actor, StartStep(a) PROVE Trail'
    BY <1>1, CheckNotRunningTrail, ReadConfigTrail, PublishTrail, CreateTunnelTrail,
       UpdateTunnelConfigTrail, DeleteOtherTrail, CreateDNSRecordTrail, CleanupTunnelTrail,
       FindRecordTrail, FindCreatedTrail, LaunchTrail, SaveErrorTrail, SaveRunningTrail
    DEF StartStep
  <1>2. ASSUME NEW a \in Actor, StopStep(a) PROVE Trail'
    BY <1>2, TakeManagerTrail, KillProcessTrail, CleanupDNSTrail, StopTunnelTrail,
       LoadConfigTrail, SaveStoppedTrail
    DEF StopStep
  <1>3. ASSUME NEW a \in Actor, EditStep(a) PROVE Trail'
    BY <1>3, TypePartsPrime, CheckEditTrail, ReadForEditTrail, SaveEditTrail DEF EditStep
  <1>4. CASE BootStep
    BY <1>4, AutoStartTrail, SaveFromEnvTrail DEF BootStep
  <1>5. ASSUME NEW alive, Restart(alive) PROVE Trail'
    BY <1>5, NobodyTrail DEF Restart, Trail
  <1>6. ASSUME NEW m \in proc, Exit(m) PROVE Trail'
    BY <1>6, ExitTrail
  <1>7. CASE UNCHANGED vars
    BY <1>7 DEF vars, Trail, LinkOK, Gone, Linked, RecordAtHost, NoRecordOf
  <1> QED
    BY <1>1, <1>2, <1>3, <1>4, <1>5, <1>6, <1>7 DEF Next

(* A stop that reports no error, and whose manager knew or could look up   *)
(* its record, leaves no record, tunnel or process behind, and nothing     *)
(* brings them back.                                                       *)
THEOREM StopLeavesNothingHolds == Spec => []StopLeavesNothing
  <1>1. Init => Trail
    <2> SUFFICES ASSUME Init PROVE Trail
      OBVIOUS
    <2>1. \A a \in Actor : op[a].pc \in Free
      BY BootingFacts DEF Init
    <2>2. \A h \in Host : dns[h] \notin Mgr
      <3>1. \A h \in Host : dns[h] \in {NoRecord, Foreign}
        BY DEF Init
      <3>2. NoRecord \notin Mgr /\ Foreign \notin Mgr
        BY Constants DEF Foreign
      <3> QED
        BY <3>1, <3>2
    <2> QED
      BY <2>1, <2>2 DEF Init, Trail, LinkOK, Unlinked, Linking, Free
  <1>2. (TypeOK /\ Inv) /\ (TypeOK /\ Inv)' /\ Trail /\ [Next]_vars => Trail'
    BY TrailStep
  <1>3. TypeOK /\ Trail => StopLeavesNothing
    <2> SUFFICES ASSUME TypeOK, Trail, NEW m \in stopped
                 PROVE  /\ m \notin tunnels \cup proc
                        /\ mgr[m].record = NoRecord => \A h \in Host : dns[h] # m
      BY DEF StopLeavesNothing
    <2>1. Gone(m) /\ m \in Mgr
      BY DEF Trail, TypeOK
    <2>2. NoRecord \notin {m, Unnamed}
      BY <2>1, Constants DEF Unnamed
    <2> QED
      BY <2>1, <2>2 DEF Gone, Linked, NoRecordOf
  <1> QED
    BY <1>1, <1>2, <1>3, InvHolds, PTL DEF Spec

=============================================================================

--------------------------------- MODULE Tunnel ---------------------------------
(***************************************************************************)
(* The Cloudflare tunnel: StartTunnel and StopTunnel of server.go, Manager *)
(* of tunnel/manager.go, the handlers of api_tunnel.go, the automatic      *)
(* start of builder.go and the one cccli asks for.                         *)
(*                                                                         *)
(* A start makes a remote tunnel, routes it, points a DNS record at it,    *)
(* runs cloudflared, saves the row and publishes its manager, one remote   *)
(* call after the other without a lock.  Every call may be refused, or be  *)
(* carried out and its answer lost.  The process may end at any point, and *)
(* so may cloudflared, which nobody waits for.                             *)
(*                                                                         *)
(* A manager is the number of its start; the tunnel it makes, the DNS      *)
(* record that points there and its cloudflared have the same number.      *)
(***************************************************************************)
EXTENDS Naturals, FiniteSets

CONSTANTS
    Admin,          \* goroutines of administrators
    Starter, Main,  \* the automatic start, and cccli
    Host,           \* the subdomain in each zone of the Cloudflare account
    DefaultHost,    \* in the first zone
    NoHost,         \* no subdomain or token is configured
    EnvHost,        \* what the environment of cccli asks for, or NoHost
    MaxStarts, MaxOps, MaxRestarts, MaxFaults   \* bounds of the model

Actor == Admin \cup {Starter, Main}
Mgr == 1 .. MaxStarts
NoMgr == 0
Foreign == MaxStarts + 1    \* a record that points to something else
Unnamed == MaxStarts + 2    \* a manager knows the name of its record only
NoRecord == 0

ASSUME ConfigAssumption ==
    /\ Starter \notin Admin /\ Main \notin Admin /\ Starter # Main
    /\ IsFiniteSet(Admin)
    /\ DefaultHost \in Host
    /\ NoHost \notin Host
    /\ EnvHost \in Host \cup {NoHost}
    /\ MaxStarts \in Nat /\ MaxOps \in Nat /\ MaxRestarts \in Nat /\ MaxFaults \in Nat

VARIABLES
    row,            \* tunnel_config
    tunnelMgr,      \* Server.tunnelMgr
    mgr,            \* what each manager remembers
    tunnels,        \* tunnels at Cloudflare
    routed,         \* those with an ingress rule
    dns,            \* the record of each host
    proc,           \* cloudflared processes
    died,           \* those that ended by themselves
    op,             \* where each goroutine is
    started,        \* starts so far
    lost,           \* managers nobody will clean up after, for a reason
    disturbed,      \* starts another operation overlapped with
    stopped,        \* managers whose Stop returned no error
    ops, restarts, faults

memory == <<tunnelMgr, mgr>>
cloud == <<tunnels, routed, dns, proc>>
history == <<lost, disturbed, stopped>>
budget == <<ops, restarts>>
vars == <<row, memory, cloud, died, op, started, history, budget, faults>>

Config == [host : Host \cup {NoHost}, enabled : BOOLEAN,
           status : {"", "running", "stopped", "error"}]
NoRow == [host |-> NoHost, enabled |-> FALSE, status |-> ""]

Idle == [pc |-> "idle", mgr |-> NoMgr, cfg |-> NoRow, found |-> NoRecord, err |-> FALSE]
At(pc) == [Idle EXCEPT !.pc = pc]
Blank == [host |-> NoHost, tunnel |-> FALSE, record |-> NoRecord]

(* A remote call is refused, carried out, or carried out and not answered. *)
Outcome == {"ok", "refused", "unanswered"}
Done(o) == o # "refused"

Waiting == {"idle", "boot", "check"}
Busy == {b \in Actor : op[b].pc \notin Waiting}

(* An operation of a, on manager m if any, begins beside the busy ones.    *)
Overlap(a, m) ==
    LET others == Busy \ {a}
    IN  disturbed' = disturbed \cup {op[b].mgr : b \in others}
                               \cup (IF others = {} THEN {} ELSE {m})

GoOn(a, pc) == op' = [op EXCEPT ![a].pc = pc]
Finish(a) == op' = [op EXCEPT ![a] = Idle]

------------------------------------------------------------------------------
(* StartTunnel.                                                            *)

(* The automatic start reads the row first.                                *)
AutoStart ==
    /\ op[Starter].pc = "boot"
    /\ IF row.enabled THEN GoOn(Starter, "check") ELSE Finish(Starter)
    /\ UNCHANGED <<row, memory, cloud, started, history, budget>>

(* cccli saves a whole row, and starts even if it could not be saved.      *)
SaveFromEnv(saved) ==
    /\ op[Main].pc = "env"
    /\ row' = IF saved THEN [host |-> EnvHost, enabled |-> TRUE, status |-> ""] ELSE row
    /\ GoOn(Main, "check")
    /\ UNCHANGED <<memory, cloud, started, history, budget>>

(* tunnelMgr is looked at under the lock, and published at the end only.   *)
CheckNotRunning(a) ==
    /\ op[a].pc = "check" \/ (a \in Admin /\ op[a].pc = "idle" /\ ops < MaxOps)
    /\ IF tunnelMgr # NoMgr \/ started = MaxStarts
       THEN /\ Finish(a)
            /\ UNCHANGED <<mgr, started, disturbed>>
       ELSE /\ started' = started + 1
            /\ op' = [op EXCEPT ![a] = [At("config") EXCEPT !.mgr = started + 1]]
            /\ mgr' = [mgr EXCEPT ![started + 1] = Blank]
            /\ Overlap(a, started + 1)
    /\ ops' = IF op[a].pc = "idle" THEN ops + 1 ELSE ops
    /\ UNCHANGED <<row, tunnelMgr, cloud, lost, stopped, restarts>>

(* GetTunnelConfig and NewManager.                                         *)
ReadConfig(a) ==
    /\ op[a].pc = "config"
    /\ IF row.host = NoHost
       THEN /\ Finish(a)
            /\ UNCHANGED mgr
       ELSE /\ op' = [op EXCEPT ![a].pc = "create", ![a].cfg = row]
            /\ mgr' = [mgr EXCEPT ![op[a].mgr].host = row.host]
    /\ UNCHANGED <<row, tunnelMgr, cloud, started, history, budget>>

(* The account, its zones and the new tunnel: before CreateTunnel there is *)
(* nothing to undo, and after a lost answer nobody knows its name.         *)
AfterCreateUnchecked(o) == "route"
AfterCreate(o) == IF o = "ok" THEN "route" ELSE "failed"

CreateTunnel(a, o) ==
    LET m == op[a].mgr
    IN  /\ op[a].pc = "create"
        /\ tunnels' = IF Done(o) THEN tunnels \cup {m} ELSE tunnels
        /\ lost' = IF o = "unanswered" THEN lost \cup {m} ELSE lost
        /\ mgr' = [mgr EXCEPT ![m].tunnel = (o = "ok")]
        /\ GoOn(a, AfterCreate(o))
        /\ UNCHANGED <<row, tunnelMgr, routed, dns, proc, started, disturbed, stopped, budget>>

AfterRouteNoUndo(o) == IF o = "ok" THEN "find" ELSE "failed"
AfterRoute(o) == IF o = "ok" THEN "find" ELSE "undo"

UpdateTunnelConfig(a, o) ==
    /\ op[a].pc = "route"
    /\ routed' = IF Done(o) THEN routed \cup {op[a].mgr} ELSE routed
    /\ GoOn(a, AfterRoute(o))
    /\ UNCHANGED <<row, memory, tunnels, dns, proc, started, history, budget>>

HostOf(a) == mgr[op[a].mgr].host

(* What Start does about the record it found: r is a number or NoRecord.   *)
RecordToReplaceForeign(a, r) == r = Foreign
RecordToReplace(a, r) == r \notin {NoRecord, op[a].mgr}

FindRecord(a, answered) ==
    LET m == op[a].mgr
        r == dns[HostOf(a)]
    IN  /\ op[a].pc = "find"
        /\ op' = [op EXCEPT ![a].pc = IF ~answered THEN "undo"
                                      ELSE IF RecordToReplace(a, r) THEN "replace"
                                      ELSE IF r = NoRecord THEN "point" ELSE "launch",
                            ![a].found = IF answered THEN r ELSE NoRecord]
        /\ mgr' = IF answered /\ ~RecordToReplace(a, r)
                  THEN [mgr EXCEPT ![m].record = r] ELSE mgr
        /\ UNCHANGED <<row, tunnelMgr, cloud, started, history, budget>>

Deleted(h, r) == IF dns[h] = r THEN [dns EXCEPT ![h] = NoRecord] ELSE dns

(* The other record is deleted by its id, and the result is ignored.       *)
DeleteOther(a, o) ==
    /\ op[a].pc = "replace"
    /\ dns' = IF Done(o) THEN Deleted(HostOf(a), op[a].found) ELSE dns
    /\ op' = [op EXCEPT ![a].pc = "point", ![a].found = NoRecord]
    /\ UNCHANGED <<row, memory, tunnels, routed, proc, started, history, budget>>

(* Cloudflare has one CNAME of a name.                                     *)
CreateDNSRecord(a, o) ==
    LET free == dns[HostOf(a)] = NoRecord
    IN  /\ op[a].pc = "point"
        /\ free \/ o # "unanswered"
        /\ dns' = IF free /\ Done(o) THEN [dns EXCEPT ![HostOf(a)] = op[a].mgr] ELSE dns
        /\ GoOn(a, IF free /\ o = "ok" THEN "refind" ELSE "undo")
        /\ UNCHANGED <<row, memory, tunnels, routed, proc, started, history, budget>>

(* The id of the record is whatever a second search finds.                 *)
FindCreated(a, answered) ==
    LET m == op[a].mgr
        r == dns[HostOf(a)]
    IN  /\ op[a].pc = "refind"
        /\ mgr' = [mgr EXCEPT ![m].record =
                      IF answered /\ r # NoRecord THEN r ELSE Unnamed]
        /\ GoOn(a, "launch")
        /\ UNCHANGED <<row, tunnelMgr, cloud, started, history, budget>>

(* The token, and cloudflared.  When either fails the record stays.        *)
Launch(a, ok) ==
    /\ op[a].pc = "launch"
    /\ proc' = IF ok THEN proc \cup {op[a].mgr} ELSE proc
    /\ GoOn(a, IF ok THEN "save" ELSE "undo")
    /\ UNCHANGED <<row, memory, tunnels, routed, dns, started, history, budget>>

(* DeleteTunnel; its ingress rules go with it.                             *)
DropTunnel(m, o) ==
    /\ tunnels' = IF Done(o) THEN tunnels \ {m} ELSE tunnels
    /\ routed' = IF Done(o) THEN routed \ {m} ELSE routed
    /\ lost' = IF o = "ok" THEN lost ELSE lost \cup {m}

CleanupTunnel(a, o) ==
    LET m == op[a].mgr
    IN  /\ op[a].pc = "undo"
        /\ DropTunnel(m, o)
        /\ mgr' = [mgr EXCEPT ![m].tunnel = (o # "ok")]
        /\ GoOn(a, "failed")
        /\ UNCHANGED <<row, tunnelMgr, dns, proc, started, disturbed, stopped, budget>>

(* The eight seconds of the context began before mgr.Start, so nothing can *)
(* be saved after a start that took longer.                                *)
SaveError(a, saved) ==
    /\ op[a].pc = "failed"
    /\ row' = IF saved THEN [op[a].cfg EXCEPT !.status = "error"] ELSE row
    /\ Finish(a)
    /\ UNCHANGED <<memory, cloud, started, history, budget>>

AfterSaveIgnored(saved) == "publish"
AfterSave(saved) == IF saved THEN "publish" ELSE "abort"

SaveRunning(a, saved) ==
    /\ op[a].pc = "save"
    /\ row' = IF saved THEN [op[a].cfg EXCEPT !.status = "running", !.enabled = TRUE]
                       ELSE row
    /\ GoOn(a, AfterSave(saved))
    /\ UNCHANGED <<memory, cloud, started, history, budget>>

Publish(a) ==
    /\ op[a].pc = "publish"
    /\ tunnelMgr' = op[a].mgr
    /\ lost' = IF tunnelMgr = NoMgr THEN lost ELSE lost \cup {tunnelMgr}
    /\ Finish(a)
    /\ UNCHANGED <<row, mgr, cloud, started, disturbed, stopped, budget>>

------------------------------------------------------------------------------
(* Manager.Stop, of StopTunnel ("kill", "unlink", "delete", then "load")   *)
(* and of a start that could not be saved ("abort", "unlinkNew" and        *)
(* "deleteNew").                                                           *)

(* StopTunnel takes the manager out under the lock.                        *)
LeftPublished == tunnelMgr
Left == NoMgr

TakeManager(a) ==
    /\ op[a] = Idle /\ a \in Admin
    /\ ops < MaxOps
    /\ ops' = ops + 1
    /\ tunnelMgr' = Left
    /\ op' = [op EXCEPT ![a] = [At(IF tunnelMgr = NoMgr THEN "load" ELSE "kill")
                                   EXCEPT !.mgr = tunnelMgr]]
    /\ Overlap(a, tunnelMgr)
    /\ UNCHANGED <<row, mgr, cloud, started, lost, stopped, restarts>>

(* Interrupted, and killed after five seconds.                             *)
KillProcess(a) ==
    /\ op[a].pc \in {"kill", "abort"}
    /\ proc' = proc \ {op[a].mgr}
    /\ GoOn(a, IF op[a].pc = "kill" THEN "unlink" ELSE "unlinkNew")
    /\ UNCHANGED <<row, memory, tunnels, routed, dns, started, history, budget>>

(* cleanupDNS deletes by id, after a search by name if it has none.        *)
KnownRecord(a, found) ==
    LET m == mgr[op[a].mgr]
    IN  IF m.record # Unnamed THEN m.record
        ELSE IF found THEN dns[m.host] ELSE NoRecord

ForgottenAlways(o) == TRUE
Forgotten(o) == o = "ok"

CleanupDNS(a, found, o) ==
    LET m == op[a].mgr
        r == KnownRecord(a, found)
    IN  /\ op[a].pc \in {"unlink", "unlinkNew"}
        /\ dns' = IF r # NoRecord /\ Done(o) THEN Deleted(mgr[m].host, r) ELSE dns
        /\ mgr' = [mgr EXCEPT ![m].record =
                      IF r = NoRecord THEN @ ELSE IF Forgotten(o) THEN NoRecord ELSE r]
        /\ op' = [op EXCEPT ![a].pc = IF @ = "unlink" THEN "delete" ELSE "deleteNew",
                            ![a].err = (r # NoRecord /\ ~Forgotten(o))]
        /\ UNCHANGED <<row, tunnelMgr, tunnels, routed, proc, started, history, budget>>

StopTunnel(a, o) ==
    LET m == op[a].mgr
    IN  /\ op[a].pc \in {"delete", "deleteNew"}
        /\ DropTunnel(m, o)
        /\ mgr' = [mgr EXCEPT ![m].tunnel = (o # "ok")]
        /\ stopped' = IF o = "ok" /\ ~op[a].err THEN stopped \cup {m} ELSE stopped
        /\ IF op[a].pc = "delete" THEN GoOn(a, "load") ELSE Finish(a)
        /\ UNCHANGED <<row, tunnelMgr, dns, proc, started, disturbed, budget>>

(* The row is read, changed and written as a whole; an error on reading    *)
(* ends the handler, one on writing is ignored.                            *)
LoadConfig(a, ok) ==
    /\ op[a].pc = "load"
    /\ IF ok THEN op' = [op EXCEPT ![a].pc = "stopped", ![a].cfg = row] ELSE Finish(a)
    /\ UNCHANGED <<row, memory, cloud, started, history, budget>>

SaveStopped(a, saved) ==
    /\ op[a].pc = "stopped"
    /\ row' = IF saved THEN [op[a].cfg EXCEPT !.status = "stopped", !.enabled = FALSE]
                       ELSE row
    /\ Finish(a)
    /\ UNCHANGED <<memory, cloud, started, history, budget>>

------------------------------------------------------------------------------
(* PUT /api/tunnel/config, and the end of the processes.                   *)

(* While a tunnel runs only `enabled` can be set (host = NoHost); the zone *)
(* is taken from the request all the same, so the host becomes the default *)
(* one.                                                                    *)
Edited(cfg, host, enabled) ==
    [cfg EXCEPT !.host = IF host # NoHost THEN host
                         ELSE IF @ = NoHost THEN NoHost ELSE DefaultHost,
                !.enabled = enabled]

CheckEdit(a, host, enabled) ==
    /\ op[a] = Idle /\ a \in Admin
    /\ ops < MaxOps
    /\ tunnelMgr # NoMgr => host = NoHost
    /\ ops' = ops + 1
    /\ op' = [op EXCEPT ![a] = [At("asked") EXCEPT !.cfg.host = host, !.cfg.enabled = enabled]]
    /\ Overlap(a, NoMgr)
    /\ UNCHANGED <<row, memory, cloud, started, lost, stopped, restarts>>

(* There may be no row that says the subdomain, or it cannot be read.      *)
ReadForEdit(a, ok) ==
    LET asked == op[a].cfg
    IN  /\ op[a].pc = "asked"
        /\ IF ok /\ (asked.host # NoHost \/ row.host # NoHost)
           THEN op' = [op EXCEPT ![a].pc = "edit",
                                 ![a].cfg = Edited(row, asked.host, asked.enabled)]
           ELSE Finish(a)
        /\ UNCHANGED <<row, memory, cloud, started, history, budget>>

SaveEdit(a, saved) ==
    /\ op[a].pc = "edit"
    /\ row' = IF saved THEN op[a].cfg ELSE row
    /\ Finish(a)
    /\ UNCHANGED <<memory, cloud, started, history, budget>>

Booting == [a \in Actor |-> IF a = Starter THEN At("boot")
                            ELSE IF a = Main /\ EnvHost # NoHost THEN At("env") ELSE Idle]

(* cloudflared ends by itself: the manager is not told and stays published.*)
Exit(m) ==
    /\ m \in proc
    /\ proc' = proc \ {m}
    /\ died' = died \cup {m}
    /\ UNCHANGED <<row, memory, tunnels, routed, dns, op, started, history, budget>>

(* No handler stops the tunnel when the server ends; cloudflared may go on *)
(* without it.                                                             *)
Restart(alive) ==
    /\ restarts < MaxRestarts
    /\ restarts' = restarts + 1
    /\ tunnelMgr' = NoMgr
    /\ mgr' = [m \in Mgr |-> Blank]
    /\ op' = Booting
    /\ proc' = alive
    /\ lost' = lost \cup tunnels \cup alive
    /\ stopped' = {}
    /\ UNCHANGED <<row, tunnels, routed, dns, started, disturbed, ops>>

------------------------------------------------------------------------------

Init ==
    /\ row \in {NoRow, [host |-> DefaultHost, enabled |-> TRUE, status |-> ""]}
    /\ tunnelMgr = NoMgr
    /\ mgr = [m \in Mgr |-> Blank]
    /\ tunnels = {} /\ routed = {} /\ proc = {} /\ died = {}
    /\ dns \in {[h \in Host |-> r] : r \in {NoRecord, Foreign}}
    /\ op = Booting
    /\ started = 0
    /\ lost = {} /\ disturbed = {} /\ stopped = {}
    /\ ops = 0 /\ restarts = 0 /\ faults = 0

(* What fails is counted: at most MaxFaults calls or processes of one      *)
(* behaviour.  Of its actions only Exit changes died.                      *)
Works == UNCHANGED <<faults, died>>
Fails == faults < MaxFaults /\ faults' = faults + 1
Counted(ok) == IF ok THEN Works ELSE Fails /\ UNCHANGED died

StartStep(a) ==
    \/ (CheckNotRunning(a) \/ ReadConfig(a) \/ Publish(a)) /\ Works
    \/ \E o \in Outcome :
          /\ Counted(o = "ok")
          /\ \/ CreateTunnel(a, o) \/ UpdateTunnelConfig(a, o) \/ DeleteOther(a, o)
             \/ CreateDNSRecord(a, o) \/ CleanupTunnel(a, o)
    \/ \E ok \in BOOLEAN :
          /\ Counted(ok)
          /\ \/ FindRecord(a, ok) \/ FindCreated(a, ok) \/ Launch(a, ok)
             \/ SaveError(a, ok) \/ SaveRunning(a, ok)

StopStep(a) ==
    \/ (TakeManager(a) \/ KillProcess(a)) /\ Works
    \/ \E o \in Outcome, found \in BOOLEAN :
          Counted(o = "ok" /\ found) /\ CleanupDNS(a, found, o)
    \/ \E o \in Outcome : Counted(o = "ok") /\ StopTunnel(a, o)
    \/ \E ok \in BOOLEAN : Counted(ok) /\ (LoadConfig(a, ok) \/ SaveStopped(a, ok))

EditStep(a) ==
    \/ \E h \in Host \cup {NoHost}, e \in BOOLEAN : CheckEdit(a, h, e) /\ Works
    \/ \E ok \in BOOLEAN : Counted(ok) /\ (ReadForEdit(a, ok) \/ SaveEdit(a, ok))

BootStep ==
    \/ AutoStart /\ Works
    \/ \E ok \in BOOLEAN : Counted(ok) /\ SaveFromEnv(ok)

Next ==
    \/ BootStep
    \/ \E a \in Actor : StartStep(a) \/ StopStep(a) \/ EditStep(a)
    \/ \E alive \in SUBSET proc : Restart(alive) /\ Works
    \/ \E m \in proc : Exit(m) /\ Fails

Spec == Init /\ [][Next]_vars

------------------------------------------------------------------------------
(* Properties.                                                             *)

(* Types; what is routed at Cloudflare exists there, however far a start   *)
(* came before it failed and whatever was undone after it.                 *)
TypeOK ==
    /\ row \in Config
    /\ tunnelMgr \in Mgr \cup {NoMgr}
    /\ mgr \in [Mgr -> [host : Host \cup {NoHost}, tunnel : BOOLEAN,
                        record : Mgr \cup {NoRecord, Foreign, Unnamed}]]
    /\ tunnels \subseteq Mgr /\ routed \subseteq tunnels /\ proc \subseteq Mgr
    /\ died \subseteq Mgr
    /\ dns \in [Host -> Mgr \cup {NoRecord, Foreign}]
    /\ op \in [Actor -> [pc : {"idle", "boot", "env", "check", "config", "create", "route",
                               "find", "replace", "point", "refind", "launch", "undo",
                               "failed", "save", "publish", "kill", "unlink", "delete",
                               "abort", "unlinkNew", "deleteNew", "load", "stopped", "asked", "edit"},
                         mgr : Mgr \cup {NoMgr}, cfg : Config,
                         found : Mgr \cup {NoRecord, Foreign}, err : BOOLEAN]]
    /\ started \in 0 .. MaxStarts
    /\ lost \subseteq Mgr /\ disturbed \subseteq Mgr \cup {NoMgr} /\ stopped \subseteq Mgr
    /\ ops \in 0 .. MaxOps /\ restarts \in 0 .. MaxRestarts /\ faults \in 0 .. MaxFaults

Holders(m) == {a \in Actor : op[a].mgr = m /\ op[a].pc \notin {"failed", "load", "stopped"}}

(* A tunnel at Cloudflare or a cloudflared process is never left behind    *)
(* silently: it is the published one, or an operation under way will       *)
(* publish it or remove it; the exceptions are a call that failed, a start *)
(* that another one overwrote, and the end of the process.  And it has one *)
(* owner: two stops, or a stop and the start that made it, never work on   *)
(* the same tunnel, which would delete what the other still uses.          *)
OwnedOrLost ==
    \A m \in (tunnels \cup proc) \ lost : tunnelMgr = m \/ Holders(m) # {}
NotShared ==
    \A m \in Mgr : /\ Cardinality(Holders(m)) <= 1
                   /\ tunnelMgr = m => Holders(m) = {}
OneOwner == OwnedOrLost /\ NotShared

(* The published tunnel is reachable: it exists, is routed, the record of  *)
(* its host points to it, and its process was started and runs unless it   *)
(* ended by itself, whatever was there before and whatever failed on the   *)
(* way.  Once nothing is under way the row says that it runs, too: the     *)
(* next start of the process will bring it back unless an administrator    *)
(* has said otherwise.  Two operations at a time can break both, since a   *)
(* start claims nothing until it is published.                             *)
RunningReachable ==
    tunnelMgr \notin disturbed \cup {NoMgr} =>
        /\ tunnelMgr \in tunnels \cap routed \cap (proc \cup died)
        /\ dns[mgr[tunnelMgr].host] = tunnelMgr
        /\ Busy = {} => row.status = "running"

(* A stop that reports no error and had no record left to search for has   *)
(* left no record, tunnel or process behind.                               *)
StopLeavesNothing ==
    \A m \in stopped :
        /\ m \notin tunnels \cup proc
        /\ mgr[m].record = NoRecord => \A h \in Host : dns[h] # m
=============================================================================

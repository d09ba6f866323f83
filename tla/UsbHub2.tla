------------------------------ MODULE UsbHub2 ------------------------------
(***************************************************************************)
(* The USB2 hub class driver of                                            *)
(* src/system/kernel/src/bus/usb/drivers/usb_hub.rs (Usb2HubDriver).       *)
(*                                                                         *)
(* Two async tasks share one hub:                                          *)
(*   - the hub task (_usb_hub_task), which schedules init_hub on the USB   *)
(*     configuration task, waits for it, then loops reading the hub's      *)
(*     status-change endpoint and handling each changed port;              *)
(*   - the configuration task, which runs the futures scheduled with       *)
(*     UsbManager::schedule_configuration one after the other: init_hub    *)
(*     and _attach_device.                                                 *)
(* They hand off through the hub's AsyncSharedLockTemp: lock_shared        *)
(* before scheduling, a guard from unlock_shared dropped when the          *)
(* scheduled future ends, and wait() returning once no share is held.     *)
(* The lock's code is not in the repository; it is modelled as that       *)
(* counter, as its call sites use it.                                      *)
(*                                                                         *)
(* The hub's ports are hardware running concurrently with both tasks: a    *)
(* device can be plugged or unplugged between any two steps, which sets    *)
(* the port's C_PORT_CONNECTION change bit, and a port reset completes     *)
(* later, setting C_PORT_RESET.  Every await (sleep_async, wait,           *)
(* read_slice) and every control transfer is a step boundary.              *)
(***************************************************************************)
EXTENDS Naturals, Sequences, FiniteSetsExt

CONSTANTS Hub,        \* this hub, as its scheduled futures name it
          NumPorts,   \* hub_desc.num_ports()
          MaxEvents   \* bound on plug and unplug events

Ports == 1..NumPorts

\* The change bits the model tells apart: C_PORT_CONNECTION and C_PORT_RESET
\* (C_PORT_ENABLE, C_PORT_SUSPEND and C_PORT_OVER_CURRENT are cleared by
\* the same code as C_PORT_RESET).
ChangeBits == {"conn", "reset"}

VARIABLES
    present,     \* a device is physically attached to the port
    powered,     \* PORT_POWER has been set
    chg,         \* the port's pending change bits
    resetting,   \* a PORT_RESET is in progress
    events,      \* plug and unplug events so far
    enumerated,  \* the device now on the port was given to host.attach_device
    shared,      \* AsyncSharedLockTemp: shares held
    jobs,        \* futures scheduled on the configuration task (all hubs')
    hpc, bitmap, hport, hstatus,            \* hub task
    cpc, cport, cstatus, inInit, iport      \* configuration task

hw == <<present, powered, chg, resetting, events, enumerated>>
hubVars == <<hpc, bitmap, hport, hstatus>>
cfgVars == <<cpc, cport, cstatus, inInit, iport>>
vars == <<hw, shared, jobs, hubVars, cfgVars>>

\* PORT_CONNECTION: a device is attached to a powered port.
PortConnection(p) == present[p] /\ powered[p]

\* get_port_status: the port's status and change bits at this instant.
GetPortStatus(p) == [conn |-> PortConnection(p), chg |-> chg[p]]

NoStatus == [conn |-> FALSE, chg |-> {}]

Init ==
    /\ present \in [Ports -> BOOLEAN]
    /\ powered = [p \in Ports |-> FALSE]
    /\ chg = [p \in Ports |-> {}]
    /\ resetting = [p \in Ports |-> FALSE]
    /\ events = 0
    /\ enumerated = [p \in Ports |-> FALSE]
    /\ shared = 0
    /\ jobs = <<>>
    /\ hpc = "start" /\ bitmap = {} /\ hport = 1 /\ hstatus = NoStatus
    /\ cpc = "idle" /\ cport = 1 /\ cstatus = NoStatus
    /\ inInit = FALSE /\ iport = 1

(***************************************************************************)
(* The hardware.                                                           *)
(***************************************************************************)
\* A device is plugged in or pulled out; a powered port flags the change.
Hotplug(p) ==
    /\ events < MaxEvents
    /\ present' = [present EXCEPT ![p] = ~@]
    /\ chg' = [chg EXCEPT ![p] = IF powered[p] THEN @ \cup {"conn"} ELSE @]
    /\ enumerated' = [enumerated EXCEPT ![p] = FALSE]
    /\ events' = events + 1
    /\ UNCHANGED <<powered, resetting, shared, jobs, hubVars, cfgVars>>

\* A port reset started by _attach_device completes.
ResetDone(p) ==
    /\ resetting[p]
    /\ resetting' = [resetting EXCEPT ![p] = FALSE]
    /\ chg' = [chg EXCEPT ![p] = @ \cup {"reset"}]
    /\ UNCHANGED <<present, powered, events, enumerated, shared,
                   jobs, hubVars, cfgVars>>

(***************************************************************************)
(* The hub task, Usb2HubDriver::_usb_hub_task.                             *)
(***************************************************************************)
\* lock_shared, schedule init_hub on the configuration task.
HubStart ==
    /\ hpc = "start"
    /\ shared' = shared + 1
    /\ jobs' = Append(jobs, [hub |-> Hub, kind |-> "init", port |-> 1])
    /\ hpc' = "wait_init"
    /\ UNCHANGED <<hw, bitmap, hport, hstatus, cfgVars>>

\* hub.lock.wait().await returns once no share is held.
HubWait ==
    /\ hpc \in {"wait_init", "wait_attach"}
    /\ shared = 0
    /\ hpc' = IF hpc = "wait_init" THEN "idle" ELSE "scan"
    /\ UNCHANGED <<hw, shared, jobs, bitmap, hport, hstatus, cfgVars>>

\* read_slice on the status-change endpoint completes with the bitmap of
\* the ports that have a change pending.
HubReadEvent ==
    /\ hpc = "idle"
    /\ \E p \in Ports : chg[p] # {}
    /\ bitmap' = {p \in Ports : chg[p] # {}}
    /\ hpc' = "scan"
    /\ UNCHANGED <<hw, shared, jobs, hport, hstatus, cfgVars>>

\* Mutant: the changes other than C_PORT_CONNECTION are not cleared.
HubPortStatusNoClear ==
    LET p == Min(bitmap)
        st == GetPortStatus(p)
    IN  /\ hpc = "scan"
        /\ bitmap # {}
        /\ bitmap' = bitmap \ {p}
        /\ hport' = p
        /\ hstatus' = st
        /\ hpc' = IF "conn" \in st.chg THEN "debounce" ELSE "scan"
        /\ UNCHANGED <<hw, shared, jobs, cfgVars>>

\* The next port of the bitmap: get_port_status(..).unwrap(); with
\* C_PORT_CONNECTION set, sleep power_on_to_power_good; otherwise clear
\* every other change bit the status showed.
HubPortStatus ==
    LET p == Min(bitmap)
        st == GetPortStatus(p)
    IN  /\ hpc = "scan"
        /\ bitmap # {}
        /\ bitmap' = bitmap \ {p}
        /\ hport' = p
        /\ hstatus' = st
        /\ IF "conn" \in st.chg
           THEN /\ hpc' = "debounce"
                /\ UNCHANGED chg
           ELSE /\ chg' = [chg EXCEPT ![p] = @ \ st.chg]
                /\ UNCHANGED hpc
        /\ UNCHANGED <<present, powered, resetting, events, enumerated,
                       shared, jobs, cfgVars>>

\* Every port of the bitmap handled: unfocus_hub, read the endpoint again.
HubScanDone ==
    /\ hpc = "scan"
    /\ bitmap = {}
    /\ hpc' = "idle"
    /\ UNCHANGED <<hw, shared, jobs, bitmap, hport, hstatus, cfgVars>>

\* Mutant: attach_device schedules _attach_device without lock_shared.
HubDebouncedNoLock ==
    /\ hpc = "debounce"
    /\ chg' = [chg EXCEPT ![hport] = @ \ {"conn"}]
    /\ IF hstatus.conn
       THEN /\ jobs' = Append(jobs, [hub |-> Hub, kind |-> "attach", port |-> hport])
            /\ hpc' = "wait_attach"
       ELSE /\ hpc' = "scan"
            /\ UNCHANGED jobs
    /\ UNCHANGED <<present, powered, resetting, events, enumerated,
                   shared, bitmap, hport, hstatus, cfgVars>>

\* After the sleep: clear C_PORT_CONNECTION, then act on the status read
\* before the sleep: attach_device (lock_shared, schedule _attach_device,
\* wait) if it showed a connection, else the detach branch (a log).
HubDebounced ==
    /\ hpc = "debounce"
    /\ chg' = [chg EXCEPT ![hport] = @ \ {"conn"}]
    /\ IF hstatus.conn
       THEN /\ shared' = shared + 1
            /\ jobs' = Append(jobs, [hub |-> Hub, kind |-> "attach", port |-> hport])
            /\ hpc' = "wait_attach"
       ELSE /\ hpc' = "scan"
            /\ UNCHANGED <<shared, jobs>>
    /\ UNCHANGED <<present, powered, resetting, events, enumerated,
                   bitmap, hport, hstatus, cfgVars>>

(***************************************************************************)
(* The configuration task running init_hub and _attach_device.             *)
(***************************************************************************)
\* The next scheduled future starts, if it is this hub's.
CfgTake ==
    /\ cpc = "idle"
    /\ jobs # <<>> /\ Head(jobs).hub = Hub
    /\ jobs' = Tail(jobs)
    /\ cpc' = IF Head(jobs).kind = "init" THEN "init_power" ELSE "attach_reset"
    /\ cport' = Head(jobs).port
    /\ inInit' = FALSE
    /\ iport' = 1
    /\ UNCHANGED <<hw, shared, hubVars, cstatus>>

\* init_hub, first loop: set PORT_POWER on each port and sleep 10 ms.  A
\* device already attached is now seen and flags C_PORT_CONNECTION.
InitPower ==
    /\ cpc = "init_power"
    /\ powered' = [powered EXCEPT ![iport] = TRUE]
    /\ chg' = [chg EXCEPT ![iport] = IF present[iport] THEN @ \cup {"conn"}
                                                        ELSE @]
    /\ cpc' = IF iport = NumPorts THEN "init_clear" ELSE cpc
    /\ iport' = IF iport = NumPorts THEN 1 ELSE iport + 1
    /\ UNCHANGED <<present, resetting, events, enumerated, shared,
                   jobs, hubVars, cport, cstatus, inInit>>

\* Second loop: clear C_PORT_CONNECTION on each port and sleep; after the
\* last, sleep twice power_on_to_power_good.
InitClear ==
    /\ cpc = "init_clear"
    /\ chg' = [chg EXCEPT ![iport] = @ \ {"conn"}]
    /\ cpc' = IF iport = NumPorts THEN "init_scan" ELSE cpc
    /\ iport' = IF iport = NumPorts THEN 1 ELSE iport + 1
    /\ UNCHANGED <<present, powered, resetting, events, enumerated,
                   shared, jobs, hubVars, cport, cstatus, inInit>>

\* Mutant: init_hub runs _attach_device without taking a share first.
InitScanNoLock ==
    /\ cpc = "init_scan"
    /\ IF PortConnection(iport)
       THEN /\ cpc' = "attach_reset" /\ cport' = iport /\ inInit' = TRUE
       ELSE /\ cpc' = "init_next" /\ UNCHANGED <<cport, inInit>>
    /\ UNCHANGED <<hw, shared, jobs, hubVars, cstatus, iport>>

\* Third loop: get_port_status; on PORT_CONNECTION lock_shared and await
\* _attach_device in place.
InitScan ==
    /\ cpc = "init_scan"
    /\ IF PortConnection(iport)
       THEN /\ shared' = shared + 1
            /\ cpc' = "attach_reset" /\ cport' = iport /\ inInit' = TRUE
       ELSE /\ cpc' = "init_next"
            /\ UNCHANGED <<shared, cport, inInit>>
    /\ UNCHANGED <<hw, jobs, hubVars, cstatus, iport>>

\* Mutant: init_hub returns without dropping its guard.
InitNextKeepsLock ==
    /\ cpc = "init_next"
    /\ cpc' = IF iport = NumPorts THEN "idle" ELSE "init_scan"
    /\ iport' = IF iport = NumPorts THEN iport ELSE iport + 1
    /\ UNCHANGED <<hw, shared, jobs, hubVars, cport, cstatus, inInit>>

\* Sleep 10 ms, then the next port; after the last, drop(defer) releases
\* the share the hub task took before scheduling init_hub.
InitNext ==
    /\ cpc = "init_next"
    /\ IF iport = NumPorts
       THEN /\ shared' = shared - 1
            /\ cpc' = "idle"
            /\ UNCHANGED iport
       ELSE /\ cpc' = "init_scan"
            /\ iport' = iport + 1
            /\ UNCHANGED shared
    /\ UNCHANGED <<hw, jobs, hubVars, cport, cstatus, inInit>>

\* _attach_device: set PORT_RESET and sleep power_on_to_power_good.
AttachReset ==
    /\ cpc = "attach_reset"
    /\ resetting' = [resetting EXCEPT ![cport] = TRUE]
    /\ cpc' = "attach_status"
    /\ UNCHANGED <<present, powered, chg, events, enumerated, shared,
                   jobs, hubVars, cport, cstatus, inInit, iport>>

\* get_port_status(port).unwrap().
AttachStatus ==
    /\ cpc = "attach_status"
    /\ cstatus' = GetPortStatus(cport)
    /\ cpc' = "attach_clear"
    /\ UNCHANGED <<hw, shared, jobs, hubVars, cport, inInit, iport>>

\* clear_port_feature for each change bit that status showed, then sleep
\* power_on_to_power_good.  A hot-plug since the read sets C_PORT_CONNECTION
\* again, and the clear erases it.  The clears are one step: the two modelled
\* bits are cleared in code order (connection first, reset last), and an
\* event between two of them only sets a bit already cleared or one the
\* read has shown.
AttachClear ==
    /\ cpc = "attach_clear"
    /\ chg' = [chg EXCEPT ![cport] = @ \ cstatus.chg]
    /\ cpc' = "attach_settle"
    /\ UNCHANGED <<present, powered, resetting, events, enumerated,
                   shared, jobs, hubVars, cport, cstatus, inInit, iport>>

\* If the status read before the sleep showed PORT_CONNECTION,
\* host().attach_device(port, speed).unwrap(): the host enumerates the
\* device if it is still there; if it is gone the host's code (not in the
\* repository) may return Err, a panic, or Ok for a device that is not there.
\* Then drop(defer) releases the share; the caller resumes.
AttachDo ==
    /\ cpc = "attach_settle"
    /\ IF cstatus.conn /\ ~PortConnection(cport)
       THEN \/ /\ cpc' = "panic"
               /\ UNCHANGED <<enumerated, shared>>
            \/ /\ shared' = shared - 1
               /\ cpc' = IF inInit THEN "init_next" ELSE "idle"
               /\ UNCHANGED enumerated
       ELSE /\ enumerated' = [enumerated EXCEPT ![cport] = @ \/ cstatus.conn]
            /\ shared' = shared - 1
            /\ cpc' = IF inInit THEN "init_next" ELSE "idle"
    /\ UNCHANGED <<present, powered, chg, resetting, events, jobs, hubVars,
                   cport, cstatus, inInit, iport>>

(***************************************************************************)
(* Specification.                                                          *)
(***************************************************************************)
HubTask ==
    HubStart \/ HubWait \/ HubReadEvent \/ HubPortStatus \/ HubScanDone
    \/ HubDebounced

CfgTask ==
    CfgTake \/ InitPower \/ InitClear \/ InitScan \/ InitNext
    \/ AttachReset \/ AttachStatus \/ AttachClear \/ AttachDo

Next ==
    \/ HubTask
    \/ CfgTask
    \/ \E p \in Ports : Hotplug(p) \/ ResetDone(p)

Spec == Init /\ [][Next]_vars

\* Both tasks are polled whenever they are ready (each await ends), and a
\* port reset the hub started completes.  Nobody is obliged to plug.
Fairness ==
    /\ WF_vars(HubTask)
    /\ WF_vars(CfgTask)
    /\ \A p \in Ports : WF_vars(ResetDone(p))

FairSpec == Spec /\ Fairness

(***************************************************************************)
(* Properties.                                                             *)
(***************************************************************************)
Status == [conn : BOOLEAN, chg : SUBSET ChangeBits]

\* Where the configuration task is while it runs this hub's futures.
CfgPcs == {"init_power", "init_clear", "init_scan", "init_next",
           "attach_reset", "attach_status", "attach_clear", "attach_settle"}

\* The futures this hub has scheduled and not yet started.
HubJobs == {k \in DOMAIN jobs : jobs[k].hub = Hub}

\* The types of this hub's state; the configuration task's pc and queue
\* are shared with the other hubs.
HubTypeOK ==
    /\ present \in [Ports -> BOOLEAN] /\ powered \in [Ports -> BOOLEAN]
    /\ chg \in [Ports -> SUBSET ChangeBits]
    /\ resetting \in [Ports -> BOOLEAN] /\ enumerated \in [Ports -> BOOLEAN]
    /\ events \in 0..MaxEvents
    /\ shared \in Nat
    /\ \A k \in HubJobs : jobs[k] \in [hub : {Hub}, kind : {"init", "attach"},
                                        port : Ports]
    /\ hpc \in {"start", "wait_init", "idle", "scan", "debounce", "wait_attach"}
    /\ bitmap \subseteq Ports /\ hport \in Ports /\ hstatus \in Status
    /\ cport \in Ports /\ cstatus \in Status
    /\ inInit \in BOOLEAN /\ iport \in Ports

TypeOK ==
    /\ HubTypeOK
    /\ cpc \in CfgPcs \cup {"idle", "panic"}
    /\ HubJobs = DOMAIN jobs

\* When hub.lock.wait() has returned, the future the hub task scheduled
\* (init_hub or _attach_device) has run to its end on the configuration
\* task: the hub task never handles port changes while the configuration
\* task is still resetting or clearing a port of the same hub.
WaitMeansDone ==
    hpc \in {"idle", "scan", "debounce"} => cpc \notin CfgPcs /\ HubJobs = {}

\* Each wait of the hub task on the shared lock returns: every share taken
\* by lock_shared is released by the guard of the future it was taken for.
WaitReturns ==
    hpc \in {"wait_init", "wait_attach"}
        ~> (hpc \notin {"wait_init", "wait_attach"} \/ cpc = "panic")

\* Once the plugging stops, every change bit a port raised is eventually
\* cleared by the hub task or _attach_device, so the status-change endpoint
\* stops reporting the port.
ChangesAcknowledged ==
    <>[](cpc = "panic" \/ \A p \in Ports : chg[p] = {})

\* With both tasks idle and no change pending on a port, a device on that
\* port has been handed to host.attach_device: the driver has not missed a
\* connection.
IdleHubUpToDate ==
    (hpc = "idle" /\ cpc = "idle")
        => \A p \in Ports : PortConnection(p) /\ chg[p] = {} => enumerated[p]
=============================================================================

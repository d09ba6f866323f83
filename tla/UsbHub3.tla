------------------------------ MODULE UsbHub3 ------------------------------
(***************************************************************************)
(* The USB3 hub class driver of                                            *)
(* src/system/kernel/src/bus/usb/drivers/usb_hub.rs (Usb3HubDriver).       *)
(*                                                                         *)
(* The same two tasks and the same AsyncSharedLockTemp hand-off as         *)
(* UsbHub2, with the USB3 port protocol:                                   *)
(*   - init_hub configures the hub in the host (configure_hub3, which may  *)
(*     fail), then for each port reads its status before setting           *)
(*     PORT_POWER, and attaches in place a port that showed                *)
(*     PORT_CONNECTION and PORT_ENABLE;                                    *)
(*   - _attach_device issues a warm reset (BH_PORT_RESET), polls the port  *)
(*     until it shows connection and enable or a deadline of twice         *)
(*     power_on_to_power_good passes, clears the change bits, reads the    *)
(*     status again and attaches on connection and enable.                 *)
(* A USB3 port is enabled by the hardware once its link trains (LinkUp);   *)
(* a warm reset disables it until the reset completes.                     *)
(***************************************************************************)
EXTENDS Naturals, Sequences, FiniteSetsExt

CONSTANTS Hub,        \* this hub, as its scheduled futures name it
          NumPorts,   \* hub_desc.num_ports()
          MaxEvents   \* bound on plug and unplug events

Ports == 1..NumPorts

\* C_PORT_CONNECTION, and the reset changes (C_BH_PORT_RESET, C_PORT_RESET;
\* over-current, link-state and config-error changes are cleared by the
\* same code).
ChangeBits == {"conn", "reset"}

VARIABLES
    present,     \* a device is physically attached to the port
    powered,     \* PORT_POWER is set
    enabled,     \* PORT_ENABLE: the link is trained
    chg,         \* the port's pending change bits
    resetting,   \* a BH_PORT_RESET is in progress
    events,      \* plug and unplug events so far
    enumerated,  \* the device now on the port was given to host.attach_device
    shared,      \* AsyncSharedLockTemp: shares held
    jobs,        \* futures scheduled on the configuration task (all hubs')
    hpc, bitmap, hport, hstatus,                 \* hub task
    cpc,                                         \* configuration task
    cport, cstatus, inInit, iport, expired      \* its locals for this hub

hw == <<present, powered, enabled, chg, resetting, events, enumerated>>
hubVars == <<hpc, bitmap, hport, hstatus>>
cfgVars == <<cpc, cport, cstatus, inInit, iport, expired>>
vars == <<hw, shared, jobs, hubVars, cfgVars>>

PortConnection(p) == present[p] /\ powered[p]

\* get_port_status: status and change bits at this instant.
GetPortStatus(p) ==
    [conn |-> PortConnection(p), enable |-> enabled[p], chg |-> chg[p]]

\* contains(PORT_CONNECTION | PORT_ENABLE)
Attachable(st) == st.conn /\ st.enable

NoStatus == [conn |-> FALSE, enable |-> FALSE, chg |-> {}]

\* The hub's ports come up with whatever power and link state the hardware
\* gives them; a powered port with a device flags the connection.
Init ==
    /\ present \in [Ports -> BOOLEAN]
    /\ powered \in [Ports -> BOOLEAN]
    /\ enabled \in {e \in [Ports -> BOOLEAN] : \A p \in Ports : e[p] => PortConnection(p)}
    /\ chg = [p \in Ports |-> IF PortConnection(p) THEN {"conn"} ELSE {}]
    /\ resetting = [p \in Ports |-> FALSE]
    /\ events = 0
    /\ enumerated = [p \in Ports |-> FALSE]
    /\ shared = 0
    /\ jobs = <<>>
    /\ hpc = "start" /\ bitmap = {} /\ hport = 1 /\ hstatus = NoStatus
    /\ cpc = "idle" /\ cport = 1 /\ cstatus = NoStatus
    /\ inInit = FALSE /\ iport = 1 /\ expired = FALSE

(***************************************************************************)
(* The hardware and the clock.                                             *)
(***************************************************************************)
\* A device is plugged in or pulled out; a powered port flags the change;
\* pulling it out drops the link.
Hotplug(p) ==
    /\ events < MaxEvents
    /\ present' = [present EXCEPT ![p] = ~@]
    /\ enabled' = [enabled EXCEPT ![p] = FALSE]
    /\ chg' = [chg EXCEPT ![p] = IF powered[p] THEN @ \cup {"conn"} ELSE @]
    /\ enumerated' = [enumerated EXCEPT ![p] = FALSE]
    /\ events' = events + 1
    /\ UNCHANGED <<powered, resetting, shared, jobs, hubVars, cfgVars>>

\* The link of a connected port trains and the port becomes enabled.
LinkUp(p) ==
    /\ PortConnection(p) /\ ~enabled[p] /\ ~resetting[p]
    /\ enabled' = [enabled EXCEPT ![p] = TRUE]
    /\ UNCHANGED <<present, powered, chg, resetting, events, enumerated,
                   shared, jobs, hubVars, cfgVars>>

\* A warm reset completes: C_BH_PORT_RESET, the link retrained if a device
\* is there.
ResetDone(p) ==
    /\ resetting[p]
    /\ resetting' = [resetting EXCEPT ![p] = FALSE]
    /\ enabled' = [enabled EXCEPT ![p] = PortConnection(p)]
    /\ chg' = [chg EXCEPT ![p] = @ \cup {"reset"}]
    /\ UNCHANGED <<present, powered, events, enumerated, shared, jobs,
                   hubVars, cfgVars>>

\* The deadline of _attach_device's poll passes.
Deadline ==
    /\ cpc = "attach3_poll" /\ ~expired
    /\ expired' = TRUE
    /\ UNCHANGED <<hw, shared, jobs, hubVars, cpc, cport, cstatus, inInit,
                   iport>>

(***************************************************************************)
(* The hub task, Usb3HubDriver::_usb_hub_task.                             *)
(***************************************************************************)
\* lock_shared, schedule init_hub on the configuration task.
HubStart ==
    /\ hpc = "start"
    /\ shared' = shared + 1
    /\ jobs' = Append(jobs, [hub |-> Hub, kind |-> "init", port |-> 1])
    /\ hpc' = "wait_init"
    /\ UNCHANGED <<hw, bitmap, hport, hstatus, cfgVars>>

\* hub.lock.wait().await returns once no share is held.
HubWait ==
    /\ hpc \in {"wait_init", "wait_attach"}
    /\ shared = 0
    /\ hpc' = IF hpc = "wait_init" THEN "idle" ELSE "scan"
    /\ UNCHANGED <<hw, shared, jobs, bitmap, hport, hstatus, cfgVars>>

\* read_slice completes with the bitmap of the ports with changes.
HubReadEvent ==
    /\ hpc = "idle"
    /\ \E p \in Ports : chg[p] # {}
    /\ bitmap' = {p \in Ports : chg[p] # {}}
    /\ hpc' = "scan"
    /\ UNCHANGED <<hw, shared, jobs, hport, hstatus, cfgVars>>

\* The next port of the bitmap: get_port_status; with C_PORT_CONNECTION
\* sleep power_on_to_power_good, otherwise clear the other change bits the
\* status showed.
HubPortStatus ==
    LET p == Min(bitmap)
        st == GetPortStatus(p)
    IN  /\ hpc = "scan"
        /\ bitmap # {}
        /\ bitmap' = bitmap \ {p}
        /\ hport' = p
        /\ hstatus' = st
        /\ IF "conn" \in st.chg
           THEN /\ hpc' = "debounce"
                /\ UNCHANGED chg
           ELSE /\ chg' = [chg EXCEPT ![p] = @ \ st.chg]
                /\ UNCHANGED hpc
        /\ UNCHANGED <<present, powered, enabled, resetting, events,
                       enumerated, shared, jobs, cfgVars>>

\* Every port of the bitmap handled: read the endpoint again.
HubScanDone ==
    /\ hpc = "scan"
    /\ bitmap = {}
    /\ hpc' = "idle"
    /\ UNCHANGED <<hw, shared, jobs, bitmap, hport, hstatus, cfgVars>>

\* After the sleep: clear C_PORT_CONNECTION, then attach_device if the
\* status read before the sleep showed PORT_CONNECTION.
HubDebounced ==
    /\ hpc = "debounce"
    /\ chg' = [chg EXCEPT ![hport] = @ \ {"conn"}]
    /\ IF hstatus.conn
       THEN /\ shared' = shared + 1
            /\ jobs' = Append(jobs, [hub |-> Hub, kind |-> "attach", port |-> hport])
            /\ hpc' = "wait_attach"
       ELSE /\ hpc' = "scan"
            /\ UNCHANGED <<shared, jobs>>
    /\ UNCHANGED <<present, powered, enabled, resetting, events, enumerated,
                   bitmap, hport, hstatus, cfgVars>>

(***************************************************************************)
(* The configuration task running init_hub and _attach_device.             *)
(***************************************************************************)
\* The next scheduled future starts, if it is this hub's.
CfgTake ==
    /\ cpc = "idle"
    /\ jobs # <<>> /\ Head(jobs).hub = Hub
    /\ jobs' = Tail(jobs)
    /\ cpc' = IF Head(jobs).kind = "init" THEN "init3_configure" ELSE "attach3_reset"
    /\ cport' = Head(jobs).port
    /\ inInit' = FALSE
    /\ iport' = 1
    /\ UNCHANGED <<hw, shared, hubVars, cstatus, expired>>

\* init_hub: configure_hub3 in the host.  On Err it logs and returns,
\* dropping its guard.
InitConfigure ==
    /\ cpc = "init3_configure"
    /\ \/ /\ cpc' = "init3_status"
          /\ UNCHANGED shared
       \/ /\ shared' = shared - 1
          /\ cpc' = "idle"
    /\ UNCHANGED <<hw, jobs, hubVars, cport, cstatus, inInit, iport, expired>>

\* For each port: get_port_status, then set PORT_POWER (a device on a port
\* that was unpowered now flags the connection) and sleep 10 ms.
InitStatus ==
    /\ cpc = "init3_status"
    /\ cstatus' = GetPortStatus(iport)
    /\ cpc' = "init3_power"
    /\ UNCHANGED <<hw, shared, jobs, hubVars, cport, inInit, iport, expired>>

InitPower ==
    /\ cpc = "init3_power"
    /\ powered' = [powered EXCEPT ![iport] = TRUE]
    /\ chg' = [chg EXCEPT ![iport] =
                 IF present[iport] /\ ~powered[iport] THEN @ \cup {"conn"} ELSE @]
    /\ cpc' = "init3_check"
    /\ UNCHANGED <<present, enabled, resetting, events, enumerated, shared,
                   jobs, hubVars, cport, cstatus, inInit, iport, expired>>

\* The end of one turn of the port loop: the next port, or after the last
\* drop(defer), releasing the hub task's share.
LoopNext ==
    IF iport = NumPorts
    THEN /\ shared' = shared - 1
         /\ cpc' = "idle"
         /\ UNCHANGED iport
    ELSE /\ cpc' = "init3_status"
         /\ iport' = iport + 1
         /\ UNCHANGED shared

\* If the status read before powering showed connection and enable,
\* lock_shared and await _attach_device in place; otherwise the next port.
InitCheck ==
    /\ cpc = "init3_check"
    /\ IF Attachable(cstatus)
       THEN /\ shared' = shared + 1
            /\ cpc' = "attach3_reset" /\ cport' = iport /\ inInit' = TRUE
            /\ UNCHANGED iport
       ELSE /\ LoopNext
            /\ UNCHANGED <<cport, inInit>>
    /\ UNCHANGED <<hw, jobs, hubVars, cstatus, expired>>

\* _attach_device returned inside init_hub: the next port.
InitNext ==
    /\ cpc = "init3_next"
    /\ LoopNext
    /\ UNCHANGED <<hw, jobs, hubVars, cport, cstatus, inInit, expired>>

\* _attach_device: set BH_PORT_RESET, start the deadline.
AttachReset ==
    /\ cpc = "attach3_reset"
    /\ resetting' = [resetting EXCEPT ![cport] = TRUE]
    /\ enabled' = [enabled EXCEPT ![cport] = FALSE]
    /\ expired' = FALSE
    /\ cpc' = "attach3_poll"
    /\ UNCHANGED <<present, powered, chg, events, enumerated, shared, jobs,
                   hubVars, cport, cstatus, inInit, iport>>

\* Mutant: the poll loop has no deadline.
AttachPollNoDeadline ==
    /\ cpc = "attach3_poll"
    /\ Attachable(GetPortStatus(cport))
    /\ cpc' = "attach3_clear"
    /\ UNCHANGED <<hw, shared, jobs, hubVars, cport, cstatus, inInit, iport,
                   expired>>

\* The poll loop: get_port_status every 10 ms until the deadline has
\* passed or the port shows connection and enable.  (A turn that goes on
\* polling changes nothing.)
AttachPoll ==
    /\ cpc = "attach3_poll"
    /\ expired \/ Attachable(GetPortStatus(cport))
    /\ cpc' = "attach3_clear"
    /\ UNCHANGED <<hw, shared, jobs, hubVars, cport, cstatus, inInit, iport,
                   expired>>

\* get_port_status, then clear_port_feature for each of C_BH_PORT_RESET,
\* C_PORT_RESET, C_PORT_OVER_CURRENT, C_PORT_LINK_STATE and
\* C_PORT_CONFIG_ERROR it showed; C_PORT_CONNECTION is left set.  Of the
\* modelled bits only the reset change is cleared, and only the reset this
\* task started sets it, so no event between the read and the clear is
\* lost and the transfers are one step.
AttachClear ==
    LET st == GetPortStatus(cport) IN
    /\ cpc = "attach3_clear"
    /\ chg' = [chg EXCEPT ![cport] = @ \ (st.chg \ {"conn"})]
    /\ cpc' = "attach3_status"
    /\ UNCHANGED <<present, powered, enabled, resetting, events, enumerated,
                   shared, jobs, hubVars, cport, cstatus, inInit, iport, expired>>

\* get_port_status once more.
AttachStatus ==
    /\ cpc = "attach3_status"
    /\ cstatus' = GetPortStatus(cport)
    /\ cpc' = "attach3_do"
    /\ UNCHANGED <<hw, shared, jobs, hubVars, cport, inInit, iport, expired>>

\* On connection and enable, host().attach_device(port, SS).unwrap(): a
\* device gone since the read may make the host return Err (a panic) or Ok
\* for nothing.  Then drop(defer).
AttachDo ==
    /\ cpc = "attach3_do"
    /\ IF Attachable(cstatus) /\ ~Attachable(GetPortStatus(cport))
       THEN \/ /\ cpc' = "panic"
               /\ UNCHANGED <<enumerated, shared>>
            \/ /\ shared' = shared - 1
               /\ cpc' = IF inInit THEN "init3_next" ELSE "idle"
               /\ UNCHANGED enumerated
       ELSE /\ enumerated' = [enumerated EXCEPT ![cport] = @ \/ Attachable(cstatus)]
            /\ shared' = shared - 1
            /\ cpc' = IF inInit THEN "init3_next" ELSE "idle"
    /\ UNCHANGED <<present, powered, enabled, chg, resetting, events, jobs,
                   hubVars, cport, cstatus, inInit, iport, expired>>

(***************************************************************************)
(* Specification.                                                          *)
(***************************************************************************)
HubTask ==
    HubStart \/ HubWait \/ HubReadEvent \/ HubPortStatus \/ HubScanDone
    \/ HubDebounced

CfgTask ==
    CfgTake \/ InitConfigure \/ InitStatus \/ InitPower \/ InitCheck
    \/ InitNext \/ AttachReset \/ AttachPoll \/ AttachClear \/ AttachStatus
    \/ AttachDo

Hardware ==
    \/ Deadline
    \/ \E p \in Ports : Hotplug(p) \/ LinkUp(p) \/ ResetDone(p)

Next == HubTask \/ CfgTask \/ Hardware

Spec == Init /\ [][Next]_vars

\* Both tasks are polled when ready, resets complete, links of connected
\* ports train, and time passes the poll's deadline.
Fairness ==
    /\ WF_vars(HubTask)
    /\ WF_vars(CfgTask)
    /\ WF_vars(Deadline)
    /\ \A p \in Ports : WF_vars(ResetDone(p)) /\ WF_vars(LinkUp(p))

FairSpec == Spec /\ Fairness

(***************************************************************************)
(* Properties.                                                             *)
(***************************************************************************)
Status == [conn : BOOLEAN, enable : BOOLEAN, chg : SUBSET ChangeBits]

CfgPcs == {"init3_configure", "init3_status", "init3_power", "init3_check",
           "init3_next", "attach3_reset", "attach3_poll", "attach3_clear",
           "attach3_status", "attach3_do"}

HubJobs == {k \in DOMAIN jobs : jobs[k].hub = Hub}

HubTypeOK ==
    /\ present \in [Ports -> BOOLEAN] /\ powered \in [Ports -> BOOLEAN]
    /\ enabled \in [Ports -> BOOLEAN]
    /\ chg \in [Ports -> SUBSET ChangeBits]
    /\ resetting \in [Ports -> BOOLEAN] /\ enumerated \in [Ports -> BOOLEAN]
    /\ events \in 0..MaxEvents
    /\ shared \in Nat
    /\ \A k \in HubJobs : jobs[k] \in [hub : {Hub}, kind : {"init", "attach"},
                                        port : Ports]
    /\ hpc \in {"start", "wait_init", "idle", "scan", "debounce", "wait_attach"}
    /\ bitmap \subseteq Ports /\ hport \in Ports /\ hstatus \in Status
    /\ cport \in Ports /\ cstatus \in Status
    /\ inInit \in BOOLEAN /\ iport \in Ports /\ expired \in BOOLEAN

\* When hub.lock.wait() has returned, the future it waited for has ended.
WaitMeansDone ==
    hpc \in {"idle", "scan", "debounce"} => cpc \notin CfgPcs /\ HubJobs = {}

\* Each wait of the hub task returns, unless the configuration task panicked.
WaitReturns ==
    hpc \in {"wait_init", "wait_attach"}
        ~> (hpc \notin {"wait_init", "wait_attach"} \/ cpc = "panic")

\* Once the plugging stops, every change bit is eventually cleared.
ChangesAcknowledged ==
    <>[](cpc = "panic" \/ \A p \in Ports : chg[p] = {})

\* With both tasks idle and no change pending, a device on an enabled port
\* has been handed to host.attach_device.
IdleHubUpToDate ==
    (hpc = "idle" /\ cpc = "idle")
        => \A p \in Ports : Attachable(GetPortStatus(p)) /\ chg[p] = {}
                              => enumerated[p]
=============================================================================

------------------------------ MODULE UsbHubs ------------------------------
(***************************************************************************)
(* A USB2 hub and a USB3 hub on one host.  Each has its own hub task,     *)
(* lock and ports; both schedule their init_hub and _attach_device futures *)
(* with UsbManager::schedule_configuration on the one configuration task, *)
(* which runs them in order.  The queue (jobs) and the task's pc (cpc)    *)
(* are shared; everything else is the hub's own.                          *)
(***************************************************************************)
EXTENDS Naturals, Sequences

CONSTANTS NumPorts2, MaxEvents2, NumPorts3, MaxEvents3

VARIABLES
    jobs, cpc,
    present2, powered2, chg2, resetting2, events2, enumerated2, shared2,
    hpc2, bitmap2, hport2, hstatus2, cport2, cstatus2, inInit2, iport2,
    present3, powered3, enabled3, chg3, resetting3, events3, enumerated3,
    shared3, hpc3, bitmap3, hport3, hstatus3, cport3, cstatus3, inInit3,
    iport3, expired3

own2 == <<present2, powered2, chg2, resetting2, events2, enumerated2, shared2,
          hpc2, bitmap2, hport2, hstatus2, cport2, cstatus2, inInit2, iport2>>
own3 == <<present3, powered3, enabled3, chg3, resetting3, events3,
          enumerated3, shared3, hpc3, bitmap3, hport3, hstatus3, cport3,
          cstatus3, inInit3, iport3, expired3>>
vars == <<jobs, cpc, own2, own3>>

H2 == INSTANCE UsbHub2
        WITH Hub <- "hub2", NumPorts <- NumPorts2, MaxEvents <- MaxEvents2,
             present <- present2, powered <- powered2, chg <- chg2,
             resetting <- resetting2, events <- events2,
             enumerated <- enumerated2, shared <- shared2, hpc <- hpc2,
             bitmap <- bitmap2, hport <- hport2, hstatus <- hstatus2,
             cport <- cport2, cstatus <- cstatus2, inInit <- inInit2,
             iport <- iport2

H3 == INSTANCE UsbHub3
        WITH Hub <- "hub3", NumPorts <- NumPorts3, MaxEvents <- MaxEvents3,
             present <- present3, powered <- powered3, enabled <- enabled3,
             chg <- chg3, resetting <- resetting3, events <- events3,
             enumerated <- enumerated3, shared <- shared3, hpc <- hpc3,
             bitmap <- bitmap3, hport <- hport3, hstatus <- hstatus3,
             cport <- cport3, cstatus <- cstatus3, inInit <- inInit3,
             iport <- iport3, expired <- expired3

Init == H2!Init /\ H3!Init

\* A step of one hub's tasks or ports leaves the other hub's state alone.
Step2 == H2!Next /\ UNCHANGED own3
Step3 == H3!Next /\ UNCHANGED own2

Next == Step2 \/ Step3

Spec == Init /\ [][Next]_vars

\* Each hub task is polled when ready; the one configuration task is
\* polled when ready, whichever hub its future belongs to; resets complete,
\* links train and deadlines pass.
Fairness ==
    /\ WF_vars(H2!HubTask /\ UNCHANGED own3)
    /\ WF_vars(H3!HubTask /\ UNCHANGED own2)
    /\ WF_vars((H2!CfgTask /\ UNCHANGED own3) \/ (H3!CfgTask /\ UNCHANGED own2))
    /\ \A p \in 1..NumPorts2 : WF_vars(H2!ResetDone(p) /\ UNCHANGED own3)
    /\ \A p \in 1..NumPorts3 :
          /\ WF_vars(H3!ResetDone(p) /\ UNCHANGED own2)
          /\ WF_vars(H3!LinkUp(p) /\ UNCHANGED own2)
    /\ WF_vars(H3!Deadline /\ UNCHANGED own2)

FairSpec == Spec /\ Fairness

(***************************************************************************)
(* Properties: those of each hub, on the shared configuration task.        *)
(***************************************************************************)
TypeOK ==
    /\ H2!HubTypeOK /\ H3!HubTypeOK
    /\ cpc \in H2!CfgPcs \cup H3!CfgPcs \cup {"idle", "panic"}
    /\ \A k \in DOMAIN jobs : jobs[k].hub \in {"hub2", "hub3"}

\* Neither hub task resumes from its wait while the configuration task
\* still runs, or has queued, a future of its own hub; it may while the
\* task serves the other hub.
WaitMeansDone == H2!WaitMeansDone /\ H3!WaitMeansDone

\* Every wait of either hub task returns, although the other hub's futures
\* run on the same task in between, unless that task panicked.
WaitReturns == H2!WaitReturns /\ H3!WaitReturns

\* Once the plugging stops, every change bit of either hub is cleared.
ChangesAcknowledged == H2!ChangesAcknowledged /\ H3!ChangesAcknowledged
=============================================================================
